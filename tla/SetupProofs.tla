---------------------------- MODULE SetupProofs ----------------------------
(***************************************************************************)
(* Machine-checked theorems about Setup, for any port ranges, card names,  *)
(* numbers of binaries, edits and faults.                                  *)
(***************************************************************************)
EXTENDS Setup, TLAPS

(***************************************************************************)
(* The run.                                                                *)
(***************************************************************************)
\* Where each step is in Order.
Place ==
    [modprobe |-> 1, detect |-> 2, apt |-> 3, xorg |-> 4, lightdm |-> 5, graphical |-> 6,
     lightdmOn |-> 7, modules |-> 8, udev |-> 9, udevadm |-> 10, usermod |-> 11, binary |-> 12,
     setcap |-> 13, setcapExe |-> 14, insert |-> 15, save |-> 16, config |-> 17, noblank |-> 18,
     xfconf |-> 19, chown |-> 20, unit |-> 21, vmdeskOn |-> 22, restart |-> 23]
Steps == DOMAIN Place

\* The step is behind the run that is going on or has completed.
Finished == run.status \in {"complete", "booted"}
Past(s) == Finished \/ (run.status = "running" /\ Place[s] < run.step)

\* What each step leaves behind for the rest of the run, and after it.
Provided(s) ==
    /\ s = "detect" => run.card \in {"byPath"} \cup Cards
    /\ s = "apt" => disk.pkgs
    /\ s \in SystemFiles => disk.file[s] = Intended(s)
    /\ s = "noblank" => "desktop" \in run.warnings \/ disk.file["noblank"] = "whole"
    /\ s = "xfconf" => "desktop" \in run.warnings \/ disk.file["xfconf"] # "absent"
    /\ s = "graphical" => disk.graphical
    /\ s = "lightdmOn" => disk.lightdmOn
    /\ s = "vmdeskOn" => disk.vmdeskOn
    /\ s = "usermod" => disk.groups
    /\ s = "binary" => disk.bin # 0 /\ (run.inPlace \/ disk.bin = disk.exe)
    /\ s = "setcap" => disk.binCap
    /\ s = "setcapExe" => run.inPlace \/ disk.exeCap \/ "exeCap" \in run.warnings
    /\ s = "insert" => run.status = "booted" \/ run.config.ports \in live.rules
    /\ s = "save" => run.config.ports \in disk.rules
    /\ s = "config" => disk.config # Absent
    /\ s = "restart" => live.server = [bin |-> disk.bin, ports |-> run.config.ports]

StepsLast == \A s \in Steps : Past(s) => Provided(s)

\* What a run relies on from its start.
RunStands ==
    /\ run.status = "running" \/ Finished =>
          Loads(disk.config) /\ Loaded(disk.config).ports = run.config.ports
    /\ run.status = "running" =>
          (run.inPlace => disk.bin # 0) /\ (run.apt \/ disk.pkgs)

\* Only the X configuration has a content that depends on the run.
FileValues == \A f \in DOMAIN disk.file \ {"xorg"} : disk.file[f] \in {"absent", "torn", "whole"}

\* A service that is enabled can start, and only an enabled one runs.
Serving ==
    /\ disk.vmdeskOn => /\ disk.bin # 0 /\ disk.config \notin {Absent, Unparsable}
                        /\ disk.file["unit"] \in {"torn", "whole"}
    /\ live.server # Down => disk.vmdeskOn

\* What a boot after a completed run has brought up.
UpAfterBoot ==
    run.status = "booted" =>
        /\ live.vkms /\ live.link /\ live.uinput /\ live.uinputMode /\ live.groups
        /\ run.config.ports \in live.rules
        /\ run.card = "byPath" => live.display

(***************************************************************************)
(* Types.                                                                  *)
(***************************************************************************)
Files == SystemFiles \cup UserFiles
Contents == {"absent", "torn", "whole", "byPath"} \cup Cards
DiskType ==
    [file : [Files -> Contents], config : Configs \cup {Absent, Unparsable},
     bin : 0 .. MaxVersion, binCap : BOOLEAN, tmp : BOOLEAN,
     exe : 1 .. MaxVersion, exeCap : BOOLEAN,
     pkgs : BOOLEAN, groups : BOOLEAN, rules : SUBSET Ports,
     graphical : BOOLEAN, lightdmOn : BOOLEAN, vmdeskOn : BOOLEAN]
Running == [bin : 1 .. MaxVersion, ports : Ports]
LiveType ==
    [vkms : BOOLEAN, uinput : BOOLEAN, uinputMode : BOOLEAN, groups : BOOLEAN,
     card : Cards, link : BOOLEAN, rules : SUBSET Ports, display : BOOLEAN,
     server : Running \cup {Down}]
RunType ==
    [status : {"never", "running", "failed", "complete", "booted", "outdated"},
     step : 1 .. 23, card : {"none", "byPath"} \cup Cards,
     config : Configs, apt : BOOLEAN, inPlace : BOOLEAN, warnings : SUBSET Warnings]
Typed ==
    /\ disk \in DiskType /\ live \in LiveType /\ run \in RunType
    /\ edits \in 0 .. MaxEdits /\ faults \in 0 .. MaxFaults

Inv == Typed /\ StepsLast /\ RunStands /\ FileValues /\ Serving /\ UpAfterBoot

LEMMA Placed ==
    /\ Len(Order) = 23 /\ DOMAIN Order = 1 .. 23
    /\ \A i \in 1 .. 23 : Order[i] \in Steps /\ Place[Order[i]] = i
    /\ \A s \in Steps : Place[s] \in 1 .. 23 /\ Order[Place[s]] = s
<1>1. Len(Order) = 23 /\ DOMAIN Order = 1 .. 23
  BY DEF Order
<1>2. \A i \in 1 .. 23 : Order[i] \in Steps /\ Place[Order[i]] = i
  BY DEF Order, Place, Steps
<1>3. \A s \in Steps : Place[s] \in 1 .. 23 /\ Order[Place[s]] = s
  BY DEF Order, Place, Steps
<1> QED
  BY <1>1, <1>2, <1>3

LEMMA TypedIsTypeOK == Typed => TypeOK
  BY Placed DEF Typed, TypeOK, DiskType, LiveType, RunType, Running, Files, Contents

\* A step's name says where the run is.
LEMMA AtStep ==
    ASSUME Typed, NEW s \in Steps, Order[run.step] = s
    PROVE  run.step = Place[s]
  BY Placed DEF Typed, RunType

LEMMA UnitPlace == (CHOOSE i \in DOMAIN Order : Order[i] = "unit") = 21
<1>1. "unit" \in Steps /\ Place["unit"] = 21
  BY DEF Place, Steps
<1>2. Order[21] = "unit" /\ 21 \in DOMAIN Order
  BY <1>1, Placed
<1>3. \A i \in DOMAIN Order : Order[i] = "unit" => i = 21
  BY <1>1, Placed
<1> QED
  BY <1>2, <1>3

\* A run that goes on has one more step behind it, or is complete.
LEMMA Advanced ==
    ASSUME Typed, run.status = "running", Advance
    PROVE  /\ run' \in RunType /\ run'.status \in {"running", "complete"}
           /\ run'.card = run.card /\ run'.config = run.config /\ run'.apt = run.apt
           /\ run'.inPlace = run.inPlace /\ run'.warnings = run.warnings
           /\ \A s \in Steps : Past(s)' => Past(s) \/ Order[run.step] = s
<1>1. run \in RunType /\ run.step \in 1 .. 23 /\ Len(Order) = 23
  BY Placed DEF Typed, RunType
<1>2. CASE run.step = 23
  <2>1. run' = [run EXCEPT !.status = "complete"]
    BY <1>1, <1>2 DEF Advance
  <2>2. \A s \in Steps : Place[s] < 23 \/ s = Order[23]
    BY Placed
  <2>3. \A s \in Steps : Past(s) \/ Order[run.step] = s
    BY <1>2, <2>2 DEF Past
  <2> QED
    BY <1>1, <2>1, <2>3 DEF RunType
<1>3. CASE run.step # 23
  <2>1. run' = [run EXCEPT !.step = run.step + 1]
    BY <1>1, <1>3 DEF Advance
  <2>2. run' \in RunType /\ run'.status = "running" /\ run'.step = run.step + 1
    BY <1>1, <1>3, <2>1 DEF RunType
  <2>3. \A s \in Steps : Place[s] < run.step + 1 => Place[s] < run.step \/ s = Order[run.step]
    BY <1>1, Placed
  <2>4. \A s \in Steps : Past(s)' => Past(s) \/ Order[run.step] = s
    BY <2>2, <2>3 DEF Past, Finished
  <2> QED
    BY <1>1, <2>1, <2>2, <2>4 DEF RunType
<1> QED
  BY <1>2, <1>3

(***************************************************************************)
(* The initial state, and what every part of the invariant rests on.       *)
(***************************************************************************)
LEMMA DefaultTyped == Default \in Configs /\ Default # Absent /\ Default # Unparsable
  BY PortsAssumption, StatesAssumption DEF Default, Configs

LEMMA NoRunTyped ==
    ASSUME NEW status \in {"never", "failed", "outdated"}
    PROVE  NoRun(status) \in RunType /\ NoRun(status).status = status
  BY DefaultTyped DEF NoRun, RunType

LEMMA ConfigsLoad == \A c \in Configs : c # Absent /\ c # Unparsable
  BY StatesAssumption DEF Configs

LEMMA LoadedTyped ==
    ASSUME NEW c \in Configs \cup {Absent, Unparsable}, Loads(c)
    PROVE  Loaded(c) \in Configs
  BY DefaultTyped DEF Loads, Loaded

LEMMA ServerIs ==
    ASSUME Typed
    PROVE  /\ Server \in Running \cup {Down}
           /\ disk.bin # 0 /\ Loads(disk.config) =>
                 Server # Down /\ Server = [bin |-> disk.bin, ports |-> Loaded(disk.config).ports]
<1>1. CASE disk.bin # 0 /\ Loads(disk.config)
  <2>1. disk.bin \in 1 .. MaxVersion /\ Loaded(disk.config).ports \in Ports
    <3>1. disk.bin \in 0 .. MaxVersion /\ disk.config \in Configs \cup {Absent, Unparsable}
      BY DEF Typed, DiskType
    <3>2. Loaded(disk.config) \in Configs
      BY <1>1, <3>1, LoadedTyped
    <3> QED
      BY <1>1, <3>1, <3>2, BoundsAssumption DEF Configs
  <2>2. Server = [bin |-> disk.bin, ports |-> Loaded(disk.config).ports]
    BY <1>1 DEF Server
  <2>3. Server \in Running
    BY <2>1, <2>2 DEF Running
  <2> QED
    BY <2>2, <2>3, StatesAssumption DEF Running
<1>2. CASE ~(disk.bin # 0 /\ Loads(disk.config))
  BY <1>2 DEF Server
<1> QED
  BY <1>1, <1>2

LEMMA InitInv == Init => Inv
<1> SUFFICES ASSUME Init PROVE Inv
  OBVIOUS
<1>1. disk \in DiskType
  <2>1. [f \in SystemFiles \cup UserFiles |-> "absent"] \in [Files -> Contents]
    BY DEF Files, Contents
  <2>2. 1 \in 1 .. MaxVersion /\ 0 \in 0 .. MaxVersion
    BY BoundsAssumption
  <2> QED
    BY <2>1, <2>2 DEF Init, DiskType
<1>2. live \in LiveType
  BY DEF Init, LiveType
<1>3. run \in RunType /\ run.status = "never"
  BY NoRunTyped DEF Init
<1>4. edits \in 0 .. MaxEdits /\ faults \in 0 .. MaxFaults
  BY BoundsAssumption DEF Init
<1>5. ~Finished /\ run.status = "never"
  BY <1>3 DEF Finished
<1>6. FileValues
  BY DEF Init, FileValues
<1>7. Serving
  BY DEF Init, Serving
<1> QED
  BY <1>1, <1>2, <1>3, <1>4, <1>5, <1>6, <1>7
  DEF Inv, Typed, StepsLast, Past, RunStands, UpAfterBoot

\* The configuration of X is written by a run that knows the card.
LEMMA CardKnown ==
    ASSUME Typed, StepsLast, At("xorg")
    PROVE  run.card \in {"byPath"} \cup Cards
<1>1. "xorg" \in Steps /\ "detect" \in Steps /\ Place["detect"] = 2 /\ Place["xorg"] = 4
  BY DEF Steps, Place
<1>2. run.step = 4
  BY <1>1, AtStep DEF At
<1>3. Past("detect")
  BY <1>1, <1>2 DEF Past, At
<1> QED
  BY <1>1, <1>3 DEF StepsLast, Provided

LEMMA IntendedTyped ==
    ASSUME Typed, StepsLast, NEW f \in Files, At(f)
    PROVE  Intended(f) \in Contents /\ (f # "xorg" => Intended(f) = "whole")
  BY CardKnown DEF Intended, Contents

\* A truncated configuration that loads has ports of its own or the defaults'.
LEMMA TruncatedTyped ==
    ASSUME Typed
    PROVE  TruncatedConfigs \subseteq (Configs \cup {Unparsable})
<1>1. run.config \in Configs
  BY DEF Typed, RunType
<1>2. WrittenConfig \in Configs
  BY <1>1 DEF WrittenConfig, Configs
<1>3. [ports : Ports, card : {Default.card}] \subseteq Configs
  BY DEF Default, Configs
<1> QED
  BY <1>2, <1>3 DEF TruncatedConfigs

\* What an unfinished step leaves.
LEMMA HalfDoneDisk ==
    ASSUME Typed, NEW d \in HalfDone
    PROVE  /\ d \in DiskType
           /\ \A f \in Files : d.file[f] = disk.file[f]
                                 \/ (d.file[f] = "torn" /\ f = Order[run.step] /\ ~KeepsFile(f))
           /\ d.config = disk.config
                 \/ (/\ Order[run.step] = "config" /\ disk.config = Absent
                     /\ d.config \in TruncatedConfigs)
           /\ d.bin = disk.bin /\ d.binCap = disk.binCap /\ d.exe = disk.exe
           /\ d.exeCap = disk.exeCap /\ d.pkgs = disk.pkgs /\ d.groups = disk.groups
           /\ d.rules = disk.rules /\ d.graphical = disk.graphical
           /\ d.lightdmOn = disk.lightdmOn /\ d.vmdeskOn = disk.vmdeskOn
<1>0. disk \in DiskType /\ DOMAIN disk.file = Files
  BY DEF Typed, DiskType
<1>1. CASE d = disk
  BY <1>0, <1>1
<1>2. CASE Order[run.step] \in Files /\ ~KeepsFile(Order[run.step])
           /\ d = [disk EXCEPT !.file[Order[run.step]] = "torn"]
  <2>1. [disk.file EXCEPT ![Order[run.step]] = "torn"] \in [Files -> Contents]
    BY <1>0, <1>2 DEF DiskType, Contents
  <2>2. d = [disk EXCEPT !.file = [disk.file EXCEPT ![Order[run.step]] = "torn"]]
    BY <1>2
  <2>3. d \in DiskType /\ d.file = [disk.file EXCEPT ![Order[run.step]] = "torn"]
    BY <1>0, <2>1, <2>2 DEF DiskType
  <2> QED
    BY <1>0, <1>2, <2>2, <2>3 DEF DiskType
<1>3. CASE Order[run.step] = "config" /\ disk.config = Absent
           /\ \E c \in TruncatedConfigs : d = [disk EXCEPT !.config = c]
  <2>1. PICK c \in TruncatedConfigs : d = [disk EXCEPT !.config = c]
    BY <1>3
  <2>2. c \in Configs \cup {Absent, Unparsable}
    BY TruncatedTyped
  <2> QED
    BY <1>0, <1>3, <2>1, <2>2 DEF DiskType
<1>4. CASE d = [disk EXCEPT !.tmp = TRUE]
  BY <1>0, <1>4 DEF DiskType
<1>5. \/ d = disk
      \/ (Order[run.step] \in DOMAIN disk.file /\ ~KeepsFile(Order[run.step])
            /\ d = [disk EXCEPT !.file[Order[run.step]] = "torn"])
      \/ (Order[run.step] = "config" /\ disk.config = Absent
            /\ \E c \in TruncatedConfigs : d = [disk EXCEPT !.config = c])
      \/ d = [disk EXCEPT !.tmp = TRUE]
  BY DEF HalfDone
<1> QED
  BY <1>0, <1>1, <1>2, <1>3, <1>4, <1>5

(***************************************************************************)
(* The steps of a run.  A step that is done keeps what the steps before it *)
(* have provided and provides its own.                                     *)
(***************************************************************************)
LEMMA Continued ==
    ASSUME Inv, run.status = "running", Done,
           disk' \in DiskType, live' \in LiveType,
           \A s \in Steps : (Past(s) /\ Provided(s)) \/ s = Order[run.step] => Provided(s)',
           Loads(disk'.config), Loaded(disk'.config).ports = run.config.ports,
           disk'.bin = disk.bin \/ disk'.bin # 0, disk.pkgs => disk'.pkgs,
           FileValues', Serving'
    PROVE  Inv'
<1>1. /\ run' \in RunType /\ run'.status \in {"running", "complete"}
      /\ run'.card = run.card /\ run'.config = run.config /\ run'.apt = run.apt
      /\ run'.inPlace = run.inPlace /\ run'.warnings = run.warnings
      /\ \A s \in Steps : Past(s)' => Past(s) \/ Order[run.step] = s
  BY Advanced DEF Inv, Done
<1>2. Typed'
  BY <1>1 DEF Inv, Typed, Done
<1>3. StepsLast'
  BY <1>1 DEF Inv, StepsLast, Steps
<1>4. RunStands'
  BY <1>1 DEF Inv, RunStands, Finished
<1>5. UpAfterBoot'
  BY <1>1 DEF UpAfterBoot
<1> QED
  BY <1>2, <1>3, <1>4, <1>5 DEF Inv

\* A step of the run that leaves disk and configuration to stand.
LEMMA RunLoads ==
    ASSUME Inv, run.status = "running"
    PROVE  /\ Loads(disk.config) /\ Loaded(disk.config).ports = run.config.ports
           /\ run.config \in Configs /\ disk \in DiskType /\ live \in LiveType
           /\ DOMAIN disk.file = Files
  BY DEF Inv, RunStands, Typed, RunType, DiskType

\* A done step changes nothing of the run that a step has provided.
LEMMA DoneKeeps ==
    ASSUME Typed, run.status = "running", Done
    PROVE  /\ run'.card = run.card /\ run'.config = run.config
           /\ run'.inPlace = run.inPlace /\ run'.warnings = run.warnings
           /\ run'.status # "booted" /\ \A f \in Files : Intended(f)' = Intended(f)
<1>1. /\ run'.card = run.card /\ run'.config = run.config
      /\ run'.inPlace = run.inPlace /\ run'.warnings = run.warnings
      /\ run'.status # "booted"
  BY Advanced DEF Done
<1> QED
  BY <1>1 DEF Intended

LEMMA ModprobeInv == Inv /\ Modprobe => Inv'
<1> SUFFICES ASSUME Inv, Modprobe PROVE Inv'
  OBVIOUS
<1>1. run.status = "running" /\ Order[run.step] = "modprobe" /\ Done /\ disk' = disk
  BY DEF Modprobe, At
<1>2. live' = [live EXCEPT !.vkms = TRUE, !.uinput = TRUE]
  BY DEF Modprobe
<1>3. live' \in LiveType /\ live'.rules = live.rules /\ live'.server = live.server
  BY <1>2 DEF Inv, Typed, LiveType
<1>4. \A s \in Steps : Provided(s) \/ s = "modprobe" => Provided(s)'
  BY <1>1, <1>3, DoneKeeps DEF Inv, Provided, Files, SystemFiles
<1>5. FileValues' /\ Serving'
  BY <1>1, <1>3 DEF Inv, FileValues, Serving
<1> QED
  BY <1>1, <1>3, <1>4, <1>5, RunLoads, Continued

LEMMA DetectInv == Inv /\ DetectCard => Inv'
<1> SUFFICES ASSUME Inv, DetectCard PROVE Inv'
  OBVIOUS
<1> DEFINE c == IF live.link THEN "byPath" ELSE live.card
<1>1. /\ run.status = "running" /\ Order[run.step] = "detect" /\ disk' = disk /\ live' = live
      /\ edits' = edits /\ faults' = faults
  BY DEF DetectCard, At
<1>2. run' = [run EXCEPT !.step = run.step + 1, !.card = c]
  BY DEF DetectCard
<1>3. "detect" \in Steps /\ Place["detect"] = 2 /\ run.step = 2
  BY <1>1, AtStep DEF Steps, Place, Inv
<1>4. run' \in RunType /\ run'.status = "running" /\ run'.step = 3 /\ run'.card = c
      /\ run'.config = run.config /\ run'.apt = run.apt
      /\ run'.inPlace = run.inPlace /\ run'.warnings = run.warnings
  <2>1. c \in {"none", "byPath"} \cup Cards
    BY DEF Inv, Typed, LiveType
  <2>2. run \in RunType
    BY DEF Inv, Typed
  <2> HIDE DEF c
  <2>3. run' = [run EXCEPT !.step = 3, !.card = c]
    BY <1>2, <1>3
  <2> DEFINE r == [run EXCEPT !.step = 3]
  <2>4. r \in RunType /\ r.step = 3
    BY <2>2 DEF RunType
  <2>5. run' = [r EXCEPT !.card = c]
    BY <2>3
  <2> HIDE DEF r
  <2>6. run' \in RunType /\ run'.step = 3 /\ run'.card = c
    BY <2>1, <2>4, <2>5 DEF RunType
  <2> QED
    BY <1>1, <2>2, <2>3, <2>6 DEF RunType
<1>5. c \in {"byPath"} \cup Cards
  BY DEF Inv, Typed, LiveType
<1> HIDE DEF c
<1>6. \A s \in Steps : Past(s)' => s \in {"modprobe", "detect"}
  <2>1. \A s \in Steps : Place[s] < 3 => s \in {"modprobe", "detect"}
    BY DEF Steps, Place
  <2> QED
    BY <1>4, <2>1 DEF Past, Finished
<1>7. \A s \in {"modprobe", "detect"} : Provided(s)'
  BY <1>4, <1>5 DEF Provided, SystemFiles
<1>8. StepsLast'
  BY <1>6, <1>7 DEF StepsLast, Steps
<1>9. Typed' /\ RunStands'
  BY <1>1, <1>4 DEF Inv, Typed, RunStands, Finished
<1>10. FileValues' /\ Serving' /\ UpAfterBoot'
  BY <1>1, <1>4 DEF Inv, FileValues, Serving, UpAfterBoot
<1> QED
  BY <1>8, <1>9, <1>10 DEF Inv

LEMMA AptInv == Inv /\ InstallPackages => Inv'
<1> SUFFICES ASSUME Inv, InstallPackages PROVE Inv'
  OBVIOUS
<1>1. run.status = "running" /\ Order[run.step] = "apt" /\ Done /\ live' = live
  BY DEF InstallPackages, At
<1>2. disk' = IF run.apt /\ ~disk.pkgs THEN [disk EXCEPT !.pkgs = TRUE, !.rules = live.rules]
              ELSE disk
  BY DEF InstallPackages
<1>3. disk \in DiskType /\ live.rules \in SUBSET Ports
  BY DEF Inv, Typed, LiveType
<1>4. disk' \in DiskType /\ disk'.pkgs
  BY <1>1, <1>2, <1>3 DEF Inv, RunStands, DiskType
<1>5. /\ disk'.file = disk.file /\ disk'.config = disk.config /\ disk'.bin = disk.bin
      /\ disk'.binCap = disk.binCap /\ disk'.exe = disk.exe /\ disk'.exeCap = disk.exeCap
      /\ disk'.groups = disk.groups /\ disk'.graphical = disk.graphical
      /\ disk'.lightdmOn = disk.lightdmOn /\ disk'.vmdeskOn = disk.vmdeskOn
  BY <1>2, <1>3 DEF DiskType
<1>6. ~Past("save") /\ "save" \in Steps
  <2>1. "apt" \in Steps /\ Place["apt"] = 3 /\ Place["save"] = 16 /\ run.step = 3
    BY <1>1, AtStep DEF Inv, Steps, Place
  <2> QED
    BY <1>1, <2>1 DEF Past, Finished, Steps, Place
<1>7. \A s \in Steps : (Past(s) /\ Provided(s)) \/ s = "apt" => Provided(s)'
  BY <1>1, <1>4, <1>5, <1>6, DoneKeeps DEF Inv, Provided, Files, SystemFiles
<1>8. FileValues' /\ Serving'
  BY <1>1, <1>5 DEF Inv, FileValues, Serving
<1> QED
  BY <1>1, <1>4, <1>5, <1>7, <1>8, RunLoads, Continued DEF Inv, Typed

LEMMA WriteFileInv == Inv /\ WriteFile => Inv'
<1> SUFFICES ASSUME Inv, WriteFile PROVE Inv'
  OBVIOUS
<1>1. PICK f \in Files :
          /\ At(f)
          /\ disk' = IF KeepsFile(f) THEN disk ELSE [disk EXCEPT !.file[f] = Intended(f)]
  BY DEF WriteFile, Files
<1>2. run.status = "running" /\ Order[run.step] = f /\ Done /\ live' = live
  BY <1>1 DEF WriteFile, At
<1>3. disk \in DiskType /\ disk.file \in [Files -> Contents]
  BY DEF Inv, Typed, DiskType
<1>4. Intended(f) \in Contents /\ (f # "xorg" => Intended(f) = "whole")
  BY <1>1, IntendedTyped DEF Inv
<1>5. CASE KeepsFile(f)
  <2>1. disk' = disk /\ f = "xfconf"
    BY <1>1, <1>5 DEF KeepsFile
  <2>2. \A s \in Steps : Provided(s) \/ s = "xfconf" => Provided(s)'
    BY <1>2, <1>5, <2>1, DoneKeeps DEF Inv, Provided, KeepsFile, Files, SystemFiles
  <2>3. FileValues' /\ Serving'
    BY <1>2, <2>1 DEF Inv, FileValues, Serving
  <2> QED
    BY <1>2, <2>1, <2>2, <2>3, RunLoads, Continued
<1>6. CASE ~KeepsFile(f)
  <2>1. disk' = [disk EXCEPT !.file = [disk.file EXCEPT ![f] = Intended(f)]]
    BY <1>1, <1>6
  <2>2. [disk.file EXCEPT ![f] = Intended(f)] \in [Files -> Contents]
    BY <1>3, <1>4
  <2>3. disk' \in DiskType /\ disk'.file = [disk.file EXCEPT ![f] = Intended(f)]
    BY <1>3, <2>1, <2>2 DEF DiskType
  <2>4. /\ disk'.config = disk.config /\ disk'.bin = disk.bin /\ disk'.pkgs = disk.pkgs
        /\ disk'.binCap = disk.binCap /\ disk'.exe = disk.exe /\ disk'.exeCap = disk.exeCap
        /\ disk'.groups = disk.groups /\ disk'.graphical = disk.graphical
        /\ disk'.lightdmOn = disk.lightdmOn /\ disk'.vmdeskOn = disk.vmdeskOn
        /\ disk'.rules = disk.rules
    BY <1>3, <2>1 DEF DiskType
  <2>5. disk'.file[f] = Intended(f) /\ \A g \in Files \ {f} : disk'.file[g] = disk.file[g]
    BY <1>3, <2>3
  <2>6. \A g \in Files : Intended(g)' = Intended(g)
    BY <1>2, DoneKeeps DEF Inv
  <2>7. /\ run'.card = run.card /\ run'.config = run.config
        /\ run'.inPlace = run.inPlace /\ run'.warnings = run.warnings
        /\ run.status # "booted"
    BY <1>2, DoneKeeps DEF Inv
  <2>8. \A s \in Steps : Provided(s) \/ s = f => Provided(s)'
    <3> SUFFICES ASSUME NEW s \in Steps, Provided(s) \/ s = f PROVE Provided(s)'
      OBVIOUS
    <3>1. s \in SystemFiles => disk'.file[s] = Intended(s)'
      BY <2>5, <2>6 DEF Provided, Files
    <3>2. s = "noblank" => "desktop" \in run'.warnings \/ disk'.file["noblank"] = "whole"
      BY <1>4, <2>5, <2>7 DEF Provided, Files, UserFiles
    <3>3. s = "xfconf" => "desktop" \in run'.warnings \/ disk'.file["xfconf"] # "absent"
      BY <1>4, <2>5, <2>7 DEF Provided, Files, UserFiles
    <3> QED
      BY <1>2, <2>4, <2>7, <3>1, <3>2, <3>3 DEF Provided, Files, SystemFiles, UserFiles
  <2>9. FileValues'
    BY <1>3, <1>4, <2>3, <2>5 DEF Inv, FileValues
  <2>10. Serving'
    BY <1>2, <1>4, <2>4, <2>5 DEF Inv, Serving, Files, SystemFiles
  <2> QED
    BY <1>2, <2>3, <2>4, <2>8, <2>9, <2>10, RunLoads, Continued
<1> QED
  BY <1>5, <1>6

\* A flag of the system that is set, and nothing else on the disk.
LEMMA SetFlagInv == Inv /\ SetFlag => Inv'
<1> SUFFICES ASSUME Inv, SetFlag PROVE Inv'
  OBVIOUS
<1>1. PICK f \in {"graphical", "lightdmOn", "vmdeskOn"} :
          At(f) /\ disk' = [disk EXCEPT ![f] = TRUE]
  BY DEF SetFlag
<1>2. run.status = "running" /\ Order[run.step] = f /\ Done /\ live' = live
  BY <1>1 DEF SetFlag, At
<1>3. disk \in DiskType
  BY DEF Inv, Typed
<1>4. disk' \in DiskType /\ disk'[f] = TRUE
  <2>1. CASE f = "graphical"
    BY <1>1, <1>3, <2>1 DEF DiskType
  <2>2. CASE f = "lightdmOn"
    BY <1>1, <1>3, <2>2 DEF DiskType
  <2>3. CASE f = "vmdeskOn"
    BY <1>1, <1>3, <2>3 DEF DiskType
  <2> QED
    BY <2>1, <2>2, <2>3
<1>5. /\ disk'.config = disk.config /\ disk'.bin = disk.bin /\ disk'.pkgs = disk.pkgs
      /\ disk'.binCap = disk.binCap /\ disk'.exe = disk.exe /\ disk'.exeCap = disk.exeCap
      /\ disk'.groups = disk.groups /\ disk'.file = disk.file /\ disk'.rules = disk.rules
      /\ disk.graphical => disk'.graphical
      /\ disk.lightdmOn => disk'.lightdmOn
      /\ disk'.vmdeskOn => disk.vmdeskOn \/ f = "vmdeskOn"
      /\ disk.vmdeskOn => disk'.vmdeskOn
  BY <1>1, <1>3 DEF DiskType
<1>6. /\ f = "graphical" => disk'.graphical
      /\ f = "lightdmOn" => disk'.lightdmOn
      /\ f = "vmdeskOn" => disk'.vmdeskOn
  BY <1>4
<1>7. \A s \in Steps : Provided(s) \/ s = f => Provided(s)'
  <2> SUFFICES ASSUME NEW s \in Steps, Provided(s) \/ s = f PROVE Provided(s)'
    OBVIOUS
  <2>1. s = f => s \in {"graphical", "lightdmOn", "vmdeskOn"}
    OBVIOUS
  <2> QED
    BY <1>2, <1>5, <1>6, <2>1, DoneKeeps DEF Inv, Provided, Files, SystemFiles
<1>8. FileValues'
  BY <1>5 DEF Inv, FileValues
<1>9. f = "vmdeskOn" => /\ disk.bin # 0 /\ disk.config \notin {Absent, Unparsable}
                        /\ disk.file["unit"] = "whole"
  <2> SUFFICES ASSUME f = "vmdeskOn"
               PROVE  /\ disk.bin # 0 /\ disk.config \notin {Absent, Unparsable}
                      /\ disk.file["unit"] = "whole"
    OBVIOUS
  <2>1. /\ "vmdeskOn" \in Steps /\ Place["vmdeskOn"] = 22
        /\ "binary" \in Steps /\ Place["binary"] = 12
        /\ "config" \in Steps /\ Place["config"] = 17
        /\ "unit" \in Steps /\ Place["unit"] = 21
    BY DEF Steps, Place
  <2>2. run.step = 22
    BY <1>2, <2>1, AtStep DEF Inv
  <2>3. Past("binary") /\ Past("config") /\ Past("unit")
    BY <1>2, <2>1, <2>2 DEF Past
  <2>4. Provided("binary") /\ Provided("config") /\ Provided("unit")
    BY <2>1, <2>3 DEF Inv, StepsLast
  <2> QED
    BY <1>2, <2>4, RunLoads DEF Provided, SystemFiles, Intended, Loads
<1>10. Serving'
  BY <1>2, <1>5, <1>9 DEF Inv, Serving
<1> QED
  BY <1>2, <1>4, <1>5, <1>7, <1>8, <1>10, RunLoads, Continued

LEMMA UsermodInv == Inv /\ AddToGroups => Inv'
<1> SUFFICES ASSUME Inv, AddToGroups PROVE Inv'
  OBVIOUS
<1>1. run.status = "running" /\ Order[run.step] = "usermod" /\ Done /\ live' = live
  BY DEF AddToGroups, At
<1>2. disk' = [disk EXCEPT !.groups = TRUE] /\ disk \in DiskType
  BY DEF AddToGroups, Inv, Typed
<1>3. disk' \in DiskType /\ disk'.groups
  BY <1>2 DEF DiskType
<1>4. /\ disk'.file = disk.file /\ disk'.config = disk.config /\ disk'.bin = disk.bin
      /\ disk'.binCap = disk.binCap /\ disk'.exe = disk.exe /\ disk'.exeCap = disk.exeCap
      /\ disk'.pkgs = disk.pkgs /\ disk'.graphical = disk.graphical
      /\ disk'.rules = disk.rules
      /\ disk'.lightdmOn = disk.lightdmOn /\ disk'.vmdeskOn = disk.vmdeskOn
  BY <1>2 DEF DiskType
<1>5. \A s \in Steps : Provided(s) \/ s = "usermod" => Provided(s)'
  BY <1>1, <1>3, <1>4, DoneKeeps DEF Inv, Provided, Files, SystemFiles
<1>6. FileValues' /\ Serving'
  BY <1>1, <1>4 DEF Inv, FileValues, Serving
<1> QED
  BY <1>1, <1>3, <1>4, <1>5, <1>6, RunLoads, Continued

LEMMA UdevAdmInv == Inv /\ UdevAdm => Inv'
<1> SUFFICES ASSUME Inv, UdevAdm PROVE Inv'
  OBVIOUS
<1>1. run.status = "running" /\ Order[run.step] = "udevadm" /\ Done /\ disk' = disk
  BY DEF UdevAdm, At
<1>2. live' = [live EXCEPT !.uinputMode = live.uinput] /\ live \in LiveType
  BY DEF UdevAdm, Inv, Typed
<1>3. live' \in LiveType /\ live'.rules = live.rules /\ live'.server = live.server
  BY <1>2 DEF LiveType
<1>4. \A s \in Steps : Provided(s) \/ s = "udevadm" => Provided(s)'
  BY <1>1, <1>3, DoneKeeps DEF Inv, Provided, Files, SystemFiles
<1>5. FileValues' /\ Serving'
  BY <1>1, <1>3 DEF Inv, FileValues, Serving
<1> QED
  BY <1>1, <1>3, <1>4, <1>5, RunLoads, Continued

\* The capability of the old binary is gone, but setcap is still ahead.
LEMMA BinaryInv == Inv /\ InstallBinary => Inv'
<1> SUFFICES ASSUME Inv, InstallBinary PROVE Inv'
  OBVIOUS
<1>1. run.status = "running" /\ Order[run.step] = "binary" /\ Done /\ live' = live
  BY DEF InstallBinary, At
<1>2. disk' = IF run.inPlace THEN disk
              ELSE [disk EXCEPT !.bin = disk.exe, !.binCap = FALSE, !.tmp = FALSE]
  BY DEF InstallBinary
<1>3. disk \in DiskType /\ disk.exe \in 1 .. MaxVersion /\ disk.exe \in 0 .. MaxVersion
      /\ disk.exe # 0
  BY BoundsAssumption DEF Inv, Typed, DiskType
<1>4. disk' \in DiskType
  BY <1>2, <1>3 DEF DiskType
<1>5. disk'.bin # 0 /\ (run.inPlace \/ disk'.bin = disk'.exe)
  BY <1>1, <1>2, <1>3 DEF DiskType, Inv, RunStands
<1>6. /\ disk'.file = disk.file /\ disk'.config = disk.config
      /\ disk'.exe = disk.exe /\ disk'.exeCap = disk.exeCap
      /\ disk'.pkgs = disk.pkgs /\ disk'.groups = disk.groups
      /\ disk'.graphical = disk.graphical /\ disk'.rules = disk.rules
      /\ disk'.lightdmOn = disk.lightdmOn /\ disk'.vmdeskOn = disk.vmdeskOn
  BY <1>2, <1>3 DEF DiskType
<1>7. ~Past("setcap") /\ ~Past("restart")
  <2>1. /\ "binary" \in Steps /\ Place["binary"] = 12 /\ run.step = 12
        /\ Place["setcap"] = 13 /\ Place["restart"] = 23
    BY <1>1, AtStep DEF Inv, Steps, Place
  <2> QED
    BY <1>1, <2>1 DEF Past, Finished, Steps, Place
<1>8. \A s \in Steps : (Past(s) /\ Provided(s)) \/ s = "binary" => Provided(s)'
  BY <1>1, <1>5, <1>6, <1>7, DoneKeeps DEF Inv, Provided, Files, SystemFiles
<1>9. FileValues' /\ Serving'
  BY <1>1, <1>5, <1>6 DEF Inv, FileValues, Serving
<1> QED
  BY <1>1, <1>3, <1>4, <1>5, <1>6, <1>8, <1>9, RunLoads, Continued DEF Inv, Typed

LEMMA SetCapInv == Inv /\ SetCap => Inv'
<1> SUFFICES ASSUME Inv, SetCap PROVE Inv'
  OBVIOUS
<1>1. PICK s \in {"setcap", "setcapExe"} :
          /\ At(s)
          /\ s = "setcap" => disk' = [disk EXCEPT !.binCap = TRUE]
          /\ s = "setcapExe" =>
                disk' = IF run.inPlace THEN disk ELSE [disk EXCEPT !.exeCap = TRUE]
  BY DEF SetCap
<1>2. run.status = "running" /\ Order[run.step] = s /\ Done /\ live' = live
  BY <1>1 DEF SetCap, At
<1>3. disk \in DiskType
  BY DEF Inv, Typed
<1>4. disk' \in DiskType
  BY <1>1, <1>3 DEF DiskType
<1>5. /\ s = "setcap" => disk'.binCap
      /\ s = "setcapExe" => run.inPlace \/ disk'.exeCap
      /\ disk.binCap => disk'.binCap
      /\ disk.exeCap => disk'.exeCap
  BY <1>1, <1>3 DEF DiskType
<1>6. /\ disk'.file = disk.file /\ disk'.config = disk.config /\ disk'.bin = disk.bin
      /\ disk'.exe = disk.exe /\ disk'.groups = disk.groups
      /\ disk'.pkgs = disk.pkgs /\ disk'.graphical = disk.graphical
      /\ disk'.rules = disk.rules
      /\ disk'.lightdmOn = disk.lightdmOn /\ disk'.vmdeskOn = disk.vmdeskOn
  BY <1>1, <1>3 DEF DiskType
<1>7. \A t \in Steps : Provided(t) \/ t = s => Provided(t)'
  <2> SUFFICES ASSUME NEW t \in Steps, Provided(t) \/ t = s PROVE Provided(t)'
    OBVIOUS
  <2>1. t = s => t \in {"setcap", "setcapExe"}
    OBVIOUS
  <2> QED
    BY <1>2, <1>5, <1>6, <2>1, DoneKeeps DEF Inv, Provided, Files, SystemFiles
<1>8. FileValues' /\ Serving'
  BY <1>2, <1>6 DEF Inv, FileValues, Serving
<1> QED
  BY <1>2, <1>4, <1>6, <1>7, <1>8, RunLoads, Continued

LEMMA InsertInv == Inv /\ InsertRule => Inv'
<1> SUFFICES ASSUME Inv, InsertRule PROVE Inv'
  OBVIOUS
<1>1. run.status = "running" /\ Order[run.step] = "insert" /\ Done /\ disk' = disk
  BY DEF InsertRule, At
<1>2. live' = [live EXCEPT !.rules = live.rules \cup {run.config.ports}] /\ live \in LiveType
  BY DEF InsertRule, Inv, Typed
<1>3. run.config.ports \in Ports
  BY <1>1, RunLoads DEF Configs
<1>4. live' \in LiveType /\ live'.rules = live.rules \cup {run.config.ports}
      /\ live'.server = live.server
  BY <1>2, <1>3 DEF LiveType
<1>5. \A s \in Steps : Provided(s) \/ s = "insert" => Provided(s)'
  BY <1>1, <1>4, DoneKeeps DEF Inv, Provided, Files, SystemFiles
<1>6. FileValues' /\ Serving'
  BY <1>1, <1>4 DEF Inv, FileValues, Serving
<1> QED
  BY <1>1, <1>4, <1>5, <1>6, RunLoads, Continued

\* The rule to be saved is among the rules of the kernel.
LEMMA SaveInv == Inv /\ SaveRules => Inv'
<1> SUFFICES ASSUME Inv, SaveRules PROVE Inv'
  OBVIOUS
<1>1. run.status = "running" /\ Order[run.step] = "save" /\ Done /\ live' = live
  BY DEF SaveRules, At
<1>2. disk' = [disk EXCEPT !.rules = live.rules] /\ disk \in DiskType /\ live.rules \in SUBSET Ports
  BY DEF SaveRules, Inv, Typed, LiveType
<1>3. disk' \in DiskType /\ disk'.rules = live.rules
  BY <1>2 DEF DiskType
<1>4. /\ disk'.file = disk.file /\ disk'.config = disk.config /\ disk'.bin = disk.bin
      /\ disk'.binCap = disk.binCap /\ disk'.exe = disk.exe /\ disk'.exeCap = disk.exeCap
      /\ disk'.pkgs = disk.pkgs /\ disk'.groups = disk.groups
      /\ disk'.graphical = disk.graphical
      /\ disk'.lightdmOn = disk.lightdmOn /\ disk'.vmdeskOn = disk.vmdeskOn
  BY <1>2 DEF DiskType
<1>5. run.config.ports \in live.rules
  <2>1. /\ "save" \in Steps /\ Place["save"] = 16
        /\ "insert" \in Steps /\ Place["insert"] = 15
    BY DEF Steps, Place
  <2>2. Past("insert")
    BY <1>1, <2>1, AtStep DEF Inv, Past
  <2> QED
    BY <1>1, <2>1, <2>2 DEF Inv, StepsLast, Provided
<1>6. \A s \in Steps : Provided(s) \/ s = "save" => Provided(s)'
  BY <1>1, <1>3, <1>4, <1>5, DoneKeeps DEF Inv, Provided, Files, SystemFiles
<1>7. FileValues' /\ Serving'
  BY <1>1, <1>4 DEF Inv, FileValues, Serving
<1> QED
  BY <1>1, <1>3, <1>4, <1>6, <1>7, RunLoads, Continued

\* What is written loads, with the ports of this run.
LEMMA ConfigInv == Inv /\ WriteConfig => Inv'
<1> SUFFICES ASSUME Inv, WriteConfig PROVE Inv'
  OBVIOUS
<1>1. run.status = "running" /\ Order[run.step] = "config" /\ Done /\ live' = live
  BY DEF WriteConfig, At
<1>2. disk \in DiskType
  BY DEF Inv, Typed
<1>3. WrittenConfig \in Configs /\ WrittenConfig.ports = run.config.ports
  BY <1>1, RunLoads DEF WrittenConfig, Configs
<1>4. WrittenConfig # Absent /\ WrittenConfig # Unparsable
  BY <1>3, ConfigsLoad
<1>5. disk' = IF disk.config = Absent THEN [disk EXCEPT !.config = WrittenConfig] ELSE disk
  BY DEF WriteConfig
<1>6. disk' \in DiskType
  BY <1>2, <1>3, <1>5 DEF DiskType
<1>7. disk'.config = IF disk.config = Absent THEN WrittenConfig ELSE disk.config
  BY <1>2, <1>5 DEF DiskType
<1>8. /\ disk'.file = disk.file /\ disk'.rules = disk.rules /\ disk'.bin = disk.bin
      /\ disk'.binCap = disk.binCap /\ disk'.exe = disk.exe /\ disk'.exeCap = disk.exeCap
      /\ disk'.pkgs = disk.pkgs /\ disk'.groups = disk.groups
      /\ disk'.graphical = disk.graphical
      /\ disk'.lightdmOn = disk.lightdmOn /\ disk'.vmdeskOn = disk.vmdeskOn
  BY <1>2, <1>5 DEF DiskType
<1>9. disk'.config # Absent /\ Loads(disk'.config)
      /\ Loaded(disk'.config).ports = run.config.ports
  BY <1>1, <1>3, <1>4, <1>7, RunLoads DEF Loads, Loaded
<1>10. \A s \in Steps : Provided(s) \/ s = "config" => Provided(s)'
  BY <1>1, <1>8, <1>9, DoneKeeps DEF Inv, Provided, Files, SystemFiles
<1>11. FileValues' /\ Serving'
  BY <1>1, <1>8, <1>9 DEF Inv, FileValues, Serving, Loads
<1> QED
  BY <1>1, <1>6, <1>8, <1>9, <1>10, <1>11, RunLoads, Continued

LEMMA ChownInv == Inv /\ Chown => Inv'
<1> SUFFICES ASSUME Inv, Chown PROVE Inv'
  OBVIOUS
<1>1. run.status = "running" /\ Order[run.step] = "chown" /\ Done /\ disk' = disk /\ live' = live
  BY DEF Chown, At
<1>2. \A s \in Steps : Provided(s) \/ s = "chown" => Provided(s)'
  BY <1>1, DoneKeeps DEF Inv, Provided, Files, SystemFiles
<1>3. FileValues' /\ Serving'
  BY <1>1 DEF Inv, FileValues, Serving
<1> QED
  BY <1>1, <1>2, <1>3, RunLoads, Continued

\* Everything the service needs is in place.
LEMMA RestartInv == Inv /\ Restart => Inv'
<1> SUFFICES ASSUME Inv, Restart PROVE Inv'
  OBVIOUS
<1>1. run.status = "running" /\ Order[run.step] = "restart" /\ Done /\ disk' = disk
  BY DEF Restart, At
<1>2. live' = [live EXCEPT !.server = Server] /\ live \in LiveType
  BY DEF Restart, Inv, Typed
<1>3. live' \in LiveType /\ live'.rules = live.rules /\ live'.server = Server
  BY <1>2, ServerIs DEF LiveType, Inv
<1>4. disk.bin # 0 /\ disk.vmdeskOn
  <2>1. /\ "restart" \in Steps /\ Place["restart"] = 23
        /\ "binary" \in Steps /\ Place["binary"] = 12
        /\ "vmdeskOn" \in Steps /\ Place["vmdeskOn"] = 22
    BY DEF Steps, Place
  <2>2. Past("binary") /\ Past("vmdeskOn")
    BY <1>1, <2>1, AtStep DEF Inv, Past
  <2> QED
    BY <2>1, <2>2 DEF Inv, StepsLast, Provided
<1>5. live'.server = [bin |-> disk.bin, ports |-> run.config.ports]
  BY <1>1, <1>3, <1>4, ServerIs, RunLoads DEF Inv
<1>6. \A s \in Steps : Provided(s) \/ s = "restart" => Provided(s)'
  BY <1>1, <1>3, <1>5, DoneKeeps DEF Inv, Provided, Files, SystemFiles
<1>7. FileValues' /\ Serving'
  BY <1>1, <1>4 DEF Inv, FileValues, Serving
<1> QED
  BY <1>1, <1>3, <1>6, <1>7, RunLoads, Continued

LEMMA StepInv == Inv /\ Step => Inv'
  BY ModprobeInv, DetectInv, AptInv, WriteFileInv, SetFlagInv, UsermodInv, UdevAdmInv,
     BinaryInv, SetCapInv, InsertInv, SaveInv, ConfigInv, ChownInv, RestartInv
  DEF Step

(***************************************************************************)
(* What goes wrong, and what else happens on the VM.                       *)
(***************************************************************************)
LEMMA StartInv == Inv /\ Start => Inv'
<1> SUFFICES ASSUME Inv, Start PROVE Inv'
  OBVIOUS
<1>1. PICK apt \in {TRUE, ~disk.pkgs}, inPlace \in {FALSE, disk.bin # 0} :
          run' = [status |-> "running", step |-> 1, card |-> "none",
                  config |-> Loaded(disk.config), apt |-> apt, inPlace |-> inPlace,
                  warnings |-> {}]
  BY DEF Start
<1>2. Loads(disk.config) /\ disk' = disk /\ live' = live /\ edits' = edits /\ faults' = faults
  BY DEF Start
<1>3. apt \in BOOLEAN /\ inPlace \in BOOLEAN /\ (apt \/ disk.pkgs) /\ (inPlace => disk.bin # 0)
  BY <1>1 DEF Inv, Typed, DiskType
<1>4. Loaded(disk.config) \in Configs
  BY <1>2, LoadedTyped DEF Inv, Typed, DiskType
<1>5. run' \in RunType
  BY <1>1, <1>3, <1>4 DEF RunType
<1>6. \A s \in Steps : ~Past(s)'
  <2>1. run'.step = 1 /\ run'.status = "running"
    BY <1>1
  <2> QED
    BY <2>1, Placed DEF Past, Finished
<1>7. StepsLast'
  BY <1>6 DEF StepsLast, Steps
<1>8. RunStands'
  BY <1>1, <1>2, <1>3 DEF RunStands
<1>9. Typed' /\ FileValues' /\ Serving' /\ UpAfterBoot'
  BY <1>1, <1>2, <1>5 DEF Inv, Typed, FileValues, Serving, UpAfterBoot
<1> QED
  BY <1>7, <1>8, <1>9 DEF Inv

\* An unfinished step takes neither the service nor its configuration away.
LEMMA HalfDoneServes ==
    ASSUME Inv, disk' \in HalfDone
    PROVE  /\ FileValues'
           /\ disk'.vmdeskOn => /\ disk'.bin # 0 /\ disk'.config \notin {Absent, Unparsable}
                                /\ disk'.file["unit"] \in {"torn", "whole"}
<1>1. /\ disk \in DiskType /\ disk' \in DiskType
      /\ DOMAIN disk.file = Files /\ DOMAIN disk'.file = Files
  BY HalfDoneDisk DEF Inv, Typed, DiskType
<1>2. \A f \in Files : disk'.file[f] = disk.file[f] \/ disk'.file[f] = "torn"
  BY HalfDoneDisk DEF Inv
<1>3. disk'.bin = disk.bin /\ disk'.vmdeskOn = disk.vmdeskOn
      /\ (disk.config # Absent => disk'.config = disk.config)
  BY HalfDoneDisk DEF Inv
<1>4. FileValues'
  BY <1>1, <1>2 DEF Inv, FileValues
<1> QED
  BY <1>2, <1>3, <1>4 DEF Inv, Serving, Files, SystemFiles

\* A run that ended has nothing behind it that counts.
LEMMA Ended ==
    ASSUME Typed', run'.status \notin {"running", "complete", "booted"}, FileValues', Serving'
    PROVE  Inv'
  BY DEF Inv, StepsLast, Past, Finished, RunStands, UpAfterBoot, Steps

LEMMA FaultTyped == ASSUME Typed, Fault PROVE faults' \in 0 .. MaxFaults
  BY BoundsAssumption DEF Typed, Fault

LEMMA RunFailsInv == Inv /\ RunFails => Inv'
<1> SUFFICES ASSUME Inv, RunFails PROVE Inv'
  OBVIOUS
<1>1. /\ disk' \in HalfDone /\ live' = live /\ edits' = edits /\ Fault
      /\ run' = NoRun("failed")
  BY DEF RunFails
<1>2. run' \in RunType /\ run'.status = "failed"
  BY <1>1, NoRunTyped
<1>3. Typed'
  BY <1>1, <1>2, HalfDoneDisk, FaultTyped DEF Inv, Typed
<1>4. FileValues' /\ Serving'
  BY <1>1, HalfDoneServes, HalfDoneDisk DEF Inv, Serving
<1> QED
  BY <1>2, <1>3, <1>4, Ended

LEMMA NoCardInv == Inv /\ NoCard => Inv'
<1> SUFFICES ASSUME Inv, NoCard PROVE Inv'
  OBVIOUS
<1>1. /\ disk' = disk /\ live' = live /\ edits' = edits /\ faults' = faults
      /\ run' = NoRun("failed")
  BY DEF NoCard
<1>2. run' \in RunType /\ run'.status = "failed"
  BY <1>1, NoRunTyped
<1>3. Typed' /\ FileValues' /\ Serving'
  BY <1>1, <1>2 DEF Inv, Typed, FileValues, Serving
<1> QED
  BY <1>2, <1>3, Ended

\* A run that goes on past failed steps of which it keeps a warning.
LEMMA Skipped ==
    ASSUME Inv, run.status = "running", disk' \in HalfDone,
           Order[run.step] \notin SystemFiles \cup {"config"},
           live' = live, edits' = edits, faults' \in 0 .. MaxFaults,
           run' \in RunType, run'.status = "running",
           run'.card = run.card, run'.config = run.config, run'.apt = run.apt,
           run'.inPlace = run.inPlace, run.warnings \subseteq run'.warnings,
           Order[run.step] \in UserFiles => "desktop" \in run'.warnings,
           \A s \in Steps : Past(s)' =>
               \/ Past(s) \/ s \in {"modprobe", "udevadm", "chown"}
               \/ (s \in UserFiles /\ "desktop" \in run'.warnings)
               \/ (s = "setcapExe" /\ "exeCap" \in run'.warnings)
    PROVE  Inv'
<1>1. disk' \in DiskType
  BY HalfDoneDisk DEF Inv
<1>2. \A f \in SystemFiles : disk'.file[f] = disk.file[f]
  BY HalfDoneDisk DEF Inv, Files
<1>3. "desktop" \in run'.warnings \/ \A f \in UserFiles : disk'.file[f] = disk.file[f]
  BY HalfDoneDisk DEF Inv, Files, UserFiles
<1>4. disk'.config = disk.config
  BY HalfDoneDisk DEF Inv
<1>5. /\ disk'.rules = disk.rules /\ disk'.bin = disk.bin
      /\ disk'.binCap = disk.binCap /\ disk'.exe = disk.exe /\ disk'.exeCap = disk.exeCap
      /\ disk'.pkgs = disk.pkgs /\ disk'.groups = disk.groups
      /\ disk'.graphical = disk.graphical
      /\ disk'.lightdmOn = disk.lightdmOn /\ disk'.vmdeskOn = disk.vmdeskOn
  BY HalfDoneDisk DEF Inv
<1>6. \A f \in SystemFiles : Intended(f)' = Intended(f)
  BY DEF Intended
<1>7. \A s \in Steps : Provided(s) => Provided(s)'
  <2> SUFFICES ASSUME NEW s \in Steps, Provided(s) PROVE Provided(s)'
    OBVIOUS
  <2>1. s \in SystemFiles => disk'.file[s] = Intended(s)'
    BY <1>2, <1>6 DEF Provided
  <2>2. s = "noblank" => "desktop" \in run'.warnings \/ disk'.file["noblank"] = "whole"
    BY <1>3 DEF Provided, UserFiles
  <2>4. s = "xfconf" => "desktop" \in run'.warnings \/ disk'.file["xfconf"] # "absent"
    BY <1>3 DEF Provided, UserFiles
  <2>3. s = "setcapExe" => run'.inPlace \/ disk'.exeCap \/ "exeCap" \in run'.warnings
    BY <1>5 DEF Provided
  <2> QED
    BY <1>4, <1>5, <2>1, <2>2, <2>3, <2>4 DEF Provided
<1>8. \A s \in Steps :
          \/ s \in {"modprobe", "udevadm", "chown"}
          \/ (s \in UserFiles /\ "desktop" \in run'.warnings)
          \/ (s = "setcapExe" /\ "exeCap" \in run'.warnings)
          => Provided(s)'
  BY DEF Provided, SystemFiles, UserFiles
<1>9. StepsLast'
  BY <1>7, <1>8 DEF Inv, StepsLast, Steps
<1>10. RunStands'
  BY <1>4, <1>5 DEF Inv, RunStands, Finished
<1>11. Typed' /\ UpAfterBoot'
  BY <1>1 DEF Inv, Typed, UpAfterBoot
<1>12. FileValues' /\ Serving'
  BY <1>5, HalfDoneServes DEF Inv, Serving
<1> QED
  BY <1>9, <1>10, <1>11, <1>12 DEF Inv

\* The run goes on at step n with the warning w.
GoesOn(w, n) == run' = [run EXCEPT !.warnings = @ \cup {w}, !.step = n]

LEMMA StepFailsInv == Inv /\ StepFails => Inv'
<1> SUFFICES ASSUME Inv, StepFails PROVE Inv'
  OBVIOUS
<1>1. run.status = "running" /\ Fault /\ disk' \in HalfDone /\ live' = live /\ edits' = edits
  BY DEF StepFails
<1>2. faults' \in 0 .. MaxFaults
  BY <1>1, FaultTyped DEF Inv
<1>3. run \in RunType /\ run.step \in 1 .. 23
  BY DEF Inv, Typed, RunType
<1>4. ASSUME NEW w \in Warnings, NEW n \in 1 .. 23,
             GoesOn(w, n)
      PROVE  /\ run' \in RunType /\ run'.status = "running" /\ run'.step = n
             /\ run'.card = run.card /\ run'.config = run.config /\ run'.apt = run.apt
             /\ run'.inPlace = run.inPlace /\ run.warnings \subseteq run'.warnings
             /\ w \in run'.warnings
  <2>1. run.warnings \cup {w} \in SUBSET Warnings
    BY <1>3 DEF RunType
  <2> DEFINE all == run.warnings \cup {w}
  <2>2. all \in SUBSET Warnings /\ w \in all /\ run.warnings \subseteq all
        /\ run' = [run EXCEPT !.warnings = all, !.step = n]
    BY <2>1, <1>4 DEF GoesOn
  <2> HIDE DEF all
  <2>3. run' \in RunType /\ run'.warnings = all /\ run'.step = n
    BY <1>3, <2>2 DEF RunType
  <2> QED
    BY <1>1, <1>3, <2>2, <2>3 DEF RunType
<1>5. CASE Order[run.step] \in {"modprobe", "udevadm"}
  <2> PICK w \in {"modprobe", "udevadm"} : Order[run.step] = w
    BY <1>5
  <2>1. "modprobe" \in Steps /\ "udevadm" \in Steps
        /\ Place["modprobe"] = 1 /\ Place["udevadm"] = 10
    BY DEF Steps, Place
  <2>2. run.step \in {1, 10} /\ run.step + 1 \in 1 .. 23 /\ w \in Warnings
    BY <1>5, <2>1, AtStep DEF Inv, Warnings
  <2>3. GoesOn(w, run.step + 1)
    BY <1>5 DEF StepFails, UserFiles, GoesOn
  <2>4. /\ run' \in RunType /\ run'.status = "running" /\ run'.step = run.step + 1
        /\ run'.card = run.card /\ run'.config = run.config /\ run'.apt = run.apt
        /\ run'.inPlace = run.inPlace /\ run.warnings \subseteq run'.warnings
    BY <1>4, <2>2, <2>3
  <2>5. \A s \in Steps : Past(s)' => Past(s) \/ s = Order[run.step]
    <3>1. \A s \in Steps : Place[s] < run.step + 1 => Place[s] < run.step \/ s = Order[run.step]
      BY <1>3, Placed
    <3> QED
      BY <1>1, <2>4, <3>1 DEF Past, Finished
  <2>6. Order[run.step] \notin SystemFiles \cup {"config"} /\ Order[run.step] \notin UserFiles
    BY <1>5 DEF SystemFiles, UserFiles
  <2> QED
    BY <1>1, <1>2, <1>5, <2>4, <2>5, <2>6, Skipped
<1>6. CASE Order[run.step] = "setcapExe"
  <2>1. "setcapExe" \in Steps /\ Place["setcapExe"] = 14
    BY DEF Steps, Place
  <2>2. run.step = 14 /\ run.step + 1 \in 1 .. 23 /\ "exeCap" \in Warnings
    BY <1>6, <2>1, AtStep DEF Inv, Warnings
  <2>3. GoesOn("exeCap", run.step + 1)
    BY <1>6 DEF StepFails, UserFiles, GoesOn
  <2>4. /\ run' \in RunType /\ run'.status = "running" /\ run'.step = run.step + 1
        /\ run'.card = run.card /\ run'.config = run.config /\ run'.apt = run.apt
        /\ run'.inPlace = run.inPlace /\ run.warnings \subseteq run'.warnings
        /\ "exeCap" \in run'.warnings
    BY <1>4, <2>2, <2>3
  <2>5. \A s \in Steps : Past(s)' => Past(s) \/ s = "setcapExe"
    <3>1. \A s \in Steps : Place[s] < run.step + 1 => Place[s] < run.step \/ s = "setcapExe"
      BY <1>3, <1>6, Placed
    <3> QED
      BY <1>1, <2>4, <3>1 DEF Past, Finished
  <2>6. Order[run.step] \notin SystemFiles \cup {"config"} /\ Order[run.step] \notin UserFiles
    BY <1>6 DEF SystemFiles, UserFiles
  <2> QED
    BY <1>1, <1>2, <2>4, <2>5, <2>6, Skipped
<1>7. CASE Order[run.step] \in UserFiles \cup {"chown"}
  <2>1. /\ "noblank" \in Steps /\ "xfconf" \in Steps /\ "chown" \in Steps
        /\ Place["noblank"] = 18 /\ Place["xfconf"] = 19 /\ Place["chown"] = 20
    BY DEF Steps, Place
  <2>2. run.step \in {18, 19, 20} /\ "desktop" \in Warnings
    BY <1>7, <2>1, AtStep DEF Inv, Warnings, UserFiles
  <2>3. GoesOn("desktop", 21)
    BY <1>7, UnitPlace DEF StepFails, UserFiles, GoesOn
  <2>4. /\ run' \in RunType /\ run'.status = "running" /\ run'.step = 21
        /\ run'.card = run.card /\ run'.config = run.config /\ run'.apt = run.apt
        /\ run'.inPlace = run.inPlace /\ run.warnings \subseteq run'.warnings
        /\ "desktop" \in run'.warnings
    BY <1>4, <2>2, <2>3
  <2>5. \A s \in Steps : Past(s)' => Past(s) \/ s \in UserFiles \/ s = "chown"
    <3>1. \A s \in Steps : Place[s] < 21 => Place[s] < run.step \/ s \in UserFiles \/ s = "chown"
      <4>1. Order[18] = "noblank" /\ Order[19] = "xfconf" /\ Order[20] = "chown"
        BY <2>1, Placed
      <4>2. \A s \in Steps : Place[s] < 21 => Place[s] < 18 \/ Place[s] \in {18, 19, 20}
        BY Placed
      <4> QED
        BY <2>2, <4>1, <4>2, Placed DEF UserFiles
    <3> QED
      BY <1>1, <2>4, <3>1 DEF Past, Finished
  <2>6. Order[run.step] \notin SystemFiles \cup {"config"}
    BY <1>7 DEF SystemFiles, UserFiles
  <2> QED
    BY <1>1, <1>2, <2>4, <2>5, <2>6, Skipped
<1> QED
  BY <1>5, <1>6, <1>7 DEF StepFails

\* The system that comes up, from what is on the disk after the reboot.
LEMMA BootedIs ==
    ASSUME disk' \in DiskType, NEW c \in Cards, live' = Booted(c)'
    PROVE  /\ live' \in LiveType
           /\ live'.server # Down =>
                 disk'.vmdeskOn /\ disk'.file["unit"] = "whole"
           /\ disk'.bin # 0 /\ Loads(disk'.config) /\ disk'.vmdeskOn /\ disk'.file["unit"] = "whole" =>
                 /\ live'.server # Down
                 /\ live'.server = [bin |-> disk'.bin, ports |-> Loaded(disk'.config).ports]
           /\ disk'.file["modules"] = "whole" => live'.vkms /\ live'.uinput /\ live'.link
           /\ disk'.file["modules"] = "whole" /\ disk'.file["udev"] = "whole" => live'.uinputMode
           /\ disk'.groups => live'.groups
           /\ disk'.pkgs => live'.rules = disk'.rules
           /\ (/\ disk'.file["modules"] = "whole" /\ disk'.file["lightdm"] = "whole"
               /\ disk'.file["xorg"] = "byPath"
               /\ disk'.pkgs /\ disk'.lightdmOn /\ disk'.graphical) => live'.display
<1>1. live' = [vkms |-> disk'.file["modules"] = "whole", uinput |-> disk'.file["modules"] = "whole",
               uinputMode |-> disk'.file["modules"] = "whole" /\ disk'.file["udev"] = "whole",
               groups |-> disk'.groups, card |-> c, link |-> disk'.file["modules"] = "whole",
               rules |-> IF disk'.pkgs THEN disk'.rules ELSE {},
               display |-> /\ disk'.file["modules"] = "whole"
                           /\ disk'.pkgs /\ disk'.lightdmOn /\ disk'.graphical
                           /\ disk'.file["lightdm"] = "whole"
                           /\ disk'.file["xorg"] \in {"byPath", c},
               server |-> IF disk'.vmdeskOn /\ disk'.file["unit"] = "whole" THEN Server' ELSE Down]
  BY DEF Booted
<1>2. Server' = IF disk'.bin # 0 /\ Loads(disk'.config)
                  THEN [bin |-> disk'.bin, ports |-> Loaded(disk'.config).ports] ELSE Down
  BY DEF Server
<1>3. disk'.bin # 0 /\ Loads(disk'.config) =>
          /\ Server' \in Running /\ Server' # Down
          /\ Server' = [bin |-> disk'.bin, ports |-> Loaded(disk'.config).ports]
  <2> SUFFICES ASSUME disk'.bin # 0, Loads(disk'.config)
               PROVE  /\ Server' \in Running /\ Server' # Down
                      /\ Server' = [bin |-> disk'.bin, ports |-> Loaded(disk'.config).ports]
    OBVIOUS
  <2>1. disk'.bin \in 1 .. MaxVersion
    BY BoundsAssumption DEF DiskType
  <2>2. Loaded(disk'.config).ports \in Ports
    BY LoadedTyped DEF DiskType, Configs
  <2> QED
    BY <1>2, <2>1, <2>2, StatesAssumption DEF Running
<1>4. Server' \in Running \cup {Down}
  BY <1>2, <1>3
<1>5. live' \in LiveType
  BY <1>1, <1>4 DEF LiveType, DiskType
<1>6. /\ live'.server = IF disk'.vmdeskOn /\ disk'.file["unit"] = "whole" THEN Server' ELSE Down
      /\ live'.rules = IF disk'.pkgs THEN disk'.rules ELSE {}
      /\ live'.groups = disk'.groups
  BY <1>1
<1>7. /\ live'.vkms = (disk'.file["modules"] = "whole")
      /\ live'.uinput = (disk'.file["modules"] = "whole")
      /\ live'.link = (disk'.file["modules"] = "whole")
      /\ live'.uinputMode = (disk'.file["modules"] = "whole" /\ disk'.file["udev"] = "whole")
  BY <1>1
<1>8. disk'.file["modules"] = "whole" => live'.vkms /\ live'.uinput /\ live'.link
  BY <1>7
<1>9. disk'.file["modules"] = "whole" /\ disk'.file["udev"] = "whole" => live'.uinputMode
  BY <1>7
<1>10. (/\ disk'.file["modules"] = "whole" /\ disk'.file["lightdm"] = "whole"
        /\ disk'.file["xorg"] = "byPath"
        /\ disk'.pkgs /\ disk'.lightdmOn /\ disk'.graphical) => live'.display
  BY <1>1
<1> QED
  BY <1>3, <1>5, <1>6, <1>8, <1>9, <1>10

\* A run that is complete and its disk: what the VM boots from.
LEMMA CompletedDisk ==
    ASSUME Inv, Finished
    PROVE  /\ \A s \in Steps : Provided(s)
           /\ \A f \in SystemFiles : disk.file[f] = Intended(f)
           /\ disk.pkgs /\ disk.groups /\ disk.graphical /\ disk.lightdmOn /\ disk.vmdeskOn
           /\ disk.bin # 0 /\ Loads(disk.config) /\ Loaded(disk.config).ports = run.config.ports
           /\ run.config.ports \in disk.rules
<1>1. \A s \in Steps : Provided(s)
  BY DEF Inv, StepsLast, Past
<1>2. SystemFiles \subseteq Steps
      /\ {"apt", "usermod", "graphical", "lightdmOn", "vmdeskOn", "binary", "save"} \subseteq Steps
  BY DEF SystemFiles, Steps, Place
<1>3. \A f \in SystemFiles : disk.file[f] = Intended(f)
  BY <1>1, <1>2 DEF Provided
<1>4. disk.pkgs /\ disk.groups /\ disk.graphical /\ disk.lightdmOn /\ disk.vmdeskOn
      /\ disk.bin # 0 /\ run.config.ports \in disk.rules
  <2>1. Provided("apt") /\ Provided("usermod") /\ Provided("graphical") /\ Provided("lightdmOn")
        /\ Provided("vmdeskOn") /\ Provided("binary") /\ Provided("save")
    BY <1>1, <1>2
  <2> QED
    BY <2>1 DEF Provided
<1> QED
  BY <1>1, <1>3, <1>4 DEF Inv, RunStands

LEMMA RebootInv == Inv /\ Reboot => Inv'
<1> SUFFICES ASSUME Inv, Reboot PROVE Inv'
  OBVIOUS
<1>1. PICK c \in Cards : live' = Booted(c)'
  BY DEF Reboot
<1>2. faults' \in 0 .. MaxFaults /\ edits' = edits
  BY FaultTyped DEF Reboot, Inv, Typed
<1>3. run \in RunType
  BY DEF Inv, Typed
<1>4. CASE run.status = "running"
  <2>1. disk' \in HalfDone /\ run' = NoRun("failed")
    BY <1>4 DEF Reboot
  <2>2. run' \in RunType /\ run'.status = "failed" /\ disk' \in DiskType
    BY <2>1, NoRunTyped, HalfDoneDisk DEF Inv
  <2>3. Typed'
    BY <1>1, <1>2, <2>2, BootedIs DEF Inv, Typed
  <2>4. FileValues' /\ Serving'
    BY <1>1, <2>1, <2>2, HalfDoneServes, BootedIs DEF Serving
  <2> QED
    BY <2>2, <2>3, <2>4, Ended
<1>5. CASE run.status \in {"never", "failed", "outdated"}
  <2>1. disk' = disk /\ run' = run
    BY <1>3, <1>5 DEF Reboot, RunType
  <2>2. disk' \in DiskType
    BY <2>1 DEF Inv, Typed
  <2>3. Typed'
    BY <1>1, <1>2, <2>1, <2>2, BootedIs DEF Inv, Typed
  <2>4. FileValues' /\ Serving'
    BY <1>1, <2>1, <2>2, BootedIs DEF Inv, FileValues, Serving
  <2> QED
    BY <1>5, <2>1, <2>3, <2>4, Ended
<1>6. CASE run.status \in {"complete", "booted"}
  <2>1. disk' = disk /\ run' = [run EXCEPT !.status = "booted"]
    <3>1. CASE run.status = "complete"
      BY <3>1 DEF Reboot
    <3>2. CASE run.status = "booted"
      <4>1. disk' = disk /\ run' = run
        BY <3>2 DEF Reboot
      <4> QED
        BY <1>3, <3>2, <4>1 DEF RunType
    <3> QED
      BY <1>6, <3>1, <3>2
  <2>2. run' \in RunType /\ run'.status = "booted" /\ disk' \in DiskType
        /\ run'.card = run.card /\ run'.config = run.config
        /\ run'.inPlace = run.inPlace /\ run'.warnings = run.warnings
    BY <1>3, <2>1 DEF Inv, Typed, RunType
  <2>3. Typed'
    BY <1>1, <1>2, <2>2, BootedIs DEF Inv, Typed
  <2>4. Finished
    BY <1>6 DEF Finished
  <2>5. disk.file["unit"] = "whole" /\ disk.file["modules"] = "whole"
        /\ disk.file["udev"] = "whole" /\ disk.file["lightdm"] = "whole"
        /\ disk.file["xorg"] = run.card
    BY <2>4, CompletedDisk DEF SystemFiles, Intended
  <2>6. live'.server = [bin |-> disk'.bin, ports |-> run.config.ports]
    BY <1>1, <2>1, <2>2, <2>4, <2>5, CompletedDisk, BootedIs
  <2>7. \A s \in Steps : Provided(s)'
    <3> SUFFICES ASSUME NEW s \in Steps PROVE Provided(s)'
      OBVIOUS
    <3>1. Provided(s)
      BY <2>4, CompletedDisk
    <3>2. s \in SystemFiles => disk'.file[s] = Intended(s)'
      BY <2>1, <2>2, <3>1 DEF Provided, Intended
    <3> QED
      BY <2>1, <2>2, <2>6, <3>1, <3>2 DEF Provided
  <2>8. StepsLast'
    BY <2>7 DEF StepsLast, Steps
  <2>9. RunStands'
    BY <2>1, <2>2, <2>4, CompletedDisk DEF RunStands
  <2>10. FileValues' /\ Serving'
    BY <1>1, <2>1, <2>2, BootedIs DEF Inv, FileValues, Serving
  <2>11. UpAfterBoot'
    BY <1>1, <2>1, <2>2, <2>4, <2>5, CompletedDisk, BootedIs DEF UpAfterBoot
  <2> QED
    BY <2>3, <2>8, <2>9, <2>10, <2>11 DEF Inv
<1> QED
  BY <1>3, <1>4, <1>5, <1>6 DEF RunType

LEMMA LinkInv == Inv /\ LinkAppears => Inv'
<1> SUFFICES ASSUME Inv, LinkAppears PROVE Inv'
  OBVIOUS
<1>1. /\ disk' = disk /\ run' = run /\ edits' = edits /\ faults' = faults
      /\ live' = [live EXCEPT !.link = TRUE] /\ live \in LiveType
  BY DEF LinkAppears, Inv, Typed
<1>2. /\ live' \in LiveType /\ live'.link
      /\ live'.vkms = live.vkms /\ live'.uinput = live.uinput
      /\ live'.uinputMode = live.uinputMode /\ live'.groups = live.groups
      /\ live'.rules = live.rules /\ live'.display = live.display
      /\ live'.server = live.server
  BY <1>1 DEF LiveType
<1>3. \A s \in Steps : Provided(s) => Provided(s)'
  BY <1>1, <1>2 DEF Provided, Intended
<1>4. StepsLast'
  BY <1>1, <1>3 DEF Inv, StepsLast, Past, Finished, Steps
<1> QED
  BY <1>1, <1>2, <1>4 DEF Inv, Typed, RunStands, Finished, FileValues, Serving, UpAfterBoot

\* The binary and the configuration that an enabled service starts with are there.
LEMMA RestartsInv == Inv /\ ServerRestarts => Inv'
<1> SUFFICES ASSUME Inv, ServerRestarts PROVE Inv'
  OBVIOUS
<1>1. /\ disk' = disk /\ run' = run /\ edits' = edits /\ faults' = faults
      /\ live' = [live EXCEPT !.server = Server] /\ live \in LiveType
      /\ live.server # Down
  BY DEF ServerRestarts, Inv, Typed
<1>2. disk.vmdeskOn /\ disk.bin # 0 /\ Loads(disk.config)
  BY <1>1 DEF Inv, Serving, Loads
<1>3. Server \in Running \cup {Down} /\ Server # Down
      /\ Server = [bin |-> disk.bin, ports |-> Loaded(disk.config).ports]
  BY <1>2, ServerIs DEF Inv
<1>4. /\ live' \in LiveType /\ live'.server = Server
      /\ live'.vkms = live.vkms /\ live'.link = live.link /\ live'.uinput = live.uinput
      /\ live'.uinputMode = live.uinputMode /\ live'.groups = live.groups
      /\ live'.rules = live.rules /\ live'.display = live.display
  BY <1>1, <1>3 DEF LiveType
<1>5. Finished => Server = [bin |-> disk.bin, ports |-> run.config.ports]
  BY <1>3, CompletedDisk
<1>6. \A s \in Steps : Past(s) /\ s = "restart" => Finished
  <2>1. Place["restart"] = 23 /\ run.step \in 1 .. 23
    BY DEF Place, Inv, Typed, RunType
  <2> QED
    BY <2>1 DEF Past
<1>7. \A s \in Steps : Past(s) /\ Provided(s) => Provided(s)'
  BY <1>1, <1>3, <1>4, <1>5, <1>6 DEF Provided, Intended
<1>8. StepsLast'
  BY <1>1, <1>7 DEF Inv, StepsLast, Past, Finished, Steps
<1> QED
  BY <1>1, <1>2, <1>4, <1>8 DEF Inv, Typed, RunStands, Finished, FileValues, Serving, UpAfterBoot

LEMMA OutdatedRun ==
    ASSUME Typed, run.status # "running", Outdated
    PROVE  run' \in RunType /\ run'.status \notin {"running", "complete", "booted"}
<1>1. run \in RunType
  BY DEF Typed
<1>2. CASE run.status \in {"complete", "booted"}
  BY <1>2, NoRunTyped DEF Outdated
<1>3. CASE run.status \notin {"complete", "booted"}
  BY <1>1, <1>3 DEF Outdated
<1> QED
  BY <1>2, <1>3

LEMMA NewBinaryInv == Inv /\ NewBinary => Inv'
<1> SUFFICES ASSUME Inv, NewBinary PROVE Inv'
  OBVIOUS
<1>1. /\ run.status # "running" /\ disk.exe < MaxVersion /\ Outdated
      /\ disk' = [disk EXCEPT !.exe = disk.exe + 1, !.exeCap = FALSE]
      /\ live' = live /\ edits' = edits /\ faults' = faults /\ disk \in DiskType
  BY DEF NewBinary, Inv, Typed
<1>2. disk.exe + 1 \in 1 .. MaxVersion
  BY <1>1, BoundsAssumption DEF DiskType
<1>3. disk' \in DiskType
  BY <1>1, <1>2 DEF DiskType
<1>4. disk'.file = disk.file /\ disk'.config = disk.config /\ disk'.bin = disk.bin
      /\ disk'.vmdeskOn = disk.vmdeskOn
  BY <1>1 DEF DiskType
<1>5. Typed' /\ run'.status \notin {"running", "complete", "booted"}
  BY <1>1, <1>3, OutdatedRun DEF Inv, Typed
<1>6. FileValues' /\ Serving'
  BY <1>1, <1>4 DEF Inv, FileValues, Serving
<1> QED
  BY <1>5, <1>6, Ended

LEMMA EditInv == Inv /\ EditConfig => Inv'
<1> SUFFICES ASSUME Inv, EditConfig PROVE Inv'
  OBVIOUS
<1>1. /\ run.status # "running" /\ edits < MaxEdits /\ Outdated
      /\ disk.config \notin {Absent, Unparsable}
      /\ live' = live /\ edits' = edits + 1 /\ faults' = faults /\ disk \in DiskType
  BY DEF EditConfig, Inv, Typed
<1>2. PICK p \in Ports : disk' = [disk EXCEPT !.config.ports = p]
  BY DEF EditConfig
<1>3. [disk.config EXCEPT !.ports = p] \in Configs
  BY <1>1 DEF DiskType, Configs
<1> DEFINE new == [disk.config EXCEPT !.ports = p]
<1>4. disk' = [disk EXCEPT !.config = new] /\ new \in Configs
  BY <1>2, <1>3
<1> HIDE DEF new
<1>5. disk' \in DiskType /\ disk'.config = new
  BY <1>1, <1>4 DEF DiskType
<1>6. disk'.file = disk.file /\ disk'.bin = disk.bin /\ disk'.vmdeskOn = disk.vmdeskOn
  BY <1>1, <1>4 DEF DiskType
<1>7. edits' \in 0 .. MaxEdits
  BY <1>1, BoundsAssumption DEF Inv, Typed
<1>8. Typed' /\ run'.status \notin {"running", "complete", "booted"}
  BY <1>1, <1>5, <1>7, OutdatedRun DEF Inv, Typed
<1>9. disk'.config \notin {Absent, Unparsable}
  BY <1>4, <1>5, ConfigsLoad
<1>10. FileValues' /\ Serving'
  BY <1>1, <1>6, <1>9 DEF Inv, FileValues, Serving
<1> QED
  BY <1>8, <1>10, Ended

LEMMA Stutter == Inv /\ UNCHANGED vars => Inv'
  BY DEF Inv, vars, Typed, StepsLast, Past, Finished, Provided, Intended, RunStands, FileValues,
         Serving, UpAfterBoot, Steps

LEMMA NextInv == Inv /\ [Next]_vars => Inv'
  BY StartInv, StepInv, RunFailsInv, StepFailsInv, NoCardInv, RebootInv, LinkInv, RestartsInv,
     NewBinaryInv, EditInv, Stutter
  DEF Next

(***************************************************************************)
(* The theorems.                                                           *)
(***************************************************************************)
\* At every moment, in a run or between runs, what the past steps provided stands.
THEOREM SetupInvariant == Spec => []Inv
  BY InitInv, NextInv, PTL DEF Spec

\* Setup, its configuration, the card and the running system stay of their
\* types, whatever fails: only the card's name reaches the configuration of X,
\* and no step runs past the end.
THEOREM SetupTyped == Spec => []TypeOK
<1>1. Inv => TypeOK
  BY TypedIsTypeOK DEF Inv
<1> QED
  BY <1>1, SetupInvariant, PTL

\* "Idempotent: every step checks or overwrites its own file, so it can be re-run":
\* a run that completes provides everything, after any earlier runs that
\* failed, were interrupted, or had another binary or configuration.
THEOREM CompletedRunsProvision == Spec => []CompletedRunProvisions
<1>1. Inv => CompletedRunProvisions
  <2> SUFFICES ASSUME Inv, run.status = "complete" PROVE CompletedRunProvisions
    BY DEF CompletedRunProvisions
  <2>1. Finished
    BY DEF Finished
  <2>2. {"noblank", "xfconf", "setcap", "binary", "insert", "restart"} \subseteq Steps
    BY DEF Steps, Place
  <2>3. /\ Provided("noblank") /\ Provided("xfconf") /\ Provided("setcap")
        /\ Provided("binary") /\ Provided("insert") /\ Provided("restart")
    BY <2>1, <2>2, CompletedDisk
  <2>4. /\ \/ "desktop" \in run.warnings
           \/ disk.file["noblank"] = "whole" /\ disk.file["xfconf"] # "absent"
        /\ disk.binCap /\ (run.inPlace \/ disk.bin = disk.exe)
        /\ run.config.ports \in live.rules
        /\ live.server = [bin |-> disk.bin, ports |-> run.config.ports]
    BY <2>3 DEF Provided
  <2> QED
    BY <2>1, <2>4, CompletedDisk DEF CompletedRunProvisions
<1> QED
  BY <1>1, SetupInvariant, PTL

\* "Reboot so lightdm/XFCE start on vkms ... check everything: ./server doctor":
\* on a VM that booted after a completed run and was not changed since, every
\* check of the doctor passes, under any name the kernel gave the card.
THEOREM RebootedSetupPasses == Spec => []RebootedSetupIsHealthy
<1>1. Inv => RebootedSetupIsHealthy
  <2> SUFFICES ASSUME Inv, run.status = "booted", run.card = "byPath", "exeCap" \notin run.warnings
               PROVE  Doctor
    BY DEF RebootedSetupIsHealthy
  <2>1. Finished
    BY DEF Finished
  <2>2. {"setcap", "setcapExe", "restart"} \subseteq Steps
    BY DEF Steps, Place
  <2>3. Provided("setcap") /\ Provided("setcapExe") /\ Provided("restart")
    BY <2>1, <2>2, CompletedDisk
  <2>4. disk.binCap /\ (run.inPlace \/ disk.exeCap)
    BY <2>3 DEF Provided
  <2>10. live.server # Down
    <3>1. live.server = [bin |-> disk.bin, ports |-> run.config.ports]
      BY <2>3 DEF Provided
    <3>2. disk.bin \in 1 .. MaxVersion /\ run.config.ports \in Ports
      BY <2>1, CompletedDisk, BoundsAssumption DEF Inv, Typed, DiskType, RunType, Configs
    <3> QED
      BY <3>1, <3>2, StatesAssumption
  <2>5. /\ live.vkms /\ live.link /\ live.uinput /\ live.uinputMode /\ live.groups
        /\ run.config.ports \in live.rules /\ live.display
    BY DEF Inv, UpAfterBoot
  <2>6. /\ Loads(disk.config) /\ Loaded(disk.config).ports = run.config.ports
        /\ disk.groups /\ disk.vmdeskOn
    BY <2>1, CompletedDisk
  <2>7. disk.file["xorg"] # "absent"
    BY <2>1, CompletedDisk DEF SystemFiles, Intended
  <2>8. AllPass(DoctorChecks)
    <3>1. disk \in DiskType /\ live \in LiveType /\ run \in RunType
      BY DEF Inv, Typed
    <3>2. /\ live.vkms = TRUE /\ live.link = TRUE /\ live.display = TRUE
          /\ (live.uinput /\ live.uinputMode /\ live.groups) = TRUE
          /\ (IF run.inPlace THEN disk.binCap ELSE disk.exeCap) = TRUE
          /\ (Loaded(disk.config).ports \in live.rules) = TRUE
      BY <2>4, <2>5, <2>6, <3>1 DEF DiskType, LiveType, RunType
    <3>3. DoctorChecks = [vkms_module |-> TRUE, vkms_card |-> TRUE, xorg |-> TRUE,
                          capability |-> TRUE, uinput |-> TRUE, iptables |-> TRUE]
      BY <3>2, Zenon DEF DoctorChecks
    <3> QED
      BY <3>3 DEF AllPass
  <2>9. AllPass(DoctorWarnings)
    <3>1. /\ disk.groups = TRUE /\ (disk.file["xorg"] # "absent") = TRUE
          /\ (live.server # Down /\ disk.vmdeskOn) = TRUE
      BY <2>6, <2>7, <2>10 DEF Inv, Typed, DiskType
    <3>2. DoctorWarnings = [groups |-> TRUE, xorgConf |-> TRUE, service |-> TRUE]
      BY <3>1, Zenon DEF DoctorWarnings
    <3> QED
      BY <3>2 DEF AllPass
  <2> QED
    BY <2>6, <2>8, <2>9 DEF Doctor
<1> QED
  BY <1>1, SetupInvariant, PTL

\* A step on the disk that changes the configuration writes the missing file,
\* or is not of a run.
LEMMA ConfigStep ==
    ASSUME Inv, [Next]_vars, disk.config # Absent, disk'.config # disk.config
    PROVE  run.status # "running"
<1> SUFFICES ASSUME run.status = "running" PROVE disk'.config = disk.config
  OBVIOUS
<1>0. disk \in DiskType
  BY DEF Inv, Typed
<1>1. disk' \in HalfDone => disk'.config = disk.config
  BY HalfDoneDisk DEF Inv
<1>2. CASE Modprobe \/ DetectCard \/ UdevAdm \/ InsertRule \/ Chown \/ Restart
  BY <1>2 DEF Modprobe, DetectCard, UdevAdm, InsertRule, Chown, Restart
<1>3. CASE InstallPackages
  BY <1>0, <1>3 DEF InstallPackages, DiskType
<1>4. CASE WriteFile
  BY <1>0, <1>4 DEF WriteFile, DiskType
<1>5. CASE SetFlag
  BY <1>0, <1>5 DEF SetFlag, DiskType
<1>6. CASE AddToGroups \/ InstallBinary
  BY <1>0, <1>6 DEF AddToGroups, InstallBinary, DiskType
<1>7. CASE SetCap \/ SaveRules
  BY <1>0, <1>7 DEF SetCap, SaveRules, DiskType
<1>8. CASE WriteConfig
  BY <1>8 DEF WriteConfig
<1>9. CASE RunFails \/ StepFails \/ Reboot
  BY <1>1, <1>9 DEF RunFails, StepFails, Reboot
<1>10. CASE Start \/ NoCard \/ LinkAppears \/ ServerRestarts \/ NewBinary \/ EditConfig
  BY <1>10 DEF Start, NoCard, LinkAppears, ServerRestarts, NewBinary, EditConfig
<1>11. CASE UNCHANGED vars
  BY <1>11 DEF vars
<1> QED
  BY <1>2, <1>3, <1>4, <1>5, <1>6, <1>7, <1>8, <1>9, <1>10, <1>11 DEF Next, Step

\* "exists, left untouched": no run, complete, failed or interrupted, changes a
\* configuration file that it finds.
THEOREM ConfigIsKept == Spec => ConfigKept
<1>1. Inv /\ [Next]_vars =>
          [disk.config # Absent /\ disk'.config # disk.config => run.status # "running"]_vars
  BY ConfigStep
<1> QED
  BY <1>1, SetupInvariant, PTL DEF Spec, ConfigKept

\* What a step does to a server that runs.
LEMMA ServingStep ==
    ASSUME Inv, [Next]_vars, live.server # Down, live'.server = Down
    PROVE  disk'.file["unit"] = "torn"
<1>0. live \in LiveType /\ disk.vmdeskOn /\ disk.bin # 0 /\ Loads(disk.config)
      /\ disk.config # Absent
  BY DEF Inv, Typed, Serving, Loads
<1>1. Server # Down
  BY <1>0, ServerIs DEF Inv
<1>2. CASE Reboot
  <2>1. PICK c \in Cards : live' = Booted(c)'
    BY <1>2 DEF Reboot
  <2>2. CASE disk' = disk
    <3>1. disk' \in DiskType
      BY <2>2 DEF Inv, Typed
    <3>2. disk.file["unit"] \in {"torn", "whole"}
      BY <1>0 DEF Inv, Serving
    <3> QED
      BY <1>0, <2>1, <2>2, <3>1, <3>2, BootedIs
  <2>3. CASE disk' \in HalfDone
    <3>1. disk' \in DiskType /\ disk'.vmdeskOn /\ disk'.bin # 0 /\ disk'.config = disk.config
      BY <1>0, <2>3, HalfDoneDisk DEF Inv
    <3>2. disk'.file["unit"] \in {"torn", "whole"}
      BY <2>3, <3>1, HalfDoneServes
    <3> QED
      BY <1>0, <2>1, <3>1, <3>2, BootedIs
  <2> QED
    BY <1>2, <2>2, <2>3 DEF Reboot
<1>3. CASE Restart \/ ServerRestarts
  BY <1>0, <1>1, <1>3 DEF Restart, ServerRestarts, LiveType
<1>4. CASE Modprobe \/ UdevAdm \/ InsertRule \/ LinkAppears
  BY <1>0, <1>4 DEF Modprobe, UdevAdm, InsertRule, LinkAppears, LiveType
<1>5. CASE Start \/ RunFails \/ StepFails \/ NoCard \/ NewBinary \/ EditConfig
  BY <1>5 DEF Start, RunFails, StepFails, NoCard, NewBinary, EditConfig
<1>6. CASE DetectCard \/ InstallPackages \/ WriteFile \/ SetFlag \/ AddToGroups
  BY <1>6 DEF DetectCard, InstallPackages, WriteFile, SetFlag, AddToGroups
<1>7. CASE InstallBinary \/ SetCap \/ SaveRules \/ WriteConfig \/ Chown
  BY <1>7 DEF InstallBinary, SetCap, SaveRules, WriteConfig, Chown
<1>8. CASE UNCHANGED vars
  BY <1>8 DEF vars
<1> QED
  BY <1>2, <1>3, <1>4, <1>5, <1>6, <1>7, <1>8 DEF Next, Step

\* A server that runs is taken down by no run of setup, failed ones included, and
\* by no restart; a reboot loses it only with a unit file that a failed run tore.
THEOREM ServingGoesOn == Spec => UpgradeKeepsServing
<1>1. Inv /\ [Next]_vars =>
          [live.server # Down /\ live'.server = Down => disk'.file["unit"] = "torn"]_vars
  BY ServingStep
<1> QED
  BY <1>1, SetupInvariant, PTL DEF Spec, UpgradeKeepsServing
=============================================================================
