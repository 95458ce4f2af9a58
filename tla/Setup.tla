-------------------------------- MODULE Setup --------------------------------
(***************************************************************************)
(* `server setup`, which provisions the VM (server/src/setup.rs), started  *)
(* by main and its configuration file (main.rs, config.rs), and `server    *)
(* doctor`, which looks at the result (doctor.rs).                         *)
(*                                                                         *)
(* A run is a sequence of steps on the disk and on the running system.     *)
(* Every step may fail, and a run may be interrupted at any step or by a   *)
(* reboot; the administrator runs it again, also after copying a new       *)
(* binary or editing the configuration.  A file being written when its run *)
(* ends is left torn: std::fs::write truncates it first.                   *)
(*                                                                         *)
(* Definitions named Mut... are deliberate faults for the definition that  *)
(* follows them; no specification uses them.                               *)
(***************************************************************************)
EXTENDS Integers, Sequences

CONSTANTS
    Ports,         \* UDP port ranges a configuration may have
    DefaultPorts,  \* the range of Config::default
    Cards,         \* names the kernel may give the vkms card: /dev/dri/card<n>
    MaxVersion,    \* bound: binaries copied to the VM
    MaxEdits,      \* bound: edits of the configuration file
    MaxFaults,     \* bound: failed steps and interruptions
    Absent, Unparsable,  \* a configuration file that is not there, that does not load
    Down           \* the server does not run

ASSUME PortsAssumption == DefaultPorts \in Ports
ASSUME CardsAssumption == "byPath" \notin Cards /\ "torn" \notin Cards /\ "absent" \notin Cards
ASSUME StatesAssumption ==
    /\ {Absent, Unparsable} \cap [ports : Ports, card : {"auto", "byPath"}] = {}
    /\ Down \notin [bin : 1 .. MaxVersion, ports : Ports]
ASSUME BoundsAssumption == MaxVersion \in Nat \ {0} /\ MaxEdits \in Nat /\ MaxFaults \in Nat

VARIABLES
    disk,    \* what survives a reboot
    live,    \* the running system
    run,     \* the setup process, or how the last one ended
    edits, faults

vars == <<disk, live, run, edits, faults>>

SystemFiles == {"xorg", "lightdm", "modules", "udev", "unit"}
\* "xfconf" stands for the two XML files of XFCE, which are treated alike.
UserFiles == {"noblank", "xfconf"}

\* The steps of a run, in order; a step named like a file writes that file.
Order == <<"modprobe", "detect", "apt", "xorg", "lightdm", "graphical", "lightdmOn",
           "modules", "udev", "udevadm", "usermod", "binary", "setcap", "setcapExe",
           "insert", "save", "config", "noblank", "xfconf", "chown",
           "unit", "vmdeskOn", "restart">>

\* What a run may complete without.
Warnings == {"modprobe", "udevadm", "exeCap", "desktop"}

Configs == [ports : Ports, card : {"auto", "byPath"}]
Default == [ports |-> DefaultPorts, card |-> "auto"]

TypeOK ==
    /\ disk \in [file : [SystemFiles \cup UserFiles -> {"absent", "torn", "whole", "byPath"} \cup Cards],
                 config : Configs \cup {Absent, Unparsable},
                 bin : 0 .. MaxVersion, binCap : BOOLEAN, tmp : BOOLEAN,
                 exe : 1 .. MaxVersion, exeCap : BOOLEAN,
                 pkgs : BOOLEAN, groups : BOOLEAN, rules : SUBSET Ports,
                 graphical : BOOLEAN, lightdmOn : BOOLEAN, vmdeskOn : BOOLEAN]
    /\ live \in [vkms : BOOLEAN, uinput : BOOLEAN, uinputMode : BOOLEAN, groups : BOOLEAN,
                 card : Cards, link : BOOLEAN, rules : SUBSET Ports, display : BOOLEAN,
                 server : [bin : 1 .. MaxVersion, ports : Ports] \cup {Down}]
    /\ run \in [status : {"never", "running", "failed", "complete", "booted", "outdated"},
                step : 1 .. Len(Order), card : {"none", "byPath"} \cup Cards,
                config : Configs, apt : BOOLEAN, inPlace : BOOLEAN, warnings : SUBSET Warnings]
    /\ edits \in 0 .. MaxEdits
    /\ faults \in 0 .. MaxFaults

\* No process, and none whose result still counts.
NoRun(status) ==
    [status |-> status, step |-> 1, card |-> "none", config |-> Default,
     apt |-> TRUE, inPlace |-> FALSE, warnings |-> {}]

\* A fresh Ubuntu VM to which ./server was copied.
Init ==
    /\ disk = [file |-> [f \in SystemFiles \cup UserFiles |-> "absent"],
               config |-> Absent, bin |-> 0, binCap |-> FALSE, tmp |-> FALSE,
               exe |-> 1, exeCap |-> FALSE, pkgs |-> FALSE, groups |-> FALSE, rules |-> {},
               graphical |-> FALSE, lightdmOn |-> FALSE, vmdeskOn |-> FALSE]
    /\ \E c \in Cards :
          live = [vkms |-> FALSE, uinput |-> FALSE, uinputMode |-> FALSE, groups |-> FALSE,
                  card |-> c, link |-> FALSE, rules |-> {}, display |-> FALSE, server |-> Down]
    /\ run = NoRun("never")
    /\ edits = 0
    /\ faults = 0

-----------------------------------------------------------------------------
(* The run *)

\* Config::load: a missing file means the defaults, an unparsable one an error.
Loads(config) == config # Unparsable
Loaded(config) == IF config = Absent THEN Default ELSE config

\* main loads the configuration and calls setup::run, with or without
\* --skip-apt, from ./server or from the installed binary.
Start ==
    /\ run.status # "running"
    /\ Loads(disk.config)
    /\ \E apt \in {TRUE, ~disk.pkgs}, inPlace \in {FALSE, disk.bin # 0} :
          run' = [status |-> "running", step |-> 1, card |-> "none",
                  config |-> Loaded(disk.config), apt |-> apt, inPlace |-> inPlace,
                  warnings |-> {}]
    /\ UNCHANGED <<disk, live, edits, faults>>

At(step) == run.status = "running" /\ Order[run.step] = step

MutAdvance == run' = [run EXCEPT !.step = @ + 1]  \* no end

\* On to the next step, or the end.
Advance ==
    run' = IF run.step = Len(Order) THEN [run EXCEPT !.status = "complete"]
                                    ELSE [run EXCEPT !.step = @ + 1]

Done == Advance /\ UNCHANGED <<edits, faults>>

\* modprobe vkms, modprobe uinput; udev makes the by-path link a little later.
Modprobe ==
    /\ At("modprobe")
    /\ live' = [live EXCEPT !.vkms = TRUE, !.uinput = TRUE]
    /\ Done
    /\ UNCHANGED disk

\* find_card opens the configured card, or looks for the driver vkms.
CardFound == live.link \/ (live.vkms /\ run.config.card = "auto")

\* detect_vkms_card: the by-path link, else the card find_card finds.
DetectCard ==
    /\ At("detect")
    /\ CardFound
    /\ run' = [run EXCEPT !.step = @ + 1,
                          !.card = IF live.link THEN "byPath" ELSE live.card]
    /\ UNCHANGED <<disk, live, edits, faults>>

\* install_packages: netfilter-persistent saves the rules it finds.
InstallPackages ==
    /\ At("apt")
    /\ disk' = IF run.apt /\ ~disk.pkgs
                 THEN [disk EXCEPT !.pkgs = TRUE, !.rules = live.rules]
                 ELSE disk
    /\ Done
    /\ UNCHANGED live

MutIntendedKernelName(f) == IF f = "xorg" THEN live.card ELSE "whole"

\* What the run puts into file f.
Intended(f) == IF f = "xorg" THEN run.card ELSE "whole"

MutKeepsFile(f) == disk.file[f] # "absent"

\* xfce_no_blank leaves the XML files alone if they exist.
KeepsFile(f) == f = "xfconf" /\ disk.file[f] # "absent"

\* write_file, of the step's own file.
WriteFile ==
    /\ \E f \in SystemFiles \cup UserFiles :
          /\ At(f)
          /\ disk' = IF KeepsFile(f) THEN disk ELSE [disk EXCEPT !.file[f] = Intended(f)]
    /\ Done
    /\ UNCHANGED live

\* systemctl set-default, systemctl enable lightdm, usermod -aG; for the
\* service daemon-reload comes first.
SetFlag ==
    /\ \E f \in {"graphical", "lightdmOn", "vmdeskOn"} : At(f) /\ disk' = [disk EXCEPT ![f] = TRUE]
    /\ Done
    /\ UNCHANGED live

AddToGroups ==
    /\ At("usermod")
    /\ disk' = [disk EXCEPT !.groups = TRUE]
    /\ Done
    /\ UNCHANGED live

\* udevadm, and chgrp and chmod of a device that is there.
UdevAdm ==
    /\ At("udevadm")
    /\ live' = [live EXCEPT !.uinputMode = live.uinput]
    /\ Done
    /\ UNCHANGED disk

MutInstallBinaryExclusive ==  \* refuses to overwrite the temporary file
    /\ At("binary")
    /\ ~disk.tmp
    /\ disk' = [disk EXCEPT !.bin = disk.exe, !.binCap = FALSE]
    /\ Done
    /\ UNCHANGED live

\* install_binary: a copy beside the target renamed over it; the new file has
\* no capability yet.
InstallBinary ==
    /\ At("binary")
    /\ disk' = IF run.inPlace THEN disk
               ELSE [disk EXCEPT !.bin = disk.exe, !.binCap = FALSE, !.tmp = FALSE]
    /\ Done
    /\ UNCHANGED live

\* setcap of the installed binary, then of the one that is running.
SetCap ==
    /\ \/ At("setcap") /\ disk' = [disk EXCEPT !.binCap = TRUE]
       \/ At("setcapExe") /\ disk' = IF run.inPlace THEN disk ELSE [disk EXCEPT !.exeCap = TRUE]
    /\ Done
    /\ UNCHANGED live

\* firewall, first half: iptables -C, and -I if the rule is not there.
InsertRule ==
    /\ At("insert")
    /\ live' = [live EXCEPT !.rules = @ \cup {run.config.ports}]
    /\ Done
    /\ UNCHANGED disk

\* firewall, second half: save all rules, also when the rule was there.
SaveRules ==
    /\ At("save")
    /\ disk' = [disk EXCEPT !.rules = live.rules]
    /\ Done
    /\ UNCHANGED live

\* What setup writes: the loaded configuration, with the by-path card.
WrittenConfig ==
    IF live.link THEN [run.config EXCEPT !.card = "byPath"] ELSE run.config

MutWriteConfigAlways ==
    /\ At("config")
    /\ disk' = [disk EXCEPT !.config = [Default EXCEPT !.card = "byPath"]]
    /\ Done
    /\ UNCHANGED live

\* An existing configuration file is left untouched.
WriteConfig ==
    /\ At("config")
    /\ disk' = IF disk.config = Absent THEN [disk EXCEPT !.config = WrittenConfig] ELSE disk
    /\ Done
    /\ UNCHANGED live

Chown ==
    /\ At("chown")
    /\ Done
    /\ UNCHANGED <<disk, live>>

\* What `run --config` starts as, from what is on the disk.
Server ==
    IF disk.bin # 0 /\ Loads(disk.config)
      THEN [bin |-> disk.bin, ports |-> Loaded(disk.config).ports]
      ELSE Down

\* systemctl restart vmdesk, the last step.
Restart ==
    /\ At("restart")
    /\ live' = [live EXCEPT !.server = Server]
    /\ Done
    /\ UNCHANGED disk

Step ==
    \/ Modprobe \/ DetectCard \/ InstallPackages \/ WriteFile \/ SetFlag \/ AddToGroups \/ UdevAdm
    \/ InstallBinary \/ SetCap \/ InsertRule \/ SaveRules \/ WriteConfig \/ Chown \/ Restart

-----------------------------------------------------------------------------
(* What goes wrong, and what else happens on the VM *)

MutHalfDoneInPlace ==  \* the binary copied onto the installed one
    IF Order[run.step] = "binary" THEN {disk, [disk EXCEPT !.bin = 0]} ELSE {disk}

\* A truncated configuration: cut within a line it does not load, or its ports do
\* not; cut between two lines it loads, with defaults for what is missing; cut
\* within a number it loads with other ports.
TruncatedConfigs == {Unparsable, WrittenConfig} \cup [ports : Ports, card : {Default.card}]

\* What an unfinished step may leave on the disk.
HalfDone ==
    LET step == Order[run.step] IN
    {disk} \cup
    (IF step \in DOMAIN disk.file /\ ~KeepsFile(step)
       THEN {[disk EXCEPT !.file[step] = "torn"]} ELSE {}) \cup
    (IF step = "config" /\ disk.config = Absent
       THEN {[disk EXCEPT !.config = c] : c \in TruncatedConfigs} ELSE {}) \cup
    (IF step = "binary" /\ ~run.inPlace THEN {[disk EXCEPT !.tmp = TRUE]} ELSE {})

Fault == faults < MaxFaults /\ faults' = faults + 1

\* The process is killed, or a step fails whose error ends the run.
RunFails ==
    /\ run.status = "running"
    /\ Fault
    /\ disk' \in HalfDone
    /\ run' = NoRun("failed")
    /\ UNCHANGED <<live, edits>>

\* A step fails and the run goes on: the card may still be there, a binary stays
\* without its capability, a device keeps its mode, and what xfce_no_blank had
\* left to do is skipped.
StepFails ==
    /\ run.status = "running"
    /\ Fault
    /\ disk' \in HalfDone
    /\ \/ /\ Order[run.step] \in {"modprobe", "udevadm"}
          /\ run' = [run EXCEPT !.warnings = @ \cup {Order[run.step]}, !.step = @ + 1]
       \/ /\ Order[run.step] = "setcapExe" /\ ~run.inPlace
          /\ run' = [run EXCEPT !.warnings = @ \cup {"exeCap"}, !.step = @ + 1]
       \/ /\ Order[run.step] \in UserFiles \cup {"chown"}
          /\ run' = [run EXCEPT !.warnings = @ \cup {"desktop"},
                                !.step = CHOOSE i \in DOMAIN Order : Order[i] = "unit"]
    /\ UNCHANGED <<live, edits>>

\* Without the card, detect_vkms_card bails.
NoCard ==
    /\ At("detect")
    /\ ~CardFound
    /\ run' = NoRun("failed")
    /\ UNCHANGED <<disk, live, edits, faults>>

\* The system after a boot that calls the vkms card c: systemd loads the modules
\* and the saved rules, udev makes the link, lightdm starts Xorg.
Booted(c) ==
    LET modules == disk.file["modules"] = "whole"
        desktop == /\ disk.pkgs /\ disk.lightdmOn /\ disk.graphical
                   /\ disk.file["lightdm"] = "whole"
                   /\ disk.file["xorg"] \in {"byPath", c}
    IN  [vkms |-> modules, uinput |-> modules,
         uinputMode |-> modules /\ disk.file["udev"] = "whole",
         groups |-> disk.groups, card |-> c, link |-> modules,
         rules |-> IF disk.pkgs THEN disk.rules ELSE {},
         display |-> modules /\ desktop,
         server |-> IF disk.vmdeskOn /\ disk.file["unit"] = "whole" THEN Server ELSE Down]

\* The card's name may change from boot to boot; its by-path link does not.
Reboot ==
    /\ IF run.status = "running" THEN disk' \in HalfDone ELSE UNCHANGED disk
    /\ IF run.status \in {"complete", "booted"} THEN UNCHANGED faults ELSE Fault
    /\ run' = CASE run.status = "running"  -> NoRun("failed")
                [] run.status = "complete" -> [run EXCEPT !.status = "booted"]
                [] OTHER -> run
    /\ \E c \in Cards : live' = Booted(c)'
    /\ UNCHANGED edits

\* udev has handled the new card.
LinkAppears ==
    /\ live.vkms /\ ~live.link
    /\ live' = [live EXCEPT !.link = TRUE]
    /\ UNCHANGED <<disk, run, edits, faults>>

\* Restart=always: the service ends and systemd starts it again.
ServerRestarts ==
    /\ live.server # Down
    /\ live' = [live EXCEPT !.server = Server]
    /\ UNCHANGED <<disk, run, edits, faults>>

Outdated == run' = IF run.status \in {"complete", "booted"} THEN NoRun("outdated") ELSE run

\* A new ./server is copied to the VM.
NewBinary ==
    /\ run.status # "running"
    /\ disk.exe < MaxVersion
    /\ disk' = [disk EXCEPT !.exe = @ + 1, !.exeCap = FALSE]
    /\ Outdated
    /\ UNCHANGED <<live, edits, faults>>

\* The administrator edits the configuration file.
EditConfig ==
    /\ run.status # "running"
    /\ edits < MaxEdits
    /\ disk.config \notin {Absent, Unparsable}
    /\ \E p \in Ports \ {disk.config.ports} : disk' = [disk EXCEPT !.config.ports = p]
    /\ edits' = edits + 1
    /\ Outdated
    /\ UNCHANGED <<live, faults>>

Next ==
    \/ Start \/ Step \/ RunFails \/ StepFails \/ NoCard
    \/ Reboot \/ LinkAppears \/ ServerRestarts \/ NewBinary \/ EditConfig

Spec == Init /\ [][Next]_vars

\* The process runs, udev handles a new card, and the administrator tries again
\* until a run completes.
Fairness ==
    /\ WF_vars(LinkAppears)
    /\ WF_vars(Step \/ NoCard)
    /\ WF_vars(run.status \notin {"complete", "booted"} /\ Start)

FairSpec == Spec /\ Fairness

-----------------------------------------------------------------------------
(* server doctor, called as the binary that ran the setup *)

\* What doctor reports as FAIL: each check with its outcome.
DoctorChecks ==
    [vkms_module |-> live.vkms,
     vkms_card   |-> IF Loaded(disk.config).card = "byPath" THEN live.link ELSE live.vkms,
     xorg        |-> live.display,
     capability  |-> IF run.inPlace THEN disk.binCap ELSE disk.exeCap,
     uinput      |-> live.uinput /\ live.uinputMode /\ live.groups,
     iptables    |-> Loaded(disk.config).ports \in live.rules]

\* What it reports as WARN.
DoctorWarnings ==
    [groups   |-> disk.groups,
     xorgConf |-> disk.file["xorg"] # "absent",
     service  |-> live.server # Down /\ disk.vmdeskOn]

AllPass(checks) == \A c \in DOMAIN checks : checks[c]

Doctor == Loads(disk.config) /\ AllPass(DoctorChecks) /\ AllPass(DoctorWarnings)

-----------------------------------------------------------------------------
(* Properties *)

\* "Idempotent: every step checks or overwrites its own file, so it can be re-run
\* after changing the binary or the configuration": whatever earlier runs left
\* behind, after a completed one every system file and the autostart entry have
\* this run's content, the binary is the one that ran, the rules on disk and in
\* the kernel admit the configured ports, and the service runs the installed
\* binary on those ports.  Of the XML files of XFCE only that they exist: one that
\* an earlier run tore is left untouched (KeepsFile), by every later run too.
CompletedRunProvisions ==
    run.status = "complete" =>
        /\ \A f \in SystemFiles : disk.file[f] = Intended(f)
        /\ \/ "desktop" \in run.warnings
           \/ disk.file["noblank"] = "whole" /\ disk.file["xfconf"] # "absent"
        /\ disk.pkgs /\ disk.groups /\ disk.graphical /\ disk.lightdmOn /\ disk.vmdeskOn
        /\ disk.binCap /\ (run.inPlace \/ disk.bin = disk.exe)
        /\ run.config.ports \in disk.rules \cap live.rules
        /\ Loads(disk.config) /\ Loaded(disk.config).ports = run.config.ports
        /\ live.server = [bin |-> disk.bin, ports |-> run.config.ports]

\* "Reboot so lightdm/XFCE start on vkms ... check everything: ./server doctor":
\* once a completed setup is rebooted, doctor finds nothing, not even when the
\* kernel names the card differently - provided the setup found the card by its
\* link, and could give its own binary the capability.
RebootedSetupIsHealthy ==
    run.status = "booted" /\ run.card = "byPath" /\ "exeCap" \notin run.warnings => Doctor

\* "exists, left untouched": no run changes a configuration file that is there.
ConfigKept == [][disk.config # Absent /\ disk'.config # disk.config => run.status # "running"]_vars

\* A server that runs keeps running, restarts and failed upgrades included; only
\* a unit file torn by a failed run and a reboot after it can take it down.
UpgradeKeepsServing ==
    [][live.server # Down /\ live'.server = Down => disk'.file["unit"] = "torn"]_vars

\* A setup that is run again until it completes does complete, unless a run was
\* interrupted while it wrote the configuration file and left one that does not
\* load: from then on no run gets past Config::load.
SetupCompletes ==
    []<>(run.status \in {"complete", "booted"}) \/ <>[]~Loads(disk.config)

=============================================================================
