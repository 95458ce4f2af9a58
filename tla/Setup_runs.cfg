SPECIFICATION FairSpec
CONSTANTS
    Ports = {p1, p2}
    DefaultPorts = p1
    Cards = {card0, card1}
    MaxVersion = 2
    MaxEdits = 1
    MaxFaults = 2
    Absent = Absent
    Unparsable = Unparsable
    Down = Down
INVARIANT TypeOK
INVARIANT CompletedRunProvisions
INVARIANT RebootedSetupIsHealthy
PROPERTY ConfigKept
PROPERTY UpgradeKeepsServing
PROPERTY SetupCompletes
\* After a run that left a configuration file that does not load there is
\* nothing the program does any more: Config::load stops every later run.
CHECK_DEADLOCK FALSE
