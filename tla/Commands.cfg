\* Two runs of the installer with an edit of Claude Desktop's; a validation, a
\* change and a server; three golden cases against every tolerance; five messages
\* of an ASGI host; three turns on a memory nobody has opened.
SPECIFICATION MCSpec
CONSTANTS
    Options = {o1, o2}
    LauncherOf <- MCLauncherOf
    Hand = hand
    NoFile = nofile
    MaxInstalls = 2
    MaxEdits = 1
    Files <- MCFiles
    Environs <- MCEnvirons
    MaxCommands = 2
    MaxChanges = 1
    MaxMessages = 5
    Turns = {t1, t2, t3}
    MemoryThreads = 2
    MaxCases = 3
    Tolerances = {0, 5000, 6666, 6667, 10000}
INVARIANTS
    FailedInstallUndone
    KilledRunCanBeRepeated
    ValidatedServes
    NeverOpenByAccident
    ManagerLeftOnce
    AcksAreTrue
    OpenErrorIsTrue
    GreenMeansVerified
PROPERTIES
    EntriesPointAtTheirFiles
    ReplacedConfigIsBackedUp
