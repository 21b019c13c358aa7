SPECIFICATION Spec
CONSTANTS
    a = a
    b = b
    p = p
    Cards <- MCCards
    Cids <- MCCards
    CutsOf <- NoCuts
    Splits <- MCCards
    Foreign = Foreign
    NoCard = NoCard
    Dead = Dead
    NoCid = NoCid
    Projects <- MCProjects
    NoProject = NoProject
    Files <- TwoFiles
    NoFile = NoFile
    UserActs = {"clear", "import", "replug", "close"}
    MaxRetries = 3
    MaxFaults = 0
    MaxEvents = 2
    MaxDialogs = 2
SYMMETRY Symmetry
INVARIANTS
    ClaimedCardIsKept
    NoDuplicateCid
    CountMatchesList
