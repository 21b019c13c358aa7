SPECIFICATION Spec
CONSTANTS
    a = a
    b = b
    p = p
    NoCid = NoCid
    NoProject = NoProject
    NoFile = NoFile
    Cids <- MCCids
    CutsOf <- MCCutsOf
    Projects <- MCProjects
    Files <- AllFiles
    UserActs = {"import", "export", "clear", "details", "edit"}
    MaxDialogs = 2
INVARIANTS
    CountMatchesList
