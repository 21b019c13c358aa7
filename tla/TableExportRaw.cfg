SPECIFICATION Spec
CONSTANTS
    a = a
    b = b
    p = p
    NoCid = NoCid
    NoProject = NoProject
    NoFile = NoFile
    Cids <- MCCids
    CutsOf <- MCCutsOf
    Projects <- MCProjects
    Files <- NoFiles
    UserActs = {"import", "export", "clear", "details", "edit"}
    MaxDialogs = 2
PROPERTIES
    ExportKeepsNames
