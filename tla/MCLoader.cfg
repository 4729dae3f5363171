CONSTANTS
    Libs = {"A", "B", "C", "D"}
    Progs = {"main"}
    Object <- MCObject
    Dirs <- MCDirs
    Names <- MCNames
    LibDir = "lib"
    LdPath <- MCLdPath
    Bare = "bare"
    NoFile = "nofile"
    Disks <- MCDisks
    Asked <- MCAsked
    MaxObjs = 5
    MaxOps = 4
SPECIFICATION Spec
CONSTRAINT Followed
CHECK_DEADLOCK FALSE
INVARIANTS  TornDownAsBuilt
