SPECIFICATION FairSpec
CHECK_DEADLOCK FALSE
CONSTANTS
    Segments <- MCSegments
    None = None
    Files = {f1, f2}
    Contents <- MCContents
    FirstDisks <- MCFirstDisks
    ToolsYamls <- MCToolsYamls
    Broken = Broken
    Absent = Absent
    MaxReloads = 2
    Clients = {stdio}
    MaxEdits = 1
    SomeSchemas <- MCSchemas
INVARIANTS
    ReloadTakesEffect
    ValidatorDecides
    CompiledIsValid
PROPERTY
    ClientCatchesUp
