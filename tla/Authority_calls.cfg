SPECIFICATION Spec
CONSTANTS
    Segments <- Words
    Slots = {s1, s2, s3}
    Tools <- AllTools
    WorkflowTools <- OneWorkflow
    AiComplete <- Complete
    Spawn <- SpawnT
    Schedule <- Create
    Registries <- MCRegistries
    Alias <- MCAlias
    GuardOf <- MCGuards
    Inputs <- MCInputs
    Sessions <- MCSessions
    Grants <- MCGrants
    Whitelists <- MCWhitelists
    WorkflowCaps <- MCCaps
    MaxChildDepth = 2
    MaxIterations = 1
    MaxTraces = 2
    MaxTimers = 1
    SomePatterns <- MCPatterns
    SomeGlobs <- MCGlobs
    SomeTexts <- MCTexts
SYMMETRY SlotSymmetry
CHECK_DEADLOCK FALSE
INVARIANTS AuthorityNeverGrows OneTrace RulesAgree GlobsMatch
