SPECIFICATION FairSpec
CONSTANTS
    None = None
    n1 = n1
    n2 = n2
    Nodes = {n1, n2}
    Callables <- MCCallables
    References <- MCReferences
    TaskChoices <- MCTaskChoices
    Conditions <- MCConditions
    MaxEdges = 1
    SchedulerRoots = {None, "root"}
    Home <- MCHome
    Roots = {"root", "elsewhere"}
    Mains = {"cli.py"}
    FileAt <- MCFileAt
    Stem <- MCStem
    OnPath <- MCOnPath
    Defined <- MCDefined
    MaxStarts = 2
    MaxFaults = 1
INVARIANTS
    SurvivesSaving
    RightFunction
    
    
PROPERTIES
    CommandsEnd
CHECK_DEADLOCK FALSE
