SPECIFICATION Spec
CONSTANTS
    Kinds = {"Pod", "Deployment", "Service"}
    PodControllers = {"Deployment"}
    Conds = {"named"}
    Users = {"admin", "dev"}
    DefaultListLimit = 2
    MaxPods = 3
    MaxResources = 3
    ObjectEvents = 1
    MaxTail = 4
    MaxLogBytes = 4
    MaxReportResults = 2
    Cases <- AllCases
    Holds <- HoldsAtAll
CHECK_DEADLOCK FALSE
INVARIANTS
    AnswerInv
    ShortAnswersAreWhole
    MissingRulesHaveAReason
    UnconditionalRulesApply
    ExemptionsAreMarked
    WorstFirst
    MaskedExactly
