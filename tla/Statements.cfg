CONSTANTS
    NULL = NULL
    IsCase <- AnyCase
    MaxChanges = 2
SPECIFICATION Spec
INVARIANTS
    AnswerIsRight
    PlanServes
    OneRowPerWrite
    NoLostUpdate
    WriteReaches
    AffectsMatching
