SPECIFICATION Spec
CONSTANTS
    x1 = x1
    x2 = x2
    Exec <- TwoExecutions
    Items <- TwoItemsAndOne
INVARIANTS TypeOK PassIsJustified BlockedGoesNoFurther
CHECK_DEADLOCK FALSE
