CONSTANTS
    l1 = l1
    l2 = l2
    l3 = l3
    x1 = x1
    x2 = x2
    Lower <- MCLower
    Upper <- MCUpper
    Outcome = {"reg_fail"}
    EarlyRmmod = FALSE
SPECIFICATION Spec
CHECK_DEADLOCK FALSE
INVARIANT NoUseAfterFree
