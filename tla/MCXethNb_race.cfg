CONSTANTS
    n0 = n0  n1 = n1  n2 = n2
    Foreign = Foreign  NoNet = NoNet
    Net <- MCNet
    InitNet = n0
    XID <- MCXID
    Variant = {FALSE}
    RegFail = FALSE
    IfinfoFirst = TRUE
    MaxEv = 1
    MaxDump = 3
    MaxLife = 3
    Teardown = {}
    FibStopFirst = TRUE
SPECIFICATION Spec
CHECK_DEADLOCK FALSE
INVARIANT FibCovered
