CONSTANTS
    n0 = n0  n1 = n1  n2 = n2
    Foreign = Foreign  NoNet = NoNet
    Net <- MCNet
    InitNet = n0
    XID <- MCXID
    Variant = {FALSE}
    RegFail = FALSE
    IfinfoFirst = TRUE
    MaxEv = 1
    MaxDump = 3
    MaxLife = 3
    Teardown = {FALSE}
    FibStopFirst = FALSE
SPECIFICATION Spec
SYMMETRY MCSymmetry
INVARIANT NoStaleFib
CHECK_DEADLOCK FALSE
