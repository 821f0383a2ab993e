CONSTANTS
    n0 = n0  n1 = n1  n2 = n2
    Foreign = Foreign  NoNet = NoNet
    Net <- MCNet2
    InitNet = n0
    XID <- MCXID
    Variant = {TRUE, FALSE}
    RegFail = FALSE
    IfinfoFirst = TRUE
    MaxEv = 1
    MaxDump = 3
    MaxLife = 3
    Teardown = {FALSE}
    FibStopFirst = TRUE
SPECIFICATION Spec
INVARIANT TypeOK RouteReportedOnce NoStaleFib
PROPERTY QuietAfterStop
CHECK_DEADLOCK FALSE
