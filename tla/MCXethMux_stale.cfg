CONSTANTS
    l1 = l1
    l2 = l2
    l3 = l3
    Loopback = Loopback
    NoLower = NoLower
    ToMux = ToMux
    Untagged = Untagged
    ToNone = ToNone
    Lower <- MCLower
    Busy <- MCBusy
    XID <- MCXID
    Vid <- MCVid
    Pcp <- MCPcp
    MaxRx = 2
    MaxTx = 2
SPECIFICATION Spec
PROPERTY NoLowerIsTxError
