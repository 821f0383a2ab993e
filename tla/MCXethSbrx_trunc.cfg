CONSTANTS
    XID <- MCXID
    ProxyKind <- MCProxyKind
    Flag = {on, off}
    CarrierOn = on
    Value <- MCValue
    MaxMsg = 3
SPECIFICATION Spec
CHECK_DEADLOCK FALSE
CONSTANT Form <- MCAllForms
PROPERTY OnlyAddressedProxyChanges
