CONSTANTS
    a = a
    b = b
    l0 = l0
    None = None
    Dev <- MCDev
    Ndi <- MCNdi
    Iflinki <- MCIflinki
    Lower = {l0}
    NNds = 2
    NIflinks = 1
    Prio <- MCPrio
    Proto <- MCProto
    SbFrame <- MCSbFrame
    Foreign <- MCForeign
    MaxIn = 3
    Id <- MCWideId
    NIds = 4098
    NdiById <- MCWideNdiById
    Debug = FALSE
SPECIFICATION Spec
PROPERTY EchoReturnsToSender
