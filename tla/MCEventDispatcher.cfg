CONSTANTS
    a = a
    b = b
    c = c
    Pin = Pin
    Role = Role
    Classifier = Classifier
    Comps <- MCComps
    Names <- MCNames
    SysEvents <- MCSysEvents
    PacketIn <- Pin
    Configs <- MCConfigs
    MaxHandlers <- MCMaxHandlers
INIT EdInit
NEXT EdNext
SYMMETRY Symm
INVARIANT EdTypeOK
INVARIANT ConfigOrderHonoured
CHECK_DEADLOCK FALSE
