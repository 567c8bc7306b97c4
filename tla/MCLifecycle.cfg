SPECIFICATION Spec
CONSTANTS
    Lines <- MCLines
    MaxLines = 4
    Names <- MCNames
    Words <- MCWords
    Lower <- MCLower
    Number <- MCNumber
    LightSection <- MCLightSection
    Clients = {"client"}
CHECK_DEADLOCK FALSE
INVARIANTS
    ReadAsWritten
    GlobalsInPlace
    CleanExit
    LightsUsable
    StartsAsConfigured
