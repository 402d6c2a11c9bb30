SPECIFICATION Spec
CONSTANTS
    Line <- MCLine
    PathSection = {"path.a", "path.b"}
    Number <- MCNumber
    ValidKey = {"64 hex"}
    MaxPaths = 2
    MaxK = 16
    MaxWindow = 16
    MaxPayload = 1400
    MaxRoutes = 1
    MaxLines = 4
    MaxReloadLines = 2
INVARIANT TypeOK
INVARIANT ParsedAsWritten
PROPERTY StartupSettingsKept
PROPERTY ReloadTakesSectionAtPlace
CHECK_DEADLOCK FALSE
