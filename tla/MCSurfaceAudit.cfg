SPECIFICATION AuditSpec
CONSTANTS
    Names = {"api", "disk"}
    Channels = {"network"}
    Boundaries = {"gateway", "spaces"}
    Blank = {"spaces"}
    MaxSurfaces = 3
INVARIANTS AuditTypeOK VerdictRight DuplicatesReported
