CONSTANTS
    Callers = {"refresh", "poll"}
    MaxLength = 1
    Orderly = TRUE
    MaxEndings = 2
SPECIFICATION Spec
INVARIANT TypeOK
PROPERTIES  TryLaterHelps RevocationIsReported
