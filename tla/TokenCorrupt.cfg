CONSTANTS
    Callers = {"refresh", "poll"}
    MaxLength = 2
    Orderly = TRUE
    MaxEndings = 0
SPECIFICATION Spec
PROPERTY TryLaterHelps
