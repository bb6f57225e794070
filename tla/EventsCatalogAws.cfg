SPECIFICATION Spec
CONSTANTS
    Events = {e1}
    Categories = {c1}
    Orders = {o1}
    Files = {f1, f2}
    Handlers = {h1}
    None = None
    Endpoint = FALSE
    MaxFailures = 0
PROPERTY
    OldPosterDeleted
CHECK_DEADLOCK FALSE
