SPECIFICATION Spec
CONSTANTS
    Events = {e1}
    Categories = {c1}
    Orders = {o1}
    Files = {f1, f2, f3}
    Handlers = {h1, h2}
    None = None
    Endpoint = TRUE
    MaxFailures = 1
SYMMETRY
    Symmetry
INVARIANTS
    TypeOK
    RowsAreThere
    PosterIsStored
    NoFileForgotten
CHECK_DEADLOCK FALSE
