SPECIFICATION Spec
CONSTANTS
    o1 = o1  o2 = o2  o3 = o3
    u1 = u1  u2 = u2  vip = vip
    h1 = h1  h2 = h2  worker = worker
    OrderIds = {o1, o2, o3}
    Users = {u1, u2}
    Categories = {vip}
    Handlers = {h1, h2}
    Worker = worker
    NoOrder = NoOrder
    Dto <- DtoThree
    Category <- VipTwo
    EventDate = 0
    ReminderHours = 0
    Attempts = 2
    MaxStalledCount = 1
    Traffic = {"checkout", "status"}
    StatusRequests = {"CANCELLED", "SOLD_OUT", "PUBLISHED"}
    MaxTicks = 0
    MaxDeclines = 0
    MaxRedeliveries = 0
    MaxFailures = 1
    MaxCrashes = 1
SYMMETRY Symmetry
PROPERTIES
    ImplementsLedger
CHECK_DEADLOCK FALSE
