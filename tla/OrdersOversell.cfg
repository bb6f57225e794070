SPECIFICATION Spec
CONSTANTS
    o1 = o1  o2 = o2  o3 = o3
    u1 = u1  u2 = u2  vip = vip
    h1 = h1  h2 = h2  worker = worker
    OrderIds = {o1, o2, o3}
    Users = {u1, u2}
    Categories = {vip}
    Handlers = {h1}
    Worker = worker
    NoOrder = NoOrder
    Dto <- DtoSingles
    Category <- VipOne
    EventDate = 0
    ReminderHours = 0
    Attempts = 2
    MaxStalledCount = 1
    Traffic = {"checkout", "pay"}
    StatusRequests = {}
    MaxTicks = 0
    MaxDeclines = 2
    MaxRedeliveries = 0
    MaxFailures = 0
    MaxCrashes = 0
INVARIANTS
    NoOverselling
CHECK_DEADLOCK FALSE
