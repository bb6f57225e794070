SPECIFICATION Spec
CONSTANTS
    o1 = o1  o2 = o2  o3 = o3
    u1 = u1  u2 = u2  vip = vip
    h1 = h1  h2 = h2  worker = worker
    OrderIds = {o1}
    Users = {u1}
    Categories = {vip}
    Handlers = {h1}
    Worker = worker
    NoOrder = NoOrder
    Dto <- DtoOne
    Category <- VipThree
    EventDate = 0
    ReminderHours = 0
    Attempts = 2
    MaxStalledCount = 1
    Traffic = {"checkout", "pay"}
    StatusRequests = {}
    MaxTicks = 0
    MaxDeclines = 0
    MaxRedeliveries = 0
    MaxFailures = 0
    MaxCrashes = 0
PROPERTIES
    FinalIsFinal
CHECK_DEADLOCK FALSE
