SPECIFICATION Spec
CONSTANTS
    o1 = o1  o2 = o2  o3 = o3
    u1 = u1  u2 = u2  vip = vip
    h1 = h1  h2 = h2  worker = worker
    OrderIds = {o1, o2}
    Users = {u1}
    Categories = {vip}
    Handlers = {worker}
    Worker = worker
    NoOrder = NoOrder
    Dto <- DtoTwo
    Category <- VipFour
    EventDate = 1
    ReminderHours = 0
    Attempts = 2
    MaxStalledCount = 1
    Traffic = {"checkout", "pay", "refund", "status"}
    StatusRequests = {"CANCELLED"}
    MaxTicks = 1
    MaxDeclines = 0
    MaxRedeliveries = 1
    MaxFailures = 1
    MaxCrashes = 1
INVARIANTS
    StockExact
    TicketLimit
    OnePurchaseMail
    OneRefund
    CancelledAreNotified
PROPERTIES
    FinalIsFinal
CHECK_DEADLOCK FALSE
