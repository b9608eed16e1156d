\* A worker that logs a server error once the writer has its locks.
SPECIFICATION Spec
CONSTANTS
    Parts = {"log"}
    MaxTime = 2
    r1 = r1  r2 = r2
    Requests = {r1, r2}
    client = client  proxy = proxy
    Addresses = {client, proxy}
    TrustedProxies = {proxy}
    NoHeader = NoHeader
    Malformed = Malformed
    list = list  item = item
    Traffic <- SomeTraffic
    Routes = {list, item}
    Limit <- LimitOfRoutes
    Window <- WindowOfRoutes
    Capacities = {1, 2}
    MaxGenerations = 4
    CacheKeys = {client, proxy}
    Values = {list, item}
    LargeValues = {item}
    Lifetimes = {1, 2}
    NoLifetime = NoLifetime
    Sizes = {0, 1, 2}
    h1 = h1  h2 = h2
    Handlers = {h1, h2}
    p1 = p1  p2 = p2
    Emitters = {p1, p2}
    MaxEmits = 1
    s1 = s1  s2 = s2
    Subscribers = {s1, s2}
    BusCapacity = 1
    t1 = t1  t2 = t2  t3 = t3
    Threads = {t1, t2}
    MaxRequests = 2
    QueueCapacity = 1
    BatchSize = 2
    OwnSubscriber = {TRUE, FALSE}
    ErrorsShown = {TRUE, FALSE}
CHECK_DEADLOCK FALSE
PROPERTY LoggingReturns
