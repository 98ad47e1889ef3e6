SPECIFICATION NetSpec
CONSTANTS
    Frame = {5, 10}
    RingSize = 40
    Descriptors = 2
    ResponseSize = 16
    Clients = {"get", "chat", "discord", "download", "api", "ntfy", "dns", "ping"}
    Retry = 1
    NumPorts = 6
    PING_COUNT = 2
    PORT_TRIES = 3
    RingFrames = 2
    ResponseFrames = 2
    HttpFrames = 4
    UsedBefore = {{2, 3}}
    MaxRequests = 1
    MaxArrivals = 3
    MAX_ELEMENTS = 3
    TEXT_SIZE = 8
    LINE_LEN = 8
    MAX_LINES = 9
    MAX_LINKS = 2
    MAX_PELEMS = 3
    PER_LINE = 6
    Handles = 2
    MAX_HISTORY = 3
    PAGE_ROWS = 3
    CONTENT_H = 50
    Typed <- TypedUrls
    Site <- SitePages
    Retries = {0, 2}
    Names = {"p", "q", "d"}
    Rsh = {"p", "q"}
    Dirs = {"d"}
    Indexes <- IndexLists
    Targets <- TargetLists
    ModuleNames = {"reply", "fetch", "emoji", "odd", "delete", "react", "send"}
    NameSets <- NamesUsed
    KindOf <- ModuleKinds
    MAX_MODULES = 2
    MSG_CACHE_SIZE = 2
    MessageValues = 2
    Copies = {0, 1, 2}
    MaxMessages = 3
INVARIANTS
    RingInSync
    AnswersAreOwn
    HandlesBalanced
    PagesShown
    DiskFollowsAnswers
    TablesIntact
    RepliesOnce
PROPERTIES
    NicSpec
    RequestsEnd
CHECK_DEADLOCK FALSE
