SPECIFICATION Spec
CONSTANTS
    Parts = {"profile", "aging", "bdt", "java", "rr"}
    Callers = {4, 5, 9}
    Callees = {20}
    MethodAt <- MCMethodAt
    HashSize = 2
    StackSize = 2
    Slack = 2
    HalfRange = 4
    DriftIn = 1
    DriftOut = 1
    Page = 1
    MaxDepth = 2
    MaxNow = 7
    AgingDomains = {1, 8}
    NextName = 9
    ClassNames = {4}
    Eips = {0, 3, 5}
    ThreadNames = {0, 7}
    Libraries <- MCLibraries
    Symbol <- MCSymbol
    TabMax <- MCTabMax
    PlainMax = 20
    InLen = 4
    OutLen = 6
    BlockLens = {3, 6}
    PoolMax = 19
    RecordLen <- MCRecordLen
    MaxEvents = 3
    Bytes = {"start", "stop", "head", "i", "j", "1", "2", "3", "4", "5", "6"}
    Program <- MCProgram
    MAX_LEN = 4
    SendMax = 3
    FirstSeq = 0
    MaxLine = 2
    MaxAcks = 6
    MaxLosses = 3
    Threads = {"z", "y", "x", "s", "v", "w"}
    Home <- MCHome
    JavaDomains = {"d", "e"}
    Servers = {"y", "s"}
    MaxCreated = 4
    RRThreads = {"a1", "a2", "b1"}
    RRDomains = {"a", "b", "zero"}
    RRHome <- MCRRHome
    domainZero = "zero"
    NULL = NULL
INVARIANTS ProfileRight LogReadable BdtInOrder JavaSchedSound RRThreadsKept
CHECK_DEADLOCK FALSE
