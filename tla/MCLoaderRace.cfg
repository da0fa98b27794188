SPECIFICATION Spec
CONSTANTS
    Parts = {"loader"}
    NSlots = 3
    MaxId = 3
    MaxEpoch = 1
    NewSched = TRUE
    Archives <- MCArchives
    Cached = {"c"}
    Wanted = {"a", "b", "d"}
    Files <- MCFiles
    MaxLookups = 3
    t1 = t1
    t2 = t2
    t3 = t3
    Variables = {"v", "w"}
    Waiters = {t1, t2, t3}
    Values = {0, 1}
    Nobody = Nobody
    Names = {"x", "y"}
    Portals = {"p", "q"}
    MaxEntries = 3
    IrqLines = {1, 7, 9}
    LocalApic = TRUE
    Machines <- MCMachines
    MaxCpus = 2
    MaxApics = 2
    MaxSources = 33
    NPins = 24
    NIrqs = 256
    DriverIrqs = {1, 3, 25, 100}
    Order <- MCOrder
    Bsp = 0
    MaxPolls = 1
    MaxCalls = 3
    Prompt = TRUE
    LoadDomains <- MCLoadDomains
    CodeFiles <- MCCodeFiles
    VMOps <- MCVMOps
    StartLibs <- MCStartLibs
    Requests <- MCRequests
    MinVTable = 1
    MaxLibs = 6
    MaxAsked = 2
    LoadsOverlap = TRUE
INVARIANT LinkedRight
CHECK_DEADLOCK FALSE
