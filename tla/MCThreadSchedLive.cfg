CONSTANTS
    idle = idle z = z a1 = a1 a2 = a2 b = b irq = irq
    Zero = Zero A = A B = B
    Threads = {idle, z, a1, a2}
    Domains = {Zero, A}
    Dom <- MCDom
    DomainZero = Zero
    IdleThread = idle
    IrqThreads = {}
    NoThread = NoThread
    InitialThread = z
    Timeslicing = TRUE
SPECIFICATION FairSpec
PROPERTIES RunnableThreadRuns JoinReturns
CHECK_DEADLOCK FALSE
