CONSTANTS
    idle = idle z = z a1 = a1 a2 = a2 b = b irq = irq
    Zero = Zero A = A B = B
    Threads = {idle, z, a1, b, irq}
    Domains = {Zero, A, B}
    Dom <- MCDom
    DomainZero = Zero
    IdleThread = idle
    IrqThreads = {irq}
    NoThread = NoThread
    InitialThread = z
    Timeslicing = TRUE
SPECIFICATION Spec
INVARIANTS QueuesConsistent NoPanic IdleParkedOnlyWithoutWork InterruptedThreadKept
PROPERTY QueuesAreFifo
CHECK_DEADLOCK FALSE
