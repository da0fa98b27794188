CONSTANTS
    idle = idle a = a a2 = a2 b = b c = c r1 = r1 r2 = r2 f2 = f2
    Zero = Zero A = A B = B C = C s1 = s1 s2 = s2
    Threads = {idle, a, c, r1, r2, f2}
    Domains = {Zero, A, B, C}
    Dom <- MCDom
    DomainZero = Zero
    IdleThread = idle
    IrqThreads = {}
    NoThread = NoThread
    Services = {s1, s2}
    Owner <- MCOwner
    Recv <- MCRecv
    Finalizer <- MCFinalizer
    Clients = {a, c}
    InitialThread = a
    MayCall <- MCMayCall
    NoRef = NoRef
    InitialRefs <- MCInitialRefs
    MaxProxies = 2
SPECIFICATION Spec
INVARIANTS KernelSound NoLostSender ServicesCounted CallAccounted
PROPERTY ImplementsRpc
CHECK_DEADLOCK FALSE
