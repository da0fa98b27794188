----------------------------- MODULE Exceptions -----------------------------
(***************************************************************************)
(* Which code a machine address belongs to (core/domain.c), and how an      *)
(* exception finds its handler (core/exception_handler.c).                  *)
(*                                                                          *)
(* A domain is a sequence of libraries, a library a sequence of classes, a   *)
(* class has methods.  A method without code has code = 0 and bytes = 0.    *)
(* bct, its bytecode table, maps ranges of its code to bytecodes; lines maps  *)
(* bytecodes to source lines; handlers is its exception table, whose type 0  *)
(* stands for any class.  A stack is the sequence of its frames, innermost   *)
(* first: a frame is the return address eip found there.                    *)
(***************************************************************************)
EXTENDS VmSupport

\* Addresses outside of all Java code.
InPortalCall == 1       \* in receive_portalcall, from where services are called

in_portalcall(eip) == eip = InPortalCall

-----------------------------------------------------------------------------
(* Address to method                                                         *)

\* Mutant: the end of a range is taken as outside of it.
findByteCodePosition_HalfOpen(meth, addr) ==
    LET at == {i \in DOMAIN meth.bct : meth.bct[i].start <= addr - meth.code /\ meth.bct[i].end > addr - meth.code}
    IN IF at = {} THEN -1 ELSE meth.bct[Min(at)].pos

\* The first range that holds the address, its end included: an address on a
\* stack is that of the instruction after the call.
findByteCodePosition(meth, addr) ==
    LET at == {i \in DOMAIN meth.bct : meth.bct[i].start <= addr - meth.code /\ meth.bct[i].end >= addr - meth.code}
    IN IF at = {} THEN -1 ELSE meth.bct[Min(at)].pos

\* The loop over the source lines looks at a line and the next; the last line
\* of a method is therefore never the answer.
findLine(meth, pos) ==
    LET at == {k \in 1..(Len(meth.lines) - 1) : meth.lines[k].start <= pos /\ meth.lines[k + 1].start > pos}
    IN IF pos = -1 \/ at = {} THEN -1 ELSE meth.lines[Min(at)].line

Holds(meth, addr) == meth.code <= addr /\ meth.code + meth.bytes > addr
NotFound == [found |-> FALSE]
Found(cls, meth, addr) ==
    LET pos == findByteCodePosition(meth, addr)
    IN [found |-> TRUE, class |-> cls.name, method |-> meth, pos |-> pos, line |-> findLine(meth, pos)]

\* The first method of a class sequence that holds addr.
FirstMethod(classes, addr) ==
    LET hit(c) == \E j \in DOMAIN classes[c].methods : Holds(classes[c].methods[j], addr)
        cs == {c \in DOMAIN classes : hit(c)}
    IN IF cs = {} THEN NotFound
       ELSE LET cls == classes[Min(cs)] IN Found(cls, SelectSeq(cls.methods, LAMBDA m : Holds(m, addr))[1], addr)

findMethodAtAddrInDomain(libs, addr) ==
    IF addr = 0 THEN NotFound ELSE FirstMethod(FlattenSeq(libs), addr)

\* The same with FASTER_METHOD_LOOKUP: libraries and classes whose first and
\* last code do not enclose the address are skipped.
Code(cls) == IF cls.interface THEN << >> ELSE SelectSeq(cls.methods, LAMBDA m : m.code # 0)
Encloses(ms, addr) == ms # << >> /\ addr >= ms[1].code /\ addr < ms[Len(ms)].code + ms[Len(ms)].bytes
findMethodAtAddrFaster(libs, addr) ==
    LET lib(l) == FlattenSeq([c \in DOMAIN l |-> Code(l[c])])
        near == SelectSeq(libs, LAMBDA l : Encloses(lib(l), addr))
    IN IF addr = 0 THEN NotFound
       ELSE FirstMethod(SelectSeq(FlattenSeq(near), LAMBDA c : Encloses(Code(c), addr)), addr)

\* All domains of the table in turn; a free descriptor is skipped.
findMethodAtAddr(domains, addr) ==
    LET at == {d \in DOMAIN domains : domains[d].state # "FREE" /\ findMethodAtAddrInDomain(domains[d].libs, addr).found}
    IN IF addr = 0 \/ at = {} THEN NotFound ELSE findMethodAtAddrInDomain(domains[Min(at)].libs, addr)

\* findClassForMethod: the first domain that holds the method's descriptor;
\* a shared library belongs to many.
findClassForMethod(domains, meth) ==
    LET has(d) == \E c \in DOMAIN FlattenSeq(domains[d].libs) : meth \in ToSet(FlattenSeq(domains[d].libs)[c].methods)
        at == {d \in DOMAIN domains : has(d)}
    IN IF at = {} THEN 0 ELSE Min(at)

-----------------------------------------------------------------------------
(* The stack                                                                 *)

getStackDepth(stack) == Len(stack)

\* The walk ends with the stack and then keeps the last address it has read.
EipAt(stack, depth) == stack[IF depth < Len(stack) THEN depth + 1 ELSE Len(stack)]
getStackFrameClassName(libs, stack, depth) ==
    LET m == findMethodAtAddrInDomain(libs, EipAt(stack, depth)) IN IF m.found THEN m.class ELSE "core:"
getStackFrameLine(libs, stack, depth) ==
    LET m == findMethodAtAddrInDomain(libs, EipAt(stack, depth)) IN IF m.found THEN m.line ELSE -1
getStackFrameBytecode(libs, stack, depth) ==
    LET m == findMethodAtAddrInDomain(libs, EipAt(stack, depth)) IN IF m.found THEN m.pos ELSE -1

-----------------------------------------------------------------------------
(* Exceptions                                                                *)

Uncaught == [to |-> "exit"]
Covers(e, pos) == pos # -1 /\ pos >= e.start /\ pos < e.end

\* The handler a frame has for class ex of hierarchy h: 0 if there is none.
handlerIn(h, ex, m) ==
    LET at == {i \in DOMAIN m.method.handlers :
                  /\ Covers(m.method.handlers[i], m.pos)
                  /\ m.method.handlers[i].type = 0 \/ check_assign(h, m.method.handlers[i].type, ex)}
    IN IF at = {} THEN 0 ELSE Min(at)

\* An exception that reaches the entry of a service is copied to the caller, or
\* dropped if the caller has gone; the thread then serves the next call.
throw_exception(libs, h, ex, stack, callerAlive) ==
    LET frame(n) == findMethodAtAddrInDomain(libs, stack[n])
        stops == {n \in DOMAIN stack :
                     \/ in_portalcall(stack[n])
                     \/ frame(n).found /\ handlerIn(h, ex, frame(n)) # 0}
    IN IF ex = 0 \/ stops = {} THEN Uncaught
       ELSE IF in_portalcall(stack[Min(stops)]) THEN [to |-> IF callerAlive THEN "caller" ELSE "dropped"]
       ELSE [to |-> "handler", frame |-> Min(stops), entry |-> handlerIn(h, ex, frame(Min(stops)))]

\* What a request of the kernel or of compiled code throws: a class by name, an
\* exception object, or nothing.
ThrownClass ==
    [RuntimeException |-> "RuntimeException", NullPointerException |-> "NullPointerException",
     OutOfMemoryError |-> "OutOfMemoryError", StackOverflowError |-> "StackOverflowError",
     MemoryIndexOutOfBounds |-> "IndexOutOfBoundsException", ArrayIndexOutOfBounds |-> "IndexOutOfBoundsException",
     ArithmeticException |-> "ArithmeticException", UnsupportedByteCode |-> "RuntimeException",
     InvalidMemory |-> "RuntimeException", MemoryExhaustedException |-> "MemoryExhaustedException"]

\* createExceptionInDomain: NULL (0) if no library defines the class; known
\* gives the classes the libraries define.
createExceptionInDomain(known, name) == IF name \in DOMAIN known THEN known[name] ELSE 0

\* exceptionHandlerMsg for request p.  The last test of the chain repeats the
\* one before it, so that THROW_DomainTerminatedException falls through and is
\* taken for the address of an object.
exceptionHandlerMsg(libs, h, known, p, gcActive, stack, callerAlive) ==
    CASE gcActive \/ p = "MagicNumber" -> [to |-> "domain_panic"]
      [] p \in {"ParanoidCheck", "StackJam"} -> Uncaught
      [] p \in DOMAIN ThrownClass /\ createExceptionInDomain(known, ThrownClass[p]) = 0 -> Uncaught
      [] p \in DOMAIN ThrownClass ->
            throw_exception(libs, h, createExceptionInDomain(known, ThrownClass[p]), stack, callerAlive)
      [] OTHER -> [to |-> "wild"]

\* The entries compiled code calls (throw_NullPointerException and its like).
\* They do not test what createExceptionInDomain returns; two of them are empty
\* and return to the code that wanted to throw.
throw_direct(libs, h, known, p, stack, callerAlive) ==
    CASE p \in {"RuntimeException", "OutOfMemoryError"} -> [to |-> "return"]
      [] p = "StackOverflowError" -> [to |-> "sys_panic"]
      [] p \in DOMAIN ThrownClass /\ createExceptionInDomain(known, ThrownClass[p]) = 0 -> [to |-> "wild"]
      [] OTHER -> throw_exception(libs, h, createExceptionInDomain(known, ThrownClass[p]), stack, callerAlive)

-----------------------------------------------------------------------------
(* The collector's walk over the stack of a thread (Memory/gc_stack.c).       *)
(*                                                                            *)
(* A frame has the kind of code its eip is in: "java", with the stack maps of   *)
(* its method and the number of words between its pointers;                    *)
(* "entry", where the kernel called Java, with the words of the parameters;     *)
(* "first", an entry that nothing called; "static", an entry without object;    *)
(* "core", other kernel code; "last", the end of the stack; "sti", such an end    *)
(* behind the sti of callnative_special_portal.  args tells which parameters of    *)
(* a method are references.                                                       *)

\* The first map of the method that is for eip, as the address after the call or
\* as the one before it.
find_stackmap(f) ==
    LET at == {j \in DOMAIN f.symbols : f.symbols[j].ip = f.eip \/ f.symbols[j].pre = f.eip}
    IN IF at = {} THEN << >> ELSE f.symbols[Min(at)].map

\* The parameters pushed for the Java method called last; the object is one of
\* them unless the method is static.
Parameters(args, kind) ==
    IF kind = "static" THEN {i \in DOMAIN args : args[i]}
    ELSE {1} \cup {i + 1 : i \in {j \in DOMAIN args : args[j]}}

Entries == {"entry", "static", "first"}

\* walkStack: the words handed to handleReference as <<frame, word>>.  The map
\* is an array that is not cleared between frames: words beyond the map of their
\* frame are taken for what an earlier frame left there, or for garbage.
walkStack(stack, garbage) ==
    LET walk[n \in 0..Len(stack)] ==
            IF n = 0 THEN [refs |-> {}, map |-> garbage, args |-> << >>, run |-> "on", seen |-> FALSE]
            ELSE LET w == walk[n - 1]
                     f == stack[n]
                     map == find_stackmap(f)
                     fresh == [k \in DOMAIN w.map |-> IF k <= Len(map) THEN map[k] ELSE w.map[k]]
                 IN CASE w.run # "on" -> w
                      [] f.kind = "last" -> [w EXCEPT !.run = "end"]
                      [] f.kind = "sti" -> [w EXCEPT !.run = "interrupted before call"]
                      [] f.kind \in Entries /\ ~w.seen -> [w EXCEPT !.run = "method is not initialized"]
                      [] f.kind \in Entries ->
                            [w EXCEPT !.refs = @ \cup {<<n, i>> : i \in Parameters(w.args, f.kind)},
                                      !.run = IF f.kind = "first" THEN "end" ELSE "on"]
                      [] f.kind = "java" /\ map = << >> -> [w EXCEPT !.run = "No stackmap for this frame!"]
                      [] f.kind = "java" /\ Len(map) > Len(garbage) -> [w EXCEPT !.run = "stack frame too large"]
                      [] f.kind = "java" ->
                            [w EXCEPT !.refs = @ \cup {<<n, k>> : k \in {j \in 1..f.words : fresh[j]}},
                                      !.map = fresh, !.args = f.args, !.seen = TRUE]
                      [] OTHER -> w
    IN walk[Len(stack)]
=============================================================================
