----------------------------- MODULE Algorithms -----------------------------
(***************************************************************************)
(* The kernel's pure algorithms at work: a job names one call of the C      *)
(* library, of the long arithmetic or of the virtual machine support, the   *)
(* call is made once and its results are checked against what they mean.    *)
(***************************************************************************)
EXTENDS Libc, Exceptions, Relation, TLC

CONSTANTS
    Factors,        \* numbers for the signed division
    Formats,        \* directives for numbers
    StringFormats,  \* directives for strings
    Texts,          \* strings of characters
    Words,          \* strings of numbered characters
    Hierarchies,    \* class hierarchies
    Arrays,         \* arrays in Heap, and other objects
    ArrayClasses,   \* the class hierarchy of them
    Programs,       \* domains: their libraries, classes and methods
    Stacks,         \* stacks of return addresses
    Exception,      \* a class hierarchy
    ThreadStacks,   \* stacks the collector walks over
    Requests,       \* what is asked to be thrown
    Known           \* the classes of it that can be thrown by name

VARIABLES
    job,        \* the call
    done,       \* it has returned
    out         \* its result

vars == <<job, done, out>>

Init == job = [alg |-> "none"] /\ done = FALSE /\ out = <<>>

Run(j, result) == done' = TRUE /\ job' = j /\ out' = result
Done(alg) == done /\ job.alg = alg

Divide(x, y) == Run([alg |-> "qdivrem", x |-> x, y |-> y], QDivRem(x, y))

DivideSigned(x, y) ==
    Run([alg |-> "signed", x |-> x, y |-> y], [div |-> DivDi3(x, y), mod |-> ModDi3(x, y)])

Shift(x, y) ==
    Run([alg |-> "shift", x |-> x, y |-> y],
        [shr |-> longShr(x, y), shl |-> longShl(x, y), ushr |-> longUShr(x, y)])

\* The base the text is read with: 0 lets the prefix decide.
BaseOf(f, x) ==
    CASE f.alt /\ f.conv \in {"o", "x"} /\ x # 0 /\ f.padc = " " /\ f.prec = 0 -> 0
      [] f.conv \in {"d", "u"} -> 10
      [] f.conv = "o" -> 8
      [] OTHER -> 16

Format(f, x) == Run([alg |-> "format", f |-> f, x |-> x], PrintNumber(f, x))

\* What the C library makes of the text again.
Parse ==
    /\ Done("format")
    /\ job' = [job EXCEPT !.alg = "parse"] @@ [text |-> out]
    /\ LET base == BaseOf(job.f, job.x)
       IN out' = [tol |-> Strtol(out, base), toul |-> Strtoul(out, base), atol |-> Atol(out)]
    /\ UNCHANGED done

FormatString(f, s) == Run([alg |-> "string", f |-> f, s |-> s], PrintString(f, s))

Tokenize(s) == Run([alg |-> "tokens", s |-> s], Tokens(s, {" "}))

Compare(s, t, n) ==
    Run([alg |-> "compare", s |-> s, t |-> t, n |-> n], [cmp |-> Strcmp(s, t), ncmp |-> Strncmp(s, t, n)])

Assign(h) ==
    Run([alg |-> "assign", h |-> h],
        [r \in DOMAIN h, v \in DOMAIN h |->
            [ok |-> check_assign(h, v, r), instance |-> vm_instanceof(h, r, v), cast |-> vm_checkcast(h, r, v)]])

UINT == 16
Heap == [a \in 0..(UINT - 1) |-> a]
CopyJob(alg, src, soff, dst, doff, count) ==
    [alg |-> alg, src |-> src, soff |-> soff, dst |-> dst, doff |-> doff, count |-> count]

ArrayCopy(src, soff, dst, doff, count) ==
    Run(CopyJob("arraycopy", src, soff, dst, doff, count), vm_arraycopy(Heap, ArrayClasses, src, soff, dst, doff, count))

ArrayCopyRight(src, soff, dst, doff, count) ==
    Run(CopyJob("arraycopy_right", src, soff, dst, doff, count),
        vm_arraycopy_right(Heap, ArrayClasses, src, soff, dst, doff, count))

PutArray(arr, index, value) ==
    Run([alg |-> "put", arr |-> arr, index |-> index, value |-> value],
        vm_put_array_field32(Heap, arr, index, value))

\* Addresses are looked up in the first of two domains that share a library.
Lookup(libs, addr) ==
    Run([alg |-> "lookup", libs |-> libs, addr |-> addr],
        LET table == <<[state |-> "FREE", libs |-> libs], [state |-> "ACTIVE", libs |-> libs]>>
            at == findMethodAtAddrInDomain(libs, addr)
        IN [plain |-> at, faster |-> findMethodAtAddrFaster(libs, addr), all |-> findMethodAtAddr(table, addr),
            domain |-> IF at.found THEN findClassForMethod(table, at.method) ELSE 0])

Inspect(libs, stack, depth) ==
    Run([alg |-> "inspect", libs |-> libs, stack |-> stack, depth |-> depth],
        [depth |-> getStackDepth(stack), class |-> getStackFrameClassName(libs, stack, depth),
         line |-> getStackFrameLine(libs, stack, depth), pos |-> getStackFrameBytecode(libs, stack, depth)])

\* The caller of the service is alive or gone, or the domain is being collected.
Throw(libs, stack, p, state) ==
    Run([alg |-> "throw", libs |-> libs, stack |-> stack, p |-> p, state |-> state],
        [handler |-> exceptionHandlerMsg(libs, Exception, Known, p, state = "collecting", stack, state = "alive"),
         direct |-> IF p \in DOMAIN ThrownClass THEN throw_direct(libs, Exception, Known, p, stack, state = "alive")
                    ELSE [to |-> "nothing"]])

WalkStack(stack, garbage) == Run([alg |-> "walk", stack |-> stack], walkStack(stack, garbage))

\* CopyOffsets and counts around the end of the arrays; the last two are negative.
CopyOffsets == (0..4) \cup {UINT - 2, UINT - 1}

\* One past the code of a program.
Limit(libs) == Max({m.code + m.bytes : m \in UNION {ToSet(c.methods) : c \in ToSet(FlattenSeq(libs))}})

CallOne ==
    \/ \E x \in 0..(QUAD - 1), y \in 1..(QUAD - 1) : Divide(x, y)
    \/ \E x \in Factors, y \in Factors \ {0} : DivideSigned(x, y)
    \/ \E x \in Factors, y \in 0..(QUAD_BITS - 1) : Shift(x, y)
    \/ \E f \in Formats, x \in LONG_MIN..LONG_MAX : Format(f, x)
    \/ \E f \in StringFormats, s \in Texts : FormatString(f, s)
    \/ \E s \in Texts : Tokenize(s)
    \/ \E s, t \in Words, n \in 0..4 : Compare(s, t, n)
    \/ \E h \in Hierarchies : Assign(h)
    \/ \E src, dst \in Arrays, s, d, n \in CopyOffsets : ArrayCopy(src, s, dst, d, n)
    \/ \E src, dst \in Arrays, s, d, n \in CopyOffsets : ArrayCopyRight(src, s, dst, d, n)
    \/ \E arr \in Arrays, i \in -2..5 : arr # Null /\ isArrayClass(ArrayClasses, arr.class) /\ PutArray(arr, i, 99)
    \/ \E libs \in Programs : \E a \in 0..Limit(libs) : Lookup(libs, a)
    \/ \E libs \in Programs, stack \in Stacks, n \in 0..2 : Inspect(libs, stack, n)
    \/ \E libs \in Programs, stack \in Stacks, p \in Requests, state \in {"alive", "gone", "collecting"} :
            Throw(libs, stack, p, state)
    \/ \E stack \in ThreadStacks, g \in BOOLEAN : WalkStack(stack, <<g, g>>)

Next == (~done /\ CallOne) \/ Parse

Spec == Init /\ [][Next]_vars

-----------------------------------------------------------------------------
Abs(x) == IF x < 0 THEN -x ELSE x

\* What System.arraycopy is for, in terms of the job j.
Negative(j) == \E x \in {j.soff, j.doff, j.count} : x >= UINT \div 2
Copyable(j) ==
    /\ Null \notin {j.src, j.dst}
    /\ j.alg = "arraycopy" => isArrayClass(ArrayClasses, j.src.class) /\ isArrayClass(ArrayClasses, j.dst.class)
    /\ check_assign(ArrayClasses, j.dst.class, j.src.class)
    /\ j.soff + j.count <= j.src.size /\ j.doff + j.count <= j.dst.size
Copied(j) ==
    LET to == j.dst.data + j.doff
    IN  [a \in DOMAIN Heap |-> IF a \in to..(to + j.count - 1) THEN Heap[j.src.data + j.soff + a - to] ELSE Heap[a]]
ToTheRight(j) ==
    /\ j.src.data = j.dst.data /\ j.soff < j.doff
    /\ j.alg = "arraycopy" \/ j.doff < j.soff + j.count

(***************************************************************************)
(* Knuth's division in four digits yields quotient and remainder for every  *)
(* pair of numbers (trial digits that are one or two too big and the add-   *)
(* back step included); the signed division rounds towards zero, wraps for  *)
(* the smallest number divided by -1, and its remainder completes it for    *)
(* divisors that are not negative; shifts multiply and divide by powers of  *)
(* two (the unsigned one for numbers that are not negative).                *)
(***************************************************************************)
ArithmeticOK ==
    /\ Done("qdivrem") => out.q * job.y + out.r = job.x /\ out.r \in 0..(job.y - 1)
    /\ Done("signed") =>
        LET q == Abs(job.x) \div Abs(job.y)
        IN /\ out.div = SignedQuad((IF (job.x < 0) = (job.y < 0) THEN q ELSE -q) % QUAD)
           /\ job.y > 0 => out.div * job.y + out.mod = job.x /\ Abs(out.mod) < job.y
    /\ Done("shift") =>
        /\ out.shr * 2^job.y <= job.x /\ job.x < (out.shr + 1) * 2^job.y
        /\ (out.shl - job.x * 2^job.y) % QUAD = 0
        /\ job.x >= 0 => out.ushr = out.shr

(***************************************************************************)
(* A number printed in any base, with any padding, sign and precision, is   *)
(* read back as the same number, and the text has the width asked for; a    *)
(* string is cut at its precision and fills its field when it is set to the *)
(* right; strtok finds exactly the maximal runs without a delimiter;        *)
(* strcmp orders strings as their first difference does.                    *)
(***************************************************************************)
TextOK ==
    /\ Done("parse") =>
        /\ Len(job.text) >= job.f.length
        /\ job.f.conv = "d" => out.tol = job.x
        /\ job.f.conv # "d" => out.toul = job.x % LONG
        /\ job.f.conv = "u" /\ job.f.length = 0 => out.atol = job.x % LONG
    /\ Done("string") =>
        LET n == IF job.f.prec # -1 /\ Len(job.s) > job.f.prec THEN job.f.prec ELSE Len(job.s) IN
        /\ SubSeq(job.s, 1, n) \in {SubSeq(out, i, i + n - 1) : i \in 1..(Len(out) - n + 1)}
        /\ ~job.f.ladjust => Len(out) = (IF job.f.length > n THEN job.f.length ELSE n)
    /\ Done("tokens") =>
        LET starts == {i \in DOMAIN job.s : job.s[i] # " " /\ (i = 1 \/ job.s[i - 1] = " ")} IN
        /\ Len(out) = Cardinality(starts)
        /\ FoldLeft(\o, <<>>, out) = SelectSeq(job.s, LAMBDA c : c # " ")
        /\ \A k \in DOMAIN out : out[k] # <<>>
    /\ Done("compare") =>
        /\ (out.cmp = 0) <=> (job.s = job.t)
        /\ (out.ncmp = 0) <=> \A i \in 1..job.n : CharAt(job.s, i) = CharAt(job.t, i)
        /\ out.ncmp # 0 => (out.ncmp > 0) = (out.cmp > 0)

(***************************************************************************)
(* The C library computes, prints, reads and compares what its functions are *)
(* for, over all numbers and texts of the instance: ArithmeticOK, TextOK.    *)
(***************************************************************************)
LibraryRight == ArithmeticOK /\ TextOK

(***************************************************************************)
(* A reference of class r may be stored in a variable of class v exactly    *)
(* when v is reached from r through superclasses and interfaces, at any     *)
(* depth and through several paths; arrays follow their element classes,    *)
(* whether or not the two array classes are the same descriptor.  A cast    *)
(* and instanceof agree with it.  An array copy whose offsets and count are  *)
(* not negative delivers the words of the source to the destination and     *)
(* touches nothing else, or it changes nothing and throws, exactly when an   *)
(* operand is null, no array, of elements that cannot be stored, or too       *)
(* short.  A copy to the right inside one array is left out (RightCopied),    *)
(* and so are negative numbers (IndexesTested): there the code goes wrong.   *)
(***************************************************************************)
VmRight ==
    /\ Done("assign") =>
        LET cs == DOMAIN job.h
            edge == [p \in cs \X cs |-> p[1] = p[2] \/ p[2] = job.h[p[1]].super \/ p[2] \in job.h[p[1]].interfaces]
            reach == TransitiveClosure(edge, cs)
            ref[v \in cs, r \in cs] ==
                IF job.h[r].elem = 0 THEN reach[r, v]
                ELSE v \in {r, Object} \/ (job.h[v].elem # 0 /\ ref[job.h[v].elem, job.h[r].elem])
        IN \A r, v \in cs :
            /\ out[r, v].ok = ref[v, r]
            /\ out[r, v].instance = ref[v, r]
            /\ (out[r, v].cast = "done") = ref[v, r]
    /\ Done("arraycopy") \/ Done("arraycopy_right") =>
        /\ ~out.ok => out.heap = Heap
        /\ ~Negative(job) => out.ok = Copyable(job)
        /\ out.ok /\ ~Negative(job) /\ ~ToTheRight(job) => out.heap = Copied(job)
    /\ Done("put") /\ job.index >= 0 => \A a \in DOMAIN Heap :
            out.heap[a] = IF job.index < job.arr.size /\ a = job.arr.data + job.index THEN job.value ELSE Heap[a]

(***************************************************************************)
(* Not so: a copy to the right inside one array moves the words in front of *)
(* both offsets (core/vmsupport.c 130-134).                                 *)
(***************************************************************************)
RightCopied == Done("arraycopy") /\ out.ok /\ ~Negative(job) => out.heap = Copied(job)

(***************************************************************************)
(* Not so: an offset or index below zero passes the tests, whose sums wrap  *)
(* or which look at the upper bound only (122, 305).                        *)
(***************************************************************************)
IndexesTested ==
    /\ Done("arraycopy") /\ Negative(job) => ~out.ok
    /\ Done("put") /\ job.index < 0 => ~out.ok

\* The calls of a program that return to eip: a method and a bytecode of it.
CallsAt(libs, eip) ==
    {mb \in {<<m, b>> : m \in UNION {ToSet(c.methods) : c \in ToSet(FlattenSeq(libs))}, b \in 1..2} :
        /\ mb[2] \in DOMAIN mb[1].bct
        /\ mb[1].code + mb[1].bct[mb[2]].start < eip /\ eip <= mb[1].code + mb[1].bct[mb[2]].end}
\* A call is the last instruction of its method.
EndsMethod(libs, eip) == \E mb \in CallsAt(libs, eip) : eip = mb[1].code + mb[1].bytes

(***************************************************************************)
(* The lookup that skips libraries and classes finds what the plain one     *)
(* finds.  An exception goes to the innermost frame whose call, in the      *)
(* source, lies in a range with a handler for its class or a superclass,    *)
(* and there to the first such handler of the table; it never passes the    *)
(* entry of a service, from where it is given to the caller if there still   *)
(* is one.  A stack trace names the bytecode of each call, and its line      *)
(* unless it is the last line of the method.  A call that is the last        *)
(* instruction of its method is left out: the address it returns to belongs  *)
(* to the next method.  Nothing is thrown in a domain that is collected.     *)
(* The exception of a terminated domain is left out: TerminationThrown.      *)
(* The collector's walk over a stack that has a map for each frame's words    *)
(* hands over the words the maps mark and the parameters that are references  *)
(* of each method the kernel called, and no other.                           *)
(***************************************************************************)
DispatchRight ==
    /\ Done("lookup") =>
        /\ out.plain = out.faster /\ out.plain = out.all
        /\ out.plain.found => out.domain = 1 /\ Holds(out.plain.method, job.addr)
    /\ Done("inspect") =>
        LET eip == job.stack[IF job.depth < Len(job.stack) THEN job.depth + 1 ELSE Len(job.stack)]
        IN /\ out.depth = Len(job.stack)
           /\ \A mb \in CallsAt(job.libs, eip) : EndsMethod(job.libs, eip) \/
                LET m == mb[1]
                    pos == m.bct[mb[2]].pos
                    k == Max({i \in DOMAIN m.lines : m.lines[i].start <= pos})
                IN out.pos = pos /\ out.line = IF k = Len(m.lines) THEN -1 ELSE m.lines[k].line
    /\ Done("walk") /\ out.run \in {"on", "end"} /\
       (\A n \in DOMAIN job.stack : job.stack[n].kind = "java" => \E j \in DOMAIN job.stack[n].symbols :
            /\ job.stack[n].eip \in {job.stack[n].symbols[j].ip, job.stack[n].symbols[j].pre}
            /\ Len(job.stack[n].symbols[j].map) >= job.stack[n].words) =>
        LET last == Min({n \in DOMAIN job.stack : job.stack[n].kind \in {"last", "first"}} \cup {Len(job.stack)})
            inner(n) == job.stack[Max({i \in 1..n : job.stack[i].kind = "java"})]
            isRef(n, k) ==
                LET f == job.stack[n] IN
                CASE f.kind = "java" -> k <= f.words /\ \E y \in ToSet(f.symbols) : f.eip \in {y.ip, y.pre} /\ y.map[k]
                  [] f.kind = "static" -> k <= Len(inner(n).args) /\ inner(n).args[k]
                  [] f.kind \in {"entry", "first"} -> k = 1 \/ (k - 1 <= Len(inner(n).args) /\ inner(n).args[k - 1])
                  [] OTHER -> FALSE
        IN out.refs = {nk \in (1..last) \X (1..4) : isRef(nk[1], nk[2])}
    /\ Done("throw") /\ (job.state = "collecting" \/ job.p \notin DOMAIN ThrownClass) =>
        out.handler.to \in {"domain_panic", "exit"} \/ job.p = "DomainTerminatedException"
    /\ Done("throw") /\ job.state # "collecting" /\ job.p \in DOMAIN ThrownClass /\ (\A n \in DOMAIN job.stack : ~EndsMethod(job.libs, job.stack[n])) =>
        LET ex == Known[ThrownClass[job.p]]
            cs == DOMAIN Exception
            isA == TransitiveClosure([p \in cs \X cs |-> p[1] = p[2] \/ p[2] = Exception[p[1]].super], cs)
            fits(mb) == {i \in DOMAIN mb[1].handlers :
                            LET e == mb[1].handlers[i] IN
                            /\ mb[1].bct[mb[2]].pos \in e.start..(e.end - 1)
                            /\ e.type = 0 \/ isA[ex, e.type]}
            from(n) == CallsAt(job.libs, job.stack[n])
            stop == {n \in DOMAIN job.stack :
                        job.stack[n] = InPortalCall \/ \E mb \in from(n) : fits(mb) # {}}
            first == Min(stop)
            right(o) ==
                IF ThrownClass[job.p] \notin DOMAIN Known \/ stop = {} THEN o.to = "exit"
                ELSE IF job.stack[first] = InPortalCall THEN o.to = IF job.state = "alive" THEN "caller" ELSE "dropped"
                ELSE /\ o.to = "handler" /\ o.frame = first
                     /\ \E mb \in from(first) : o.entry = Min(fits(mb))
        IN /\ right(out.handler)
           /\ out.direct.to \in {"handler", "caller", "dropped", "exit"} => right(out.direct)

(***************************************************************************)
(* Not so: the request to throw a DomainTerminatedException is tested for    *)
(* under the name of another (core/exception_handler.c 197-200) and the       *)
(* request itself is thrown as if it were an object.                         *)
(***************************************************************************)
TerminationThrown == Done("throw") => out.handler.to # "wild"

(***************************************************************************)
(* What compiled code relies on when it calls the kernel: type tests and     *)
(* array copies (VmRight), and the way from an address on a stack to its     *)
(* method, handler and references (DispatchRight).                          *)
(***************************************************************************)
RuntimeRight == VmRight /\ DispatchRight
=============================================================================
