---------------------------- MODULE MCAlgorithms ----------------------------
(* The inputs TLC calls with: every pair of four-digit numbers, all numbers  *)
(* of a byte in every format, short strings, all hierarchies of four         *)
(* classes, and every call of an accessor on every contents of a memory      *)
(* object.  The parts share nothing: a behaviour makes one call of one part. *)
EXTENDS Algorithms, MemAccess

MCFactors == UNION {{x, -x, -x - 1} : x \in {0, 1, 2, 3, 5, 17, 100, QUAD \div 2 - 1}}

\* A prefix that follows padding zeros or a precision is not read back.
MCFormats ==
    {f \in [conv : {"d", "u", "o", "x"}, plus : {<<>>, <<"+">>}, alt : BOOLEAN, padc : {" ", "0"},
            length : {0, 6}, prec : {0, 4}, ladjust : {FALSE}] :
        ~(f.conv = "x" /\ f.alt /\ (f.padc = "0" \/ f.prec > 0))}
MCStringFormats == [length : {0, 3}, prec : {-1, 0, 2}, ladjust : BOOLEAN]

Strings(S, n) == UNION {[1..k -> S] : k \in 0..n}
MCTexts == Strings({"a", "b", " "}, 5)
MCWords == Strings({1, 2}, 3)

\* Class 1 is Object; a class names smaller numbers only.
Kinds(c) ==
    {[kind |-> "class", super |-> s, interfaces |-> i, elem |-> 0] : s \in 1..(c - 1), i \in SUBSET (2..(c - 1))}
    \cup {[kind |-> "interface", super |-> 1, interfaces |-> i, elem |-> 0] : i \in SUBSET (2..(c - 1))}
    \cup {[kind |-> "array", super |-> 0, interfaces |-> {}, elem |-> e] : e \in 1..(c - 1)}
ObjectClass == [kind |-> "class", super |-> 0, interfaces |-> {}, elem |-> 0]
WellFormed(h) ==
    \A c \in DOMAIN h :
        /\ \A i \in h[c].interfaces : h[i].kind = "interface"
        /\ h[c].super # 0 => h[h[c].super].kind = "class"
MCHierarchies ==
    {h \in {<<ObjectClass, a, b, c>> : a \in Kinds(2), b \in Kinds(3), c \in Kinds(4)} : WellFormed(h)}

\* An array of class 2, two arrays of objects, an object, and null.
MCArrayClasses ==
    <<ObjectClass, [ObjectClass EXCEPT !.super = 1],
      [ObjectClass EXCEPT !.kind = "array", !.elem = 1], [ObjectClass EXCEPT !.kind = "array", !.elem = 2]>>
MCArrays ==
    {[data |-> 4, size |-> 4, class |-> 4], [data |-> 10, size |-> 3, class |-> 3], [data |-> 4, size |-> 4, class |-> 3],
     [data |-> 0, size |-> 2, class |-> 2], Null}

\* Three classes in two libraries, an interface and a method without code among
\* them.  Two bytecodes to a method, each compiled to two bytes of code.
MCMethod(at, handlers) ==
    [code |-> at, bytes |-> 4, bct |-> <<[start |-> 0, end |-> 2, pos |-> 0], [start |-> 2, end |-> 4, pos |-> 3]>>,
     lines |-> <<[line |-> 7, start |-> 0], [line |-> 8, start |-> 3]>>, handlers |-> handlers]
NoCode == [code |-> 0, bytes |-> 0, bct |-> << >>, lines |-> << >>, handlers |-> << >>]
MCClass(name, ms) == [name |-> name, interface |-> ms = <<NoCode>>, methods |-> ms]
Handlers == [start : {0}, end : {3}, type : {0, 3}] \cup [start : {0, 3}, end : {4}, type : {2}]
Tables == {<< >>} \cup {<<a>> : a \in Handlers} \cup {<<a, b>> : a, b \in Handlers}
MCPrograms ==
    {<<<<MCClass("A", <<MCMethod(4, t)>>), MCClass("I", <<NoCode>>), MCClass("B", <<NoCode, MCMethod(8, u)>>)>>,
       <<MCClass("C", <<NoCode, MCMethod(14, << >>)>>)>>>> : t \in Tables, u \in {<< >>} \cup {<<a>> : a \in [start : {0}, end : {3, 4}, type : {2}]}}
MCStacks == UNION {[1..n -> {1, 2, 5, 6, 7, 8, 9, 12, 15}] : n \in 1..2}

\* Throwable, an exception of the virtual machine and one of its subclasses.
MCException == <<ObjectClass, [ObjectClass EXCEPT !.super = 1], [ObjectClass EXCEPT !.super = 2]>>
MCRequests == {"NullPointerException", "ArithmeticException", "OutOfMemoryError", "StackJam", "DomainTerminatedException"}
MCKnown == [RuntimeException |-> 2, NullPointerException |-> 3, IndexOutOfBoundsException |-> 3, ArithmeticException |-> 2]

\* Frames of up to two words, methods of up to two parameters and two maps.
JavaFrame(map, eip, words, args) ==
    [kind |-> "java", eip |-> eip, words |-> words, args |-> args,
     symbols |-> <<[ip |-> 2, pre |-> 1, map |-> <<TRUE, TRUE>>], [ip |-> 4, pre |-> 3, map |-> map]>>]
Frames ==
    {JavaFrame(mp, e, w, a) : mp \in {<<TRUE>>, <<FALSE, TRUE>>}, e \in {1, 3, 4, 5}, w \in 1..2,
                              a \in {<< >>, <<TRUE>>, <<FALSE, TRUE>>}}
    \cup {JavaFrame(<<TRUE, TRUE, TRUE>>, 4, 2, << >>)}
    \cup {[kind |-> k, symbols |-> << >>, eip |-> 0] : k \in {"entry", "static", "first", "core", "last", "sti"}}
MCThreadStacks == UNION {[1..n -> Frames] : n \in 1..3}

Fresh == call.op = "none" /\ ~done
Plain == mem = [a \in Address |-> a % BYTE] /\ array = [i \in 1..ARRAY |-> 0]

MCInit == Init /\ AccessInit
MCNext ==
    \/ Fresh /\ Plain /\ CallOne /\ UNCHANGED accessVars
    \/ Parse /\ UNCHANGED accessVars
    \/ Fresh /\ AccessNext /\ UNCHANGED vars
MCSpec == MCInit /\ [][MCNext]_<<vars, accessVars>>
=============================================================================
