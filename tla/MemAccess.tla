----------------------------- MODULE MemAccess -----------------------------
(***************************************************************************)
(* The accessors of memory objects (Interface/zero_Memory_org.c): reading,  *)
(* writing, filling and moving bytes, words of two and of four bytes, in    *)
(* either byte order, and copying to and from Java byte arrays, whose       *)
(* elements are words of four bytes.                                        *)
(*                                                                          *)
(* A byte has BYTE values.  The memory of the object lies between two red   *)
(* zones, addresses below 0 and from Size up; the code sees a pointer to    *)
(* address 0.  The validity of the object is the business of MemoryObjects. *)
(***************************************************************************)
EXTENDS Integers, Sequences, SequencesExt, FiniteSets

CONSTANTS
    BYTE,       \* number of values of a byte (the code: 256)
    Size,       \* bytes of the memory object
    ARRAY,      \* elements of the Java byte array
    Zone        \* bytes of each red zone

ASSUME MemAccessAssumption ==
    /\ BYTE \in Nat \ {0, 1} /\ Size \in Nat /\ ARRAY \in Nat
    /\ Zone \in Nat /\ Zone >= 8

VARIABLES
    mem,        \* address -> byte
    array,      \* the Java array: signed words
    call        \* the last call and what it returned

accessVars == <<mem, array, call>>

Address == (-Zone)..(Size + Zone - 1)
SHORT == BYTE * BYTE
INT == SHORT * SHORT
Bytes == 0..(BYTE - 1)
Signed(v, w) == IF v % w >= w \div 2 THEN (v % w) - w ELSE v % w
jbyte == {Signed(v, BYTE) : v \in Bytes}
jshort == {Signed(v, SHORT) : v \in 0..(SHORT - 1)}
jint == {Signed(v, INT) : v \in 0..(INT - 1)}

Ok(v) == [ok |-> TRUE, v |-> v]
Void == Ok(0)
Refused == [ok |-> FALSE, v |-> 0]     \* an exception, or a panic of the caller

-----------------------------------------------------------------------------
(* The machine's loads and stores: little endian, any alignment.            *)

Load(m, a, n) == FoldLeft(LAMBDA v, i : v * BYTE + m[a + n - i], 0, [i \in 1..n |-> i])
Store(m, a, n, v) == [i \in DOMAIN m |-> IF i \in a..(a + n - 1) THEN (v \div BYTE^(i - a)) % BYTE ELSE m[i]]
Swap16(v) == (v % BYTE) * BYTE + ((v % SHORT) \div BYTE)

\* A string instruction: units of 1, 2 and 4 bytes, each read and then written.
Units(m, from, to, offsets) ==
    FoldLeft(LAMBDA x, u : Store(x, to + u[1], u[2], Load(x, from + u[1], u[2])), m, offsets)
OddUnits(n) == (IF n % 2 = 1 THEN <<1>> ELSE <<>>) \o (IF (n \div 2) % 2 = 1 THEN <<2>> ELSE <<>>)
ForwardUnits(n) ==
    LET sizes == OddUnits(n) \o [i \in 1..(n \div 4) |-> 4]
    IN [k \in 1..Len(sizes) |-> <<FoldLeft(+, 0, SubSeq(sizes, 1, k - 1)), sizes[k]>>]
BackwardUnits(n) ==
    LET sizes == OddUnits(n) \o [i \in 1..(n \div 4) |-> 4]
    IN [k \in 1..Len(sizes) |-> <<n - FoldLeft(+, 0, SubSeq(sizes, 1, k)), sizes[k]>>]
ByteUnits(n) == [i \in 1..n |-> <<i - 1, 1>>]
WordUnits(n) == [i \in 1..n |-> <<4 * (i - 1), 4>>]

\* jxwmemset(s, value, nbytes): an odd byte, an odd short, words.
jxwmemset(m, s, v, n) ==
    FoldLeft(LAMBDA x, u : Store(x, s + u[1], u[2], (v % SHORT) * SHORT + (v % SHORT)), m, ForwardUnits(n))

-----------------------------------------------------------------------------
(* jint < n where n is unsigned: a negative index is a huge one.            *)
AtLeast(where, n) == where < 0 \/ where >= n

Call(op, a, b, c, ret) == call' = [op |-> op, a |-> a, b |-> b, c |-> c, ret |-> ret]
Refuse(op, a, b, c) == Call(op, a, b, c, Refused) /\ UNCHANGED <<mem, array>>
Write(op, a, b, c, m) == mem' = m /\ Call(op, a, b, c, Void) /\ UNCHANGED array
Read(op, a, v) == Call(op, a, 0, 0, Ok(v)) /\ UNCHANGED <<mem, array>>

set8(where, what) ==
    IF where >= Size THEN Refuse("set8", where, what, 0)
    ELSE Write("set8", where, what, 0, Store(mem, where, 1, what % BYTE))

\* (jint) of a jbyte: the sign is extended.
get8(where) ==
    IF where >= Size \/ where < 0 THEN Refuse("get8", where, 0, 0)
    ELSE Read("get8", where, Signed(mem[where], BYTE))

set16(where, what) ==
    IF AtLeast(where, Size \div 2) THEN Refuse("set16", where, what, 0)
    ELSE Write("set16", where, what, 0, Store(mem, 2 * where, 2, what % SHORT))

get16(where) ==
    IF AtLeast(where, Size \div 2) THEN Refuse("get16", where, 0, 0)
    ELSE Read("get16", where, Load(mem, 2 * where, 2))

set32(where, what) ==
    IF where >= Size \div 4 THEN Refuse("set32", where, what, 0)
    ELSE Write("set32", where, what, 0, Store(mem, 4 * where, 4, what % INT))

get32(where) ==
    IF AtLeast(where, Size \div 4) THEN Refuse("get32", where, 0, 0)
    ELSE Read("get32", where, Signed(Load(mem, 4 * where, 4), INT))

fill16(what, where, length) ==
    IF AtLeast(where + length, Size \div 2 + 1) THEN Refuse("fill16", where, what, length)
    ELSE Write("fill16", where, what, length, jxwmemset(mem, 2 * where, what, 2 * length))

fill32(what, where, length) ==
    IF AtLeast(where + length, Size \div 4 + 1) THEN Refuse("fill32", where, what, length)
    ELSE Write("fill32", where, what, length,
               FoldLeft(LAMBDA m, i : Store(m, 4 * (where + i - 1), 4, what % INT), mem, [i \in 1..length |-> i]))

\* size is already divided by sizeof(jint): a quarter of the bytes.
clear == Write("clear", 0, 0, 0, jxwmemset(mem, 0, 0, Size \div 4))

move(dst, src, count) ==
    IF dst + count > Size \/ src + count > Size THEN Refuse("move", dst, src, count)
    ELSE Write("move", dst, src, count,
               Units(mem, src, dst, IF dst < src THEN ForwardUnits(count) ELSE BackwardUnits(count)))

\* Byte by byte from the front; out of range is a panic.
copy(from, to, len) ==
    IF to + len > Size \/ from + len > Size THEN Refuse("copy", to, from, len)
    ELSE Write("copy", to, from, len, Units(mem, from, to, ByteUnits(len)))

\* copyToMemory and copyFromMemory between two ranges of one memory.
copyMemory(srcOffset, dstOffset, len) ==
    IF dstOffset + len > Size \/ srcOffset + len > Size THEN Refuse("copyMemory", dstOffset, srcOffset, len)
    ELSE Write("copyMemory", dstOffset, srcOffset, len,
               Units(mem, srcOffset, dstOffset,
                     IF \A x \in {srcOffset, dstOffset, len} : x % 4 = 0
                     THEN WordUnits(len \div 4) ELSE ByteUnits(len)))

copyToByteArray(array_offset, mem_offset, len) ==
    IF mem_offset + len > Size \/ array_offset + len > ARRAY
    THEN Refuse("toArray", array_offset, mem_offset, len)
    ELSE /\ array' = [i \in 1..ARRAY |-> IF i - 1 \in array_offset..(array_offset + len - 1)
                                         THEN Signed(mem[mem_offset + i - 1 - array_offset], BYTE) ELSE array[i]]
         /\ Call("toArray", array_offset, mem_offset, len, Void)
         /\ UNCHANGED mem

copyFromByteArray(array_offset, mem_offset, len) ==
    IF mem_offset + len > Size \/ array_offset + len > ARRAY
    THEN Refuse("fromArray", mem_offset, array_offset, len)
    ELSE Write("fromArray", mem_offset, array_offset, len,
               [a \in Address |-> IF a \in mem_offset..(mem_offset + len - 1)
                                  THEN array[array_offset + a - mem_offset + 1] % BYTE ELSE mem[a]])

\* Mutant: the range check of the assembler variant, vm_getLittleEndian32.
getLittleEndian32_Fast(offset) ==
    IF offset >= Size + 4 THEN Refuse("getLE32", offset, 0, 0)
    ELSE Read("getLE32", offset, Signed(Load(mem, offset, 4), INT))

getLittleEndian32(offset) ==
    IF offset + 4 > Size THEN Refuse("getLE32", offset, 0, 0)
    ELSE Read("getLE32", offset, Signed(Load(mem, offset, 4), INT))

setLittleEndian32(offset, value) ==
    IF offset + 4 > Size THEN Refuse("setLE32", offset, value, 0)
    ELSE Write("setLE32", offset, value, 0, Store(mem, offset, 4, value % INT))

getLittleEndian16(offset) ==
    IF offset + 2 > Size THEN Refuse("getLE16", offset, 0, 0)
    ELSE Read("getLE16", offset, Load(mem, offset, 2))

setLittleEndian16(offset, value) ==
    IF offset + 2 > Size THEN Refuse("setLE16", offset, value, 0)
    ELSE Write("setLE16", offset, value, 0, Store(mem, offset, 2, value % SHORT))

getBigEndian16(offset) ==
    IF offset + 2 > Size THEN Refuse("getBE16", offset, 0, 0)
    ELSE Read("getBE16", offset, Swap16(Load(mem, offset, 2)))

setBigEndian16(offset, value) ==
    IF offset + 2 > Size THEN Refuse("setBE16", offset, value, 0)
    ELSE Write("setBE16", offset, value, 0, Store(mem, offset, 2, Swap16(value % SHORT)))

-----------------------------------------------------------------------------
\* Any contents; the red zones are recognizable.
AccessInit ==
    /\ \E c \in [0..(Size - 1) -> Bytes] : mem = [a \in Address |-> IF a \in DOMAIN c THEN c[a] ELSE a % BYTE]
    /\ array \in [1..ARRAY -> jbyte]
    /\ call = [op |-> "none", a |-> 0, b |-> 0, c |-> 0, ret |-> Void]

\* From two below the object to two past its end.  Lengths and indexes of the
\* array are not negative.
Offsets == -2..(Size + 2)

AccessNext ==
    \/ \E w \in Offsets, v \in jbyte : set8(w, v)
    \/ \E w \in Offsets : get8(w)
    \/ \E w \in Offsets, v \in jshort : set16(w, v)
    \/ \E w \in Offsets : get16(w)
    \/ \E w \in Offsets, v \in jint : set32(w, v)
    \/ \E w \in Offsets : get32(w)
    \/ \E v \in jshort, w \in Offsets, n \in 0..Size : fill16(v, w, n)
    \/ \E v \in jint, w \in Offsets, n \in 0..Size : fill32(v, w, n)
    \/ clear
    \/ \E d, s \in Offsets, n \in 0..Size : move(d, s, n)
    \/ \E d, s \in Offsets, n \in 0..Size : copy(s, d, n)
    \/ \E d, s \in Offsets, n \in 0..Size : copyMemory(s, d, n)
    \/ \E a \in 0..ARRAY, o \in Offsets, n \in 0..ARRAY : copyToByteArray(a, o, n)
    \/ \E a \in 0..ARRAY, o \in Offsets, n \in 0..ARRAY : copyFromByteArray(a, o, n)
    \/ \E o \in Offsets : getLittleEndian32(o)
    \/ \E o \in Offsets, v \in jint : setLittleEndian32(o, v)
    \/ \E o \in Offsets : getLittleEndian16(o)
    \/ \E o \in Offsets, v \in jshort : setLittleEndian16(o, v)
    \/ \E o \in Offsets : getBigEndian16(o)
    \/ \E o \in Offsets, v \in jshort : setBigEndian16(o, v)

AccessSpec == AccessInit /\ [][AccessNext]_accessVars

-----------------------------------------------------------------------------
(* What the calls are for, without the machine.                             *)

\* The range of addresses a call writes or reads.
RangeOf(c) ==
    CASE c.op \in {"set8", "get8"} -> c.a..c.a
      [] c.op \in {"set16", "get16"} -> (2 * c.a)..(2 * c.a + 1)
      [] c.op \in {"set32", "get32"} -> (4 * c.a)..(4 * c.a + 3)
      [] c.op \in {"getLE16", "setLE16", "getBE16", "setBE16"} -> c.a..(c.a + 1)
      [] c.op \in {"getLE32", "setLE32"} -> c.a..(c.a + 3)
      [] c.op = "fill16" -> (2 * c.a)..(2 * (c.a + c.c) - 1)
      [] c.op = "fill32" -> (4 * c.a)..(4 * (c.a + c.c) - 1)
      [] c.op \in {"move", "copy", "copyMemory", "fromArray"} -> c.a..(c.a + c.c - 1)
      [] c.op = "toArray" -> c.b..(c.b + c.c - 1)
      [] c.op = "clear" -> 0..(Size - 1)
      [] OTHER -> {}
SourceOf(c) == IF c.op \in {"move", "copy", "copyMemory"} THEN c.b..(c.b + c.c - 1) ELSE {}
ArrayRangeOf(c) ==
    CASE c.op = "toArray" -> c.a..(c.a + c.c - 1)
      [] c.op = "fromArray" -> c.b..(c.b + c.c - 1)
      [] OTHER -> {}
Reading == {"get8", "get16", "get32", "getLE16", "getLE32", "getBE16", "toArray"}

\* The byte a call puts at address i, given the memory before it.
Written(c, m, a, i) ==
    CASE c.op = "set8" -> c.b % BYTE
      [] c.op \in {"set16", "set32"} -> (c.b \div BYTE^(i % (IF c.op = "set16" THEN 2 ELSE 4))) % BYTE
      [] c.op \in {"setLE16", "setLE32"} -> (c.b \div BYTE^(i - c.a)) % BYTE
      [] c.op = "setBE16" -> (c.b \div BYTE^(1 - (i - c.a))) % BYTE
      [] c.op = "fill16" -> (c.b \div BYTE^(i % 2)) % BYTE
      [] c.op = "fill32" -> (c.b \div BYTE^(i % 4)) % BYTE
      [] c.op \in {"move", "copy", "copyMemory"} -> m[c.b + i - c.a]
      [] c.op = "fromArray" -> a[c.b + i - c.a + 1] % BYTE

Value(c, m) ==
    CASE c.op = "get8" -> Signed(m[c.a], BYTE)
      [] c.op = "get16" -> m[2 * c.a] + BYTE * m[2 * c.a + 1]
      [] c.op = "get32" -> Signed(m[4 * c.a] + BYTE * m[4 * c.a + 1] + SHORT * m[4 * c.a + 2]
                                  + SHORT * BYTE * m[4 * c.a + 3], INT)
      [] c.op = "getLE16" -> m[c.a] + BYTE * m[c.a + 1]
      [] c.op = "getBE16" -> m[c.a + 1] + BYTE * m[c.a]
      [] c.op = "getLE32" -> Signed(m[c.a] + BYTE * m[c.a + 1] + SHORT * m[c.a + 2]
                                    + SHORT * BYTE * m[c.a + 3], INT)
      [] OTHER -> 0

\* A copy from the front onto a range that starts inside its source.
Smears(c) == c.op \in {"copy", "copyMemory"} /\ c.a > c.b /\ c.a <= c.b + c.c - 1

\* These four reject an index below zero; the others compare signed numbers with
\* the size, or the sum of two.
RejectsNegative == {"get8", "set16", "get16", "get32"}
BelowZero(c) == c.a < 0 \/ (c.op \in {"move", "copy", "copyMemory", "toArray"} /\ c.b < 0)

(***************************************************************************)
(* Every call with offsets that are not negative either is refused and      *)
(* changes nothing, or stays inside the object: it is refused exactly when   *)
(* a byte of its range (or of the range it copies from) lies outside.  Four  *)
(* accessors refuse negative indexes too; what the others do with one is     *)
(* left out (NeighboursKept).  A call that is done writes the bytes its      *)
(* description says, from the contents before the call (memory_move also    *)
(* when the ranges overlap; the two copies only if they do not), reads      *)
(* return the value of the same byte order, and no other byte changes.      *)
(* What clear leaves uncleared is left out (ClearsAll).                     *)
(***************************************************************************)
AccessesRight ==
    [][ LET c == call'
            range == RangeOf(c)
            inside == /\ (range \cup SourceOf(c)) \subseteq 0..(Size - 1)
                      /\ ArrayRangeOf(c) \subseteq 0..(ARRAY - 1)
        IN c.op \in RejectsNegative \/ ~BelowZero(c) =>
           /\ ~c.ret.ok => mem' = mem /\ array' = array
           /\ inside /\ range # {} => c.ret.ok
           /\ c.ret.ok =>
                /\ inside \/ range = {}
                /\ \A i \in Address \ range : mem'[i] = mem[i]
                /\ c.op \in Reading => mem' = mem
                /\ c.op \notin Reading \cup {"clear"} /\ ~Smears(c) =>
                        \A i \in range : mem'[i] = Written(c, mem, array, i)
                /\ c.op \in Reading => c.ret.v = Value(c, mem)
                /\ \A i \in 1..ARRAY :
                        array'[i] = IF c.op = "toArray" /\ i - 1 \in ArrayRangeOf(c)
                                    THEN Signed(mem[c.b + i - 1 - c.a], BYTE) ELSE array[i]
                /\ c.op = "clear" => \A i \in range : mem'[i] \in {mem[i], 0}
      ]_accessVars

(***************************************************************************)
(* Not so: an index below zero lets set8, set32, the fills, the moves and    *)
(* copies and the accessors of either byte order write in front of the        *)
(* object (zero_Memory_org.c 905, 1045, 1141, 1189, 1215, 1283, 1703).        *)
(***************************************************************************)
NeighboursKept == \A i \in Address \ (0..(Size - 1)) : mem[i] = i % BYTE

(***************************************************************************)
(* What memory_clear is for: every byte of the object is zero afterwards.    *)
(* Its commented loop does that; the call that took its place clears a        *)
(* quarter of the bytes (zero_Memory_org.c 1130-1131).                       *)
(***************************************************************************)
ClearsAll == call.op = "clear" => \A i \in 0..(Size - 1) : mem[i] = 0

(***************************************************************************)
(* What the note before memory_get16 says of the accessors of 8 and 16 bits:  *)
(* they return the value zero-extended.  memory_get8 extends the sign         *)
(* (zero_Memory_org.c 960, 984-996).                                         *)
(***************************************************************************)
ZeroExtended == call.op \in {"get8", "get16"} => call.ret.v >= 0

=============================================================================
