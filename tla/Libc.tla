-------------------------------- MODULE Libc --------------------------------
(***************************************************************************)
(* The kernel's C library (arch/minic.c): 64-bit division in four digits,   *)
(* number formatting and parsing, string helpers.                           *)
(* The word sizes are parameters: the code has HALF_BITS = 16 and a LONG of *)
(* 32 bits.  A character is a one-letter string, a C string a sequence of   *)
(* them (the terminating NUL is the end of the sequence).                   *)
(***************************************************************************)
EXTENDS Integers, Sequences, FiniteSets, SequencesExt, Functions

CONSTANTS
    HALF_BITS,      \* bits of a digit; a u4_t has two, a quad_t four digits
    LONG_BITS       \* bits of a long in formatting and parsing

ASSUME LibcAssumption == HALF_BITS \in Nat \ {0} /\ LONG_BITS \in Nat \ {0}

-----------------------------------------------------------------------------
(* Division (Knuth's algorithm D)                                           *)

B == 2^HALF_BITS
WORD == B * B
QUAD == WORD * WORD
HHALF(x) == x \div B
LHALF(x) == x % B
COMBINE(a, b) == a * B + b

Digits4(x) == [i \in 1..4 |-> (x \div B^(4 - i)) % B]
Value4(f) == f[1] * B^3 + f[2] * B^2 + f[3] * B + f[4]

\* shl: p[0]..p[len] left by sh bits.
Shl(p, first, last, sh) ==
    [i \in DOMAIN p |->
        IF i \notin first..last THEN p[i]
        ELSE LHALF(p[i] * 2^sh) + (IF i < last THEN p[i + 1] \div 2^(HALF_BITS - sh) ELSE 0)]

\* A one-digit divisor: school division, digit by digit.
ShortDivision(u, t) ==
    LET step(acc, i) == LET rbj == COMBINE(acc.r, u[i])
                        IN [q |-> [acc.q EXCEPT ![i] = rbj \div t], r |-> rbj % t]
    IN FoldLeft(step, [q |-> [i \in 1..4 |-> 0], r |-> 0], <<1, 2, 3, 4>>)

\* D3: the trial digit, lowered while it is seen to be too big.
QHat(u0, u1, u2, v1, v2) ==
    LET lower[q \in 0..B, r \in 0..(2 * B)] ==
            IF r >= B \/ (v2 * q) % WORD <= COMBINE(r, u2) THEN q ELSE lower[q - 1, r + v1]
    IN IF u0 = v1 THEN lower[B - 1, u1 + v1]
       ELSE lower[COMBINE(u0, u1) \div v1, COMBINE(u0, u1) % v1]

\* D4: u[j..j+n] -= qhat * v[1..n]; t carries the borrow.
MultiplySubtract(u, v, n, j, qhat) ==
    LET step(acc, i) ==
            LET t == (acc.u[i + j] - v[i] * qhat - acc.t) % WORD
            IN [u |-> [acc.u EXCEPT ![i + j] = LHALF(t)], t |-> (B - HHALF(t)) % B]
    IN FoldLeft(step, [u |-> u, t |-> 0], Reverse([i \in 1..n |-> i]))

\* Mutant: the carry of the addition is forgotten.
AddBack_NoCarry(u, v, n, j) ==
    LET step(acc, i) == [acc EXCEPT ![i + j] = LHALF(@ + v[i])]
    IN FoldLeft(step, u, Reverse([i \in 1..n |-> i]))

\* D6: add the divisor back.
AddBack(u, v, n, j) ==
    LET step(acc, i) ==
            LET t == acc.t + acc.u[i + j] + v[i]
            IN [u |-> [acc.u EXCEPT ![i + j] = LHALF(t)], t |-> HHALF(t)]
        r == FoldLeft(step, [u |-> u, t |-> 0], Reverse([i \in 1..n |-> i]))
    IN [r.u EXCEPT ![j] = LHALF(@ + r.t)]

\* D2 .. D7 for one quotient digit.
DivideDigit(acc, v, n, j) ==
    LET qhat == QHat(acc.u[j], acc.u[j + 1], acc.u[j + 2], v[1], v[2])
        ms == MultiplySubtract(acc.u, v, n, j, qhat)
        t == (ms.u[j] - ms.t) % WORD
        u == [ms.u EXCEPT ![j] = LHALF(t)]
    IN IF HHALF(t) # 0
       THEN [u |-> AddBack(u, v, n, j), q |-> Append(acc.q, qhat - 1)]
       ELSE [u |-> u, q |-> Append(acc.q, qhat)]

FirstNonZero(f) == CHOOSE i \in 1..4 : f[i] # 0 /\ \A k \in 1..(i - 1) : f[k] = 0

\* __qdivrem(uq, vq): quotient and remainder; vq = 0 traps.
QDivRem(uq, vq) ==
    IF uq < vq THEN [q |-> 0, r |-> uq]
    ELSE
    LET us == Digits4(uq)
        vs == Digits4(vq)
        n == 5 - FirstNonZero(vs)
        uo == FirstNonZero(us) - 1              \* u++ past leading zeros
        m == 4 - n - uo
        v0 == [i \in 1..n |-> vs[i + 4 - n]]
        u0 == [i \in 0..(m + n) |-> IF i = 0 THEN 0 ELSE us[i + uo]]
        d == CHOOSE k \in 0..(HALF_BITS - 1) : v0[1] * 2^k \in (B \div 2)..(B - 1)
        v == IF d > 0 THEN Shl(v0, 1, n, d) ELSE v0
        u == IF d > 0 THEN Shl(u0, 0, m + n, d) ELSE u0
        step(acc, j) == DivideDigit(acc, v, n, j)
        res == FoldLeft(step, [u |-> u, q |-> <<>>], [k \in 1..(m + 1) |-> k - 1])
        rest == [i \in 1..4 |->
                    LET k == i - uo
                    IN CASE k < 0 -> 0
                         [] d = 0 -> res.u[k]
                         [] k > m -> (res.u[k] \div 2^d) + LHALF(res.u[k - 1] * 2^(HALF_BITS - d))
                         [] k = m -> 0
                         [] OTHER -> res.u[k]]
    IN IF n = 1
       THEN LET s == ShortDivision(us, vs[4]) IN [q |-> Value4(s.q), r |-> s.r]
       ELSE [q |-> Value4([i \in 1..4 |-> IF i < 4 - m THEN 0 ELSE res.q[i - 3 + m]]),
             r |-> Value4(rest)]

SignedQuad(x) == IF x >= QUAD \div 2 THEN x - QUAD ELSE x
Magnitude(a) == (IF a < 0 THEN -a ELSE a) % QUAD

DivDi3(a, b) ==
    LET uq == QDivRem(Magnitude(a), Magnitude(b)).q
    IN SignedQuad((IF (a < 0) # (b < 0) THEN -uq ELSE uq) % QUAD)

\* The sign follows both operands, as in the code.
ModDi3(a, b) ==
    LET ur == QDivRem(Magnitude(a), Magnitude(b)).r
    IN SignedQuad((IF (a < 0) # (b < 0) THEN -ur ELSE ur) % QUAD)

\* longShr, longShl, longUShr (core/load.c) on two's complement;
\* the constant 2 of longUShr is an int: 2 << ~b loses the upper half.
QUAD_BITS == 4 * HALF_BITS
longShr(a, b) == a \div 2^(b % QUAD_BITS)
longShl(a, b) == SignedQuad((a * 2^(b % QUAD_BITS)) % QUAD)
longUShr(a, b) ==
    LET s == b % QUAD_BITS
        two == (2 * 2^((QUAD_BITS - 1 - s) % (QUAD_BITS \div 2))) % WORD
        int == IF two >= WORD \div 2 THEN two - WORD ELSE two
    IN IF a >= 0 THEN a \div 2^s ELSE SignedQuad((a \div 2^s + int) % QUAD)

-----------------------------------------------------------------------------
(* Formatting                                                               *)

LONG == 2^LONG_BITS
LONG_MAX == LONG \div 2 - 1
LONG_MIN == -(LONG \div 2)

Digs == <<"0", "1", "2", "3", "4", "5", "6", "7", "8", "9", "a", "b", "c", "d", "e", "f">>
Chars(c, n) == [i \in 1..(IF n > 0 THEN n ELSE 0) |-> c]

\* printnum, printstr, sprintnum, dtostr: the digits of u, at least one.
PrintNum(u, base) ==
    LET num[x \in 0..(LONG - 1)] ==
            IF x < base THEN <<Digs[x + 1]>> ELSE Append(num[x \div base], Digs[(x % base) + 1])
    IN num[u]

\* The directive %[flags][0][length][.prec]conv of vprintf for a number.
PrintNumber(f, arg) ==
    LET signed == f.conv \in {"d", "z"}
        base == CASE f.conv \in {"d", "u"} -> 10 [] f.conv = "o" -> 8 [] OTHER -> 16
        neg == signed /\ arg < 0
        u == arg % LONG
        mag == IF neg THEN (-arg) % LONG ELSE u
        sign == IF neg THEN <<"-">> ELSE IF signed THEN f.plus ELSE <<>>
        prefix == CASE mag # 0 /\ f.alt /\ base = 8 -> <<"0">>
                    [] mag # 0 /\ f.alt /\ base = 16 -> <<"0", "x">>
                    [] OTHER -> <<>>
        digits == PrintNum(mag, base)
        prec == f.prec - Len(digits)
        length == f.length - Len(digits) - Len(sign) - Len(prefix) - (IF prec > 0 THEN prec ELSE 0)
        blanks == f.padc = " " /\ ~f.ladjust
        zeros == f.padc = "0"
    IN Chars(" ", IF blanks THEN length ELSE 0) \o sign \o prefix \o Chars("0", prec)
       \o Chars("0", IF zeros THEN length ELSE 0) \o digits
       \* the length counter is used up (-1) once a padding loop has run
       \o Chars(" ", IF f.ladjust /\ ~zeros THEN length ELSE 0)

\* %s: n counts one character too many when the string is cut.
PrintString(f, s) ==
    LET cut == f.prec # -1 /\ Len(s) > f.prec
        shown == IF cut THEN SubSeq(s, 1, f.prec) ELSE s
        n == IF cut THEN f.prec + 1 ELSE Len(s)
    IN (IF f.length > 0 /\ ~f.ladjust THEN Chars(" ", f.length - Len(shown)) ELSE <<>>)
       \o shown \o (IF f.ladjust THEN Chars(" ", f.length - n) ELSE <<>>)

-----------------------------------------------------------------------------
(* Parsing                                                                  *)

IsSpace(c) == c = " "
DigitValue(c) == IF \E i \in DOMAIN Digs : Digs[i] = c
                 THEN (CHOOSE i \in DOMAIN Digs : Digs[i] = c) - 1 ELSE 99

SkipSpaces(s) ==
    LET k == SelectInSeq(s, LAMBDA c : ~IsSpace(c)) IN IF k = 0 THEN <<>> ELSE SubSeq(s, k, Len(s))
HexPrefix(s) == Len(s) >= 2 /\ s[1] = "0" /\ s[2] = "x"

\* The base and the rest of the string after a prefix.
PickBase(s, base) ==
    CASE base \in {0, 16} /\ HexPrefix(s) -> [base |-> 16, s |-> SubSeq(s, 3, Len(s))]
      [] base = 0 /\ ~HexPrefix(s) -> [base |-> IF s # <<>> /\ s[1] = "0" THEN 8 ELSE 10, s |-> s]
      [] OTHER -> [base |-> base, s |-> s]

DigitRun(s, base) ==
    LET k == SelectInSeq(s, LAMBDA c : DigitValue(c) >= base)
    IN IF k = 0 THEN s ELSE SubSeq(s, 1, k - 1)

\* strtol: the value saturates at LONG_MIN / LONG_MAX.
Strtol(str, base0) ==
    LET s == SkipSpaces(str)
        neg == s # <<>> /\ s[1] = "-"
        signed == s # <<>> /\ s[1] \in {"-", "+"}
        pb == PickBase(IF signed THEN Tail(s) ELSE s, base0)
        limit == IF neg THEN -LONG_MIN ELSE LONG_MAX
        cutoff == limit \div pb.base
        cutlim == limit % pb.base
        step(acc, c) ==
            LET v == DigitValue(c)
            IN IF acc.any < 0 \/ acc.n > cutoff \/ (acc.n = cutoff /\ v > cutlim)
               THEN [acc EXCEPT !.any = -1]
               ELSE [any |-> 1, n |-> acc.n * pb.base + v]
        acc == FoldLeft(step, [any |-> 0, n |-> 0], DigitRun(pb.s, pb.base))
    IN CASE acc.any < 0 -> IF neg THEN LONG_MIN ELSE LONG_MAX
         [] OTHER -> IF neg THEN -acc.n ELSE acc.n

\* strtoul and atol wrap around.
Strtoul(str, base0) ==
    LET pb == PickBase(SkipSpaces(str), base0)
    IN FoldLeft(LAMBDA n, c : (n * pb.base + DigitValue(c)) % LONG, 0, DigitRun(pb.s, pb.base))

Atol(str) == FoldLeft(LAMBDA n, c : (n * 10 + DigitValue(c)) % LONG, 0, DigitRun(str, 10))

-----------------------------------------------------------------------------
(* Strings                                                                  *)

\* strtok: the next token and what `last' keeps (<<>> stands for NULL too).
Strtok(s, delim) ==
    LET a == SelectInSeq(s, LAMBDA c : c \notin delim)
        rest == IF a = 0 THEN <<>> ELSE SubSeq(s, a, Len(s))
        e == SelectInSeq(rest, LAMBDA c : c \in delim)
    IN CASE a = 0 -> [tok |-> <<>>, last |-> <<>>]
         [] a # 0 /\ e = 0 -> [tok |-> rest, last |-> <<>>]
         [] OTHER -> [tok |-> SubSeq(rest, 1, e - 1), last |-> SubSeq(rest, e + 1, Len(rest))]

\* All tokens of a string, as the callers of strtok collect them.
Tokens(str, delim) ==
    LET all[n \in 0..Len(str)] ==
            IF n = 0 THEN [toks |-> <<>>, rest |-> str]
            ELSE LET p == all[n - 1]
                     t == Strtok(p.rest, delim)
                 IN IF t.tok = <<>> THEN [p EXCEPT !.rest = <<>>]
                    ELSE [toks |-> Append(p.toks, t.tok), rest |-> t.last]
    IN all[Len(str)].toks

\* strcmp and strncmp over numbered characters; 0 ends a string.
CharAt(s, i) == IF i <= Len(s) THEN s[i] ELSE 0
Strncmp(a, b, n) ==
    LET diff == {i \in 1..n : CharAt(a, i) # CharAt(b, i)}
        first == CHOOSE i \in diff : \A k \in diff : i <= k
    IN IF diff = {} THEN 0 ELSE CharAt(a, first) - CharAt(b, first)
Strcmp(a, b) == Strncmp(a, b, Len(a) + Len(b) + 1)
=============================================================================
