------------------------------ MODULE Profile ------------------------------
(***************************************************************************)
(* The method profiler (debug/profile.c, build option PROFILE).  Compiled  *)
(* methods note the time stamp counter when they are entered and call      *)
(* profile_call when they are left; the time a thread is switched out and  *)
(* the time the profiler itself takes (the drift) are subtracted.  Times   *)
(* are ticks of the clock.  profile_shell is the monitor's evaluation.     *)
(* jxmalloc panics when there is no memory, so its callers never see NULL. *)
(***************************************************************************)
EXTENDS Integers, Sequences, FiniteSets, SequencesExt

CONSTANTS
    Callers, Callees,   \* return addresses; methods (both are addresses)
    MethodAt,           \* findMethodAtAddr: the method of a return address, 0: none
    HashSize,           \* PROF_HASH_SIZE
    StackSize, Slack,   \* PROF_DRIFT_STACK_SIZE; what realloc_stack adds
    HalfRange,          \* a half of the time stamp counter holds 0 .. HalfRange-1
    DriftIn, DriftOut,  \* profile_drift_in, profile_drift_out
    Page,               \* methods on a page of the shell
    MaxDepth, MaxNow    \* bounds

ASSUME ProfileAssumption ==
    /\ StackSize >= 2 /\ Slack >= 2 /\ HashSize > 0 /\ Page > 0
    /\ MethodAt \in [Callers -> Nat]

VARIABLES
    prof,       \* the ProfileDesc of the thread
    frames,     \* the profiled calls the thread is in
    stage,      \* run, or the stage of an epilogue: read, marked, reread
    out,        \* in, or why the thread is switched out
    t2,         \* the time the epilogue has read
    tsc,        \* the time stamp counter
    left,       \* the calls left since the last clear, per caller and callee:
                \* how many returned, how many an exception left, and their time
    shell       \* the shell

profVars == <<prof, frames, stage, out, t2, tsc, left, shell>>

profile_new_desc ==
    [stop |-> 0, stimer |-> 0, dtime |-> 0, ptr |-> 1, drift |-> [i \in 1..StackSize |-> 0],
     entries |-> [i \in 1..HashSize |-> << >>]]

NoShell == [open |-> FALSE, plist |-> << >>, mlist |-> << >>, order |-> << >>]
NoCalls == [c \in Callers \X Callees |-> [returned |-> 0, thrown |-> 0, time |-> 0]]

ProfInit ==
    /\ prof = profile_new_desc /\ frames = << >> /\ stage = "run" /\ out = "in"
    /\ t2 = 0 /\ tsc = HalfRange /\ left = NoCalls /\ shell = NoShell

Tick == tsc' = tsc + 1

(***************************************************************************)
(* Switching the thread out and back                                       *)
(***************************************************************************)

Stopped(d) == [d EXCEPT !.stop = 1, !.stimer = tsc]

profile_stop_block(d) == IF d.stop > 0 THEN d ELSE Stopped(d)
profile_stop_portal(d) == IF d.stop = 0 THEN Stopped(d) ELSE d

\* A preempted thread: the code compares three bytes at the interrupted
\* instruction with those of the epilogue, all of them or none.
profile_stop(d, bytes) ==
    IF IF d.stop = 2 THEN bytes = "none" ELSE bytes = "all" THEN d ELSE Stopped(d)

profile_cont(d) == IF d.stop # 1 THEN d ELSE [d EXCEPT !.dtime = @ + tsc - d.stimer, !.stop = 0]
profile_cont_block(d) == profile_cont(d)
profile_cont_portal(d) == profile_cont(d)

\* The bytes a preempted thread stands at: those of the epilogue when it is
\* between reading the counter and setting the flag.
BytesAt == IF stage \in {"read", "reread"} THEN {"all"} ELSE {"none", "some"}

Switch(desc, how) ==
    /\ out = "in" /\ ~shell.open
    /\ prof' = desc /\ out' = how
    /\ UNCHANGED <<frames, stage, t2, tsc, left, shell>>
Preempted == \E bytes \in BytesAt : Switch(profile_stop(prof, bytes), "preempted")
Blocks == stage = "run" /\ Switch(profile_stop_block(prof), "blocked")
CallsPortal == stage = "run" /\ Switch(profile_stop_portal(prof), "portal")

Back ==
    /\ out # "in" /\ ~shell.open
    /\ prof' = CASE out = "blocked" -> profile_cont_block(prof)
                 [] out = "portal" -> profile_cont_portal(prof)
                 [] out = "preempted" -> profile_cont(prof)
    /\ out' = "in"
    /\ UNCHANGED <<frames, stage, t2, tsc, left, shell>>

\* Time passes, in the thread or elsewhere.
Passes ==
    /\ ~shell.open /\ tsc < MaxNow
    /\ Tick
    /\ UNCHANGED <<prof, frames, stage, out, t2, left, shell>>

(***************************************************************************)
(* Calls                                                                   *)
(***************************************************************************)

realloc_stack(d) ==
    IF d.ptr + 1 < Len(d.drift) THEN d
    ELSE [d EXCEPT !.drift = [i \in 1..(d.ptr + Slack) |-> IF i <= Len(d.drift) THEN d.drift[i] ELSE 0]]

HashOf(c, m) == (((c + m) \div 4) % HashSize) + 1
profile_new_entry(c, m) == [caller |-> c, callee |-> m, cmdesc |-> 0, time |-> 0, rtime |-> 0, count |-> 0]
Matches_CalleeOnly(e, c, m) == e.callee = m
Matches(e, c, m) == e.caller = c /\ e.callee = m

\* The entry of the pair in its chain, made if need be.
Chain(d, c, m) ==
    LET l == d.entries[HashOf(c, m)]
    IN IF \E i \in DOMAIN l : Matches(l[i], c, m) THEN l ELSE Append(l, profile_new_entry(c, m))
Found(l, c, m) == SelectInSeq(l, LAMBDA e : Matches(e, c, m))

profile_call(d0, end, begin, c, m) ==
    LET d == realloc_stack(d0)
        l == Chain(d, c, m)
        i == Found(l, c, m)
        td == end - begin
        dtime == IF d.dtime > td THEN 0 ELSE d.dtime
        own == d.drift[d.ptr + 1] + dtime + DriftIn
        drift1 == IF own > td THEN td - 1 ELSE own
    IN [d EXCEPT !.ptr = @ - 1, !.dtime = 0,
                 !.drift = [@ EXCEPT ![d.ptr + 1] = 0, ![d.ptr] = @ + drift1 + DriftOut],
                 !.entries[HashOf(c, m)] =
                    [l EXCEPT ![i] = [@ EXCEPT !.time = @ + td - drift1, !.rtime = @ + td, !.count = @ + 1]]]

Top == Last(frames)
Leaves(how, time) ==
    left' = [left EXCEPT ![<<Top.caller, Top.callee>>] = [@ EXCEPT ![how] = @ + 1, !.time = @ + time]]

\* The compiled prologue.
Enter(c, m) ==
    /\ stage = "run" /\ out = "in" /\ ~shell.open /\ Len(frames) < MaxDepth /\ tsc < MaxNow
    /\ frames' = Append(frames, [caller |-> c, callee |-> m, t1 |-> tsc])
    /\ prof' = [prof EXCEPT !.ptr = @ + 1]
    /\ Tick
    /\ UNCHANGED <<stage, out, t2, left, shell>>

\* The compiled epilogue: read the counter, mark, call the profiler, read
\* the counter again, unmark.
EpilogRead ==
    /\ stage = "run" /\ out = "in" /\ ~shell.open /\ frames # << >>
    /\ t2' = tsc /\ stage' = "read"
    /\ UNCHANGED <<prof, frames, out, tsc, left, shell>>
EpilogMark ==
    /\ stage = "read" /\ out = "in" /\ ~shell.open
    /\ prof' = [prof EXCEPT !.stop = 2] /\ stage' = "marked"
    /\ UNCHANGED <<frames, out, t2, tsc, left, shell>>
EpilogCall ==
    /\ stage = "marked" /\ out = "in" /\ ~shell.open
    /\ prof' = [profile_call(prof, t2, Top.t1, Top.caller, Top.callee) EXCEPT !.drift[prof.ptr] = @ + tsc - t2]
    /\ Leaves("returned", t2 - Top.t1)
    /\ stage' = "reread"
    /\ UNCHANGED <<frames, out, t2, tsc, shell>>
EpilogEnd ==
    /\ stage = "reread" /\ out = "in" /\ ~shell.open
    /\ prof' = [prof EXCEPT !.stop = 0] /\ frames' = Front(frames) /\ stage' = "run"
    /\ UNCHANGED <<out, t2, tsc, left, shell>>

\* An exception leaves a method: profile_call2 takes the time from the stack,
\* its low half only, as a signed number.
profile_call2 ==
    LET low == Top.t1 % HalfRange
    IN /\ stage = "run" /\ out = "in" /\ ~shell.open /\ frames # << >>
       /\ frames' = Front(frames)
       /\ Leaves("thrown", tsc - Top.t1)
       /\ prof' = IF low >= HalfRange \div 2 THEN [prof EXCEPT !.stop = 2]
                  ELSE [profile_call(prof, tsc, low, Top.caller, Top.callee) EXCEPT !.stop = 0]
       /\ UNCHANGED <<stage, out, t2, tsc, shell>>

(***************************************************************************)
(* Evaluation                                                              *)
(***************************************************************************)

clear_hash(d) == [d EXCEPT !.entries = [i \in 1..HashSize |-> << >>]]

SameEdge(x, e) == x.cmdesc = e.cmdesc /\ x.callee = e.callee
AddEntry(lst, e0) ==
    LET e == [e0 EXCEPT !.cmdesc = MethodAt[e0.caller]]
        i == SelectInSeq(lst, LAMBDA x : SameEdge(x, e))
    IN IF i = 0 THEN Append(lst, e)
       ELSE [lst EXCEPT ![i] = [@ EXCEPT !.time = @ + e.time, !.rtime = @ + e.rtime, !.count = @ + e.count]]
create_entry_lst(lst, d) == FoldLeft(AddEntry, lst, FlattenSeq(d.entries))

SumOf(s, F(_)) == FoldLeft(LAMBDA a, e : a + F(e), 0, s)

create_method_entry(plist, mlist, m) ==
    LET called == SelectSeq(plist, LAMBDA e : e.callee = m)
        calls == SumOf(called, LAMBDA e : e.count)
        sub == SumOf(SelectSeq(plist, LAMBDA e : e.callee # m /\ e.cmdesc = m), LAMBDA e : e.time)
        time == SumOf(called, LAMBDA e : e.time)
        total == IF sub > time THEN sub + calls ELSE time
    IN IF \E i \in DOMAIN mlist : mlist[i].desc = m THEN mlist
       ELSE Append(mlist,
              IF calls = 0 THEN [desc |-> m, calls |-> 0, total |-> 1, method |-> 1, average |-> 1]
              ELSE [desc |-> m, calls |-> calls, total |-> total, method |-> total - sub, average |-> total \div calls])
new_method_lst(plist) ==
    FoldLeft(LAMBDA l, e : create_method_entry(plist, create_method_entry(plist, l, e.callee), e.cmdesc), << >>, plist)

\* cmp_total_time, cmp_method_time, cmp_average_time: a field decides.
Sorts == {"total", "method", "average"}
SortInto(s, x, key) ==
    LET i == SelectInSeq(s, LAMBDA y : x[key] > y[key])
    IN IF i = 0 THEN Append(s, x) ELSE InsertAt(s, i, x)
sort_methods(mlist, key) == FoldLeft(LAMBDA s, x : SortInto(s, x, key), << >>, mlist)

find_method(mlist, m) == SelectInSeq(mlist, LAMBDA e : e.desc = m)
\* list_methods prints a page; method_dump names the ends of every edge by
\* their numbers; dump_digraph follows the edges from a method two steps.
list_methods(order) == SubSeq(order, 1, IF Len(order) < Page THEN Len(order) ELSE Page)
method_dump(plist, mlist) ==
    [i \in DOMAIN plist |-> <<find_method(mlist, plist[i].cmdesc), find_method(mlist, plist[i].callee), plist[i].count>>]
CalleesOf(plist, m) == {plist[i].callee : i \in {j \in DOMAIN plist : plist[j].cmdesc = m}}
CallersOf(plist, m) == {plist[i].cmdesc : i \in {j \in DOMAIN plist : plist[j].callee = m}}
dump_digraph(plist, m) == CallersOf(plist, m) \cup CalleesOf(plist, m)
                          \cup UNION {CalleesOf(plist, c) : c \in CalleesOf(plist, m)}

\* The shell is left at once when there is nothing to show.
ShellOpens ==
    LET pl == create_entry_lst(<< >>, prof)
        ml == new_method_lst(pl)
    IN /\ ~shell.open /\ ml # << >>
       /\ shell' = [open |-> TRUE, plist |-> pl, mlist |-> ml, order |-> sort_methods(ml, "method")]
       /\ UNCHANGED <<prof, frames, stage, out, t2, tsc, left>>
ShellSorts ==
    /\ shell.open /\ \E key \in Sorts : shell' = [shell EXCEPT !.order = sort_methods(shell.mlist, key)]
    /\ UNCHANGED <<prof, frames, stage, out, t2, tsc, left>>
ShellNext ==
    /\ shell.open
    /\ shell' = [shell EXCEPT !.order = SubSeq(@, Page + 1, Len(@))]
    /\ UNCHANGED <<prof, frames, stage, out, t2, tsc, left>>
ShellClears ==
    /\ shell.open
    /\ prof' = clear_hash(prof) /\ left' = NoCalls
    /\ UNCHANGED <<frames, stage, out, t2, tsc, shell>>
ShellQuits ==
    /\ shell.open /\ shell' = NoShell
    /\ UNCHANGED <<prof, frames, stage, out, t2, tsc, left>>

ProfNext ==
    \/ Preempted \/ Blocks \/ CallsPortal \/ Back \/ Passes
    \/ \E c \in Callers, m \in Callees : Enter(c, m)
    \/ EpilogRead \/ EpilogMark \/ EpilogCall \/ EpilogEnd \/ profile_call2
    \/ ShellOpens \/ ShellSorts \/ ShellNext \/ ShellClears \/ ShellQuits

(***************************************************************************)
(* Properties                                                              *)
(***************************************************************************)

Edges(m1, m2) == {c \in Callers : MethodAt[c] = m1} \X {m2}
LeftOn(m1, m2, what) == FoldLeft(LAMBDA a, x : a + left[x][what], 0, SetToSeq(Edges(m1, m2)))
Profiled(m1, m2, F(_)) == SumOf(SelectSeq(create_entry_lst(<< >>, prof), LAMBDA e : e.cmdesc = m1 /\ e.callee = m2), F)
CallingMethods == {MethodAt[c] : c \in Callers}

\* Whatever switches, exceptions and deep recursion come in between, the
\* profile counts every call that returns once, under its caller and its
\* callee, and one that an exception leaves at most once; where no exception
\* has left a call it charges no more time than the calls took; and the slot
\* the epilogue writes is inside the drift stack (profile.c 738-841,
\* 1388-1453, 1494-1528).
ProfileAccounted ==
    /\ \A m1 \in CallingMethods, m2 \in Callees :
        LET count == Profiled(m1, m2, LAMBDA e : e.count)
            thrown == LeftOn(m1, m2, "thrown")
        IN /\ count \in LeftOn(m1, m2, "returned") .. (LeftOn(m1, m2, "returned") + thrown)
           /\ thrown = 0 => Profiled(m1, m2, LAMBDA e : e.time) <= LeftOn(m1, m2, "time")
    /\ LET pl == create_entry_lst(<< >>, prof)
       IN \A i, j \in DOMAIN pl : i # j => ~SameEdge(pl[i], pl[j])
    /\ prof.ptr > Len(frames) - (IF stage = "reread" THEN 1 ELSE 0)
    /\ stage = "reread" => prof.ptr <= Len(prof.drift)

\* Not so: a call that an exception leaves is counted, and with its own time.
\* profile_call2 takes the low half of the time the call began for all of it
\* (profile.c 683): it charges the time since the machine started, and counts
\* nothing when the half is negative (697).
ExceptionsAccounted ==
    \A m1 \in CallingMethods, m2 \in Callees :
        /\ Profiled(m1, m2, LAMBDA e : e.count) = LeftOn(m1, m2, "returned") + LeftOn(m1, m2, "thrown")
        /\ Profiled(m1, m2, LAMBDA e : e.time) <= LeftOn(m1, m2, "time")

\* The shell's lists agree with each other: every method of the call graph is
\* listed once, both ends of every edge are found, a method's calls are those
\* of its incoming edges, and a page shows the largest of what is left, in
\* descending order (profile.c 159-202, 850-936, 1001-1070, 1082-1156).
ReportRight ==
    shell.open =>
      /\ \A i, j \in DOMAIN shell.mlist : shell.mlist[i].desc = shell.mlist[j].desc => i = j
      /\ \A i \in DOMAIN shell.plist : method_dump(shell.plist, shell.mlist)[i][1] # 0 /\ method_dump(shell.plist, shell.mlist)[i][2] # 0
      /\ \A i \in DOMAIN shell.mlist : \A m \in dump_digraph(shell.plist, shell.mlist[i].desc) : find_method(shell.mlist, m) # 0
      /\ SumOf(shell.mlist, LAMBDA e : e.calls) = SumOf(shell.plist, LAMBDA e : e.count)
      /\ \E key \in Sorts :
            /\ \A i, j \in DOMAIN shell.order : i < j => shell.order[i][key] >= shell.order[j][key]
            /\ \A x \in ToSet(list_methods(shell.order)), y \in ToSet(shell.order) \ ToSet(list_methods(shell.order)) : x[key] >= y[key]

(***************************************************************************)
(* What the profiler has counted is what ran and returned, and what its     *)
(* shell shows is what it has counted (profile.c 738-841, 850-1156,         *)
(* 1388-1528).  Calls that exceptions leave may be missing or charged too   *)
(* much: ExceptionsAccounted.                                              *)
(***************************************************************************)
ProfileRight == ProfileAccounted /\ ReportRight
=============================================================================
