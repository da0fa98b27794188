------------------------------- MODULE Loader -------------------------------
(***************************************************************************)
(* Class libraries (core/load.c): reading a library and the libraries it    *)
(* needs, publishing it in the global list, linking its code, and giving    *)
(* each domain its own part (library entry, static fields, class states).   *)
(*                                                                          *)
(* Two kinds of threads load.  The initial thread of a new domain loads     *)
(* its whole list with interrupts disabled.  The component manager (one     *)
(* service thread of domain zero) loads one library for a calling domain,   *)
(* with interrupts disabled only inside loadSharedLibrary: it can be        *)
(* preempted between publishing a library and linking it, and between the   *)
(* classes while linking.                                                   *)
(*                                                                          *)
(* A method is abstracted to its list of symbols, a patched place to the    *)
(* thing its address denotes.                                               *)
(***************************************************************************)
EXTENDS Integers, Sequences, FiniteSets, SequencesExt, FiniteSetsExt, Functions

CONSTANTS
    LoadDomains,        \* domains that are created
    CodeFiles,          \* library name -> contents of the code file
    VMOps,          \* the names in vmsupport[], in order
    StartLibs,      \* domain -> the libraries its initial thread loads
    Requests,       \* pairs <<domain, library>> the component manager may be asked for
    MinVTable,      \* the least vtableSize that is accepted (11, the methods of Object)
    MaxLibs,        \* maxNumberOfLibs of a domain
    MaxAsked,       \* bound: calls of the component manager
    LoadsOverlap    \* may a domain start while the component manager is in load()?

VARIABLES
    slibs,      \* sharedLibs, oldest first; position = lib->ndx + 1
    vmindex,    \* vmsupport[j].index
    dom,        \* per domain: libs[], ndx_libs[], sfields[]
    phase,      \* per domain: what its initial thread has reached
    thr,        \* per loading thread: where it is in load()
    cli,        \* the thread that has disabled interrupts, or NoLoader
    ctor,       \* per domain: class constructor work of its threads
    asked,      \* calls of the component manager so far
    loadPanic       \* sys_panic was called

loaderVars == <<slibs, vmindex, dom, phase, thr, cli, ctor, asked, loadPanic>>

CM == "componentManager"
NoLoader == "nobody"
Loaders == LoadDomains \cup {CM}
Libs == DOMAIN CodeFiles
NVM == Len(VMOps)
None == <<0, 0>>
Object == "java/lang/Object"
java_lang_Object == <<0, 1>>    \* known before any library is loaded

-----------------------------------------------------------------------------
(* Lookup.  The global lists are searched newest first.                     *)

FindSharedLib(name) == Max({0} \cup {l \in DOMAIN slibs : slibs[l].name = name})

FindClassDescInSharedLib(cls, name) ==
    SelectInSeq(cls, LAMBDA c : c.name = name)

\* <<library, position>> of a class; libraries whose hash key excludes the
\* name are skipped, which never skips a library that has it.
FindClassDesc(name) ==
    IF name = Object THEN java_lang_Object
    ELSE LET l == Max({0} \cup {k \in DOMAIN slibs :
                          FindClassDescInSharedLib(slibs[k].cls, name) # 0})
         IN IF l = 0 THEN None
            ELSE <<l, FindClassDescInSharedLib(slibs[l].cls, name)>>

\* The code of a class's method: none when the class is unknown, a null
\* pointer when its library's code addresses are not set yet.
FindMethodCode(name) ==
    LET c == FindClassDesc(name)
    IN CASE c = None -> <<"none">>
         [] c # None /\ ~slibs[c[1]].cls[c[2]].code -> <<"null">>
         [] OTHER -> <<"code", c>>

SharedLib2Lib(d, l) == dom[d].ndx[l]

-----------------------------------------------------------------------------
(* Reading a library                                                        *)

\* The operands that follow a symbol in the file, by its type.  "fixed" stands
\* for the types that name one kernel function or a constant of the build,
\* "retired" for those the linker refuses.
SymbolOperands(type) ==
    CASE type \in {"fixed", "method", "retired"} -> {}
      [] type = "static" -> {"name", "off"}
      [] type \in {"class", "call", "string"} -> {"name"}
      [] type \in {"vm", "vmabs"} -> {"op"}
TableOperands(type) ==
    CASE type = "stackmap" -> {"bits"}
      [] type = "handler" -> {"name"}
      [] type = "tcb" -> {"kind"}
TableTypes == {"stackmap", "handler", "tcb"}

ReadSymbol(raw) ==
    [x \in {"type"} \cup (IF raw.type \in TableTypes THEN TableOperands(raw.type)
                                                   ELSE SymbolOperands(raw.type)) |-> raw[x]]

\* A symbol must lie inside the code of its method.
WrongPatchIndex(c) == \E k \in DOMAIN c.syms : c.syms[k].end > c.codeBytes

\* Wrong: an entry that an earlier library has set is kept.
ReadVMSymbolsOnce(f) ==
    [j \in 0..(NVM - 1) |->
        IF j + 1 \in DOMAIN f.vmtab /\ slibs = <<>>
        THEN Max({0} \cup {k \in 0..(NVM - 1) : VMOps[k + 1] = f.vmtab[j + 1]})
        ELSE vmindex[j]]

\* vmsupport[j].index: which operation this file's j-th name is (0 if none).
ReadVMSymbols(f) ==
    [j \in 0..(NVM - 1) |->
        IF j + 1 \in DOMAIN f.vmtab
        THEN Max({0} \cup {k \in 0..(NVM - 1) : VMOps[k + 1] = f.vmtab[j + 1]})
        ELSE vmindex[j]]

\* Position of the static fields of class i in the static area of its library.
StaticOffset(f, i) ==
    FoldFunctionOnSet(+, 0, [k \in DOMAIN f.classes |-> f.classes[k].statics], 1..(i - 1))

\* The superclass is looked up in the library itself, then everywhere.
FindSuper(f, i) ==
    LET s == f.classes[i].super
        own == FindClassDescInSharedLib(SubSeq(f.classes, 1, i), s)
    IN CASE s = "" -> None
         [] s # "" /\ s # Object /\ own # 0 -> <<Len(slibs) + 1, own>>
         [] OTHER -> FindClassDesc(s)

ReadMethod(c) == [k \in DOMAIN c.syms |-> ReadSymbol(c.syms[k])]

ReadClass(f, i) ==
    [name |-> f.classes[i].name, super |-> FindSuper(f, i),
     soff |-> StaticOffset(f, i), ssize |-> f.classes[i].statics,
     ifname |-> f.classes[i].interfaces, vtableSym |-> f.classes[i].vtable,
     syms |-> ReadMethod(f.classes[i]), codeBytes |-> f.classes[i].codeBytes,
     code |-> FALSE, interfaces |-> <<>>, vtable |-> <<>>, linked |-> FALSE, patched |-> <<>>]

\* A thread in load().  frames: the loadSharedLibrary calls in progress,
\* innermost last; ls: the loadLib calls in progress, innermost last.
IdleLoader == [pc |-> "idle", dom |-> NoLoader, todo |-> <<>>, frames |-> <<>>, lib |-> 0, i |-> 0,
         ls |-> <<>>]

NoOtherHolds(t) == cli \in {t, NoLoader} /\ ~loadPanic

Goto(t, pc) == thr' = [thr EXCEPT ![t].pc = pc]

\* load(): try to find an already loaded library, else read it.
Load(t) ==
    /\ thr[t].pc = "find" /\ NoOtherHolds(t)
    /\ LET l == FindSharedLib(Head(thr[t].todo))
       IN thr' = [thr EXCEPT
            ![t].pc = IF l # 0 THEN "loadLib" ELSE "read",
            ![t].ls = IF l # 0 THEN <<l>> ELSE <<>>,
            ![t].frames = IF l # 0 THEN <<>>
                          ELSE <<[name |-> Head(thr[t].todo), needed |-> <<>>]>>]
    /\ UNCHANGED <<slibs, vmindex, dom, phase, cli, ctor, asked, loadPanic>>

\* loadSharedLibrary() disables interrupts and opens the file: a missing file
\* or a wrong checksum ends in sys_panic.
ReadCodefile(t) ==
    /\ thr[t].pc = "read" /\ NoOtherHolds(t)
    /\ cli' = t
    /\ LET name == Last(thr[t].frames).name
           ok == name \in Libs /\ CodeFiles[name].checksumOK
       IN IF ok THEN Goto(t, "need") /\ loadPanic' = loadPanic
                ELSE loadPanic' = TRUE /\ UNCHANGED thr
    /\ UNCHANGED <<slibs, vmindex, dom, phase, ctor, asked>>

TopFile(t) == CodeFiles[Last(thr[t].frames).name]

\* The next needed library: present, or read first.
NeedLib(t) ==
    /\ thr[t].pc = "need" /\ NoOtherHolds(t)
    /\ LET fr == Last(thr[t].frames)
           n == Len(fr.needed) + 1
           l == FindSharedLib(TopFile(t).needs[n])
       IN /\ n <= Len(TopFile(t).needs)
          /\ thr' = IF l # 0
                    THEN [thr EXCEPT ![t].frames[Len(thr[t].frames)].needed = Append(@, l)]
                    ELSE [thr EXCEPT ![t].pc = "read",
                                     ![t].frames = Append(@, [name |-> TopFile(t).needs[n],
                                                              needed |-> <<>>])]
    /\ UNCHANGED <<slibs, vmindex, dom, phase, cli, ctor, asked, loadPanic>>

Unnested(t) == Len(thr[t].frames) = 1

\* The rest of loadSharedLibrary(): the global table of VM operations, the
\* classes, their methods; then the library gets its index and is published.
\* Only the outermost call enables interrupts, and only if it disabled them.
ReadLibrary(t) ==
    /\ thr[t].pc = "need" /\ NoOtherHolds(t)
    /\ LET fr == Last(thr[t].frames)
           f == TopFile(t)
       IN /\ Len(fr.needed) = Len(f.needs)
          /\ vmindex' = ReadVMSymbols(f)
          /\ slibs' = Append(slibs, [name |-> fr.name, needed |-> fr.needed,
                                     cls |-> [i \in DOMAIN f.classes |-> ReadClass(f, i)]])
          /\ loadPanic' = \E i \in DOMAIN f.classes :
                         \/ f.classes[i].super # "" /\ FindSuper(f, i) = None
                         \/ WrongPatchIndex(f.classes[i])
                         \/ Len(f.vmtab) > NVM
    /\ thr' = [thr EXCEPT ![t].pc = "link", ![t].lib = Len(slibs) + 1]
    /\ cli' = IF Unnested(t) /\ t = CM THEN NoLoader ELSE cli
    /\ UNCHANGED <<dom, phase, ctor, asked>>

-----------------------------------------------------------------------------
(* Linking                                                                  *)

\* An abstract method has no code and gets no address.
SetCodeStart(cls) == [i \in DOMAIN cls |-> [cls[i] EXCEPT !.code = cls[i].codeBytes # 0]]
CreateVTable(cls) ==
    [i \in DOMAIN cls |-> [cls[i] EXCEPT !.vtable = [k \in DOMAIN cls[i].vtableSym |-> <<"null">>]]]

PatchStaticFieldAddress(sym) ==
    LET c == FindClassDesc(sym.name)
    IN IF c = None THEN <<"loadPanic">>
       ELSE <<"static", c[1], slibs[c[1]].cls[c[2]].soff + sym.off>>

PatchClassPointer(sym) ==
    LET c == FindClassDesc(sym.name) IN IF c = None THEN <<"loadPanic">> ELSE <<"class", c>>

PatchDirectMethodAddress(sym) ==
    LET m == FindMethodCode(sym.name)
    IN IF m \in {<<"none">>, <<"null">>} THEN <<"should_not_be_called">> ELSE m

\* The bounds test lets numberVMOperations through, one behind the table.
PatchVM(sym) ==
    IF sym.op \notin 1..NVM THEN <<"loadPanic">>
    ELSE IF sym.op = NVM THEN <<"wild">> ELSE <<"vm", VMOps[vmindex[sym.op] + 1]>>

PatchMethodSymbol(sym) ==
    CASE sym.type = "static" -> PatchStaticFieldAddress(sym)
      [] sym.type = "class" -> PatchClassPointer(sym)
      [] sym.type = "call" -> PatchDirectMethodAddress(sym)
      [] sym.type \in {"vm", "vmabs"} -> PatchVM(sym)
      [] sym.type = "retired" -> <<"loadPanic">>
      [] OTHER -> <<sym.type>>

\* What a clone of a method gets for a symbol: the places that are not patched
\* again keep the copied bytes; a thread control block offset is unknown here.
RepatchMethodSymbol(sym, old) ==
    CASE sym.type \in {"vmabs", "stackmap", "handler"} -> old
      [] sym.type = "tcb" -> <<"loadPanic">>
      [] OTHER -> PatchMethodSymbol(sym)

\* linksharedlib(): all code addresses and empty vtables first ...
LinkStart(t) ==
    /\ thr[t].pc = "link" /\ NoOtherHolds(t)
    /\ slibs' = [slibs EXCEPT ![thr[t].lib].cls = CreateVTable(SetCodeStart(@))]
    /\ thr' = [thr EXCEPT ![t].pc = "linkClass", ![t].i = 1]
    /\ UNCHANGED <<vmindex, dom, phase, cli, ctor, asked, loadPanic>>

\* A class's interfaces are looked up in its library, then everywhere.
FindInterface(l, name) ==
    LET own == FindClassDescInSharedLib(slibs[l].cls, name)
    IN IF own # 0 THEN <<l, own>> ELSE FindClassDesc(name)

\* ... then class by class: interfaces, the symbols in the code, the vtable.
LinkClass(t) ==
    /\ thr[t].pc = "linkClass" /\ NoOtherHolds(t)
    /\ LET l == thr[t].lib
           c == slibs[l].cls[thr[t].i]
           p == [k \in DOMAIN c.syms |-> PatchMethodSymbol(c.syms[k])]
           ifs == [k \in DOMAIN c.ifname |-> FindInterface(l, c.ifname[k])]
           vt == [k \in DOMAIN c.vtableSym |->
                    IF c.vtableSym[k] = "" THEN <<"null">> ELSE FindMethodCode(c.vtableSym[k])]
       IN /\ thr[t].i <= Len(slibs[l].cls)
          /\ slibs' = [slibs EXCEPT ![l].cls[thr[t].i] =
                          [@ EXCEPT !.patched = p, !.interfaces = ifs, !.vtable = vt,
                                    !.linked = TRUE]]
          /\ loadPanic' = \/ <<"loadPanic">> \in Range(p) \/ None \in Range(ifs)
                          \/ Len(c.vtableSym) < MinVTable \/ <<"none">> \in Range(vt)
    /\ thr' = [thr EXCEPT ![t].i = @ + 1]
    /\ UNCHANGED <<vmindex, dom, phase, cli, ctor, asked>>

\* After the last class the caller goes on: the library that needed this one,
\* or load() itself.
LinkEnd(t) ==
    /\ thr[t].pc = "linkClass" /\ NoOtherHolds(t)
    /\ thr[t].i > Len(slibs[thr[t].lib].cls)
    /\ LET fs == Front(thr[t].frames)
       IN thr' = IF Unnested(t)
                 THEN [thr EXCEPT ![t].pc = "loadLib", ![t].frames = <<>>,
                                  ![t].ls = <<thr[t].lib>>]
                 ELSE [thr EXCEPT ![t].pc = "need",
                         ![t].frames = [fs EXCEPT ![Len(fs)].needed = Append(@, thr[t].lib)]]
    /\ UNCHANGED <<slibs, vmindex, dom, phase, cli, ctor, asked, loadPanic>>

-----------------------------------------------------------------------------
(* The domain's own part of a library                                       *)

NewLib(l) == [slib |-> l, initialized |-> FALSE, state |-> [i \in DOMAIN slibs[l].cls |-> "new"]]

\* classDesc2Class(): the domain's class of a shared class, 0 when its library
\* is not in the domain (sys_panic).
ClassDesc2Class(d, c) ==
    IF c \in {None, java_lang_Object} THEN c
    ELSE IF SharedLib2Lib(d, c[1]) = 0 THEN <<"loadPanic">> ELSE <<SharedLib2Lib(d, c[1]), c[2]>>

\* loadLib(): the first needed library the domain does not have comes first.
LoadNeededLib(t) ==
    /\ thr[t].pc = "loadLib" /\ thr[t].ls # <<>> /\ NoOtherHolds(t)
    /\ LET l == Last(thr[t].ls)
           miss == SelectInSeq(slibs[l].needed, LAMBDA n : SharedLib2Lib(thr[t].dom, n) = 0)
       IN /\ miss # 0
          /\ thr' = [thr EXCEPT ![t].ls = Append(@, slibs[l].needed[miss])]
    /\ UNCHANGED <<slibs, vmindex, dom, phase, cli, ctor, asked, loadPanic>>

\* Wrong: a library is entered before those it needs.
LoadLibEarly(t) ==
    /\ thr[t].pc = "loadLib" /\ thr[t].ls # <<>> /\ NoOtherHolds(t)
    /\ LET l == Last(thr[t].ls)
           d == thr[t].dom
           n == Len(dom[d].libs) + 1
           full == n > MaxLibs \/ l > MaxLibs
       IN /\ IF full
             THEN loadPanic' = TRUE /\ UNCHANGED <<dom, slibs>>
             ELSE /\ dom' = [dom EXCEPT
                       ![d].libs = Append(@, NewLib(l)),
                       ![d].ndx = [@ EXCEPT ![l] = n],
                       ![d].sfields = [@ EXCEPT ![l] =
                            IF \E i \in DOMAIN slibs[l].cls : slibs[l].cls[i].ssize # 0
                            THEN n ELSE @]]
                  /\ slibs' = [slibs EXCEPT ![l].cls =
                       [i \in DOMAIN @ |-> IF @[i].ssize = 0 THEN [@[i] EXCEPT !.soff = 0]
                                                             ELSE @[i]]]
                  /\ loadPanic' = \E i \in DOMAIN slibs[l].cls :
                       /\ slibs[l].cls[i].super[1] # l    \* its own entry is in ndx_libs already
                       /\ ClassDesc2Class(d, slibs[l].cls[i].super) = <<"loadPanic">>
          /\ thr' = [thr EXCEPT ![t].ls = Front(@)]
    /\ UNCHANGED <<vmindex, phase, cli, ctor, asked>>


LoadLib(t) ==
    /\ thr[t].pc = "loadLib" /\ thr[t].ls # <<>> /\ NoOtherHolds(t)
    /\ LET l == Last(thr[t].ls)
           d == thr[t].dom
           n == Len(dom[d].libs) + 1
           full == n > MaxLibs \/ l > MaxLibs
       IN /\ \A k \in DOMAIN slibs[l].needed : SharedLib2Lib(d, slibs[l].needed[k]) # 0
          /\ IF full
             THEN loadPanic' = TRUE /\ UNCHANGED <<dom, slibs>>
             ELSE /\ dom' = [dom EXCEPT
                       ![d].libs = Append(@, NewLib(l)),
                       ![d].ndx = [@ EXCEPT ![l] = n],
                       ![d].sfields = [@ EXCEPT ![l] =
                            IF \E i \in DOMAIN slibs[l].cls : slibs[l].cls[i].ssize # 0
                            THEN n ELSE @]]
                  /\ slibs' = [slibs EXCEPT ![l].cls =
                       [i \in DOMAIN @ |-> IF @[i].ssize = 0 THEN [@[i] EXCEPT !.soff = 0]
                                                             ELSE @[i]]]
                  /\ loadPanic' = \E i \in DOMAIN slibs[l].cls :
                       /\ slibs[l].cls[i].super[1] # l    \* its own entry is in ndx_libs already
                       /\ ClassDesc2Class(d, slibs[l].cls[i].super) = <<"loadPanic">>
          /\ thr' = [thr EXCEPT ![t].ls = Front(@)]
    /\ UNCHANGED <<vmindex, phase, cli, ctor, asked>>

\* load() returns: the next library of the initial thread's list, or done.
LoadReturns(t) ==
    /\ thr[t].pc = "loadLib" /\ thr[t].ls = <<>> /\ NoOtherHolds(t)
    /\ LET last == Len(thr[t].todo) = 1
           d == thr[t].dom
           lib == dom[d].ndx[FindSharedLib(Head(thr[t].todo))]
       IN /\ thr' = [thr EXCEPT ![t] = IF last THEN IdleLoader
                       ELSE [@ EXCEPT !.pc = "find", !.todo = Tail(@), !.lib = 0, !.i = 0]]
          /\ cli' = IF last /\ t # CM THEN NoLoader ELSE cli
          /\ phase' = IF last /\ t # CM THEN [phase EXCEPT ![d] = "constructors"] ELSE phase
          \* the caller of the component manager passes the library on to
          \* executeClassConstructors
          /\ ctor' = IF t = CM
                     THEN [ctor EXCEPT ![d].queue =
                              Append(@, [x \in DOMAIN slibs[dom[d].libs[lib].slib].needed |->
                                 SharedLib2Lib(d, slibs[dom[d].libs[lib].slib].needed[x])]
                                 \o <<lib>>)]
                     ELSE ctor
    /\ UNCHANGED <<slibs, vmindex, dom, asked, loadPanic>>

-----------------------------------------------------------------------------
(* Callers                                                                  *)

\* start_initial_thread() of a new domain: interrupts off, then load() for
\* every library of its list.
StartInitialThread(d) ==
    /\ phase[d] = "new" /\ cli = NoLoader /\ ~loadPanic
    /\ LoadsOverlap \/ thr[CM].pc = "idle"
    /\ phase' = [phase EXCEPT ![d] = "loading"]
    /\ cli' = d
    /\ thr' = [thr EXCEPT ![d] = [IdleLoader EXCEPT !.pc = "find", !.dom = d, !.todo = StartLibs[d]]]
    /\ UNCHANGED <<slibs, vmindex, dom, ctor, asked, loadPanic>>

\* ComponentManager.load(): called by a domain that runs.  A library the domain
\* has already is given another entry, with new static fields.
ComponentManagerLoad(d, name) ==
    /\ <<d, name>> \in Requests /\ phase[d] = "running"
    /\ thr[CM].pc = "idle" /\ NoOtherHolds(CM) /\ asked < MaxAsked
    /\ thr' = [thr EXCEPT ![CM] = [IdleLoader EXCEPT !.pc = "find", !.dom = d, !.todo = <<name>>]]
    /\ asked' = asked + 1
    /\ UNCHANGED <<slibs, vmindex, dom, phase, cli, ctor, loadPanic>>

\* The initial thread runs the constructors of libs[0], libs[1], ... with
\* interrupts enabled, looking at numberOfLibs again each time.
NextLibConstructors(d) ==
    /\ phase[d] = "constructors" /\ NoOtherHolds(NoLoader)
    /\ ctor[d].first = <<>>
    /\ IF ctor[d].done < Len(dom[d].libs)
       THEN /\ ctor' = [ctor EXCEPT ![d].first = <<ctor[d].done + 1>>, ![d].done = @ + 1]
            /\ UNCHANGED phase
       ELSE /\ phase' = [phase EXCEPT ![d] = "running"]
            /\ UNCHANGED ctor
    /\ UNCHANGED <<slibs, vmindex, dom, thr, cli, asked, loadPanic>>

\* cpuManager_executeClassConstructors(): the directly needed libraries, then
\* the library itself.
ExecuteClassConstructors(d) ==
    /\ ctor[d].queue # <<>> /\ ctor[d].second = <<>> /\ NoOtherHolds(NoLoader)
    /\ ctor' = [ctor EXCEPT ![d].second = Head(ctor[d].queue), ![d].queue = Tail(@)]
    /\ UNCHANGED <<slibs, vmindex, dom, phase, thr, cli, asked, loadPanic>>

\* callClassConstructors() on the first library of a work list: the next class
\* that is not READY becomes READY and runs <clinit>; after the last one the
\* library is marked initialized.
CallClassConstructor(d, w) ==
    /\ ctor[d][w] # <<>> /\ NoOtherHolds(NoLoader)
    /\ LET n == Head(ctor[d][w])
           lib == dom[d].libs[n]
           c == SelectInSeq(lib.state, LAMBDA s : s = "new")
       IN IF lib.initialized \/ c = 0
          THEN /\ dom' = [dom EXCEPT ![d].libs[n].initialized = TRUE]
               /\ ctor' = [ctor EXCEPT ![d][w] = Tail(@)]
          ELSE /\ dom' = [dom EXCEPT ![d].libs[n].state[c] = "ready"]
               /\ UNCHANGED ctor
    /\ UNCHANGED <<slibs, vmindex, phase, thr, cli, asked, loadPanic>>

\* vm_test_cinit(): code that runs, of a class whose constructor has begun, uses
\* a class, and the constructor of that one is called first if it has not been.
vm_test_cinit(d, l, i, k) ==
    /\ phase[d] \in {"constructors", "running"} /\ NoOtherHolds(NoLoader)
    /\ SharedLib2Lib(d, l) # 0 /\ dom[d].libs[SharedLib2Lib(d, l)].state[i] = "ready"
    /\ slibs[l].cls[i].syms[k].type \in {"static", "class"}
    /\ LET c == ClassDesc2Class(d, FindClassDesc(slibs[l].cls[i].syms[k].name))
       IN IF c = <<"loadPanic">> THEN loadPanic' = TRUE /\ UNCHANGED dom
          ELSE dom' = [dom EXCEPT ![d].libs[c[1]].state[c[2]] = "ready"] /\ UNCHANGED loadPanic
    /\ UNCHANGED <<slibs, vmindex, phase, thr, cli, ctor, asked>>

\* cloneMethodInDomain(): a collection copies the method a thread stands in and
\* patches the copy again; what the places of the copy denote.
CanClone(l, i) ==
    \E d \in LoadDomains : SharedLib2Lib(d, l) # 0 /\ dom[d].libs[SharedLib2Lib(d, l)].state[i] = "ready"
CloneMethodInDomain(l, i) ==
    LET c == slibs[l].cls[i]
    IN [k \in DOMAIN c.syms |-> RepatchMethodSymbol(c.syms[k], c.patched[k])]

-----------------------------------------------------------------------------

LoaderInit ==
    /\ slibs = <<>>
    /\ vmindex = [j \in 0..(NVM - 1) |-> j]
    /\ dom = [d \in LoadDomains |-> [libs |-> <<>>, ndx |-> [l \in 1..Cardinality(Libs) |-> 0],
                                 sfields |-> [l \in 1..Cardinality(Libs) |-> 0]]]
    /\ phase = [d \in LoadDomains |-> "new"]
    /\ thr = [t \in Loaders |-> IdleLoader]
    /\ cli = NoLoader
    /\ ctor = [d \in LoadDomains |-> [first |-> <<>>, done |-> 0, second |-> <<>>, queue |-> <<>>]]
    /\ asked = 0
    /\ loadPanic = FALSE

LoadStep(t) ==
    \/ Load(t) \/ ReadCodefile(t) \/ NeedLib(t) \/ ReadLibrary(t)
    \/ LinkStart(t) \/ LinkClass(t) \/ LinkEnd(t)
    \/ LoadNeededLib(t) \/ LoadLib(t) \/ LoadReturns(t)

LoaderNext ==
    \/ \E t \in Loaders : LoadStep(t)
    \/ \E d \in LoadDomains :
          \/ StartInitialThread(d)
          \/ NextLibConstructors(d) \/ ExecuteClassConstructors(d)
          \/ \E w \in {"first", "second"} : CallClassConstructor(d, w)
          \/ \E name \in Libs : ComponentManagerLoad(d, name)
          \/ \E l \in DOMAIN slibs : \E i \in DOMAIN slibs[l].cls :
                \E k \in DOMAIN slibs[l].cls[i].syms : vm_test_cinit(d, l, i, k)

-----------------------------------------------------------------------------
(* Properties                                                               *)

LoaderTypeOK ==
    /\ \A l \in DOMAIN slibs : /\ slibs[l].name \in Libs
                              /\ \A k \in DOMAIN slibs[l].needed : slibs[l].needed[k] \in 1..(l - 1)
    /\ vmindex \in [0..(NVM - 1) -> 0..(NVM - 1)]
    /\ \A d \in LoadDomains : \A l \in DOMAIN dom[d].ndx :
          /\ dom[d].ndx[l] \in 0..Len(dom[d].libs)
          /\ dom[d].sfields[l] \in {0, dom[d].ndx[l]}
    /\ phase \in [LoadDomains -> {"new", "loading", "constructors", "running"}]
    /\ cli \in Loaders \cup {NoLoader}
    /\ \A t \in Loaders :
          thr[t].pc \in {"idle", "find", "read", "need", "link", "linkClass", "loadLib"}
    /\ loadPanic \in BOOLEAN

\* What a name means to a library: the class of that name in the library or in
\* one it needs.  Class names are unique among the files.
MeantClass(name) ==
    LET l == CHOOSE k \in DOMAIN slibs :
                \E i \in DOMAIN CodeFiles[slibs[k].name].classes :
                    CodeFiles[slibs[k].name].classes[i].name = name
    IN <<l, CHOOSE i \in DOMAIN CodeFiles[slibs[l].name].classes :
                CodeFiles[slibs[l].name].classes[i].name = name>>

MeantCode(name) ==
    LET c == MeantClass(name)
    IN IF CodeFiles[slibs[c[1]].name].classes[c[2]].codeBytes = 0 THEN <<"should_not_be_called">>
       ELSE <<"code", c>>

SymbolMeans(file, raw) ==
    CASE raw.type = "static" ->
            LET c == MeantClass(raw.name)
            IN <<"static", c[1], StaticOffset(CodeFiles[slibs[c[1]].name], c[2]) + raw.off>>
      [] raw.type = "class" -> <<"class", MeantClass(raw.name)>>
      [] raw.type = "call" -> MeantCode(raw.name)
      [] raw.type \in {"vm", "vmabs"} -> <<"vm", file.vmtab[raw.op + 1]>>
      [] OTHER -> <<raw.type>>

ClassLinkedRight(f, c, rc) ==
    /\ c.linked
    /\ \A k \in DOMAIN rc.syms : c.patched[k] = SymbolMeans(f, rc.syms[k])
    /\ \A k \in DOMAIN rc.interfaces : c.interfaces[k] = MeantClass(rc.interfaces[k])
    /\ \A k \in DOMAIN rc.vtable :
          rc.vtable[k] # "" => \/ c.vtable[k] = MeantCode(rc.vtable[k])
                               \/ c.vtable[k] = <<"null">> /\ MeantCode(rc.vtable[k])[1] # "code"

\* Once a domain's libraries are loaded its code is linked, and linked right:
\* every call, class, static field, vtable entry and VM operation in it is the
\* one its own code file names, whatever was loaded in between; a method that a
\* collection clones reaches the same classes, fields and methods.
LinkedRight ==
    ~loadPanic =>
    /\ \A d \in LoadDomains : phase[d] \in {"constructors", "running"} =>
         \A n \in DOMAIN dom[d].libs :
           LET sl == slibs[dom[d].libs[n].slib]
           IN \A i \in DOMAIN sl.cls :
                ClassLinkedRight(CodeFiles[sl.name], sl.cls[i], CodeFiles[sl.name].classes[i])
    /\ \A l \in DOMAIN slibs : \A i \in DOMAIN slibs[l].cls :
         CanClone(l, i) =>
           LET f == CodeFiles[slibs[l].name]
               p == CloneMethodInDomain(l, i)
           IN \A k \in DOMAIN f.classes[i].syms :
                f.classes[i].syms[k].type # "vm" => p[k] = SymbolMeans(f, f.classes[i].syms[k])

\* Every library of a domain stands behind those it needs; the index of a library
\* leads to its newest entry, with the static fields of that entry.
DomainClosed ==
    \A d \in LoadDomains : \A n \in DOMAIN dom[d].libs :
        LET l == dom[d].libs[n].slib
        IN /\ dom[d].ndx[l] = Max({k \in DOMAIN dom[d].libs : dom[d].libs[k].slib = l})
           /\ \A k \in DOMAIN slibs[l].needed :
                 \E m \in 1..(n - 1) : dom[d].libs[m].slib = slibs[l].needed[k]
           /\ dom[d].sfields[l] = dom[d].ndx[l] \/
                \A i \in DOMAIN slibs[l].cls : slibs[l].cls[i].ssize = 0

\* The constructors of library entry n have begun, those of m have all begun.
Begun(d, n) == \E i \in DOMAIN dom[d].libs[n].state : dom[d].libs[n].state[i] = "ready"
AllBegun(d, m) == \A i \in DOMAIN dom[d].libs[m].state : dom[d].libs[m].state[i] = "ready"
InitOrderUpTo(d, last) ==
    \A n \in 1..last : Begun(d, n) =>
        \A k \in DOMAIN slibs[dom[d].libs[n].slib].needed :
            \A m \in 1..(n - 1) :
                dom[d].libs[m].slib = slibs[dom[d].libs[n].slib].needed[k] => AllBegun(d, m)

\* While a domain starts, no class constructor runs before those of the libraries
\* its library needs have been called, though code that runs calls constructors
\* out of turn.
InitOrder ==
    \A d \in LoadDomains : phase[d] \in {"loading", "constructors"} =>
        InitOrderUpTo(d, Len(dom[d].libs))

(***************************************************************************)
(* The libraries of a domain stand behind those they need, its index leads  *)
(* to the newest entry of a library, and the classes a domain starts with   *)
(* are initialised in that order (load.c 1156-1273, 2930-2971;              *)
(* zero_DomainManager.c 130-174).  What a running domain loads is not       *)
(* claimed to be initialised in order, see InitOrderKept.                   *)
(***************************************************************************)
LoadedInOrder == LoaderTypeOK /\ DomainClosed /\ InitOrder

\* Not so, in a domain that runs: executeClassConstructors calls the constructors
\* of the libraries that are needed directly and not of those they need in turn
\* (zero_CPUManager.c 525-531).
InitOrderKept == \A d \in LoadDomains : InitOrderUpTo(d, Len(dom[d].libs))

\* Not so: a domain has one entry, and one set of static fields, per library.
\* load() makes another each time (load.c:1142).
LoadedOnce ==
    \A d \in LoadDomains : \A n, m \in DOMAIN dom[d].libs : dom[d].libs[n].slib = dom[d].libs[m].slib => n = m
=============================================================================
