------------------------------- MODULE BootFS -------------------------------
(***************************************************************************)
(* The boot file system: an uncompressed zip archive in memory              *)
(* (core/zip.c), a cache of code files registered at run time              *)
(* (core/libcache.c), and files opened and read from them (core/memfs.c).   *)
(* The BootFS portal (Interface/zero_BootFS.c) and the class loader         *)
(* (read_codefile in core/load.c) search the archive with one shared        *)
(* cursor.  The portal is served by a thread that can be preempted between  *)
(* any two memory accesses; the loader of a new domain runs with interrupts *)
(* disabled, in one step.                                                  *)
(***************************************************************************)
EXTENDS Integers, Sequences, FiniteSets, SequencesExt

CONSTANTS
    Archives,     \* the archives: sequences of entries (name, its length nameLen, size,
                  \* the two bytes of the length of the extra field, whether the entry
                  \* is stored uncompressed and its local header is right)
    Cached,       \* names that may be registered in the library cache
    Wanted,       \* names that are looked up
    Files,        \* contents of files to read, as written: sequences of items
    MaxLookups    \* bound: lookups of the portal

VARIABLES
    archive,      \* the zip image
    zcurrent,     \* current: entries seen
    dirofs,       \* position in the copy of the central directory
    lookup,       \* the lookup of the portal's thread: name, place, entry so far
    disturbed,    \* another search has moved the cursor during this lookup
    result,       \* its outcome
    lookups,
    cache,        \* global_jll_cache, newest first
    fd,           \* the file that is being read: bytes, position
    items,        \* what has been read from it
    file,         \* what was written into it
    zpanic        \* "none", or what ended zip_next_entry

fsVars == <<archive, zcurrent, dirofs, lookup, disturbed, result, lookups, cache, fd, items, file, zpanic>>

-----------------------------------------------------------------------------
(* The archive *)

Signed8(b) == IF b >= 128 THEN b - 256 ELSE b

\* makeword: the high byte is a signed char.
makeword(lo, hi) == 256 * Signed8(hi) + lo
\* makelong
makelong(b0, b1, b2, b3) == LET u == b0 + 256 * b1 IN u + 65536 * (b2 + 256 * Signed8(b3))

C_FILENAME == 46
\* Bytes of one central header: fixed part, name, extra field and comment.
HeaderLength(e) == C_FILENAME + e.nameLen + makeword(e.extra[1], e.extra[2])

\* The offset of the k-th header of the directory.
HeaderAt(a, k) == LET f[j \in 1..(Len(a) + 1)] == IF j = 1 THEN 0 ELSE f[j - 1] + HeaderLength(a[j - 1])
                  IN f[k]
\* The entry whose header starts at an offset; none in between.
EntryAt(a, ofs) == {k \in DOMAIN a : HeaderAt(a, k) = ofs}

\* A zipentry: the name comes first, in FILENAME bytes, then the size, set before
\* the name is copied, and the method, set to 0 after it; RECORD bytes in all.
\* The copy is as long as the name.
FILENAME == 80
RECORD == 96
Overwritten == -2
ReadSize(e) == IF e.nameLen < FILENAME THEN e.size ELSE Overwritten
ReadName(e) == IF e.nameLen <= FILENAME + 4 THEN e.name ELSE ""
\* How zip_next_entry ends for an entry, after the name: behind the record is the
\* stack of the caller.
Ends(e) ==
    CASE e.nameLen >= RECORD -> "overrun"
      [] e.nameLen < RECORD /\ ~e.stored -> "compressed"
      [] OTHER -> "none"

Nothing == [name |-> "", size |-> -1, data |-> 0]
Idle == [at |-> "idle", name |-> "", cached |-> FALSE, entry |-> Nothing, len |-> 0]

\* Mutant: only the number of entries is reset.
zip_reset_Count ==
    /\ zcurrent' = 0
    /\ UNCHANGED dirofs

\* zip_reset
zip_reset ==
    /\ zcurrent' = 0
    /\ dirofs' = 0

\* libcache_lookup_jll: the newest registration of the name.
libcache_lookup_jll(n) == n \in {cache[k] : k \in DOMAIN cache}

\* memfs_lookup and memfs_open up to the search: the cache first.
StartLookup(n) ==
    /\ lookup = Idle /\ lookups < MaxLookups
    /\ lookups' = lookups + 1
    /\ disturbed' = FALSE
    /\ IF libcache_lookup_jll(n)
       THEN /\ result' = [name |-> n, found |-> TRUE, cached |-> TRUE, data |-> 0, size |-> -1]
            /\ UNCHANGED <<lookup, zcurrent, dirofs>>
       ELSE /\ lookup' = [Idle EXCEPT !.at = "next", !.name = n]
            /\ zip_reset
            /\ result' = << >>
    /\ UNCHANGED <<archive, cache, fd, items, file, zpanic>>

\* zip_next_entry up to the local header: the count, the signature, sizes and
\* the position of the data.
NextEntry ==
    /\ lookup.at = "next"
    /\ IF zcurrent = Len(archive)
       THEN /\ result' = [name |-> lookup.name, found |-> FALSE, cached |-> FALSE, data |-> 0, size |-> -1]
            /\ lookup' = Idle
            /\ UNCHANGED <<zcurrent, zpanic>>
       ELSE /\ zcurrent' = zcurrent + 1
            /\ UNCHANGED result
            /\ IF EntryAt(archive, dirofs) = {}
               THEN zpanic' = "central header" /\ UNCHANGED lookup
               ELSE LET k == CHOOSE j \in EntryAt(archive, dirofs) : TRUE
                    IN  IF archive[k].localOk
                        THEN /\ lookup' = [lookup EXCEPT !.at = "name", !.len = HeaderLength(archive[k]),
                                             !.entry = [name |-> "", size |-> ReadSize(archive[k]), data |-> k]]
                             /\ UNCHANGED zpanic
                        ELSE zpanic' = "local header" /\ UNCHANGED lookup
    /\ UNCHANGED <<archive, dirofs, lookups, disturbed, cache, fd, items, file>>

\* The rest of it: the name, read at the cursor again, with the length read
\* before (cut or prolonged, it is the name of nobody); the method; and the cursor
\* moved by the lengths read before.  Then the comparison in the caller's loop.
NextName ==
    /\ lookup.at = "name"
    /\ LET e    == archive[lookup.entry.data]
           here == {k \in EntryAt(archive, dirofs) : archive[k].nameLen = e.nameLen}
           nm   == IF here = {} THEN "" ELSE ReadName(archive[CHOOSE j \in here : TRUE])
       IN IF Ends(e) # "none" THEN zpanic' = Ends(e) /\ UNCHANGED <<dirofs, lookup, result>>
          ELSE /\ dirofs' = dirofs + lookup.len
               /\ UNCHANGED zpanic
               /\ IF nm = lookup.name
                  THEN /\ result' = [name |-> nm, found |-> TRUE, cached |-> FALSE,
                                     data |-> lookup.entry.data, size |-> lookup.entry.size]
                       /\ lookup' = Idle
                  ELSE /\ lookup' = [lookup EXCEPT !.at = "next", !.entry = Nothing, !.len = 0]
                       /\ UNCHANGED result
    /\ UNCHANGED <<archive, zcurrent, lookups, disturbed, cache, fd, items, file>>

\* read_codefile of the loader, in one step: it leaves the cursor behind the
\* entry it found, or at the end, or ends at an entry in front of that.
SearchEnd(n) ==
    LET hits == {k \in DOMAIN archive : ReadName(archive[k]) = n}
    IN IF hits = {} THEN Len(archive) ELSE CHOOSE k \in hits : \A j \in hits : k <= j
LoaderReads(n) ==
    /\ IF \E k \in 1 .. SearchEnd(n) : Ends(archive[k]) # "none" \/ ~archive[k].localOk
       THEN zpanic' = "loader" /\ UNCHANGED <<zcurrent, dirofs, disturbed>>
       ELSE /\ zcurrent' = SearchEnd(n)
            /\ dirofs' = HeaderAt(archive, SearchEnd(n) + 1)
            /\ disturbed' = (disturbed \/ lookup # Idle)
            /\ <<zcurrent', dirofs', disturbed'>> # <<zcurrent, dirofs, disturbed>>
            /\ UNCHANGED zpanic
    /\ UNCHANGED <<archive, lookup, result, lookups, cache, fd, items, file>>

\* libcache_register_jll
libcache_register_jll(n) ==
    /\ ~libcache_lookup_jll(n) /\ lookup = Idle
    /\ cache' = <<n>> \o cache
    /\ UNCHANGED <<archive, zcurrent, dirofs, lookup, disturbed, result, lookups, fd, items, file, zpanic>>

-----------------------------------------------------------------------------
(* Reading a file *)

\* How the linker writes the items of a code file.
IntBytes(n) == <<n % 256, (n \div 256) % 256, (n \div 65536) % 256, n \div 16777216>>
ItemBytes(it) ==
    CASE it.kind = "byte" -> <<it.v>>
      [] it.kind = "int" -> IntBytes(it.v)
      [] it.kind = "string" -> IntBytes(Len(it.v)) \o it.v
      [] it.kind = "code" -> it.v
FileBytes(f) == FlattenSeq([k \in DOMAIN f |-> ItemBytes(f[k])])

memfs_eof == fd.pos >= Len(fd.data)
\* What is behind the end of a file is not known.
ByteAt(p) == IF p < Len(fd.data) THEN fd.data[p + 1] ELSE -1
BytesAt(p, n) == [k \in 1..n |-> ByteAt(p + k - 1)]

\* memfs_readInt: the end is tested for the first byte only.
memfs_readInt == [v |-> makelong(ByteAt(fd.pos), ByteAt(fd.pos + 1), ByteAt(fd.pos + 2), ByteAt(fd.pos + 3)), pos |-> fd.pos + 4]

memfs_readByte == [v |-> ByteAt(fd.pos), pos |-> fd.pos + 1]
memfs_readStringData(p, n) == [v |-> BytesAt(p, n), pos |-> p + n]
\* memfs_readString and memfs_getString: a length, which may be too long for
\* the buffer, and the characters.  An empty string at the end of the file is
\* an error.
memfs_readString == memfs_readStringData(memfs_readInt.pos, memfs_readInt.v)
memfs_readCode(n) == memfs_readStringData(fd.pos, n)

\* memfs_testChecksum: the exclusive or of the bytes in front of the last word.
Parity(bytes, k) == Cardinality({i \in DOMAIN bytes : (bytes[i] \div 2^k) % 2 = 1}) % 2
Checksum(bytes) == FoldLeft(LAMBDA x, y : x + y, 0, [k \in 1..8 |-> 2^(k - 1) * Parity(bytes, k - 1)])
memfs_testChecksum ==
    LET n == Len(fd.data)
    IN makelong(fd.data[n - 3], fd.data[n - 2], fd.data[n - 1], fd.data[n]) =
       Checksum(SubSeq(fd.data, 1, n - 4))

\* memfs_open of a file that passes the checksum.
OpenFile(f) ==
    LET body == FileBytes(f)
    IN /\ fd' = [data |-> body \o IntBytes(Checksum(body)), pos |-> 0]
       /\ file' = f
       /\ items' = << >>
       /\ file = << >>
       /\ UNCHANGED <<archive, zcurrent, dirofs, lookup, disturbed, result, lookups, cache, zpanic>>

\* The reader asks for the item the format of the file says comes next.
ReadItem ==
    /\ Len(items) < Len(file) /\ ~memfs_eof
    /\ LET k == file[Len(items) + 1].kind
           r == CASE k = "byte" -> memfs_readByte
                  [] k = "int" -> memfs_readInt
                  [] k = "string" -> memfs_readString
                  [] k = "code" -> memfs_readCode(Len(file[Len(items) + 1].v))
       IN /\ items' = Append(items, [kind |-> k, v |-> r.v])
          /\ fd' = [fd EXCEPT !.pos = r.pos]
    /\ UNCHANGED <<archive, zcurrent, dirofs, lookup, disturbed, result, lookups, cache, file, zpanic>>

-----------------------------------------------------------------------------
FsInit ==
    /\ archive \in Archives
    /\ zcurrent = 0 /\ dirofs = 0
    /\ lookup = Idle /\ disturbed = FALSE /\ result = << >> /\ lookups = 0
    /\ cache = << >>
    /\ fd = [data |-> << >>, pos |-> 0] /\ items = << >> /\ file = << >>
    /\ zpanic = "none"

FsNext ==
    /\ zpanic = "none"
    /\ \/ \E n \in Wanted : StartLookup(n) \/ LoaderReads(n)
       \/ NextEntry
       \/ NextName
       \/ \E n \in Cached : libcache_register_jll(n)
       \/ \E f \in Files : OpenFile(f)
       \/ ReadItem

\* The result of the lookup is the first entry of the name, with its data and
\* size, or that there is none.
ResultRight ==
    (result # << >> /\ ~result.cached) =>
        LET hits == {k \in DOMAIN archive : archive[k].name = result.name}
        IN /\ result.found <=> hits # {}
           /\ result.found => /\ result.data \in hits /\ \A k \in hits : result.data <= k
                              /\ result.size = archive[result.data].size

Sound(e) == e.localOk /\ e.stored
NamesFit == \A k \in DOMAIN archive : archive[k].nameLen < FILENAME

\* In an archive whose names fit into a zipentry, a lookup that no other search
\* has disturbed is right wherever earlier searches left the shared cursor, and
\* panics only at an entry the archive should not have; such an entry is never
\* the result (memfs.c 19-64 and 90-118, zip.c 82-96 and 134-179).
LookupRight ==
    NamesFit /\ ~disturbed =>
        /\ ResultRight
        /\ zpanic # "none" => \E k \in DOMAIN archive : ~Sound(archive[k])
        /\ (result # << >> /\ result.found /\ ~result.cached) => Sound(archive[result.data])

\* Not so: a name of FILENAME bytes or more is copied over the size of its entry
\* or over the stack (zip.c 167, zip.h 5); the loader of another domain disturbs
\* the search of the portal (zip.c 94).
LongNamesRight == ~disturbed => ResultRight /\ zpanic # "overrun"
DisturbedRight == NamesFit => ResultRight /\ zpanic # "central header"

\* Reading the items of a file in the order they were written returns them,
\* ends at the checksum, and the checksum is right (memfs.c 166-254 and
\* 281-295).
ReadBack ==
    file # << >> =>
        /\ items = SubSeq(file, 1, Len(items))
        /\ Len(items) = Len(file) => fd.pos = Len(fd.data) - 4
        /\ memfs_testChecksum

(***************************************************************************)
(* What is looked up is what was archived, and what is read is what was     *)
(* written (memfs.c 19-118 and 166-295, zip.c 82-179).                      *)
(***************************************************************************)
BootFSRight == LookupRight /\ ReadBack
=============================================================================
