------------------------------ MODULE DiskCache ------------------------------
(***************************************************************************)
(* fetch/diskcache.go: Put, Get and GC of one URL by goroutines that share  *)
(* nothing but the file system (the files of different URLs are disjoint).  *)
(* A file is an inode that its name, <key>.json or <key>.json.tmp, or an    *)
(* open descriptor may refer to; each system call is one action.  Puts are  *)
(* numbered in the order in which they begin, and stand for their pages.    *)
(* A page written over another one without truncation leaves the tail of a  *)
(* longer page behind, which json.Unmarshal rejects.                        *)
(***************************************************************************)
EXTENDS Integers, FiniteSets

CONSTANTS Workers,  \* goroutines that call Put and Get, any number of times
          TTL,      \* ttl, in ticks: an entry older than that has expired
          MaxPuts   \* bound: Puts in a behaviour

ASSUME TTLAssumption  == TTL \in Nat
ASSUME PutsAssumption == MaxPuts \in Nat

ASSUME WorkersAssumption == "gc" \notin Workers /\ IsFiniteSet(Workers)

Puts == 1..MaxPuts
Removers == Workers \cup {"gc"}

\* What a file holds: the whole page of a Put, nothing, or an undecodable rest.
Empty == 0
Junk == -1

\* Enough for the two names and one descriptor per worker.
Inodes == 1..Cardinality(Workers) + 2
None == 0

VARIABLES
    path,     \* the inode of <key>.json, or None
    tmp,      \* the inode of <key>.json.tmp, or None
    content,  \* of each inode
    age,      \* ticks since each inode was modified; counting stops at TTL + 1
    pc,       \* where each worker is; "idle" outside Put and Get
    fd,       \* the inode of its open descriptor, or None
    page,     \* the Put it is doing, or 0
    gc,       \* "walk" (from the start of the process), "evict" or "done"
    puts,     \* Puts begun so far
    stored,   \* history: Puts that ran to their end and whose write succeeded
    before,   \* history: the Puts stored when each Put began
    known,    \* history: the Puts stored when a worker, or "gc", last
              \* resolved the name of the entry to decide about it
    overdue,  \* history: those of them whose file had expired when a Get
              \* began, or when GC looked at the entry
    lone      \* history: the worker, if any, whose Put has overlapped no other

files == <<path, tmp, content, age>>
local == <<pc, fd, page>>
judged == <<known, overdue>>
puthist == <<stored, before, lone>>
vars == <<files, local, gc, puts, judged, puthist>>

Expired(i) == age[i] > TTL
Whole(i) == content[i] \in Puts
Putting(w) == pc[w] \in {"mkdir", "write", "rename"}
InUse(i) == i \in {path, tmp} \/ \E w \in Workers : fd[w] = i

\* The inode of a file that is created.
NewInode == CHOOSE i \in Inodes : ~InUse(i)

\* An inode nothing refers to any more is gone; c and a are the others' contents
\* and ages.
Reclaim(c, a) ==
    /\ content' = [i \in Inodes |-> IF InUse(i)' THEN c[i] ELSE Empty]
    /\ age' = [i \in Inodes |-> IF InUse(i)' THEN a[i] ELSE 0]

Goto(w, label) == pc' = [pc EXCEPT ![w] = label]

\* The call returns, and its descriptor is closed.
Finish(w) ==
    /\ Goto(w, "idle")
    /\ fd' = [fd EXCEPT ![w] = None]
    /\ page' = [page EXCEPT ![w] = 0]
    /\ known' = [known EXCEPT ![w] = {}]
    /\ overdue' = [overdue EXCEPT ![w] = {}]
    /\ lone' = lone \ {w}

\* History: r resolves the name of the entry, to decide about it.
Look(r) == known' = [known EXCEPT ![r] = stored]
Judge(r) ==
    /\ Look(r)
    /\ overdue' = [overdue EXCEPT ![r] =
                     stored \cap {content[i] : i \in {j \in Inodes : Expired(j)}}]

-----------------------------------------------------------------------------
Init ==
    /\ path = None /\ tmp = None
    /\ content = [i \in Inodes |-> Empty]
    /\ age = [i \in Inodes |-> 0]
    /\ pc = [w \in Workers |-> "idle"]
    /\ fd = [w \in Workers |-> None]
    /\ page = [w \in Workers |-> 0]
    /\ gc = "walk"
    /\ puts = 0
    /\ stored = {}
    /\ before = [v \in Puts |-> {}]
    /\ known = [r \in Removers |-> {}]
    /\ overdue = [r \in Removers |-> {}]
    /\ lone = {}

-----------------------------------------------------------------------------
(* Put                                                                      *)

PutBegin(w) ==
    /\ pc[w] = "idle"
    /\ puts < MaxPuts
    /\ puts' = puts + 1
    /\ page' = [page EXCEPT ![w] = puts + 1]
    /\ before' = [before EXCEPT ![puts + 1] = stored]
    /\ lone' = IF \E u \in Workers : Putting(u) THEN {} ELSE {w}
    /\ Goto(w, "mkdir")
    /\ UNCHANGED <<files, fd, gc, judged, stored>>

\* MkdirAll, or the open of WriteFile, fails: Put returns and says nothing.
PutFails(w) ==
    /\ pc[w] = "mkdir"
    /\ Finish(w)
    /\ UNCHANGED <<files, gc, puts, stored, before>>

\* The definitions whose names end in _Bug are plausible mistakes in the
\* definition that follows; no specification uses them.

\* (O_EXCL, and a file that is there already is taken for the page)
OpenTmp_Bug(w) ==
    /\ pc[w] = "mkdir"
    /\ IF tmp = None
       THEN /\ tmp' = NewInode
            /\ fd' = [fd EXCEPT ![w] = tmp']
            /\ Goto(w, "write")
       ELSE /\ Goto(w, "rename")
            /\ UNCHANGED <<tmp, fd>>
    /\ UNCHANGED <<path, content, age, page, gc, puts, judged, puthist>>

\* WriteFile opens the temporary file with O_CREATE and O_TRUNC, also one that
\* another Put is using or that a crash has left behind.
OpenTmp(w) ==
    /\ pc[w] = "mkdir"
    /\ tmp' = IF tmp = None THEN NewInode ELSE tmp
    /\ fd' = [fd EXCEPT ![w] = tmp']
    /\ content' = [content EXCEPT ![tmp'] = Empty]
    /\ age' = [age EXCEPT ![tmp'] = 0]
    /\ Goto(w, "write")
    /\ UNCHANGED <<path, page, gc, puts, judged, puthist>>

\* ... writes the page from the start of the file, and closes it.
Write(w) ==
    /\ pc[w] = "write"
    /\ fd' = [fd EXCEPT ![w] = None]
    /\ Goto(w, "rename")
    /\ UNCHANGED <<path, tmp, page, gc, puts, judged, puthist>>
    /\ \E c \in {page[w]} \cup (IF content[fd[w]] = Empty THEN {} ELSE {Junk}) :
           Reclaim([content EXCEPT ![fd[w]] = c], [age EXCEPT ![fd[w]] = 0])

\* The disk is full: some of the page may have been written, and the time of
\* modification may have been set even if nothing was.
WriteFails(w) ==
    /\ pc[w] = "write"
    /\ Finish(w)
    /\ UNCHANGED <<path, tmp, gc, puts, stored, before>>
    /\ \E c \in {content[fd[w]], Junk}, a \in {age[fd[w]], 0} :
           Reclaim([content EXCEPT ![fd[w]] = c], [age EXCEPT ![fd[w]] = a])

\* (a hard link, which fails when there is an entry)
Rename_Bug(w) ==
    /\ pc[w] = "rename"
    /\ path' = IF path = None THEN tmp ELSE path
    /\ tmp' = None
    /\ stored' = stored \cup {page[w]}
    /\ Finish(w)
    /\ UNCHANGED <<gc, puts, before>>
    /\ Reclaim(content, age)

\* (a hard link that replaces the entry; the temporary name stays)
RenameKeep_Bug(w) ==
    /\ pc[w] = "rename"
    /\ path' = IF tmp = None THEN path ELSE tmp
    /\ stored' = stored \cup {page[w]}
    /\ Finish(w)
    /\ UNCHANGED <<tmp, gc, puts, before>>
    /\ Reclaim(content, age)

\* Rename moves whatever the temporary name refers to; when another Put has
\* already moved it, the error is ignored.
Rename(w) ==
    /\ pc[w] = "rename"
    /\ path' = IF tmp = None THEN path ELSE tmp
    /\ tmp' = None
    /\ stored' = stored \cup {page[w]}
    /\ Finish(w)
    /\ UNCHANGED <<gc, puts, before>>
    /\ Reclaim(content, age)

-----------------------------------------------------------------------------
(* Get; one that finds no file changes nothing.                             *)

\* (the expiry is left to GC)
Stat_Bug(w) ==
    /\ pc[w] = "idle"
    /\ path # None
    /\ Goto(w, "open")
    /\ Judge(w)
    /\ UNCHANGED <<files, fd, page, gc, puts, puthist>>

\* Stat, at a moment when there is an entry.
Stat(w) ==
    /\ pc[w] = "idle"
    /\ path # None
    /\ Goto(w, IF Expired(path) THEN "evict" ELSE "open")
    /\ Judge(w)
    /\ UNCHANGED <<files, fd, page, gc, puts, puthist>>

\* ReadFile, of what the name refers to by now.
OpenEntry(w) ==
    /\ pc[w] = "open"
    /\ path # None
    /\ fd' = [fd EXCEPT ![w] = path]
    /\ Look(w)
    /\ Goto(w, "read")
    /\ UNCHANGED <<files, page, gc, puts, overdue, puthist>>

OpenMissing(w) ==
    /\ pc[w] = "open"
    /\ path = None
    /\ Finish(w)
    /\ UNCHANGED <<files, gc, puts, stored, before>>

\* The page is decoded and returned ...
ReadHit(w) ==
    /\ pc[w] = "read"
    /\ Whole(fd[w])
    /\ Finish(w)
    /\ UNCHANGED <<path, tmp, gc, puts, stored, before>>
    /\ Reclaim(content, age)

\* ... or what has been read is no page.
ReadCorrupt(w) ==
    /\ pc[w] = "read"
    /\ ~Whole(fd[w])
    /\ fd' = [fd EXCEPT ![w] = None]
    /\ Goto(w, "evict")
    /\ UNCHANGED <<path, tmp, page, gc, puts, judged, puthist>>
    /\ Reclaim(content, age)

\* Remove: whatever the name refers to by now.
Evict(w) ==
    /\ pc[w] = "evict"
    /\ path' = None
    /\ Finish(w)
    /\ UNCHANGED <<tmp, gc, puts, stored, before>>
    /\ Reclaim(content, age)

-----------------------------------------------------------------------------
(* GC, which New starts once in a goroutine of its own.                     *)

\* (every entry is removed)
GCExpired_Bug ==
    /\ gc = "walk"
    /\ path # None
    /\ gc' = "evict"
    /\ Judge("gc")
    /\ UNCHANGED <<files, local, puts, puthist>>

GCExpired ==
    /\ gc = "walk"
    /\ path # None
    /\ Expired(path)
    /\ gc' = "evict"
    /\ Judge("gc")
    /\ UNCHANGED <<files, local, puts, puthist>>

\* No entry, or a fresh one.  The temporary file is not looked at.
GCKeeps ==
    /\ gc = "walk"
    /\ path # None => ~Expired(path)
    /\ gc' = "done"
    /\ UNCHANGED <<files, local, puts, judged, puthist>>

GCEvict ==
    /\ gc = "evict"
    /\ path' = None
    /\ gc' = "done"
    /\ known' = [known EXCEPT !["gc"] = {}]
    /\ overdue' = [overdue EXCEPT !["gc"] = {}]
    /\ UNCHANGED <<tmp, local, puts, puthist>>
    /\ Reclaim(content, age)

-----------------------------------------------------------------------------
Tick ==
    /\ \E i \in Inodes : InUse(i) /\ ~Expired(i)
    /\ age' = [i \in Inodes |-> IF InUse(i) /\ ~Expired(i) THEN age[i] + 1 ELSE age[i]]
    /\ UNCHANGED <<path, tmp, content, local, gc, puts, judged, puthist>>

\* The process dies and is started again; the files stay.
Crash ==
    /\ pc' = [w \in Workers |-> "idle"]
    /\ fd' = [w \in Workers |-> None]
    /\ page' = [w \in Workers |-> 0]
    /\ gc' = "walk"
    /\ known' = [r \in Removers |-> {}]
    /\ overdue' = [r \in Removers |-> {}]
    /\ lone' = {}
    /\ UNCHANGED <<path, tmp, puts, stored, before>>
    /\ Reclaim(content, age)

Put(w) == PutBegin(w) \/ PutFails(w) \/ OpenTmp(w) \/ Write(w) \/ WriteFails(w) \/ Rename(w)
Get(w) == Stat(w) \/ OpenEntry(w) \/ OpenMissing(w) \/ ReadHit(w) \/ ReadCorrupt(w) \/ Evict(w)
Removes(r) == IF r = "gc" THEN GCEvict ELSE Evict(r)

GC == GCExpired \/ GCKeeps \/ GCEvict

Next == Tick \/ Crash \/ GC \/ \E w \in Workers : Put(w) \/ Get(w)

Spec == Init /\ [][Next]_vars

-----------------------------------------------------------------------------
\* The types of the names, of the files and of the workers' positions.
TypeOK ==
    /\ {path, tmp} \subseteq Inodes \cup {None}
    /\ content \in [Inodes -> Puts \cup {Empty, Junk}]
    /\ age \in [Inodes -> 0..TTL + 1]
    /\ pc \in [Workers -> {"idle", "mkdir", "write", "rename", "open", "read", "evict"}]
    /\ fd \in [Workers -> Inodes \cup {None}]
    /\ page \in [Workers -> 0..puts]
    /\ gc \in {"walk", "evict", "done"}
    /\ puts \in 0..MaxPuts /\ stored \subseteq 1..puts
    /\ before \in [Puts -> SUBSET Puts]
    /\ known \in [Removers -> SUBSET Puts]
    /\ overdue \in [Removers -> SUBSET Puts]
    /\ lone \subseteq Workers
    /\ path # None => path # tmp

\* A hit is never a page that was out of date when the Get opened the entry:
\* no Put that was stored by then had begun after that page was stored.  Not
\* even when writers share a file, moved under them, or after a crash.
HitNotStale ==
    [][\A w \in Workers : ReadHit(w) =>
        \A later \in known[w] : content[fd[w]] \notin before[later]]_vars

\* A hit is never a page that was stored and had expired when the Get began,
\* although it is one file that Stat sees and maybe another that ReadFile reads.
HitFresh ==
    [][\A w \in Workers : ReadHit(w) => content[fd[w]] \notin overdue[w]]_vars

\* Get and GC remove by name what they have judged by its file, which by then
\* the name may not refer to any more.  A good entry can be lost that way, but
\* not one that was stored and had not expired when the remover looked.
EvictJustified ==
    [][\A r \in Removers :
        Removes(r) /\ path # None /\ content[path] \in known[r] =>
            content[path] \in overdue[r]]_vars

\* A Put that overlaps no other Put leaves its own page in place when it ends,
\* whatever Gets and GC do meanwhile and whatever earlier Puts, failed ones and
\* crashed ones included, have left behind.
PutLands ==
    [][\A w \in Workers : Rename(w) /\ w \in lone =>
        path' # None /\ content'[path'] = page[w]]_vars
=============================================================================
