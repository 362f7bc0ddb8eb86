-------------------------- MODULE DiskCacheProofs --------------------------
(***************************************************************************)
(* What Get and GC may return and remove, for any number of goroutines that *)
(* put and get one URL, any lifetime, and any number of crashes.            *)
(***************************************************************************)
EXTENDS DiskCache, FiniteSetTheorems, TLAPS

LEMMA InodesFacts == Inodes \subseteq Nat \ {None} /\ Cardinality(Workers) \in Nat
BY WorkersAssumption, FS_CardinalityType DEF Inodes, None

\* There is an inode for every file that can be in use at once.
LEMMA NewInodeExists ==
    ASSUME TypeOK, tmp = None
    PROVE  NewInode \in Inodes /\ ~InUse(NewInode)
<1> DEFINE open == {fd[w] : w \in Workers}
           used == (open \cup {path}) \cup {tmp}
<1>1. IsFiniteSet(open) /\ Cardinality(open) <= Cardinality(Workers)
    <2>1. fd \in Surjection(Workers, open)
        BY DEF Surjection, TypeOK
    <2>2. QED
        BY <2>1, WorkersAssumption, FS_Surjection
<1>2. IsFiniteSet(used) /\ Cardinality(used) <= Cardinality(Workers) + 2
    <2> HIDE DEF open
    <2>1. /\ IsFiniteSet(open \cup {path})
          /\ Cardinality(open \cup {path}) <= Cardinality(open) + 1
        BY <1>1, FS_AddElement, FS_CardinalityType
    <2>2. /\ IsFiniteSet(used)
          /\ Cardinality(used) <= Cardinality(open \cup {path}) + 1
        BY <2>1, FS_AddElement, FS_CardinalityType
    <2>3. Cardinality(open) \in Nat /\ Cardinality(open \cup {path}) \in Nat /\ Cardinality(used) \in Nat
        BY <1>1, <2>1, <2>2, FS_CardinalityType
    <2>4. QED
        BY <1>1, <2>1, <2>2, <2>3, InodesFacts
<1>3. IsFiniteSet(Inodes) /\ Cardinality(Inodes) = Cardinality(Workers) + 2
    <2>1. Cardinality(Workers) + 2 \in Int /\ ~(1 > Cardinality(Workers) + 2)
        BY InodesFacts
    <2>2. QED
        BY <2>1, FS_Interval DEF Inodes
<1>4. /\ IsFiniteSet(Inodes \cup {None})
      /\ Cardinality(Inodes \cup {None}) = Cardinality(Workers) + 3
    <2>1. None \notin Inodes
        BY InodesFacts
    <2>2. /\ IsFiniteSet(Inodes \cup {None})
          /\ Cardinality(Inodes \cup {None}) = Cardinality(Inodes) + 1
        BY <1>3, <2>1, FS_AddElement
    <2>3. QED
        BY <1>3, <2>2, InodesFacts
<1>5. ~(Inodes \cup {None} \subseteq used)
    <2>1. ASSUME Inodes \cup {None} \subseteq used PROVE FALSE
        <3> HIDE DEF used
        <3>1. Cardinality(Inodes \cup {None}) <= Cardinality(used)
            BY <1>2, <2>1, FS_Subset
        <3>2. Cardinality(used) \in Nat
            BY <1>2, FS_CardinalityType
        <3>3. QED
            BY <1>2, <1>4, <3>1, <3>2, InodesFacts
    <2>2. QED
        BY <2>1
<1>6. \E i \in Inodes : ~InUse(i)
    BY <1>5 DEF InUse
<1>7. QED
    BY <1>6 DEF NewInode

-----------------------------------------------------------------------------
\* A Put that is under way has a number of its own that is not stored yet, and
\* a worker that writes or reads has a file open.
Owned ==
    /\ \A w \in Workers : Putting(w) => page[w] \in 1..puts \ stored
    /\ \A w, u \in Workers : w # u /\ Putting(w) /\ Putting(u) => page[w] # page[u]
    /\ \A w \in Workers : pc[w] \in {"write", "read"} => fd[w] \in Inodes

Typed == TypeOK /\ Owned

LEMMA InitTyped == Init => Typed
<1> SUFFICES ASSUME Init PROVE Typed
    OBVIOUS
<1>1. Owned
    BY DEF Init, Owned, Putting
<1>2. TypeOK
    BY TTLAssumption, PutsAssumption DEF Init, TypeOK, None, Empty, Puts
<1>3. QED
    BY <1>1, <1>2 DEF Typed

\* Removing the files nobody refers to.
LEMMA ReclaimType ==
    ASSUME NEW c \in [Inodes -> Puts \cup {Empty, Junk}], NEW a \in [Inodes -> 0..TTL + 1], Reclaim(c, a)
    PROVE  /\ content' \in [Inodes -> Puts \cup {Empty, Junk}]
           /\ age' \in [Inodes -> 0..TTL + 1]
           /\ \A i \in Inodes : content'[i] \in {c[i], Empty}
           /\ \A i \in Inodes : InUse(i)' => content'[i] = c[i] /\ age'[i] = a[i]
BY TTLAssumption DEF Reclaim

\* A remover looks at the entry.
LEMMA LookType ==
    ASSUME Typed, NEW r \in Removers
    PROVE  /\ Look(r) => known' \in [Removers -> SUBSET Puts]
           /\ Judge(r) => known' \in [Removers -> SUBSET Puts] /\ overdue' \in [Removers -> SUBSET Puts]
<1>1. stored \in SUBSET Puts
    BY PutsAssumption DEF Typed, TypeOK, Puts
<1>2. ASSUME Look(r) PROVE known' \in [Removers -> SUBSET Puts]
    <2>1. known \in [Removers -> SUBSET Puts] /\ known' = [known EXCEPT ![r] = stored]
        BY <1>2 DEF Typed, TypeOK, Look
    <2>2. QED
        BY <1>1, <2>1
<1>3. ASSUME Judge(r) PROVE overdue' \in [Removers -> SUBSET Puts]
    <2> DEFINE late == stored \cap {content[i] : i \in {j \in Inodes : Expired(j)}}
    <2>1. late \in SUBSET Puts
        BY <1>1
    <2>2. overdue \in [Removers -> SUBSET Puts] /\ overdue' = [overdue EXCEPT ![r] = late]
        BY <1>3 DEF Typed, TypeOK, Judge
    <2> HIDE DEF late
    <2>3. QED
        BY <2>1, <2>2
<1>4. QED
    BY <1>2, <1>3 DEF Judge

\* A call that returns keeps the types when its effect on the files does.
LEMMA FinishTyped ==
    ASSUME Typed, NEW w \in Workers, Finish(w),
           stored' = stored \/ (Putting(w) /\ stored' = stored \cup {page[w]}),
           UNCHANGED <<puts, before, gc>>,
           path' \in Inodes \cup {None}, tmp' \in Inodes \cup {None},
           path' # None => path' # tmp',
           content' \in [Inodes -> Puts \cup {Empty, Junk}],
           age' \in [Inodes -> 0..TTL + 1]
    PROVE  Typed'
<1>1. Owned'
    <2> USE DEF Typed, TypeOK, Owned, Finish, Goto, Putting
    <2>1. \A u \in Workers : Putting(u)' => u # w /\ Putting(u) /\ page'[u] = page[u]
        OBVIOUS
    <2>2. \A u \in Workers : Putting(u)' => page'[u] \in 1..puts' \ stored'
        BY <2>1
    <2>3. \A u, x \in Workers : u # x /\ Putting(u)' /\ Putting(x)' => page'[u] # page'[x]
        BY <2>1
    <2>4. \A u \in Workers : pc'[u] \in {"write", "read"} => fd'[u] \in Inodes
        OBVIOUS
    <2>5. QED
        BY <2>2, <2>3, <2>4
<1>2. TypeOK'
    <2>1. pc' \in [Workers -> {"idle", "mkdir", "write", "rename", "open", "read", "evict"}]
        BY DEF Typed, TypeOK, Finish, Goto
    <2>2. fd' \in [Workers -> Inodes \cup {None}]
        BY DEF Typed, TypeOK, Finish
    <2>3. page' \in [Workers -> 0..puts']
        BY DEF Typed, TypeOK, Finish
    <2>4. w \in Removers
        BY DEF Removers
    <2>5. known' \in [Removers -> SUBSET Puts] /\ overdue' \in [Removers -> SUBSET Puts]
        BY <2>4 DEF Typed, TypeOK, Finish
    <2>6. lone' \subseteq Workers
        BY DEF Typed, TypeOK, Finish
    <2>7. stored' \subseteq 1..puts' /\ puts' \in 0..MaxPuts
        BY DEF Typed, TypeOK, Owned
    <2>8. gc' \in {"walk", "evict", "done"} /\ before' \in [Puts -> SUBSET Puts]
        BY DEF Typed, TypeOK
    <2>9. QED
        BY <2>1, <2>2, <2>3, <2>5, <2>6, <2>7, <2>8 DEF TypeOK
<1>3. QED
    BY <1>1, <1>2 DEF Typed

LEMMA StepTyped == Typed /\ [Next]_vars => Typed'
<1> SUFFICES ASSUME Typed, [Next]_vars PROVE Typed'
    OBVIOUS
<1>1. content \in [Inodes -> Puts \cup {Empty, Junk}] /\ age \in [Inodes -> 0..TTL + 1]
    BY DEF Typed, TypeOK
<1>a. /\ path \in Inodes \cup {None} /\ tmp \in Inodes \cup {None}
      /\ path # None => path # tmp
      /\ None \notin Inodes
    BY InodesFacts DEF Typed, TypeOK
<1>2. ASSUME NEW w \in Workers, PutBegin(w) PROVE Typed'
    BY <1>2, TTLAssumption, PutsAssumption
    DEF PutBegin, Puts, Typed, TypeOK, Owned, files, judged, Goto, Putting
<1>3. ASSUME NEW w \in Workers, PutFails(w) PROVE Typed'
    BY <1>1, <1>a, <1>3, FinishTyped DEF PutFails, files
<1>4. ASSUME NEW w \in Workers, OpenTmp(w) PROVE Typed'
    <2>1. tmp' \in Inodes /\ (path # None => path # tmp')
        BY <1>a, <1>4, NewInodeExists DEF OpenTmp, InUse, Typed
    <2>2. /\ content' \in [Inodes -> Puts \cup {Empty, Junk}]
          /\ age' \in [Inodes -> 0..TTL + 1]
          /\ fd' \in [Workers -> Inodes \cup {None}] /\ fd'[w] \in Inodes
        BY <1>1, <1>4, <2>1, TTLAssumption DEF OpenTmp, Typed, TypeOK
    <2>3. /\ pc' \in [Workers -> {"idle", "mkdir", "write", "rename", "open", "read", "evict"}]
          /\ \A u \in Workers : Putting(u)' => Putting(u)
          /\ \A u \in Workers : u # w => pc'[u] = pc[u] /\ fd'[u] = fd[u]
        BY <1>4 DEF OpenTmp, Goto, Putting, Typed, TypeOK
    <2>4. UNCHANGED <<path, page, gc, puts, known, overdue, stored, before, lone>>
        BY <1>4 DEF OpenTmp, judged, puthist
    <2>5. TypeOK'
        BY <1>a, <2>1, <2>2, <2>3, <2>4 DEF Typed, TypeOK
    <2>6. Owned'
        BY <2>2, <2>3, <2>4 DEF Typed, Owned
    <2>7. QED
        BY <2>5, <2>6 DEF Typed
<1>5. ASSUME NEW w \in Workers, Write(w) PROVE Typed'
    <2>1. fd[w] \in Inodes /\ page[w] \in Puts
        BY <1>5, PutsAssumption DEF Write, Typed, Owned, TypeOK, Puts, Putting
    <2>2. PICK c \in {page[w]} \cup {Junk} :
              Reclaim([content EXCEPT ![fd[w]] = c], [age EXCEPT ![fd[w]] = 0])
        BY <1>5 DEF Write
    <2>3. /\ [content EXCEPT ![fd[w]] = c] \in [Inodes -> Puts \cup {Empty, Junk}]
          /\ [age EXCEPT ![fd[w]] = 0] \in [Inodes -> 0..TTL + 1]
        BY <1>1, <2>1, <2>2, TTLAssumption
    <2>4. content' \in [Inodes -> Puts \cup {Empty, Junk}] /\ age' \in [Inodes -> 0..TTL + 1]
        BY <2>2, <2>3, ReclaimType
    <2>5. /\ pc' \in [Workers -> {"idle", "mkdir", "write", "rename", "open", "read", "evict"}]
          /\ \A u \in Workers : Putting(u)' => Putting(u)
          /\ \A u \in Workers : u # w => pc'[u] = pc[u] /\ fd'[u] = fd[u]
          /\ pc'[w] = "rename"
          /\ fd' \in [Workers -> Inodes \cup {None}]
        BY <1>5 DEF Write, Goto, Putting, Typed, TypeOK
    <2>6. UNCHANGED <<path, tmp, page, gc, puts, known, overdue, stored, before, lone>>
        BY <1>5 DEF Write, judged, puthist
    <2>7. TypeOK'
        BY <1>a, <2>4, <2>5, <2>6 DEF Typed, TypeOK
    <2>8. Owned'
        BY <2>5, <2>6 DEF Typed, Owned
    <2>9. QED
        BY <2>7, <2>8 DEF Typed
<1>6. ASSUME NEW w \in Workers, WriteFails(w) PROVE Typed'
    <2>1. fd[w] \in Inodes
        BY <1>6 DEF WriteFails, Typed, Owned
    <2>2. PICK c \in {content[fd[w]], Junk}, a \in {age[fd[w]], 0} :
              Reclaim([content EXCEPT ![fd[w]] = c], [age EXCEPT ![fd[w]] = a])
        BY <1>6 DEF WriteFails
    <2>3. /\ [content EXCEPT ![fd[w]] = c] \in [Inodes -> Puts \cup {Empty, Junk}]
          /\ [age EXCEPT ![fd[w]] = a] \in [Inodes -> 0..TTL + 1]
        BY <1>1, <2>1, <2>2, TTLAssumption
    <2>4. content' \in [Inodes -> Puts \cup {Empty, Junk}] /\ age' \in [Inodes -> 0..TTL + 1]
        BY <2>2, <2>3, ReclaimType
    <2>5. QED
        BY <1>a, <1>6, <2>4, FinishTyped DEF WriteFails
<1>7. ASSUME NEW w \in Workers, Rename(w) PROVE Typed'
    <2>1. content' \in [Inodes -> Puts \cup {Empty, Junk}] /\ age' \in [Inodes -> 0..TTL + 1]
        BY <1>1, <1>7, ReclaimType DEF Rename
    <2>2. path' \in Inodes \cup {None} /\ tmp' \in Inodes \cup {None} /\ (path' # None => path' # tmp')
        BY <1>a, <1>7 DEF Rename
    <2>3. QED
        BY <1>7, <2>1, <2>2, FinishTyped DEF Rename, Putting
<1>8. ASSUME NEW w \in Workers, Stat(w) PROVE Typed'
    <2>1. w \in Removers
        BY DEF Removers
    <2>2. known' \in [Removers -> SUBSET Puts] /\ overdue' \in [Removers -> SUBSET Puts]
        BY <1>8, <2>1, LookType DEF Stat
    <2>3. /\ pc' \in [Workers -> {"idle", "mkdir", "write", "rename", "open", "read", "evict"}]
          /\ pc'[w] \notin {"mkdir", "write", "rename", "read"}
          /\ \A u \in Workers : u # w => pc'[u] = pc[u]
        BY <1>8 DEF Stat, Goto, Typed, TypeOK
    <2>4. UNCHANGED <<path, tmp, content, age, fd, page, gc, puts, stored, before, lone>>
        BY <1>8 DEF Stat, files, puthist
    <2>5. TypeOK'
        BY <2>2, <2>3, <2>4 DEF Typed, TypeOK
    <2>6. Owned'
        BY <2>3, <2>4 DEF Typed, Owned, Putting
    <2>7. QED
        BY <2>5, <2>6 DEF Typed
<1>9. ASSUME NEW w \in Workers, OpenEntry(w) PROVE Typed'
    <2>1. w \in Removers
        BY DEF Removers
    <2>2. known' \in [Removers -> SUBSET Puts]
        BY <1>9, <2>1, LookType DEF OpenEntry
    <2>3. /\ pc' \in [Workers -> {"idle", "mkdir", "write", "rename", "open", "read", "evict"}]
          /\ pc'[w] = "read" /\ fd'[w] \in Inodes
          /\ fd' \in [Workers -> Inodes \cup {None}]
          /\ \A u \in Workers : u # w => pc'[u] = pc[u] /\ fd'[u] = fd[u]
        BY <1>a, <1>9 DEF OpenEntry, Goto, Typed, TypeOK
    <2>4. UNCHANGED <<path, tmp, content, age, page, gc, puts, overdue, stored, before, lone>>
        BY <1>9 DEF OpenEntry, files, puthist
    <2>5. TypeOK'
        BY <2>2, <2>3, <2>4 DEF Typed, TypeOK
    <2>6. Owned'
        BY <2>3, <2>4 DEF Typed, Owned, Putting
    <2>7. QED
        BY <2>5, <2>6 DEF Typed
<1>10. ASSUME NEW w \in Workers, OpenMissing(w) PROVE Typed'
    BY <1>1, <1>a, <1>10, FinishTyped DEF OpenMissing, files
<1>11. ASSUME NEW w \in Workers, ReadHit(w) PROVE Typed'
    <2>1. content' \in [Inodes -> Puts \cup {Empty, Junk}] /\ age' \in [Inodes -> 0..TTL + 1]
        BY <1>1, <1>11, ReclaimType DEF ReadHit
    <2>2. QED
        BY <1>a, <1>11, <2>1, FinishTyped DEF ReadHit
<1>12. ASSUME NEW w \in Workers, ReadCorrupt(w) PROVE Typed'
    BY <1>1, <1>12, ReclaimType
    DEF ReadCorrupt, Typed, TypeOK, Owned, files, judged, puthist, local, Goto, Putting
<1>13. ASSUME NEW w \in Workers, Evict(w) PROVE Typed'
    <2>1. content' \in [Inodes -> Puts \cup {Empty, Junk}] /\ age' \in [Inodes -> 0..TTL + 1]
        BY <1>1, <1>13, ReclaimType DEF Evict
    <2>2. QED
        BY <1>a, <1>13, <2>1, FinishTyped DEF Evict
<1>14. ASSUME GC PROVE Typed'
    <2>1. UNCHANGED <<pc, fd, page, puts, stored, before, lone>>
        BY <1>14 DEF GC, GCExpired, GCKeeps, GCEvict, local, puthist
    <2>2. Owned'
        BY <2>1 DEF Typed, Owned, Putting
    <2>3. "gc" \in Removers
        BY DEF Removers
    <2>4. /\ known' \in [Removers -> SUBSET Puts] /\ overdue' \in [Removers -> SUBSET Puts]
          /\ content' \in [Inodes -> Puts \cup {Empty, Junk}] /\ age' \in [Inodes -> 0..TTL + 1]
          /\ path' \in {path, None} /\ UNCHANGED tmp
          /\ gc' \in {"walk", "evict", "done"}
        <3>1. CASE GCExpired
            BY <1>1, <2>3, <3>1, LookType DEF GCExpired, files
        <3>2. CASE GCKeeps
            BY <3>2 DEF GCKeeps, files, judged, Typed, TypeOK
        <3>3. CASE GCEvict
            BY <1>1, <2>3, <3>3, ReclaimType DEF GCEvict, Typed, TypeOK
        <3>4. QED
            BY <1>14, <3>1, <3>2, <3>3 DEF GC
    <2>5. TypeOK'
        BY <1>a, <2>1, <2>4 DEF Typed, TypeOK
    <2>6. QED
        BY <2>2, <2>5 DEF Typed
<1>15. ASSUME Tick PROVE Typed'
    BY <1>15, TTLAssumption
    DEF Tick, Expired, Typed, TypeOK, Owned, files, judged, puthist, local, Goto, Putting
<1>16. ASSUME Crash PROVE Typed'
    BY <1>1, <1>16, ReclaimType DEF Crash, Typed, TypeOK, Owned, Putting
<1>17. ASSUME UNCHANGED vars PROVE Typed'
    BY <1>17 DEF vars, Typed, TypeOK, Owned, files, judged, puthist, local, Goto, Putting
<1>18. QED
    BY <1>2, <1>3, <1>4, <1>5, <1>6, <1>7, <1>8, <1>9, <1>10, <1>11, <1>12, <1>13, <1>14,
       <1>15, <1>16, <1>17 DEF Next, Put, Get

\* The names, the files and the workers keep their types.
THEOREM TypeCorrect == Spec => []TypeOK
<1>1. Typed => TypeOK
    BY DEF Typed
<1>2. QED
    BY <1>1, InitTyped, StepTyped, PTL DEF Spec

-----------------------------------------------------------------------------
\* A page is in one file at most, in none before its Put has written it, and
\* not under the temporary name once it is stored.
Files ==
    /\ \A i \in Inodes : Whole(i) => content[i] \in 1..puts
    /\ \A i, j \in Inodes : Whole(i) /\ content[i] = content[j] => i = j
    /\ \A w \in Workers : pc[w] \in {"mkdir", "write"} => \A i \in Inodes : content[i] # page[w]
    /\ tmp # None => content[tmp] \notin stored

\* What was stored once stays so.
History ==
    /\ \A v \in Puts : before[v] \subseteq stored
    /\ \A r \in Removers : known[r] \subseteq stored /\ overdue[r] \subseteq stored

\* The entry is not older than any stored page's Put, nor, when there is no
\* temporary file that could still replace it, than a Put about to be stored.
Ordered == path # None =>
    /\ \A v \in stored : content[path] \notin before[v]
    /\ tmp = None => \A w \in Workers :
           pc[w] \in {"write", "rename"} => content[path] \notin before[page[w]]

\* The steps that leave the names to the Puts under way, and write no page.
Quiet ==
    /\ path' \in {path, None} /\ UNCHANGED <<tmp, puts, stored, before>>
    /\ \A i \in Inodes : content'[i] = content[i] \/ content'[i] \notin Puts
    /\ \A u \in Workers : Putting(u)' => Putting(u) /\ pc'[u] = pc[u] /\ page'[u] = page[u]

LEMMA NoPuts == Empty \notin Puts /\ Junk \notin Puts
BY PutsAssumption DEF Empty, Junk, Puts

LEMMA QuietSteps ==
    ASSUME Typed, [Next]_vars
    PROVE  Quiet \/ \E w \in Workers : PutBegin(w) \/ OpenTmp(w) \/ Write(w) \/ Rename(w)
<1>1. content \in [Inodes -> Puts \cup {Empty, Junk}] /\ age \in [Inodes -> 0..TTL + 1]
    BY DEF Typed, TypeOK
<1>2. pc \in [Workers -> {"idle", "mkdir", "write", "rename", "open", "read", "evict"}]
      /\ page \in [Workers -> 0..puts]
    BY DEF Typed, TypeOK
<1>3. Reclaim(content, age) => \A i \in Inodes : content'[i] = content[i] \/ content'[i] \notin Puts
    BY <1>1, NoPuts, ReclaimType
<1>4. ASSUME NEW w \in Workers, Finish(w)
      PROVE  \A u \in Workers : Putting(u)' => Putting(u) /\ pc'[u] = pc[u] /\ page'[u] = page[u]
    BY <1>2, <1>4 DEF Finish, Goto, Putting
<1>5. ASSUME NEW w \in Workers, PutFails(w) PROVE Quiet
    BY <1>4, <1>5 DEF PutFails, Quiet, files
<1>6. ASSUME NEW w \in Workers, WriteFails(w) PROVE Quiet
    <2>1. fd[w] \in Inodes
        BY <1>6 DEF WriteFails, Typed, Owned
    <2>2. PICK c \in {content[fd[w]], Junk}, a \in {age[fd[w]], 0} :
              Reclaim([content EXCEPT ![fd[w]] = c], [age EXCEPT ![fd[w]] = a])
        BY <1>6 DEF WriteFails
    <2>3. /\ [content EXCEPT ![fd[w]] = c] \in [Inodes -> Puts \cup {Empty, Junk}]
          /\ [age EXCEPT ![fd[w]] = a] \in [Inodes -> 0..TTL + 1]
        BY <1>1, <2>1, <2>2, TTLAssumption
    <2>4. \A i \in Inodes : content'[i] \in {[content EXCEPT ![fd[w]] = c][i], Empty}
        BY <2>2, <2>3, ReclaimType
    <2>5. \A i \in Inodes : content'[i] = content[i] \/ content'[i] \notin Puts
        BY <1>1, <2>1, <2>4, NoPuts
    <2>6. QED
        BY <1>4, <1>6, <2>5 DEF WriteFails, Quiet
<1>7. ASSUME NEW w \in Workers, Get(w) PROVE Quiet
    <2>1. CASE Stat(w)
        BY <1>2, <2>1 DEF Stat, Quiet, files, puthist, Goto, Putting
    <2>2. CASE OpenEntry(w)
        BY <1>2, <2>2 DEF OpenEntry, Quiet, files, puthist, Goto, Putting
    <2>3. CASE OpenMissing(w)
        BY <1>4, <2>3 DEF OpenMissing, Quiet, files
    <2>4. CASE ReadHit(w)
        BY <1>3, <1>4, <2>4 DEF ReadHit, Quiet
    <2>5. CASE ReadCorrupt(w)
        BY <1>2, <1>3, <2>5 DEF ReadCorrupt, Quiet, puthist, Goto, Putting
    <2>6. CASE Evict(w)
        BY <1>3, <1>4, <2>6 DEF Evict, Quiet
    <2>7. QED
        BY <1>7, <2>1, <2>2, <2>3, <2>4, <2>5, <2>6 DEF Get
<1>8. ASSUME GC PROVE Quiet
    <2>1. CASE GCExpired
        BY <2>1 DEF GCExpired, Quiet, files, local, puthist, Putting
    <2>2. CASE GCKeeps
        BY <2>2 DEF GCKeeps, Quiet, files, local, puthist, Putting
    <2>3. CASE GCEvict
        BY <1>3, <2>3 DEF GCEvict, Quiet, local, puthist, Putting
    <2>4. QED
        BY <1>8, <2>1, <2>2, <2>3 DEF GC
<1>9. ASSUME Tick PROVE Quiet
    BY <1>9 DEF Tick, Quiet, local, puthist, Putting
<1>10. ASSUME Crash PROVE Quiet
    BY <1>3, <1>10 DEF Crash, Quiet, Putting
<1>11. ASSUME UNCHANGED vars PROVE Quiet
    BY <1>11 DEF vars, Quiet, files, local, puthist, Putting
<1>12. QED
    BY <1>5, <1>6, <1>7, <1>8, <1>9, <1>10, <1>11 DEF Next, Put

\* What a write leaves in its file and in the others.
LEMMA WriteEffect ==
    ASSUME Typed, NEW w \in Workers, Write(w)
    PROVE  /\ fd[w] \in Inodes /\ page[w] \in 1..puts \ stored /\ page[w] \in Puts
           /\ content'[fd[w]] = page[w] \/ content'[fd[w]] \notin Puts
           /\ \A i \in Inodes \ {fd[w]} : content'[i] = content[i] \/ content'[i] \notin Puts
           /\ UNCHANGED <<path, tmp, page, puts, stored, before, lone, known, overdue, gc>>
           /\ pc'[w] = "rename" /\ fd'[w] = None
           /\ \A u \in Workers \ {w} : pc'[u] = pc[u] /\ fd'[u] = fd[u]
           /\ \A i \in Inodes : InUse(i)' => \/ i # fd[w] /\ content'[i] = content[i]
                                             \/ /\ i = fd[w]
                                                /\ \/ content'[i] = page[w]
                                                   \/ content[i] # Empty
<1>1. fd[w] \in Inodes /\ page[w] \in 1..puts \ stored /\ page[w] \in Puts
    BY PutsAssumption DEF Write, Typed, Owned, TypeOK, Puts, Putting
<1>2. content \in [Inodes -> Puts \cup {Empty, Junk}] /\ age \in [Inodes -> 0..TTL + 1]
    BY DEF Typed, TypeOK
<1>3. PICK c \in {page[w]} \cup (IF content[fd[w]] = Empty THEN {} ELSE {Junk}) :
          Reclaim([content EXCEPT ![fd[w]] = c], [age EXCEPT ![fd[w]] = 0])
    BY DEF Write
<1>4. /\ [content EXCEPT ![fd[w]] = c] \in [Inodes -> Puts \cup {Empty, Junk}]
      /\ [age EXCEPT ![fd[w]] = 0] \in [Inodes -> 0..TTL + 1]
    BY <1>1, <1>2, <1>3, TTLAssumption
<1>5. /\ \A i \in Inodes : content'[i] \in {[content EXCEPT ![fd[w]] = c][i], Empty}
      /\ \A i \in Inodes : InUse(i)' => content'[i] = [content EXCEPT ![fd[w]] = c][i]
    BY <1>3, <1>4, ReclaimType
<1>6. UNCHANGED <<path, tmp, page, puts, stored, before, lone, known, overdue, gc>>
    BY DEF Write, judged, puthist
<1>7. /\ pc'[w] = "rename" /\ fd'[w] = None
      /\ \A u \in Workers \ {w} : pc'[u] = pc[u] /\ fd'[u] = fd[u]
    BY DEF Write, Goto, Typed, TypeOK
<1>8. /\ content'[fd[w]] = page[w] \/ content'[fd[w]] \notin Puts
      /\ \A i \in Inodes \ {fd[w]} : content'[i] = content[i] \/ content'[i] \notin Puts
    BY <1>1, <1>2, <1>3, <1>5, NoPuts
<1>9. \A i \in Inodes : InUse(i)' => \/ i # fd[w] /\ content'[i] = content[i]
                                     \/ /\ i = fd[w]
                                        /\ content'[i] = page[w] \/ content[i] # Empty
    BY <1>1, <1>2, <1>3, <1>5
<1>10. QED
    BY <1>1, <1>6, <1>7, <1>8, <1>9

\* What the other steps of a Put do to the names and the files.
LEMMA PutEffect ==
    ASSUME Typed, NEW w \in Workers
    PROVE  /\ PutBegin(w) =>
                  /\ UNCHANGED <<path, tmp, content, stored>>
                  /\ puts' = puts + 1 /\ page'[w] = puts + 1 /\ pc'[w] = "mkdir"
                  /\ before' = [before EXCEPT ![puts + 1] = stored]
                  /\ \A u \in Workers \ {w} : pc'[u] = pc[u] /\ page'[u] = page[u]
           /\ OpenTmp(w) =>
                  /\ tmp' \in Inodes /\ fd'[w] = tmp' /\ content'[tmp'] = Empty
                  /\ \A i \in Inodes \ {tmp'} : content'[i] = content[i]
                  /\ path # None => path # tmp'
                  /\ UNCHANGED <<path, page, puts, stored, before, lone>>
                  /\ pc[w] = "mkdir" /\ pc'[w] = "write"
                  /\ \A u \in Workers \ {w} : pc'[u] = pc[u]
           /\ Rename(w) =>
                  /\ tmp' = None /\ path' = IF tmp = None THEN path ELSE tmp
                  /\ stored' = stored \cup {page[w]} /\ page[w] \in 1..puts \ stored
                  /\ UNCHANGED <<puts, before>>
                  /\ \A i \in Inodes : content'[i] = content[i] \/ content'[i] \notin Puts
                  /\ path' # None => content'[path'] = content[path']
                  /\ pc[w] = "rename" /\ pc'[w] = "idle"
                  /\ \A u \in Workers \ {w} : pc'[u] = pc[u] /\ page'[u] = page[u]
<1>1. content \in [Inodes -> Puts \cup {Empty, Junk}] /\ age \in [Inodes -> 0..TTL + 1]
    BY DEF Typed, TypeOK
<1>2. ASSUME PutBegin(w)
      PROVE  /\ UNCHANGED <<path, tmp, content, stored>>
             /\ puts' = puts + 1 /\ page'[w] = puts + 1 /\ pc'[w] = "mkdir"
             /\ before' = [before EXCEPT ![puts + 1] = stored]
             /\ \A u \in Workers \ {w} : pc'[u] = pc[u] /\ page'[u] = page[u]
    BY <1>2 DEF PutBegin, files, Goto, Typed, TypeOK
<1>3. ASSUME OpenTmp(w)
      PROVE  /\ tmp' \in Inodes /\ fd'[w] = tmp' /\ content'[tmp'] = Empty
             /\ \A i \in Inodes \ {tmp'} : content'[i] = content[i]
             /\ path # None => path # tmp'
             /\ UNCHANGED <<path, page, puts, stored, before, lone>>
             /\ pc[w] = "mkdir" /\ pc'[w] = "write"
             /\ \A u \in Workers \ {w} : pc'[u] = pc[u]
    <2>1. tmp' \in Inodes /\ (path # None => path # tmp')
        BY <1>3, NewInodeExists DEF OpenTmp, InUse, Typed, TypeOK
    <2>2. QED
        BY <1>1, <1>3, <2>1 DEF OpenTmp, puthist, Goto, Typed, TypeOK
<1>4. ASSUME Rename(w)
      PROVE  /\ tmp' = None /\ path' = IF tmp = None THEN path ELSE tmp
             /\ stored' = stored \cup {page[w]} /\ page[w] \in 1..puts \ stored
             /\ UNCHANGED <<puts, before>>
             /\ \A i \in Inodes : content'[i] = content[i] \/ content'[i] \notin Puts
             /\ path' # None => content'[path'] = content[path']
             /\ pc[w] = "rename" /\ pc'[w] = "idle"
             /\ \A u \in Workers \ {w} : pc'[u] = pc[u] /\ page'[u] = page[u]
    <2>1. Reclaim(content, age)
        BY <1>4 DEF Rename
    <2>2. /\ \A i \in Inodes : content'[i] \in {content[i], Empty}
          /\ \A i \in Inodes : InUse(i)' => content'[i] = content[i]
        BY <1>1, <2>1, ReclaimType
    <2>3. /\ path' # None => path' \in Inodes
          /\ \A i \in Inodes : i = path' => InUse(i)'
        BY <1>4 DEF Rename, Typed, TypeOK, InUse
    <2>4. path' # None => content'[path'] = content[path']
        BY <2>2, <2>3
    <2>5. page[w] \in 1..puts \ stored
        BY <1>4 DEF Rename, Typed, Owned, Putting
    <2>6. QED
        BY <1>4, <2>2, <2>4, <2>5, NoPuts DEF Rename, Finish, Goto, Typed, TypeOK
<1>5. QED
    BY <1>2, <1>3, <1>4

LEMMA FilesStep == Typed /\ Files /\ [Next]_vars => Files'
<1> SUFFICES ASSUME Typed, Files, [Next]_vars PROVE Files'
    OBVIOUS
<1>1. CASE Quiet
    <2>1. \A w \in Workers : pc'[w] \in {"mkdir", "write"} => pc[w] \in {"mkdir", "write"} /\ page'[w] = page[w]
        BY <1>1 DEF Quiet, Putting
    <2>2. \A w \in Workers : pc'[w] \in {"mkdir", "write"} => page[w] \in Puts
        BY <2>1, PutsAssumption DEF Typed, TypeOK, Owned, Putting, Puts
    <2>3. tmp # None => tmp \in Inodes
        BY DEF Typed, TypeOK
    <2>4. stored \subseteq Puts
        BY PutsAssumption DEF Typed, TypeOK, Puts
    <2>5. QED
        BY <1>1, <2>1, <2>2, <2>3, <2>4 DEF Quiet, Files, Whole
<1>2. ASSUME NEW w \in Workers, PutBegin(w) PROVE Files'
    <2>1. puts \in Nat /\ puts + 1 \in Puts
        BY <1>2, PutsAssumption DEF PutBegin, Puts, Typed, TypeOK
    <2>2. \A i \in Inodes : content[i] # puts + 1
        BY <2>1 DEF Files, Whole
    <2>3. QED
        BY <1>2, <2>1, <2>2, PutEffect DEF Files, Whole
<1>3. ASSUME NEW w \in Workers, OpenTmp(w) PROVE Files'
    <2>1. \A u \in Workers : page[u] # Empty \/ ~Putting(u)
        BY DEF Typed, Owned, Empty
    <2>2. 0 \notin stored
        BY DEF Typed, TypeOK
    <2>3. QED
        BY <1>3, <2>1, <2>2, PutEffect, NoPuts DEF Files, Whole, Putting, Empty
<1>4. ASSUME NEW w \in Workers, Write(w) PROVE Files'
    <2> DEFINE f == fd[w]
    <2>1. /\ f \in Inodes /\ page[w] \in 1..puts \ stored /\ page[w] \in Puts
          /\ content'[f] = page[w] \/ content'[f] \notin Puts
          /\ \A i \in Inodes \ {f} : content'[i] = content[i] \/ content'[i] \notin Puts
          /\ UNCHANGED <<tmp, page, puts, stored>>
          /\ pc[w] = "write" /\ pc'[w] = "rename"
          /\ \A u \in Workers \ {w} : pc'[u] = pc[u]
        BY <1>4, WriteEffect DEF Write
    <2> HIDE DEF f
    <2>2. \A i \in Inodes : content[i] # page[w]
        BY <2>1 DEF Files
    <2>3. \A u \in Workers \ {w} : pc[u] \in {"mkdir", "write"} => page[u] # page[w] /\ page[u] \in Puts
        BY <2>1, PutsAssumption DEF Typed, Owned, TypeOK, Putting, Puts
    <2>4. stored \subseteq Puts /\ (tmp # None => tmp \in Inodes)
        BY PutsAssumption DEF Typed, TypeOK, Puts
    <2>5. \A i \in Inodes : Whole(i)' => content'[i] \in 1..puts'
        BY <2>1 DEF Files, Whole
    <2>6. \A i, j \in Inodes : Whole(i)' /\ content'[i] = content'[j] => i = j
        BY <2>1, <2>2 DEF Files, Whole
    <2>7. \A u \in Workers : pc'[u] \in {"mkdir", "write"} => \A i \in Inodes : content'[i] # page'[u]
        BY <2>1, <2>3 DEF Files
    <2>8. tmp' # None => content'[tmp'] \notin stored'
        BY <2>1, <2>4 DEF Files
    <2>9. QED
        BY <2>5, <2>6, <2>7, <2>8 DEF Files
<1>5. ASSUME NEW w \in Workers, Rename(w) PROVE Files'
    <2>1. \A u \in Workers : pc'[u] \in {"mkdir", "write"} =>
              pc[u] \in {"mkdir", "write"} /\ page'[u] = page[u] /\ page[u] \in Puts
        BY <1>5, PutEffect, PutsAssumption DEF Typed, Owned, TypeOK, Putting, Puts
    <2>2. QED
        BY <1>5, <2>1, PutEffect DEF Files, Whole
<1>6. QED
    BY <1>1, <1>2, <1>3, <1>4, <1>5, QuietSteps

\* A file that has a stored page after a step had it before, and the name of
\* the entry refers to such a file only when it did before: what a remover has
\* looked at is still there, or has been replaced by a page not stored then.
LEMMA Replaced ==
    ASSUME Typed, Files, [Next]_vars
    PROVE  /\ \A i \in Inodes : content'[i] \in stored => content'[i] = content[i]
           /\ path' # None /\ content'[path'] \in stored => path' = path
           /\ stored \subseteq stored'
           /\ \A v \in stored : before'[v] = before[v]
<1>1. stored \subseteq Puts /\ stored \subseteq 1..puts /\ puts \in Nat /\ 0 \notin stored
      /\ before \in [Puts -> SUBSET Puts]
    BY PutsAssumption DEF Typed, TypeOK, Puts
<1>2. CASE Quiet
    BY <1>1, <1>2 DEF Quiet
<1>3. ASSUME NEW w \in Workers, PutBegin(w)
      PROVE  /\ UNCHANGED <<path, content, stored>>
             /\ \A v \in stored : before'[v] = before[v]
    <2>1. puts + 1 \notin stored
        BY <1>1
    <2>2. QED
        BY <1>1, <1>3, <2>1, PutEffect
<1>4. ASSUME NEW w \in Workers, OpenTmp(w)
      PROVE  /\ \A i \in Inodes : content'[i] \in stored => content'[i] = content[i]
             /\ UNCHANGED <<path, stored, before>>
    BY <1>1, <1>4, PutEffect DEF Empty
<1>5. ASSUME NEW w \in Workers, Write(w)
      PROVE  /\ \A i \in Inodes : content'[i] \in stored => content'[i] = content[i]
             /\ UNCHANGED <<path, stored, before>>
    BY <1>1, <1>5, WriteEffect
<1>6. ASSUME NEW w \in Workers, Rename(w)
      PROVE  /\ \A i \in Inodes : content'[i] \in stored => content'[i] = content[i]
             /\ path' # None /\ content'[path'] \in stored => path' = path
             /\ stored \subseteq stored' /\ UNCHANGED before
    BY <1>1, <1>6, PutEffect DEF Files
<1>7. QED
    BY <1>2, <1>3, <1>4, <1>5, <1>6, QuietSteps

\* Where a remover is, after a step of anyone: as before, out of its call, or
\* one step further in it.
LEMMA RemoverSteps ==
    ASSUME Typed, [Next]_vars
    PROVE  /\ \A w \in Workers : \/ UNCHANGED <<pc[w], fd[w], known[w], overdue[w]>>
                                 \/ pc'[w] \notin {"open", "read", "evict"} /\ UNCHANGED <<known[w], overdue[w]>>
                                 \/ pc'[w] = "idle" /\ known'[w] = {} /\ overdue'[w] = {}
                                 \/ Stat(w) \/ OpenEntry(w) \/ ReadCorrupt(w)
           /\ \/ UNCHANGED <<gc, known["gc"], overdue["gc"]>>
              \/ gc' # "evict" /\ UNCHANGED <<known["gc"], overdue["gc"]>>
              \/ gc' # "evict" /\ known'["gc"] = {} /\ overdue'["gc"] = {}
              \/ GCExpired
<1> DEFINE Of(w) == \/ UNCHANGED <<pc[w], fd[w], known[w], overdue[w]>>
                    \/ pc'[w] \notin {"open", "read", "evict"} /\ UNCHANGED <<known[w], overdue[w]>>
                    \/ pc'[w] = "idle" /\ known'[w] = {} /\ overdue'[w] = {}
                    \/ Stat(w) \/ OpenEntry(w) \/ ReadCorrupt(w)
           OfGC == \/ UNCHANGED <<gc, known["gc"], overdue["gc"]>>
                   \/ gc' # "evict" /\ UNCHANGED <<known["gc"], overdue["gc"]>>
                   \/ gc' # "evict" /\ known'["gc"] = {} /\ overdue'["gc"] = {}
                   \/ GCExpired
<1>1. /\ pc \in [Workers -> {"idle", "mkdir", "write", "rename", "open", "read", "evict"}]
      /\ fd \in [Workers -> Inodes \cup {None}]
      /\ known \in [Removers -> SUBSET Puts] /\ overdue \in [Removers -> SUBSET Puts]
      /\ "gc" \notin Workers /\ Removers = Workers \cup {"gc"}
    BY WorkersAssumption DEF Typed, TypeOK, Removers
<1>2. ASSUME NEW w \in Workers, Finish(w), UNCHANGED gc PROVE OfGC /\ \A u \in Workers : Of(u)
    BY <1>1, <1>2 DEF Finish, Goto
<1>3. ASSUME NEW w \in Workers, Put(w) PROVE OfGC /\ \A u \in Workers : Of(u)
    <2>1. CASE PutFails(w) \/ WriteFails(w) \/ Rename(w)
        BY <1>2, <2>1 DEF PutFails, WriteFails, Rename
    <2>2. CASE PutBegin(w)
        BY <1>1, <2>2 DEF PutBegin, judged, Goto
    <2>3. CASE OpenTmp(w)
        BY <1>1, <2>3 DEF OpenTmp, judged, Goto
    <2>4. CASE Write(w)
        BY <1>1, <2>4 DEF Write, judged, Goto
    <2>5. QED
        BY <1>3, <2>1, <2>2, <2>3, <2>4 DEF Put
<1>4. ASSUME NEW w \in Workers, Get(w) PROVE OfGC /\ \A u \in Workers : Of(u)
    <2>1. CASE OpenMissing(w) \/ ReadHit(w) \/ Evict(w)
        BY <1>2, <2>1 DEF OpenMissing, ReadHit, Evict
    <2>2. CASE Stat(w)
        BY <1>1, <2>2 DEF Stat, Judge, Look, Goto
    <2>3. CASE OpenEntry(w)
        BY <1>1, <2>3 DEF OpenEntry, Look, Goto
    <2>4. CASE ReadCorrupt(w)
        BY <1>1, <2>4 DEF ReadCorrupt, judged, Goto
    <2>5. QED
        BY <1>4, <2>1, <2>2, <2>3, <2>4 DEF Get
<1>5. ASSUME GC PROVE OfGC /\ \A u \in Workers : Of(u)
    <2>1. CASE GCExpired
        BY <1>1, <2>1 DEF GCExpired, Judge, Look, local
    <2>2. CASE GCKeeps
        BY <2>2 DEF GCKeeps, judged, local
    <2>3. CASE GCEvict
        BY <1>1, <2>3 DEF GCEvict, local
    <2>4. QED
        BY <1>5, <2>1, <2>2, <2>3 DEF GC
<1>6. ASSUME Tick \/ UNCHANGED vars PROVE OfGC /\ \A u \in Workers : Of(u)
    <2>1. UNCHANGED <<pc, fd, gc, known, overdue>>
        BY <1>6 DEF Tick, vars, local, judged
    <2>2. QED
        BY <2>1
<1>7. ASSUME Crash PROVE OfGC /\ \A u \in Workers : Of(u)
    BY <1>1, <1>7 DEF Crash
<1>8. QED
    BY <1>3, <1>4, <1>5, <1>6, <1>7 DEF Next

LEMMA HistoryStep == Typed /\ Files /\ History /\ [Next]_vars => History'
<1> SUFFICES ASSUME Typed, Files, History, [Next]_vars PROVE History'
    OBVIOUS
<1>1. stored \subseteq stored' /\ \A v \in stored : before'[v] = before[v]
    BY Replaced
<1>2. \A v \in Puts : before'[v] \subseteq stored'
    <2>1. CASE Quiet
        BY <1>1, <2>1 DEF Quiet, History
    <2>2. ASSUME NEW w \in Workers, PutBegin(w) PROVE \A v \in Puts : before'[v] \subseteq stored
        BY <2>2, PutEffect DEF History, Typed, TypeOK
    <2>3. ASSUME NEW w \in Workers, OpenTmp(w) \/ Write(w) \/ Rename(w) PROVE UNCHANGED before
        <3>1. CASE OpenTmp(w)
            BY <3>1, PutEffect
        <3>2. CASE Write(w)
            BY <3>2, WriteEffect
        <3>3. CASE Rename(w)
            BY <3>3, PutEffect
        <3>4. QED
            BY <2>3, <3>1, <3>2, <3>3
    <2>4. QED
        BY <1>1, <2>1, <2>2, <2>3, QuietSteps DEF History
<1>3. ASSUME NEW r \in Removers PROVE known'[r] \subseteq stored' /\ overdue'[r] \subseteq stored'
    <2>1. known \in [Removers -> SUBSET Puts] /\ overdue \in [Removers -> SUBSET Puts]
        BY DEF Typed, TypeOK
    <2>2. Look(r) => known'[r] = stored
        BY <2>1 DEF Look
    <2>3. Judge(r) => overdue'[r] \subseteq stored
        BY <2>1 DEF Judge
    <2>4. CASE r = "gc"
        <3>1. CASE GCExpired
            BY <1>1, <2>2, <2>3, <2>4, <3>1 DEF GCExpired, Judge
        <3>2. CASE ~GCExpired
            BY <1>1, <2>4, <3>2, RemoverSteps DEF History
        <3>3. QED
            BY <3>1, <3>2
    <2>5. CASE r \in Workers
        <3>1. CASE Stat(r)
            BY <1>1, <2>2, <2>3, <3>1 DEF Stat, Judge
        <3>2. CASE OpenEntry(r)
            BY <1>1, <2>2, <3>2 DEF OpenEntry, History
        <3>3. CASE ReadCorrupt(r)
            BY <1>1, <3>3 DEF ReadCorrupt, judged, History
        <3>4. CASE ~Stat(r) /\ ~OpenEntry(r) /\ ~ReadCorrupt(r)
            BY <1>1, <2>5, <3>4, RemoverSteps DEF History
        <3>5. QED
            BY <3>1, <3>2, <3>3, <3>4
    <2>6. QED
        BY <2>4, <2>5 DEF Removers
<1>4. QED
    BY <1>2, <1>3 DEF History

LEMMA OrderedStep == Typed /\ Files /\ History /\ Ordered /\ [Next]_vars => Ordered'
<1> SUFFICES ASSUME Typed, Files, History, Ordered, [Next]_vars, path' # None PROVE Ordered'
    BY DEF Ordered
<1>1. /\ stored \subseteq Puts /\ stored \subseteq 1..puts /\ puts \in Nat
      /\ before \in [Puts -> SUBSET Puts]
      /\ path \in Inodes \cup {None} /\ tmp \in Inodes \cup {None}
    BY PutsAssumption DEF Typed, TypeOK, Puts
<1>2. \A w \in Workers : Putting(w) => page[w] \in Puts \ stored
    BY <1>1, PutsAssumption DEF Typed, TypeOK, Owned, Puts
<1>3. CASE Quiet
    <2>1. path' = path /\ path \in Inodes
        BY <1>1, <1>3 DEF Quiet
    <2>2. content'[path] = content[path] \/ content'[path] \notin Puts
        BY <1>3, <2>1 DEF Quiet
    <2>3. \A v \in stored : content'[path] \notin before[v]
        BY <1>1, <2>1, <2>2 DEF Ordered
    <2>4. ASSUME tmp = None, NEW w \in Workers, pc'[w] \in {"write", "rename"}
          PROVE  content'[path] \notin before[page[w]]
        <3>1. pc[w] \in {"write", "rename"}
            BY <1>3, <2>4 DEF Quiet, Putting
        <3>2. content[path] \notin before[page[w]]
            BY <2>1, <2>4, <3>1 DEF Ordered
        <3>3. page[w] \in Puts
            BY <1>2, <3>1 DEF Putting
        <3>4. QED
            BY <1>1, <2>2, <3>2, <3>3
    <2>5. \A w \in Workers : pc'[w] \in {"write", "rename"} => page'[w] = page[w]
        BY <1>3 DEF Quiet, Putting
    <2>6. QED
        BY <1>3, <2>1, <2>3, <2>4, <2>5 DEF Quiet, Ordered
<1>4. ASSUME NEW w \in Workers, PutBegin(w) PROVE Ordered'
    <2>1. /\ UNCHANGED <<path, tmp, content, stored>> /\ pc'[w] = "mkdir"
          /\ before' = [before EXCEPT ![puts + 1] = stored]
          /\ \A u \in Workers \ {w} : pc'[u] = pc[u] /\ page'[u] = page[u]
        BY <1>4, PutEffect
    <2>2. \A u \in Workers : Putting(u) => page[u] # puts + 1
        BY <1>1 DEF Typed, Owned
    <2>3. puts + 1 \notin stored
        BY <1>1
    <2>4. \A v \in stored : before'[v] = before[v]
        BY <1>1, <2>1, <2>3
    <2>5. \A u \in Workers : pc'[u] \in {"write", "rename"} =>
              pc[u] \in {"write", "rename"} /\ page'[u] = page[u] /\ before'[page[u]] = before[page[u]]
        BY <1>1, <1>2, <2>1, <2>2 DEF Putting
    <2>6. QED
        BY <2>1, <2>4, <2>5 DEF Ordered
<1>5. ASSUME NEW w \in Workers, OpenTmp(w) PROVE Ordered'
    <2>1. /\ tmp' # None /\ path' = path /\ UNCHANGED <<stored, before>>
          /\ content'[path] = content[path]
        BY <1>1, <1>5, PutEffect, InodesFacts
    <2>2. QED
        BY <2>1 DEF Ordered
<1>6. ASSUME NEW w \in Workers, Write(w) PROVE Ordered'
    <2> DEFINE f == fd[w]
    <2>1. /\ f \in Inodes /\ page[w] \in Puts /\ page[w] \notin stored
          /\ content'[f] = page[w] \/ content'[f] \notin Puts
          /\ \A i \in Inodes \ {f} : content'[i] = content[i] \/ content'[i] \notin Puts
          /\ UNCHANGED <<path, tmp, page, stored, before>>
          /\ pc[w] = "write" /\ pc'[w] = "rename"
          /\ \A u \in Workers \ {w} : pc'[u] = pc[u]
        BY <1>6, WriteEffect DEF Write
    <2> HIDE DEF f
    <2>2. path \in Inodes
        BY <1>1, <2>1
    <2>3. content'[path] = content[path] \/ content'[path] \notin Puts \/ content'[path] \notin stored
        BY <2>1, <2>2
    <2>4. \A v \in Puts : content[path] \notin before[v] => content'[path] \notin before[v]
        BY <1>1, <2>3 DEF History
    <2>5. \A u \in Workers : pc'[u] \in {"write", "rename"} => pc[u] \in {"write", "rename"} /\ page[u] \in Puts
        BY <1>2, <2>1 DEF Putting
    <2>6. QED
        BY <1>1, <2>1, <2>4, <2>5 DEF Ordered
<1>7. ASSUME NEW w \in Workers, Rename(w) PROVE Ordered'
    <2>1. /\ tmp' = None /\ path' = IF tmp = None THEN path ELSE tmp
          /\ stored' = stored \cup {page[w]} /\ UNCHANGED before
          /\ content'[path'] = content[path'] /\ pc[w] = "rename" /\ pc'[w] = "idle"
          /\ \A u \in Workers \ {w} : pc'[u] = pc[u] /\ page'[u] = page[u]
        BY <1>7, PutEffect
    <2>2. \A u \in Workers : pc[u] \in {"write", "rename"} => page[u] \in Puts
        BY <1>2 DEF Putting
    <2>3. \A v \in stored' : content'[path'] \notin before[v]
        <3>1. CASE tmp = None
            BY <2>1, <3>1 DEF Ordered
        <3>2. CASE tmp # None
            BY <1>1, <2>1, <2>2, <3>2 DEF Files, History
        <3>3. QED
            BY <3>1, <3>2
    <2>4. \A u \in Workers \ {w} : pc[u] \in {"write", "rename"} => content'[path'] \notin before[page[u]]
        <3>1. CASE tmp = None
            BY <2>1, <3>1 DEF Ordered
        <3>2. CASE tmp # None
            BY <1>1, <2>1, <2>2, <3>2 DEF Files, History
        <3>3. QED
            BY <3>1, <3>2
    <2>5. QED
        BY <2>1, <2>3, <2>4 DEF Ordered
<1>8. QED
    BY <1>3, <1>4, <1>5, <1>6, <1>7, QuietSteps

-----------------------------------------------------------------------------
\* What a remover is about to remove had expired if it had been stored when
\* the remover looked.
Judged(r) == path # None /\ content[path] \in known[r] => content[path] \in overdue[r]

\* What a Get is about to open, and what it has opened.
Opening(w) == path # None => content[path] \notin overdue[w]
Reading(w) ==
    /\ content[fd[w]] \notin overdue[w]
    /\ \A later \in known[w] : content[fd[w]] \notin before[later]
    /\ path # None /\ path # fd[w] => content[path] \notin known[w]

Looks ==
    /\ \A w \in Workers : /\ pc[w] = "open" => Opening(w)
                          /\ pc[w] = "read" => Reading(w)
                          /\ pc[w] = "evict" => Judged(w)
    /\ gc = "evict" => Judged("gc")

\* The judgement of the entry that is in place.
LEMMA JudgeEntry ==
    ASSUME Typed, Files, NEW r \in Removers, Judge(r), path # None, UNCHANGED files
    PROVE  /\ Expired(path) => Judged(r)'
           /\ ~Expired(path) => path' # None /\ content'[path'] \notin overdue'[r]
<1>1. path \in Inodes /\ path' = path /\ content' = content
    BY DEF Typed, TypeOK, files
<1>2. known'[r] = stored
      /\ overdue'[r] = stored \cap {content[i] : i \in {j \in Inodes : Expired(j)}}
    BY DEF Judge, Look, Typed, TypeOK
<1>3. ASSUME ~Expired(path) PROVE content[path] \notin overdue'[r]
    <2>1. stored \subseteq Puts
        BY PutsAssumption DEF Typed, TypeOK, Puts
    <2>2. ASSUME NEW i \in Inodes, Expired(i), content[i] \in stored PROVE content[i] # content[path]
        <3>1. Whole(i)
            BY <2>1, <2>2 DEF Whole
        <3>2. QED
            BY <1>1, <1>3, <2>2, <3>1 DEF Files
    <2>3. QED
        BY <1>2, <2>2
<1>4. QED
    BY <1>1, <1>2, <1>3 DEF Judged

LEMMA LooksStep == Typed /\ Files /\ History /\ Ordered /\ Looks /\ [Next]_vars => Looks'
<1> SUFFICES ASSUME Typed, Files, History, Ordered, Looks, [Next]_vars PROVE Looks'
    OBVIOUS
<1>1. /\ \A i \in Inodes : content'[i] \in stored => content'[i] = content[i]
      /\ path' # None /\ content'[path'] \in stored => path' = path
      /\ \A v \in stored : before'[v] = before[v]
    BY Replaced
<1>2. \A r \in Removers : known[r] \subseteq stored /\ overdue[r] \subseteq stored
    BY DEF History
<1>3. path \in Inodes \cup {None} /\ stored \subseteq Puts /\ \A v \in Puts : before[v] \subseteq stored
    BY PutsAssumption DEF Typed, TypeOK, Puts, History
<1>4. ASSUME NEW r \in Removers, Judged(r), UNCHANGED <<known[r], overdue[r]>> PROVE Judged(r)'
    BY <1>1, <1>2, <1>3, <1>4 DEF Judged
<1>5. ASSUME NEW w \in Workers
      PROVE  /\ pc'[w] = "open" => Opening(w)'
             /\ pc'[w] = "read" => Reading(w)'
             /\ pc'[w] = "evict" => Judged(w)'
    <2>1. w \in Removers
        BY DEF Removers
    <2>2. CASE UNCHANGED <<pc[w], fd[w], known[w], overdue[w]>>
        <3>1. pc[w] = "open" => Opening(w)'
            BY <1>1, <1>2, <1>3, <2>1, <2>2 DEF Looks, Opening
        <3>2. ASSUME pc[w] = "read" PROVE Reading(w)'
            <4>1. Reading(w) /\ fd[w] \in Inodes /\ fd'[w] = fd[w]
                BY <2>2, <3>2 DEF Looks, Typed, Owned
            <4>2. content'[fd[w]] \notin overdue[w]
                BY <1>1, <1>2, <2>1, <4>1 DEF Reading
            <4>3. \A later \in known[w] : content'[fd[w]] \notin before[later] /\ before'[later] = before[later]
                BY <1>1, <1>2, <1>3, <2>1, <4>1 DEF Reading
            <4>4. path' # None /\ path' # fd[w] => content'[path'] \notin known[w]
                BY <1>1, <1>2, <1>3, <2>1, <4>1 DEF Reading
            <4>5. QED
                BY <2>2, <4>1, <4>2, <4>3, <4>4 DEF Reading
        <3>3. pc[w] = "evict" => Judged(w)'
            BY <1>4, <2>1, <2>2 DEF Looks
        <3>4. QED
            BY <2>2, <3>1, <3>2, <3>3
    <2>3. CASE pc'[w] \notin {"open", "read", "evict"}
        BY <2>3
    <2>4. CASE Stat(w)
        <3>1. /\ Judge(w) /\ path # None /\ UNCHANGED files
              /\ pc'[w] = IF Expired(path) THEN "evict" ELSE "open"
            BY <2>4 DEF Stat, Goto, Typed, TypeOK
        <3>2. QED
            BY <2>1, <3>1, JudgeEntry DEF Opening
    <2>5. CASE OpenEntry(w)
        <3>1. /\ pc[w] = "open" /\ pc'[w] = "read" /\ path # None /\ fd'[w] = path /\ known'[w] = stored
              /\ UNCHANGED <<path, content, overdue, before>>
            BY <2>1, <2>5 DEF OpenEntry, Look, Goto, files, puthist, Typed, TypeOK
        <3>2. Reading(w)'
            BY <3>1 DEF Looks, Opening, Ordered, Reading
        <3>3. QED
            BY <3>1, <3>2
    <2>6. CASE ReadCorrupt(w)
        <3>1. /\ pc[w] = "read" /\ pc'[w] = "evict" /\ ~Whole(fd[w])
              /\ UNCHANGED <<path, known, overdue>>
            BY <2>6 DEF ReadCorrupt, Goto, judged, Typed, TypeOK
        <3>2. Judged(w)
            BY <1>2, <1>3, <2>1, <3>1 DEF Looks, Reading, Judged, Whole
        <3>3. QED
            BY <1>4, <2>1, <3>1, <3>2
    <2>7. QED
        BY <2>2, <2>3, <2>4, <2>5, <2>6, RemoverSteps
<1>6. ASSUME gc' = "evict" PROVE Judged("gc")'
    <2>1. "gc" \in Removers
        BY DEF Removers
    <2>2. CASE UNCHANGED <<gc, known["gc"], overdue["gc"]>>
        BY <1>4, <1>6, <2>1, <2>2 DEF Looks
    <2>3. CASE GCExpired
        BY <2>1, <2>3, JudgeEntry DEF GCExpired
    <2>4. QED
        BY <1>6, <2>2, <2>3, RemoverSteps
<1>7. QED
    BY <1>5, <1>6 DEF Looks

-----------------------------------------------------------------------------
\* The temporary file of a Put that overlaps no other is its own, and empty
\* until the page is in it.
Alone ==
    \A w \in lone :
        /\ Putting(w) /\ \A u \in Workers : Putting(u) => u = w
        /\ pc[w] = "write" => tmp # None /\ tmp = fd[w] /\ content[tmp] = Empty
        /\ pc[w] = "rename" => tmp # None /\ content[tmp] = page[w]

LEMMA AloneStep == Typed /\ Alone /\ [Next]_vars => Alone'
<1> SUFFICES ASSUME Typed, Alone, [Next]_vars, NEW w \in lone'
             PROVE  /\ Putting(w)' /\ \A u \in Workers : Putting(u)' => u = w
                    /\ pc'[w] = "write" => tmp' # None /\ tmp' = fd'[w] /\ content'[tmp'] = Empty
                    /\ pc'[w] = "rename" => tmp' # None /\ content'[tmp'] = page'[w]
    BY DEF Alone
<1>1. /\ content \in [Inodes -> Puts \cup {Empty, Junk}] /\ age \in [Inodes -> 0..TTL + 1]
      /\ pc \in [Workers -> {"idle", "mkdir", "write", "rename", "open", "read", "evict"}]
      /\ fd \in [Workers -> Inodes \cup {None}] /\ page \in [Workers -> 0..puts]
      /\ tmp \in Inodes \cup {None} /\ lone \subseteq Workers /\ None \notin Inodes
    BY InodesFacts DEF Typed, TypeOK
\* Everything but the Puts' own steps.
<1> DEFINE Kept == /\ w \in lone /\ tmp' = tmp
                   /\ tmp # None => content'[tmp] = content[tmp]
                   /\ UNCHANGED <<pc[w], fd[w], page[w]>>
                   /\ \A u \in Workers : Putting(u)' => Putting(u)
<1>2. Reclaim(content, age) /\ tmp' = tmp => (tmp # None => content'[tmp] = content[tmp])
    <2>1. tmp' = tmp => \A i \in Inodes : i = tmp => InUse(i)'
        BY DEF InUse
    <2>2. QED
        BY <1>1, <2>1, ReclaimType
<1>3. CASE Kept
    <2>1. Putting(w) /\ Putting(w)'
        BY <1>3 DEF Alone, Putting
    <2>2. QED
        BY <1>3, <2>1 DEF Alone
<1>4. ASSUME NEW x \in Workers, Finish(x)
      PROVE  /\ w # x /\ w \in lone /\ UNCHANGED <<pc[w], fd[w], page[w]>>
             /\ \A u \in Workers : Putting(u)' => Putting(u)
    BY <1>1, <1>4 DEF Finish, Goto, Putting
<1>5. ASSUME NEW x \in Workers, Put(x)
      PROVE  \/ Kept
             \/ w = x /\ PutBegin(w) /\ ~ \E u \in Workers : Putting(u)
             \/ w = x /\ w \in lone /\ (OpenTmp(w) \/ Write(w))
    <2>1. CASE PutBegin(x)
        BY <1>1, <2>1 DEF PutBegin
    <2>2. ASSUME pc[x] \in {"mkdir", "write", "rename"}, w \in lone PROVE w = x
        BY <2>2 DEF Alone, Putting
    <2>3. CASE PutFails(x)
        BY <1>4, <2>3 DEF PutFails, files
    <2>4. CASE WriteFails(x)
        BY <1>4, <2>2, <2>4 DEF WriteFails
    <2>5. CASE Rename(x)
        BY <1>4, <2>2, <2>5 DEF Rename
    <2>6. CASE OpenTmp(x)
        BY <2>2, <2>6 DEF OpenTmp, puthist
    <2>7. CASE Write(x)
        BY <2>2, <2>7 DEF Write, puthist
    <2>8. QED
        BY <1>5, <2>1, <2>3, <2>4, <2>5, <2>6, <2>7 DEF Put
<1>6. ASSUME NEW x \in Workers, Get(x) PROVE Kept
    <2>1. w \in lone => Putting(w)
        BY DEF Alone
    <2>2. CASE Stat(x)
        BY <1>1, <2>1, <2>2 DEF Stat, files, puthist, Goto, Putting
    <2>3. CASE OpenEntry(x)
        BY <1>1, <2>1, <2>3 DEF OpenEntry, files, puthist, Goto, Putting
    <2>4. CASE OpenMissing(x)
        BY <1>4, <2>4 DEF OpenMissing, files
    <2>5. CASE ReadHit(x)
        BY <1>2, <1>4, <2>5 DEF ReadHit
    <2>6. CASE ReadCorrupt(x)
        BY <1>1, <1>2, <2>1, <2>6 DEF ReadCorrupt, puthist, Goto, Putting
    <2>7. CASE Evict(x)
        BY <1>2, <1>4, <2>7 DEF Evict
    <2>8. QED
        BY <1>6, <2>2, <2>3, <2>4, <2>5, <2>6, <2>7 DEF Get
<1>7. ASSUME GC PROVE Kept
    <2>1. CASE GCExpired
        BY <2>1 DEF GCExpired, files, local, puthist, Putting
    <2>2. CASE GCKeeps
        BY <2>2 DEF GCKeeps, files, local, puthist, Putting
    <2>3. CASE GCEvict
        BY <1>2, <2>3 DEF GCEvict, local, puthist, Putting
    <2>4. QED
        BY <1>7, <2>1, <2>2, <2>3 DEF GC
<1>8. ASSUME Tick PROVE Kept
    BY <1>8 DEF Tick, local, puthist, Putting
<1>9. ASSUME UNCHANGED vars PROVE Kept
    BY <1>9 DEF vars, files, local, puthist, Putting
<1>10. ~Crash
    BY DEF Crash
<1>11. CASE PutBegin(w) /\ w \in Workers /\ ~ \E u \in Workers : Putting(u)
    <2>1. pc'[w] = "mkdir" /\ \A u \in Workers \ {w} : pc'[u] = pc[u]
        BY <1>11, PutEffect
    <2>2. QED
        BY <1>11, <2>1 DEF Putting
<1>12. CASE OpenTmp(w) /\ w \in lone
    <2>1. /\ pc[w] = "mkdir" /\ pc'[w] = "write" /\ \A u \in Workers \ {w} : pc'[u] = pc[u]
          /\ tmp' \in Inodes /\ tmp' = fd'[w] /\ content'[tmp'] = Empty
        BY <1>1, <1>12, PutEffect
    <2>2. QED
        BY <1>1, <1>12, <2>1 DEF Alone, Putting
<1>13. CASE Write(w) /\ w \in lone
    <2>1. /\ tmp = fd[w] /\ content[tmp] = Empty /\ tmp \in Inodes /\ pc[w] = "write"
        BY <1>1, <1>13 DEF Write, Alone
    <2>2. /\ pc'[w] = "rename" /\ \A u \in Workers \ {w} : pc'[u] = pc[u]
          /\ UNCHANGED <<tmp, page>>
          /\ InUse(tmp)' => content'[tmp] = page[w]
        BY <1>1, <1>13, <2>1, WriteEffect
    <2>3. content'[tmp] = page[w]
        BY <2>1, <2>2 DEF InUse
    <2>4. QED
        BY <1>1, <1>13, <2>1, <2>2, <2>3 DEF Alone, Putting
<1> HIDE DEF Kept
<1>14. QED
    BY <1>1, <1>3, <1>5, <1>6, <1>7, <1>8, <1>9, <1>10, <1>11, <1>12, <1>13 DEF Next

-----------------------------------------------------------------------------
\* The inductive invariant.
IInv == Typed /\ Files /\ History /\ Ordered /\ Looks /\ Alone

LEMMA Inductive == /\ Init => IInv
                   /\ IInv /\ [Next]_vars => IInv'
<1>1. ASSUME Init PROVE IInv
    <2>1. Files
        BY <1>1, NoPuts DEF Init, Files, Whole
    <2>2. History /\ Ordered /\ Looks /\ Alone
        BY <1>1 DEF Init, History, Ordered, Looks, Alone
    <2>3. QED
        BY <1>1, <2>1, <2>2, InitTyped DEF IInv
<1>2. ASSUME IInv, [Next]_vars PROVE IInv'
    BY <1>2, StepTyped, FilesStep, HistoryStep, OrderedStep, LooksStep, AloneStep DEF IInv
<1>3. QED
    BY <1>1, <1>2

\* No Get returns a page that a page stored before the Get opened the entry
\* had replaced, however Puts, Gets, GC and crashes interleave.
THEOREM HitsAreNotStale == Spec => HitNotStale
<1>1. ASSUME IInv, [Next]_vars
      PROVE  [\A w \in Workers : ReadHit(w) =>
                 \A later \in known[w] : content[fd[w]] \notin before[later]]_vars
    BY <1>1 DEF IInv, Looks, Reading, ReadHit
<1>2. QED
    BY <1>1, Inductive, PTL DEF Spec, HitNotStale

\* No Get returns a page that had expired when it began.
THEOREM HitsAreFresh == Spec => HitFresh
<1>1. ASSUME IInv, [Next]_vars
      PROVE  [\A w \in Workers : ReadHit(w) => content[fd[w]] \notin overdue[w]]_vars
    BY <1>1 DEF IInv, Looks, Reading, ReadHit
<1>2. QED
    BY <1>1, Inductive, PTL DEF Spec, HitFresh

\* Neither Get nor GC removes an entry that was stored and had not expired
\* when they looked at it.
THEOREM EvictionsAreJustified == Spec => EvictJustified
<1>1. ASSUME IInv, [Next]_vars
      PROVE  [\A r \in Removers :
                 Removes(r) /\ path # None /\ content[path] \in known[r] =>
                     content[path] \in overdue[r]]_vars
    <2>1. ASSUME NEW r \in Removers, Removes(r) PROVE Judged(r)
        <3>1. CASE r = "gc"
            BY <1>1, <2>1, <3>1 DEF Removes, GCEvict, IInv, Looks
        <3>2. CASE r # "gc"
            BY <1>1, <2>1, <3>2 DEF Removes, Evict, IInv, Looks, Removers
        <3>3. QED
            BY <3>1, <3>2
    <2>2. QED
        BY <2>1 DEF Judged
<1>2. QED
    BY <1>1, Inductive, PTL DEF Spec, EvictJustified

\* A Put that overlaps no other one leaves its own page in place.
THEOREM PutsLand == Spec => PutLands
<1>1. ASSUME IInv, [Next]_vars
      PROVE  [\A w \in Workers : Rename(w) /\ w \in lone =>
                 path' # None /\ content'[path'] = page[w]]_vars
    <2>1. ASSUME NEW w \in Workers, Rename(w), w \in lone
          PROVE  path' # None /\ content'[path'] = page[w]
        <3>1. pc[w] = "rename" /\ tmp # None /\ content[tmp] = page[w]
            BY <1>1, <2>1 DEF Rename, IInv, Alone
        <3>2. path' = tmp /\ (path' # None => content'[path'] = content[path'])
            BY <1>1, <2>1, <3>1, PutEffect DEF IInv
        <3>3. QED
            BY <3>1, <3>2
    <2>2. QED
        BY <2>1
<1>2. QED
    BY <1>1, Inductive, PTL DEF Spec, PutLands
=============================================================================
