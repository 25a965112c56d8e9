------------------------ MODULE DenylistStoreProofs ------------------------
(* The store keeps its promise: what it writes it can read again, what it    *)
(* answers Ok for a later start refuses, and every step of it is a step of   *)
(* RevocationStore.                                                          *)
EXTENDS DenylistProofs, DenylistRefinement

(* What a write is about to put in place (BodyInv), whatever happens to the  *)
(* directory.                                                                *)

LEMMA BodyInit == Init => BodyInv
  BY DEF Init, BodyInv, BodyOk, FileInv

\* The file is the one it was, or another that no writer has read.
LEMMA BodyOthers ==
  ASSUME TypeOK, VersionInv, BodyInv, FileInv', NEW moved \in SUBSET Threads,
         dir'.file = dir.file \/ dir'.file.id \in {NoStamp, gen + 1},
         \A u \in Threads \ moved : pc'[u] = pc[u] /\ call'[u] = call[u],
         \A t \in moved : BodyOk(t)'
  PROVE  BodyInv'
<1> SUFFICES ASSUME NEW u \in Threads \ moved PROVE BodyOk(u)'
  BY DEF BodyInv
<1>1. BodyOk(u) /\ pc'[u] = pc[u] /\ call'[u] = call[u]
  BY DEF BodyInv
<1>2. call[u].stamp \in Nat /\ gen \in Nat /\ call[u].stamp <= gen
  BY DEF TypeOK, Calls, VersionInv
<1>3. CASE dir'.file = dir.file
  BY <1>1, <1>3 DEF BodyOk
<1>4. CASE dir'.file.id = NoStamp
  <2>1. dir'.file.entries = {} /\ dir'.file.bad = FALSE
    BY <1>4 DEF FileInv, NoFile
  <2> QED
    BY <1>1, <2>1 DEF BodyOk
<1>5. CASE dir'.file.id = gen + 1
  BY <1>1, <1>2, <1>5 DEF BodyOk
<1> QED
  BY <1>3, <1>4, <1>5

\* Every version of the file a step leaves is one there was, or new, or none.
LEMMA FileStep ==
  ASSUME TypeOK, FileInv,
         \A d \in dirs' \cup {dir'} :
           \/ \E e \in dirs \cup {dir} : d.file = e.file
           \/ d.file = NoFile
           \/ d.file.id = gen + 1
  PROVE  FileInv'
<1>1. gen \in Nat /\ gen + 1 # NoStamp
  BY DEF TypeOK, NoStamp
<1> QED
  BY <1>1 DEF FileInv

LEMMA BodyProgress ==
  ASSUME TypeOK, CurrentInv, BodyInv, NEW t \in Threads, Progress(t)
  PROVE  BodyInv'
<1> DEFINE moved == {t}
<1> USE DEF TypeOK, fileVars, instVars, lockVars, callVars, Goto
<1>1. /\ moved \in SUBSET Threads /\ VersionInv /\ FileInv
      /\ \A u \in Threads \ moved : pc'[u] = pc[u] /\ call'[u] = call[u]
  <2>1. \A u \in Threads \ moved : pc'[u] = pc[u]
    BY ProgressShape
  <2>2. \A u \in Threads \ moved : call'[u] = call[u]
    BY DEF Progress, ReadFile, MergeRepeat, MergeWrite, WriteBody, SyncBody, ReadWitness,
       WriteWitness, SyncWitness, Adopt, ReturnRepeat, Return
  <2> QED
    BY <2>1, <2>2 DEF CurrentInv, BodyInv
<1>2. ASSUME BodyOk(t)', dir'.file = dir.file \/ dir'.file.id = gen + 1,
             dirs' \subseteq dirs \cup {dir, dir'}
      PROVE  BodyInv'
  <2>1. FileInv'
    BY <1>1, <1>2, FileStep
  <2> QED
    BY <1>1, <1>2, <2>1, BodyOthers
<1>3. CASE ReadFile(t)
  <2>1. UNCHANGED <<dir, dirs>>
    BY <1>3 DEF ReadFile
  <2>2. ASSUME Fits(dir.file.entries, dir.file.bad) PROVE BodyOk(t)'
    <3>1. /\ pc' = [pc EXCEPT ![t] = "merge"]
          /\ call' = [call EXCEPT ![t] = [@ EXCEPT !.entries = dir.file.entries,
                                                   !.bad = dir.file.bad,
                                                   !.stamp = dir.file.id]]
      BY <1>3, <2>2 DEF ReadFile
    <3>2. call'[t].entries = dir.file.entries /\ call'[t].bad = dir.file.bad
      BY <3>1 DEF Calls
    <3> QED
      BY <2>1, <3>1, <3>2 DEF BodyOk
  <2>3. ASSUME ~Fits(dir.file.entries, dir.file.bad) PROVE BodyOk(t)'
    <3>1. pc'[t] = "idle"
      BY <1>3, <2>3 DEF ReadFile, Return
    <3> QED
      BY <3>1 DEF BodyOk
  <2>4. BodyOk(t)'
    BY <2>2, <2>3
  <2> HIDE DEF TypeOK
  <2>5. dir'.file = dir.file /\ dirs' \subseteq dirs \cup {dir, dir'}
    BY <2>1
  <2> QED
    BY <1>2, <2>4, <2>5
<1>4. CASE MergeWrite(t)
  <2> DEFINE all == Joined(InstanceOf[t], call[t].entries)
  <2>1. UNCHANGED <<dir, dirs>> /\ pc[t] = "merge" /\ BodyOk(t)
    BY <1>4 DEF MergeWrite, BodyInv
  <2>2. ASSUME Fits(all, call[t].bad) PROVE BodyOk(t)'
    <3>1. /\ pc' = [pc EXCEPT ![t] = "write"]
          /\ call' = [call EXCEPT ![t] = [@ EXCEPT !.entries = all, !.wrote = TRUE]]
      BY <1>4, <2>2 DEF MergeWrite
    <3>2. /\ call'[t].entries = all /\ call'[t].bad = call[t].bad
          /\ call'[t].stamp = call[t].stamp /\ call[t].entries \subseteq all
      BY <3>1 DEF Calls, Joined
    <3> QED
      BY <2>1, <2>2, <3>1, <3>2 DEF BodyOk
  <2>3. ASSUME ~Fits(all, call[t].bad) PROVE BodyOk(t)'
    <3>1. pc'[t] = "idle"
      BY <1>4, <2>3 DEF MergeWrite, Return
    <3> QED
      BY <3>1 DEF BodyOk
  <2>4. BodyOk(t)'
    BY <2>2, <2>3
  <2> HIDE DEF TypeOK
  <2>5. dir'.file = dir.file /\ dirs' \subseteq dirs \cup {dir, dir'}
    BY <2>1
  <2> QED
    BY <1>2, <2>4, <2>5
<1>5. CASE WriteBody(t)
  <2>1. dir'.file.id = gen + 1 /\ dirs' = dirs \cup {dir'} /\ pc'[t] = "sync"
    BY <1>5 DEF WriteBody, Renamed, Body, Directories, Files
  <2> QED
    BY <1>2, <2>1 DEF BodyOk
<1>6. CASE MergeRepeat(t) \/ SyncBody(t) \/ ReadWitness(t) \/ WriteWitness(t)
           \/ SyncWitness(t) \/ Adopt(t) \/ ReturnRepeat(t)
  <2>1. dir'.file = dir.file /\ dirs' \subseteq dirs \cup {dir, dir'}
    BY <1>6 DEF MergeRepeat, SyncBody, ReadWitness, WriteWitness, SyncWitness, Adopt,
       ReturnRepeat, Renamed, Synced, Directories
  <2>2. pc'[t] \in {"idle", "witness", "mark", "marksync", "done"}
    BY <1>6 DEF MergeRepeat, SyncBody, ReadWitness, WriteWitness, SyncWitness, Adopt,
       ReturnRepeat, Return
  <2> QED
    BY <1>2, <2>1, <2>2 DEF BodyOk
<1> QED
  BY <1>3, <1>4, <1>5, <1>6 DEF Progress

LEMMA BodyEnvironment ==
  ASSUME TypeOK, CurrentInv, BodyInv, Environment PROVE BodyInv'
<1> USE DEF TypeOK, fileVars, instVars, lockVars, callVars
<1>1. VersionInv /\ FileInv
  BY DEF CurrentInv, BodyInv
<1>2. ASSUME NEW moved \in SUBSET Threads,
             \A t \in moved : pc'[t] = "idle",
             \A t \in Threads \ moved : pc'[t] = pc[t] /\ call'[t] = call[t],
             \/ dir'.file = dir.file
             \/ dir'.file.id = gen + 1
             \/ dir'.file = NoFile
             \/ moved = Threads /\ dir' \in dirs,
             dirs' \subseteq dirs \cup {dir, dir'}
      PROVE  BodyInv'
  <2>1. FileInv'
    BY <1>1, <1>2, FileStep
  <2>2. \A t \in moved : BodyOk(t)'
    BY <1>2 DEF BodyOk
  <2>3. CASE moved = Threads
    BY <2>1, <2>2, <2>3 DEF BodyInv
  <2>4. CASE moved # Threads
    <3>1. dir'.file = dir.file \/ dir'.file.id \in {NoStamp, gen + 1}
      BY <1>2, <2>4 DEF NoFile
    <3> HIDE DEF TypeOK
    <3> QED
      BY <1>1, <1>2, <2>1, <2>2, <3>1, BodyOthers
  <2> QED
    BY <2>3, <2>4
<1>3. ASSUME NEW t \in Threads, IoError(t) PROVE BodyInv'
  <2> DEFINE moved == {t}
  <2>1. /\ moved \in SUBSET Threads /\ \A u \in moved : pc'[u] = "idle"
        /\ \A u \in Threads \ moved : pc'[u] = pc[u] /\ call'[u] = call[u]
        /\ UNCHANGED <<dir, dirs>>
    BY <1>3 DEF IoError, Return, Goto
  <2> QED
    BY <1>2, <2>1
<1>4. ASSUME NEW died \in SUBSET Processes, Die(died), dirs' \subseteq dirs \cup {dir, dir'},
             dir' = dir \/ (died = Processes /\ dir' \in dirs)
      PROVE  BodyInv'
  <2> DEFINE moved == {t \in Threads : Home(t) \in died}
  <2>1. /\ moved \in SUBSET Threads /\ \A u \in moved : pc'[u] = "idle"
        /\ \A u \in Threads \ moved : pc'[u] = pc[u] /\ call'[u] = call[u]
    BY <1>4 DEF Die
  <2>2. died = Processes => moved = Threads
    BY PlacesAssumption DEF Home
  <2> QED
    BY <1>2, <1>4, <2>1, <2>2
<1>5. ASSUME NEW p \in Processes, Crash(p) PROVE BodyInv'
  BY <1>4, <1>5 DEF Crash
<1>6. CASE PowerCut
  BY <1>4, <1>6 DEF PowerCut
<1>7. CASE RemoveFile \/ EditFile \/ RemoveWitness \/ ReplaceLock
  <2>1. /\ UNCHANGED <<pc, call>> /\ dirs' \subseteq dirs \cup {dir, dir'}
        /\ \/ dir'.file = dir.file \/ dir'.file = NoFile \/ dir'.file.id = gen + 1
    BY <1>7 DEF RemoveFile, EditFile, RemoveWitness, ReplaceLock, Renamed, Directories,
       Files
  <2>2. {} \in SUBSET Threads
    OBVIOUS
  <2> QED
    BY <1>2, <2>1, <2>2
<1> QED
  BY <1>3, <1>5, <1>6, <1>7 DEF Environment

LEMMA BodyStep ==
  ASSUME TypeOK, CurrentInv, BodyInv, [Next]_vars PROVE BodyInv'
<1> USE DEF fileVars, instVars, lockVars, callVars
<1>1. CASE UNCHANGED <<dir, dirs, pc, call>>
  BY <1>1 DEF BodyInv, BodyOk, FileInv
<1>2. ASSUME NEW i \in Instances, Lifecycle(i) \/ Asking(i)
      PROVE  UNCHANGED <<dir, dirs, pc, call>>
  BY <1>2 DEF Lifecycle, LoadRead, LoadCheck, ForRepair, Drop, Asking, Debounced,
     RefreshSkip, RefreshStat, RefreshRead
<1>3. ASSUME NEW p \in Processes, Locking(p) PROVE UNCHANGED <<dir, dirs, pc, call>>
  BY <1>3 DEF Locking, OpenLock, TakeLock, Unlock
<1>4. ASSUME NEW t \in Threads, Calling(t) PROVE BodyInv'
  <2>1. PICK ask \in Asks : RevokeWrongLock(t, ask) \/ Revoke(t, ask)
    BY <1>4 DEF Calling
  <2>2. CASE Revoke(t, ask)
    <3> DEFINE moved == {t}
    <3>1. /\ UNCHANGED <<dir, dirs>> /\ pc'[t] = "read"
          /\ \A u \in Threads \ moved : pc'[u] = pc[u] /\ call'[u] = call[u]
      BY <2>2 DEF Revoke, Goto, TypeOK
    <3>2. moved \in SUBSET Threads /\ FileInv' /\ \A u \in moved : BodyOk(u)'
      BY <3>1 DEF BodyInv, FileInv, BodyOk
    <3> HIDE DEF moved
    <3> QED
      BY <3>1, <3>2, BodyOthers DEF CurrentInv
  <2>3. CASE RevokeWrongLock(t, ask)
    BY <1>1, <2>3 DEF RevokeWrongLock
  <2> QED
    BY <2>1, <2>2, <2>3
<1>5. ASSUME NEW t \in Threads, Progress(t) PROVE BodyInv'
  BY <1>5, BodyProgress
<1>6. CASE Environment
  BY <1>6, BodyEnvironment
<1>7. UNCHANGED vars => UNCHANGED <<dir, dirs, pc, call>>
  BY DEF vars
<1> QED
  BY <1>1, <1>2, <1>3, <1>4, <1>5, <1>6, <1>7 DEF Next

LEMMA BodyCorrect == Spec => [](TypeOK /\ CurrentInv /\ BodyInv)
<1>1. Init => TypeOK /\ CurrentInv /\ BodyInv
  BY TypeInit, CurrentInit, BodyInit
<1>2. TypeOK /\ CurrentInv /\ BodyInv /\ [Next]_vars
        => (TypeOK /\ CurrentInv /\ BodyInv)'
  BY TypeStep, CurrentStep, BodyStep
<1> QED
  BY <1>1, <1>2, PTL DEF Spec

\* Only the rename of its body takes a revoke past it.
LEMMA WritesBody ==
  ASSUME TypeOK, [Next]_vars, NEW t \in Threads, pc[t] = "write", pc'[t] = "sync"
  PROVE  WriteBody(t)
<1> USE DEF TypeOK, fileVars, instVars, lockVars, callVars
<1>1. pc' # pc
  OBVIOUS
<1>2. ASSUME NEW i \in Instances, Lifecycle(i) \/ Asking(i) PROVE pc' = pc
  BY <1>2 DEF Lifecycle, LoadRead, LoadCheck, ForRepair, Drop, Asking, Debounced,
     RefreshSkip, RefreshStat, RefreshRead
<1>3. ASSUME NEW p \in Processes, Locking(p) PROVE pc' = pc
  BY <1>3 DEF Locking, OpenLock, TakeLock, Unlock
<1>4. ASSUME NEW u \in Threads, Calling(u) PROVE pc'[t] # "sync"
  BY <1>4 DEF Calling, RevokeWrongLock, Revoke, Goto
<1>5. ASSUME NEW u \in Threads, Progress(u) PROVE WriteBody(t)
  <2>1. u = t
    BY <1>5, ProgressShape
  <2>2. WriteBody(u)
    BY <1>5, <2>1 DEF Progress, ReadFile, MergeRepeat, MergeWrite, SyncBody, ReadWitness,
       WriteWitness, SyncWitness, Adopt, ReturnRepeat
  <2> QED
    BY <2>1, <2>2
<1>6. ASSUME Environment PROVE pc'[t] # "sync"
  <2>1. ASSUME NEW died, Die(died) PROVE pc'[t] # "sync"
    BY <2>1 DEF Die
  <2>2. CASE PowerCut \/ \E p \in Processes : Crash(p)
    BY <2>1, <2>2 DEF PowerCut, Crash
  <2>3. ASSUME NEW u \in Threads, IoError(u) PROVE pc'[t] # "sync"
    BY <2>3 DEF IoError, Return, Goto
  <2>4. CASE RemoveFile \/ EditFile \/ RemoveWitness \/ ReplaceLock
    BY <2>4 DEF RemoveFile, EditFile, RemoveWitness, ReplaceLock
  <2> QED
    BY <1>6, <2>2, <2>3, <2>4 DEF Environment
<1>7. UNCHANGED vars => pc' = pc
  BY DEF vars
<1> QED
  BY <1>1, <1>2, <1>3, <1>4, <1>5, <1>6, <1>7 DEF Next

LEMMA WritesItsBody ==
  ASSUME TypeOK, BodyInv, NEW t \in Threads, WriteBody(t)
  PROVE  /\ Size(dir'.file.entries, dir'.file.bad) <= MaxLines
         /\ call[t].stamp = dir.file.id =>
              /\ dir.file.entries \subseteq dir'.file.entries
              /\ dir.file.bad => dir'.file.bad
<1>1. dir'.file.entries = call[t].entries /\ dir'.file.bad = call[t].bad
  BY DEF TypeOK, WriteBody, Body, Directories
<1>2. pc[t] = "write" /\ BodyOk(t)
  BY DEF WriteBody, BodyInv
<1> QED
  BY <1>1, <1>2 DEF BodyOk, Fits

\* No revoke leaves a file that the next load refuses as too large, the bad lines it
\* carries included, even where the file is swapped under it.
THEOREM WritesFit == Spec => NoOversizeWrite
<1>1. TypeOK /\ BodyInv /\ [Next]_vars =>
        [\A t \in Threads :
           pc[t] = "write" /\ pc'[t] = "sync" =>
             Size(dir'.file.entries, dir'.file.bad) <= MaxLines]_vars
  BY WritesBody, WritesItsBody
<1> QED
  BY <1>1, BodyCorrect, PTL DEF Spec, NoOversizeWrite

\* A write over the file it was merged from keeps every line of it, entry or not.
THEOREM LinesKept == Spec => NoLineDropped
<1>1. TypeOK /\ BodyInv /\ [Next]_vars =>
        [\A t \in Threads :
           pc[t] = "write" /\ pc'[t] = "sync" /\ call[t].stamp = dir.file.id =>
             /\ dir.file.entries \subseteq dir'.file.entries
             /\ dir.file.bad => dir'.file.bad]_vars
  BY WritesBody, WritesItsBody
<1> QED
  BY <1>1, BodyCorrect, PTL DEF Spec, NoLineDropped
-----------------------------------------------------------------------------
(* A load reads the file and then the witness, with no lock.  Whatever was    *)
(* answered Ok in between raised the witness first (LoadInv).                 *)

LEMMA LoadInit == Init => LoadInv
  BY DEF Init, LoadInv, MarkOk, LoadOk

\* Nothing done to the directory or by a revoke.
LEMMA LoadQuiet ==
  ASSUME LoadInv, UNCHANGED <<dir, acked>>,
         \A t \in Threads :
           pc'[t] \in {"mark", "marksync", "done"} =>
             pc'[t] = pc[t] /\ call'[t] = call[t],
         \A i \in Instances : live'[i] = "loading" =>
           \/ live[i] = "loading" /\ held'[i] = held[i]
           \/ LoadOk(i)'
  PROVE  LoadInv'
  BY DEF LoadInv, MarkOk, LoadOk, Count

\* A step of a revoke leaves an instance that is loading alone.
LEMMA ProgressHeld ==
  ASSUME TypeOK, LockInv, NEW t \in Threads, Progress(t),
         NEW i \in Instances, live[i] = "loading"
  PROVE  held'[i] = held[i]
<1>1. InstanceOf[t] # i /\ InstanceOf[t] \in Instances
  BY ProgressShape, PlacesAssumption DEF LockInv, Running
<1>2. CASE MergeRepeat(t)
  BY <1>1, <1>2 DEF MergeRepeat, TypeOK
<1>3. CASE MergeWrite(t)
  BY <1>1, <1>3 DEF MergeWrite, TypeOK
<1>4. CASE ~(MergeRepeat(t) \/ MergeWrite(t))
  BY <1>4 DEF Progress, ReadFile, WriteBody, SyncBody, ReadWitness, WriteWitness,
     SyncWitness, Adopt, ReturnRepeat, instVars
<1> QED
  BY <1>2, <1>3, <1>4

\* A witness that a body was counted for is not above it, and covers it at the end.
LEMMA MarkProgress ==
  ASSUME TypeOK, LockInv, LockInv', LoadInv, NEW t \in Threads, Progress(t)
  PROVE  /\ \A u \in Threads : MarkOk(u)'
         /\ dir.mark <= dir'.mark
<1> USE DEF TypeOK, fileVars, callVars, Goto
<1>1. MarkOk(t) /\ dir.mark \in Nat
  BY EntryCount DEF LoadInv, Directories
<1>2. ASSUME NEW u \in Threads \ {t} PROVE pc'[u] = pc[u] /\ call'[u] = call[u]
  <2>1. pc'[u] = pc[u]
    BY ProgressShape
  <2>2. call'[u] = call[u]
    BY DEF Progress, ReadFile, MergeRepeat, MergeWrite, WriteBody, SyncBody, ReadWitness,
       WriteWitness, SyncWitness, Adopt, ReturnRepeat, Return
  <2> QED
    BY <2>1, <2>2
<1>3. ASSUME dir'.mark = dir.mark, MarkOk(t)' PROVE \A u \in Threads : MarkOk(u)'
  BY <1>2, <1>3 DEF LoadInv, MarkOk, Count
<1>4. CASE WriteWitness(t)
  <2>1. /\ pc[t] = "mark" /\ pc'[t] = "marksync" /\ call' = call
        /\ dir'.mark = Count(call[t])
    BY <1>4 DEF WriteWitness, Directories
  <2>2. dir.mark < Count(call[t]) /\ Count(call[t]) \in Nat
    BY <1>1, <2>1, EntryCount DEF MarkOk, Count, Calls
  <2>3. MarkOk(t)'
    BY <2>1, <2>2 DEF MarkOk, Count
  <2>4. ASSUME NEW u \in Threads \ {t} PROVE pc'[u] \notin Writing
    BY <1>2, <2>1, <2>4 DEF LockInv, Writing
  <2> QED
    BY <1>1, <2>1, <2>2, <2>3, <2>4 DEF MarkOk, Writing
<1>5. CASE ReadWitness(t)
  <2>1. UNCHANGED <<dir, call>>
    BY <1>5 DEF ReadWitness
  <2>2. Count(call[t]) \in Nat
    BY EntryCount DEF Count, Calls
  <2>3. MarkOk(t)'
    <3>1. CASE dir.mark >= Count(call[t])
      <4>1. pc'[t] = "done"
        BY <1>5, <3>1 DEF ReadWitness
      <4> QED
        BY <1>1, <2>1, <2>2, <3>1, <4>1 DEF MarkOk, Count
    <3>2. CASE ~(dir.mark >= Count(call[t]))
      <4>1. pc'[t] = "mark"
        BY <1>5, <3>2 DEF ReadWitness
      <4> QED
        BY <1>1, <2>1, <2>2, <3>2, <4>1 DEF MarkOk, Count
    <3> QED
      BY <3>1, <3>2
  <2> QED
    BY <1>1, <1>3, <2>1, <2>3
<1>6. CASE SyncWitness(t)
  <2>1. UNCHANGED <<dir, call>> /\ pc[t] = "marksync" /\ pc'[t] = "done"
    BY <1>6 DEF SyncWitness
  <2> QED
    BY <1>1, <1>3, <2>1 DEF MarkOk, Count
<1>7. CASE ReadFile(t) \/ MergeRepeat(t) \/ MergeWrite(t) \/ WriteBody(t) \/ SyncBody(t)
           \/ Adopt(t) \/ ReturnRepeat(t)
  <2>1. dir'.mark = dir.mark
    BY <1>7 DEF ReadFile, MergeRepeat, MergeWrite, WriteBody, SyncBody, Adopt,
       ReturnRepeat, Directories
  <2>2. pc'[t] \notin {"mark", "marksync", "done"}
    BY <1>7 DEF ReadFile, MergeRepeat, MergeWrite, WriteBody, SyncBody, Adopt,
       ReturnRepeat, Return
  <2>3. MarkOk(t)'
    BY <2>2 DEF MarkOk
  <2> QED
    BY <1>1, <1>3, <2>1, <2>3
<1> QED
  BY <1>4, <1>5, <1>6, <1>7 DEF Progress

\* A proper part of a set has fewer elements.
LEMMA FewerHeld ==
  ASSUME NEW E \in SUBSET Entries, NEW F \in SUBSET Entries, E \subseteq F, ~(F \subseteq E)
  PROVE  Cardinality(E) < Cardinality(F)
<1>1. IsFiniteSet(F)
  BY EntryCount
<1>2. Cardinality(E) <= Cardinality(F) /\ (Cardinality(F) = Cardinality(E) => E = F)
  BY <1>1, FS_Subset
<1>3. Cardinality(E) \in Nat /\ Cardinality(F) \in Nat
  BY EntryCount
<1> QED
  BY <1>2, <1>3

LEMMA LoadProgress ==
  ASSUME TypeOK, TypeOK', FaultInv, LockInv', AckedInFile, LoadInv,
         NEW t \in Threads, Progress(t)
  PROVE  LoadInv'
<1> USE DEF TypeOK, fileVars, callVars, Goto
<1>1. (\A u \in Threads : MarkOk(u)') /\ dir.mark <= dir'.mark
  BY MarkProgress DEF FaultInv
<1>2. WriterOk(t) /\ MarkOk(t) /\ LockInv
  BY DEF FaultInv, WriterInv, LoadInv
<1>3. dir.file.entries \subseteq dir'.file.entries
  <2>1. CASE WriteBody(t)
    BY <1>2, <2>1 DEF WriteBody, Body, Directories, WriterOk
  <2>2. CASE ~WriteBody(t)
    BY <2>2 DEF Progress, ReadFile, MergeRepeat, MergeWrite, SyncBody, ReadWitness,
       WriteWitness, SyncWitness, Adopt, ReturnRepeat, Directories
  <2> QED
    BY <2>1, <2>2
<1>4. ASSUME NEW i \in Instances, live'[i] = "loading" PROVE LoadOk(i)'
  <2>1. live[i] = "loading" /\ held'[i] = held[i] /\ LoadOk(i)
    BY <1>2, <1>4, ProgressShape, ProgressHeld DEF LoadInv
  <2>2. held'[i] \subseteq dir'.file.entries
    BY <1>3, <2>1 DEF LoadOk
  <2>3. Cardinality(held[i]) \in Nat /\ dir.mark \in Nat /\ dir'.mark \in Nat
    BY EntryCount DEF Directories
  <2>4. CASE Cardinality(held[i]) < dir.mark
    BY <1>1, <2>1, <2>2, <2>3, <2>4 DEF LoadOk
  <2>5. CASE acked \subseteq held[i] /\ acked' = acked
    BY <2>1, <2>2, <2>5 DEF LoadOk
  <2>6. CASE acked \subseteq held[i] /\ acked' # acked
    <3>1. pc[t] = "done" /\ acked' = acked \cup call[t].ask /\ dir' = dir
      BY <2>6 DEF Progress, ReadFile, MergeRepeat, MergeWrite, WriteBody, SyncBody,
         ReadWitness, WriteWitness, SyncWitness, Adopt, ReturnRepeat, Return
    <3>2. /\ call[t].entries = dir.file.entries /\ call[t].ask \subseteq dir.file.entries
          /\ Cardinality(dir.file.entries) <= dir.mark
      BY <1>2, <3>1 DEF WriterOk, Renaming, MarkOk, Count
    <3>3. CASE dir.file.entries \subseteq held[i]
      <4>1. acked' \subseteq held'[i]
        BY <2>1, <2>6, <3>1, <3>2, <3>3
      <4> QED
        BY <2>2, <4>1 DEF LoadOk
    <3>4. CASE ~(dir.file.entries \subseteq held[i])
      <4>1. dir.file.entries \in SUBSET Entries /\ held[i] \in SUBSET Entries
        BY DEF Directories, Files
      <4>2. Cardinality(held[i]) < Cardinality(dir.file.entries)
        BY <2>1, <3>4, <4>1, FewerHeld DEF LoadOk
      <4>3. Cardinality(dir.file.entries) \in Nat
        BY <4>1, EntryCount
      <4>4. Cardinality(held'[i]) < dir'.mark
        BY <2>1, <2>3, <3>1, <3>2, <4>2, <4>3
      <4> QED
        BY <2>2, <4>4 DEF LoadOk
    <3> QED
      BY <3>3, <3>4
  <2> QED
    BY <2>1, <2>4, <2>5, <2>6 DEF LoadOk
<1> QED
  BY <1>1, <1>4 DEF LoadInv, LoadOk

LEMMA LoadLifecycle ==
  ASSUME TypeOK, CurrentInv, LockInv, AckedInFile, LoadInv, NEW i \in Instances,
         Lifecycle(i) \/ Asking(i)
  PROVE  LoadInv'
<1> USE DEF TypeOK, fileVars, callVars
<1>1. UNCHANGED <<dir, acked, pc, call>>
  BY LifecycleQuiet
<1>2. ASSUME \A j \in Instances : live'[j] = "loading" =>
               \/ live[j] = "loading" /\ held'[j] = held[j]
               \/ LoadOk(j)'
      PROVE  LoadInv'
  BY <1>1, <1>2, LoadQuiet
<1>3. CASE LoadRead(i)
  <2>1. LoadOk(i)'
    BY <1>1, <1>3 DEF LoadRead, LoadOk, AckedInFile
  <2>2. \A j \in Instances \ {i} : live'[j] = live[j] /\ held'[j] = held[j]
    BY <1>3 DEF LoadRead
  <2> QED
    BY <1>2, <2>1, <2>2
<1>4. CASE LoadCheck(i)
  <2>1. live'[i] # "loading"
    BY <1>4 DEF LoadCheck
  <2>2. \A j \in Instances \ {i} : live'[j] = live[j] /\ held'[j] = held[j]
    BY <1>4 DEF LoadCheck
  <2> QED
    BY <1>2, <2>1, <2>2
<1>5. CASE ForRepair(i)
  BY <1>2, <1>5 DEF ForRepair
<1>6. CASE Drop(i)
  BY <1>2, <1>6 DEF Drop, Forget
<1>7. CASE RefreshRead(i)
  <2>1. live' = live /\ Running(i)
    BY <1>7 DEF RefreshRead, CurrentInv, StampInv, StampOk
  <2>2. \A j \in Instances \ {i} : held'[j] = held[j]
    BY <1>7 DEF RefreshRead, RefreshUnion
  <2> QED
    BY <1>2, <2>1, <2>2 DEF Running
<1>8. CASE Debounced(i) \/ RefreshSkip(i) \/ RefreshStat(i)
  BY <1>2, <1>8 DEF Debounced, RefreshSkip, RefreshStat
<1> QED
  BY <1>3, <1>4, <1>5, <1>6, <1>7, <1>8 DEF Lifecycle, Asking

LEMMA LoadStep ==
  ASSUME TypeOK, TypeOK', FaultInv, FaultInv', CurrentInv, AckedInFile, LoadInv,
         NoEdits, NoPowerCut, [Next]_vars
  PROVE  LoadInv'
<1> USE DEF FaultInv
<1>1. CASE UNCHANGED <<dir, acked, live, held, pc, call>>
  BY <1>1, LoadQuiet
<1>2. ASSUME NEW i \in Instances, Lifecycle(i) \/ Asking(i) PROVE LoadInv'
  BY <1>2, LoadLifecycle
<1>3. ASSUME NEW p \in Processes, Locking(p)
      PROVE  UNCHANGED <<dir, acked, live, held, pc, call>>
  BY <1>3 DEF Locking, OpenLock, TakeLock, Unlock, fileVars, instVars, callVars
<1>4. ASSUME NEW t \in Threads, Calling(t) PROVE LoadInv'
  <2>1. PICK ask \in Asks : RevokeWrongLock(t, ask) \/ Revoke(t, ask)
    BY <1>4 DEF Calling
  <2>2. /\ UNCHANGED <<dir, acked, live>> /\ Running(InstanceOf[t])
        /\ \A i \in Instances \ {InstanceOf[t]} : held'[i] = held[i]
    BY <2>1 DEF RevokeWrongLock, Revoke, Extend, fileVars, callVars, TypeOK
  <2>3. \/ UNCHANGED <<pc, call>>
        \/ /\ pc'[t] = "read"
           /\ \A u \in Threads \ {t} : pc'[u] = pc[u] /\ call'[u] = call[u]
    BY <2>1 DEF RevokeWrongLock, Revoke, Goto, callVars, TypeOK
  <2> QED
    BY <2>2, <2>3, LoadQuiet DEF Running
<1>5. ASSUME NEW t \in Threads, Progress(t) PROVE LoadInv'
  BY <1>5, LoadProgress
<1>6. ASSUME NEW t \in Threads, IoError(t) PROVE LoadInv'
  <2>1. UNCHANGED <<dir, acked, live, held>>
    BY <1>6 DEF IoError, Return, fileVars, instVars
  <2>2. /\ pc'[t] = "idle"
        /\ \A u \in Threads \ {t} : pc'[u] = pc[u] /\ call'[u] = call[u]
    BY <1>6 DEF IoError, Return, Goto, TypeOK
  <2> QED
    BY <2>1, <2>2, LoadQuiet
<1>7. ASSUME NEW p \in Processes, Crash(p) PROVE LoadInv'
  BY <1>7, LoadQuiet DEF Crash, Die, Forget
<1>8. ~PowerCut
  BY DEF PowerCut, Fault, NoPowerCut
<1>9. UNCHANGED vars => UNCHANGED <<dir, acked, live, held, pc, call>>
  BY DEF vars, fileVars, instVars, callVars
<1> QED
  BY <1>1, <1>2, <1>3, <1>4, <1>5, <1>6, <1>7, <1>8, <1>9, NoEditSteps
     DEF Next, Environment

LEMMA LoadCorrect ==
  ASSUME NoEdits, NoPowerCut PROVE Spec => [](TypeOK /\ LoadInv)
<1>1. Init => LoadInv
  BY LoadInit
<1>2. TypeOK /\ TypeOK' /\ FaultInv /\ FaultInv' /\ CurrentInv /\ AckedInFile /\ LoadInv
        /\ [Next]_vars => LoadInv'
  BY LoadStep
<1> QED
  BY <1>1, <1>2, FaultCorrect, BodyCorrect, AckedStays, PTL DEF Spec

LEMMA StartsWith ==
  ASSUME TypeOK, LoadInv, [Next]_vars, NEW i \in Instances,
         live[i] = "loading", live'[i] = "up"
  PROVE  LoadCheck(i) /\ acked \subseteq held[i] /\ held' = held
<1> USE DEF TypeOK, instVars
<1>1. LoadCheck(i)
  <2>1. ASSUME NEW j \in Instances, Lifecycle(j) PROVE LoadCheck(i)
    <3>1. j = i /\ ~LoadRead(j) /\ ~ForRepair(j) /\ ~Drop(j)
      <4>1. CASE LoadRead(j)
        BY <4>1 DEF LoadRead
      <4>2. CASE ForRepair(j)
        BY <4>2 DEF ForRepair
      <4>3. CASE Drop(j)
        BY <4>3 DEF Drop, Forget
      <4>4. CASE LoadCheck(j)
        BY <4>4 DEF LoadCheck, LoadRead, ForRepair, Drop, Running
      <4> QED
        BY <2>1, <4>1, <4>2, <4>3, <4>4 DEF Lifecycle
    <3> QED
      BY <2>1, <3>1 DEF Lifecycle
  <2>2. ASSUME NEW j \in Instances, Asking(j) PROVE live' = live
    BY <2>2 DEF Asking, Debounced, RefreshSkip, RefreshStat, RefreshRead
  <2>3. ASSUME NEW p \in Processes, Locking(p) PROVE live' = live
    BY <2>3 DEF Locking, OpenLock, TakeLock, Unlock
  <2>4. ASSUME NEW t \in Threads, Calling(t) PROVE live' = live
    BY <2>4 DEF Calling, RevokeWrongLock, Revoke
  <2>5. ASSUME NEW t \in Threads, Progress(t) PROVE live' = live
    BY <2>5, ProgressShape
  <2>6. ASSUME Environment PROVE live'[i] \in {"down", live[i]}
    <3>1. ASSUME NEW died, Die(died) PROVE live'[i] \in {"down", live[i]}
      BY <3>1 DEF Die, Forget
    <3>2. CASE PowerCut \/ \E p \in Processes : Crash(p)
      BY <3>1, <3>2 DEF PowerCut, Crash
    <3>3. ASSUME ~(PowerCut \/ \E p \in Processes : Crash(p)) PROVE live' = live
      BY <2>6, <3>3 DEF Environment, IoError, RemoveFile, EditFile, RemoveWitness,
         ReplaceLock
    <3> QED
      BY <3>2, <3>3
  <2>7. UNCHANGED vars => live' = live
    BY DEF vars
  <2> QED
    BY <2>1, <2>2, <2>3, <2>4, <2>5, <2>6, <2>7 DEF Next
<1>2. ~Lost(Cardinality(held[i])) /\ held' = held
  BY <1>1 DEF LoadCheck
<1> QED
  BY <1>1, <1>2 DEF LoadInv, LoadOk, Lost

\* As long as nobody but nauthy touches the directory and the power stays on, a load
\* that succeeds refuses everything answered Ok before it returned, though it reads
\* the file and the witness at two moments and under no lock.
THEOREM StartHolds ==
  ASSUME NoEdits, NoPowerCut PROVE Spec => StartHoldsEveryAck
<1>1. TypeOK /\ LoadInv /\ [Next]_vars =>
        [\A i \in Instances :
           live[i] = "loading" /\ live'[i] = "up" => acked \subseteq held'[i]]_vars
  BY StartsWith
<1> QED
  BY <1>1, LoadCorrect, PTL DEF Spec, StartHoldsEveryAck
-----------------------------------------------------------------------------
(* The contract.  The refinement mapping is that of DenylistRefinement: acked *)
(* is promised, the instances that are up serve, and what they hold they      *)
(* refuse.                                                                    *)

Refuses == [i \in Instances |-> IF i \in Serving THEN held[i] ELSE {}]

LEMMA StoreInit == Init => Store!Init
  BY DEF Init, Store!Init, Serving

\* What the contract does not see.
LEMMA StoreStutters ==
  ASSUME acked' = acked, Serving' = Serving, \A i \in Serving : held'[i] = held[i]
  PROVE  UNCHANGED Store!svars
<1>1. Refuses' = Refuses
  BY DEF Refuses
<1> QED
  BY <1>1 DEF Store!svars, Refuses

\* An entry more in the held set of an instance.
LEMMA StoreLearns ==
  ASSUME TypeOK, NEW i \in Instances, NEW new \in SUBSET Entries,
         UNCHANGED <<acked, live>>, held' = [held EXCEPT ![i] = @ \cup new]
  PROVE  [Store!Next]_(Store!svars)
<1>1. Serving' = Serving /\ held \in [Instances -> SUBSET Entries]
  BY DEF Serving, TypeOK
<1>2. CASE i \in Serving
  <2>1. Refuses' = [Refuses EXCEPT ![i] = @ \cup new]
    BY <1>1, <1>2 DEF Refuses
  <2>2. Store!Learn(i)
    BY <1>1, <1>2, <2>1 DEF Store!Learn, Refuses
  <2> QED
    BY <2>2 DEF Store!Next
<1>3. CASE i \notin Serving
  <2>1. \A j \in Serving : j \in Instances /\ j # i
    BY <1>3 DEF Serving
  <2>2. \A j \in Serving : held'[j] = held[j]
    BY <1>1, <2>1
  <2> QED
    BY <1>1, <2>2, StoreStutters
<1> QED
  BY <1>2, <1>3

\* A revoke answers Ok.
LEMMA StorePromises ==
  ASSUME NEW new \in SUBSET Entries, acked' = acked \cup new, UNCHANGED <<live, held>>
  PROVE  Store!Next
<1>1. Serving' = Serving /\ Refuses' = Refuses
  BY DEF Serving, Refuses
<1>2. Store!Promise
  BY <1>1 DEF Store!Promise, Refuses
<1> QED
  BY <1>2 DEF Store!Next

\* Instances cease to exist.
LEMMA StoreStops ==
  ASSUME NEW died, Forget(died), acked' = acked
  PROVE  Store!Next
<1> DEFINE stopped == died \cap Serving
<1>1. stopped \in SUBSET Serving /\ Serving' = Serving \ stopped
  BY DEF Forget, Serving
<1>2. Refuses' = [i \in Instances |-> IF i \in stopped THEN {} ELSE Refuses[i]]
  BY <1>1 DEF Forget, Refuses, Serving
<1> HIDE DEF stopped
<1>3. \E gone \in SUBSET Serving : Store!Stop(gone)
  BY <1>1, <1>2 DEF Store!Stop, Refuses
<1> QED
  BY <1>3 DEF Store!Next

LEMMA StoreLifecycle ==
  ASSUME TypeOK, LoadInv, NEW i \in Instances, Lifecycle(i)
  PROVE  [Store!Next]_(Store!svars)
<1> USE DEF TypeOK, callVars
<1>1. CASE LoadRead(i) \/ ForRepair(i)
  <2>1. acked' = acked /\ Serving' = Serving /\ i \notin Serving
    BY <1>1 DEF LoadRead, ForRepair, Serving
  <2>2. \A j \in Serving : held'[j] = held[j]
    BY <1>1, <2>1 DEF LoadRead, ForRepair, Serving
  <2> QED
    BY <2>1, <2>2, StoreStutters
<1>2. CASE LoadCheck(i)
  <2>1. live[i] = "loading" /\ acked' = acked /\ i \notin Serving
    BY <1>2 DEF LoadCheck, Serving
  <2>2. CASE Lost(Cardinality(held[i]))
    <3>1. Serving' = Serving
      BY <1>2, <2>1, <2>2 DEF LoadCheck, Serving
    <3>2. \A j \in Serving : held'[j] = held[j]
      BY <1>2, <2>1, <2>2 DEF LoadCheck, Serving
    <3> QED
      BY <2>1, <3>1, <3>2, StoreStutters
  <2>3. CASE ~Lost(Cardinality(held[i]))
    <3>1. live' = [live EXCEPT ![i] = "up"] /\ held' = held
      BY <1>2, <2>3 DEF LoadCheck
    <3>2. acked \subseteq held[i]
      BY <2>1, <2>3 DEF LoadInv, LoadOk, Lost
    <3>3. Serving' = Serving \cup {i}
      BY <3>1 DEF Serving
    <3>4. Refuses' = [Refuses EXCEPT ![i] = held[i]] /\ held[i] \in SUBSET Entries
      BY <3>1, <3>3 DEF Refuses
    <3>5. Store!Start(i)
      BY <2>1, <3>2, <3>3, <3>4 DEF Store!Start, Refuses
    <3> QED
      BY <3>5 DEF Store!Next
  <2> QED
    BY <2>2, <2>3
<1>3. CASE Drop(i)
  BY <1>3, StoreStops DEF Drop
<1> QED
  BY <1>1, <1>2, <1>3 DEF Lifecycle

LEMMA StoreStep ==
  ASSUME TypeOK, LoadInv, [Next]_vars
  PROVE  [Store!Next]_(Store!svars)
<1> USE DEF fileVars, lockVars, instVars, callVars
<1>1. CASE UNCHANGED <<acked, live, held>>
  BY <1>1, StoreStutters DEF Serving
<1>2. ASSUME NEW i \in Instances, Lifecycle(i) PROVE [Store!Next]_(Store!svars)
  BY <1>2, StoreLifecycle
<1>3. ASSUME NEW i \in Instances, Asking(i) PROVE [Store!Next]_(Store!svars)
  <2>1. CASE RefreshRead(i) /\ held' # held
    <3>1. /\ held' = [held EXCEPT ![i] = @ \cup dir.file.entries] /\ UNCHANGED <<acked, live>>
          /\ dir.file.entries \in SUBSET Entries
      BY <2>1 DEF RefreshRead, RefreshUnion, Joined, TypeOK, Directories, Files
    <3> QED
      BY <3>1, StoreLearns
  <2>2. CASE RefreshRead(i) /\ held' = held
    BY <1>1, <2>2 DEF RefreshRead
  <2>3. CASE Debounced(i) \/ RefreshSkip(i) \/ RefreshStat(i)
    BY <1>1, <2>3 DEF Debounced, RefreshSkip, RefreshStat
  <2> QED
    BY <1>3, <2>1, <2>2, <2>3 DEF Asking
<1>4. ASSUME NEW p \in Processes, Locking(p) PROVE [Store!Next]_(Store!svars)
  BY <1>1, <1>4 DEF Locking, OpenLock, TakeLock, Unlock
<1>5. ASSUME NEW t \in Threads, Calling(t) PROVE [Store!Next]_(Store!svars)
  <2>1. PICK ask \in Asks : RevokeWrongLock(t, ask) \/ Revoke(t, ask)
    BY <1>5 DEF Calling
  <2>2. /\ UNCHANGED <<acked, live>> /\ held' = [held EXCEPT ![InstanceOf[t]] = @ \cup ask]
        /\ ask \in SUBSET Entries /\ InstanceOf[t] \in Instances
    BY <2>1, BoundsAssumption, PlacesAssumption
       DEF RevokeWrongLock, Revoke, Extend, Joined, TypeOK
  <2> QED
    BY <2>2, StoreLearns
<1>6. ASSUME NEW t \in Threads, Progress(t) PROVE [Store!Next]_(Store!svars)
  <2>1. call[t].ask \in SUBSET Entries /\ call[t].entries \in SUBSET Entries
        /\ InstanceOf[t] \in Instances
    BY PlacesAssumption DEF TypeOK, Calls
  <2>2. CASE MergeRepeat(t) \/ MergeWrite(t)
    <3>1. /\ UNCHANGED <<acked, live>>
          /\ held' = [held EXCEPT ![InstanceOf[t]] = @ \cup call[t].entries]
      BY <2>2 DEF MergeRepeat, MergeWrite, Return, Joined
    <3> QED
      BY <2>1, <3>1, StoreLearns
  <2>3. CASE Adopt(t) \/ ReturnRepeat(t)
    BY <2>1, <2>3, StorePromises DEF Adopt, ReturnRepeat, Return
  <2>4. CASE ReadFile(t) \/ WriteBody(t) \/ SyncBody(t) \/ ReadWitness(t)
             \/ WriteWitness(t) \/ SyncWitness(t)
    BY <1>1, <2>4 DEF ReadFile, Return, WriteBody, SyncBody, ReadWitness, WriteWitness,
       SyncWitness
  <2> QED
    BY <1>6, <2>2, <2>3, <2>4 DEF Progress
<1>7. ASSUME Environment PROVE [Store!Next]_(Store!svars)
  <2>1. CASE PowerCut \/ \E p \in Processes : Crash(p)
    BY <2>1, StoreStops DEF PowerCut, Crash, Die
  <2>2. CASE ~(PowerCut \/ \E p \in Processes : Crash(p))
    BY <1>1, <1>7, <2>2 DEF Environment, IoError, Return, RemoveFile, EditFile,
       RemoveWitness, ReplaceLock
  <2> QED
    BY <2>1, <2>2
<1>8. UNCHANGED vars => UNCHANGED <<acked, live, held>>
  BY DEF vars
<1> QED
  BY <1>1, <1>2, <1>3, <1>4, <1>5, <1>6, <1>7, <1>8 DEF Next

\* Seen through the mapping, the file, the witness, the locks, the half-done writes
\* and the crashes disappear: every behaviour is one of RevocationStore.
THEOREM StoreKeepsItsPromise ==
  ASSUME NoEdits, NoPowerCut PROVE Spec => ImplementsStore
<1>1. Init => Store!Init
  BY StoreInit
<1>2. TypeOK /\ LoadInv /\ [Next]_vars => [Store!Next]_(Store!svars)
  BY StoreStep
<1> QED
  BY <1>1, <1>2, LoadCorrect, PTL DEF Spec, ImplementsStore, Store!Spec
=============================================================================
