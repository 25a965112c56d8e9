--------------------------- MODULE DenylistProofs ---------------------------
(* What holds of Denylist for every number of processes, instances, threads *)
(* and entries, and every bound.                                            *)
EXTENDS DenylistInvariant, FiniteSetTheorems, TLAPS

(* The count of any set of entries is a possible witness. *)
LEMMA EntryCount ==
  ASSUME NEW E \in SUBSET Entries
  PROVE  IsFiniteSet(E) /\ Cardinality(E) \in 0 .. Cardinality(Entries)
<1>1. IsFiniteSet(Entries)
  BY EntriesAssumption
<1>2. IsFiniteSet(E) /\ Cardinality(E) <= Cardinality(Entries)
  BY <1>1, FS_Subset
<1>3. Cardinality(E) \in Nat /\ Cardinality(Entries) \in Nat
  BY <1>1, <1>2, FS_CardinalityType
<1> QED
  BY <1>2, <1>3

(* Every variable keeps its type (TypeOK), whatever faults the environment *)
(* injects.                                                                *)
LEMMA TypeInit == Init => TypeOK
<1> SUFFICES ASSUME Init PROVE TypeOK
  OBVIOUS
<1>1. Cardinality(Entries) \in Nat
  BY EntryCount
<1> QED
  BY <1>1 DEF Init, TypeOK, Directories, Files, NoFile, NoStamp, Calls, NoCall,
     Stages

LEMMA TypeLifecycle ==
  ASSUME TypeOK, NEW i \in Instances, Lifecycle(i) PROVE TypeOK'
<1> USE DEF TypeOK, fileVars, lockVars, callVars, Stages, NoStamp, Directories,
            Files, Calls
<1>1. CASE LoadRead(i)
  BY <1>1 DEF LoadRead
<1>2. CASE LoadCheck(i)
  BY <1>2 DEF LoadCheck
<1>3. CASE ForRepair(i)
  BY <1>3 DEF ForRepair
<1>4. CASE Drop(i)
  BY <1>4 DEF Drop, Forget
<1> QED
  BY <1>1, <1>2, <1>3, <1>4 DEF Lifecycle

LEMMA TypeLocking ==
  ASSUME TypeOK, NEW p \in Processes, Locking(p) PROVE TypeOK'
<1> USE DEF TypeOK, fileVars, instVars, callVars
<1>1. CASE OpenLock(p)
  BY <1>1 DEF OpenLock
<1>2. CASE TakeLock(p)
  BY <1>2 DEF TakeLock
<1>3. CASE Unlock(p)
  BY <1>3 DEF Unlock
<1> QED
  BY <1>1, <1>2, <1>3 DEF Locking

LEMMA TypeCalling ==
  ASSUME TypeOK, NEW t \in Threads, Calling(t) PROVE TypeOK'
<1>1. PICK ask \in Asks : RevokeWrongLock(t, ask) \/ Revoke(t, ask)
  BY DEF Calling
<1>2. ask \in SUBSET Entries /\ InstanceOf[t] \in Instances
  BY BoundsAssumption, PlacesAssumption
<1> USE DEF TypeOK, fileVars, lockVars, callVars, Extend, Joined, Calls, NoCall,
            NoStamp
<1>3. CASE RevokeWrongLock(t, ask)
  BY <1>2, <1>3 DEF RevokeWrongLock
<1>4. CASE Revoke(t, ask)
  BY <1>2, <1>4 DEF Revoke, Goto
<1> QED
  BY <1>1, <1>3, <1>4

LEMMA TypeReturn ==
  ASSUME TypeOK, NEW t \in Threads, NEW answer \in BOOLEAN, Return(t, answer),
         UNCHANGED gen
  PROVE  /\ pc' \in [Threads -> {"idle", "read"} \cup Writing]
         /\ call' \in [Threads -> Calls']
         /\ acked' \in SUBSET Entries
         /\ written' \in SUBSET Entries
  BY DEF TypeOK, Return, Goto, Calls, NoCall, NoStamp

(* The locals of a revoke once it has read the file, and once it has merged. *)
LEMMA CallAfterRead ==
  ASSUME NEW c \in Calls, NEW f \in Files
  PROVE  [c EXCEPT !.entries = f.entries, !.bad = f.bad, !.stamp = f.id] \in Calls
  BY DEF Calls, Files

LEMMA CallAfterMerge ==
  ASSUME NEW c \in Calls, NEW E \in SUBSET Entries
  PROVE  [c EXCEPT !.entries = E, !.wrote = TRUE] \in Calls
  BY DEF Calls

LEMMA TypeProgress ==
  ASSUME TypeOK, NEW t \in Threads, Progress(t) PROVE TypeOK'
<1>1. InstanceOf[t] \in Instances
  BY PlacesAssumption
<1> USE DEF TypeOK, fileVars, lockVars, instVars, callVars, Calls, Directories,
            Files, Writing, Goto
<1>2. CASE ReadFile(t)
  <2>1. CASE Fits(dir.file.entries, dir.file.bad)
    <3>1. [call[t] EXCEPT !.entries = dir.file.entries, !.bad = dir.file.bad,
                          !.stamp = dir.file.id] \in Calls
      <4>1. call[t] \in Calls /\ dir.file \in Files
        BY DEF TypeOK, Directories
      <4> HIDE DEF Calls, Files
      <4> QED
        BY <4>1, CallAfterRead
    <3> HIDE DEF Calls, Files, Directories
    <3> QED
      BY <1>2, <2>1, <3>1 DEF ReadFile
  <2>2. CASE ~Fits(dir.file.entries, dir.file.bad)
    <3>1. Return(t, FALSE) /\ UNCHANGED <<fileVars, lockVars, instVars, faults>>
      BY <1>2, <2>2 DEF ReadFile
    <3> QED
      BY <3>1, TypeReturn
  <2> QED
    BY <2>1, <2>2
<1>3. CASE MergeRepeat(t)
  BY <1>1, <1>3 DEF MergeRepeat, Joined
<1>4. CASE MergeWrite(t)
  <2>1. held' \in [Instances -> SUBSET Entries]
    BY <1>1, <1>4 DEF MergeWrite, Joined
  <2>2. CASE Fits(Joined(InstanceOf[t], call[t].entries), call[t].bad)
    <3>1. [call[t] EXCEPT !.entries = Joined(InstanceOf[t], call[t].entries),
                          !.wrote = TRUE] \in Calls
      <4>1. call[t] \in Calls /\ Joined(InstanceOf[t], call[t].entries) \in SUBSET Entries
        BY <1>1 DEF Joined
      <4> HIDE DEF Calls, Files
      <4> QED
        BY <4>1, CallAfterMerge
    <3> HIDE DEF Calls, Files, Directories
    <3> QED
      BY <1>4, <2>1, <2>2, <3>1 DEF MergeWrite
  <2>3. CASE ~Fits(Joined(InstanceOf[t], call[t].entries), call[t].bad)
    <3>1. /\ Return(t, FALSE)
          /\ UNCHANGED <<fileVars, lockVars, live, stamp, malformed, fresh, look,
                         faults>>
      BY <1>4, <2>3 DEF MergeWrite
    <3> QED
      BY <2>1, <3>1, TypeReturn
  <2> QED
    BY <2>2, <2>3
<1>5. CASE WriteBody(t)
  BY <1>5 DEF WriteBody, Body, Renamed, NoStamp
<1>6. CASE SyncBody(t)
  BY <1>6 DEF SyncBody, Synced
<1>7. CASE ReadWitness(t)
  BY <1>7 DEF ReadWitness
<1>8. CASE WriteWitness(t)
  <2>1. Count(call[t]) \in 0 .. Cardinality(Entries)
    BY EntryCount DEF Count
  <2> QED
    BY <1>8, <2>1 DEF WriteWitness, Renamed
<1>9. CASE SyncWitness(t)
  BY <1>9 DEF SyncWitness, Synced
<1>10. CASE Adopt(t)
  BY <1>1, <1>10, TypeReturn DEF Adopt
<1>11. CASE ReturnRepeat(t)
  BY <1>11, TypeReturn DEF ReturnRepeat
<1> QED
  BY <1>2, <1>3, <1>4, <1>5, <1>6, <1>7, <1>8, <1>9, <1>10, <1>11 DEF Progress

LEMMA TypeAsking ==
  ASSUME TypeOK, NEW i \in Instances, Asking(i) PROVE TypeOK'
<1> USE DEF TypeOK, fileVars, lockVars, callVars, RefreshDue, Directories, Files
<1>1. CASE Debounced(i)
  BY <1>1 DEF Debounced
<1>2. CASE RefreshSkip(i)
  BY <1>2 DEF RefreshSkip
<1>3. CASE RefreshStat(i)
  BY <1>3 DEF RefreshStat
<1>4. CASE RefreshRead(i)
  BY <1>4 DEF RefreshRead, RefreshUnion, Released, Joined, NoStamp
<1> QED
  BY <1>1, <1>2, <1>3, <1>4 DEF Asking

LEMMA TypeDie ==
  ASSUME TypeOK, NEW died \in SUBSET Processes, Die(died), faults' \in Nat,
         dir' \in Directories, dirs' \subseteq Directories
  PROVE  TypeOK'
  BY DEF TypeOK, Die, Forget, Directories, Files, Calls, NoCall, NoStamp, Stages

LEMMA TypeEnvironment ==
  ASSUME TypeOK, Environment PROVE TypeOK'
<1> USE DEF TypeOK, Fault, fileVars, lockVars, instVars, callVars
<1>1. ASSUME NEW t \in Threads, IoError(t) PROVE TypeOK'
  <2>1. UNCHANGED <<fileVars, lockVars, instVars>> /\ faults' \in Nat
    BY <1>1 DEF IoError
  <2>2. Return(t, FALSE)
    BY <1>1 DEF IoError
  <2> QED
    BY <2>1, <2>2, TypeReturn DEF Directories, Files, Calls
<1>2. ASSUME NEW p \in Processes, Crash(p) PROVE TypeOK'
  <2>1. Die({p}) /\ faults' \in Nat /\ UNCHANGED <<dir, dirs>>
    BY <1>2 DEF Crash
  <2> QED
    BY <2>1, TypeDie
<1>3. CASE PowerCut
  <2>1. Die(Processes) /\ faults' \in Nat
    BY <1>3 DEF PowerCut
  <2>2. dir' \in Directories /\ dirs' \subseteq Directories
    BY <1>3 DEF PowerCut
  <2> QED
    BY <2>1, <2>2, TypeDie
<1>4. CASE RemoveFile
  <2>1. NoFile \in Files
    BY DEF NoFile, Files, NoStamp
  <2>2. dir' \in Directories
    BY <1>4, <2>1 DEF RemoveFile, Directories
  <2> QED
    BY <1>4, <2>2 DEF RemoveFile, Renamed
<1>5. CASE EditFile
  <2>1. PICK entries \in SUBSET Entries, bad \in BOOLEAN :
          dir' = [dir EXCEPT !.file =
                    [entries |-> entries, bad |-> bad, id |-> gen + 1]]
    BY <1>5 DEF EditFile
  <2>2. dir' \in Directories
    BY <2>1 DEF Directories, Files
  <2> QED
    BY <1>5, <2>2 DEF EditFile, Renamed
<1>6. CASE RemoveWitness
  <2>1. Cardinality(Entries) \in Nat
    BY EntryCount
  <2> QED
    BY <1>6, <2>1 DEF RemoveWitness, Renamed, Directories, Files
<1>7. CASE ReplaceLock
  BY <1>7 DEF ReplaceLock, Directories, Files, Calls
<1> QED
  BY <1>1, <1>2, <1>3, <1>4, <1>5, <1>6, <1>7 DEF Environment

LEMMA TypeStep == TypeOK /\ [Next]_vars => TypeOK'
<1> SUFFICES ASSUME TypeOK, [Next]_vars PROVE TypeOK'
  OBVIOUS
<1>1. CASE UNCHANGED vars
  BY <1>1 DEF vars, fileVars, lockVars, instVars, callVars, TypeOK, Directories,
     Files, Calls
<1>2. CASE Next
  BY <1>2, TypeLifecycle, TypeAsking, TypeLocking, TypeCalling, TypeProgress,
     TypeEnvironment DEF Next
<1> QED
  BY <1>1, <1>2

THEOREM TypeCorrect == Spec => []TypeOK
  BY TypeInit, TypeStep, PTL DEF Spec
-----------------------------------------------------------------------------
(* One writer at a time, across processes by the flock and within one by    *)
(* its write slot, as long as nobody replaces the lock file (LockInv).      *)

LEMMA NoEditSteps ==
  ASSUME NoEdits
  PROVE  ~RemoveFile /\ ~EditFile /\ ~RemoveWitness /\ ~ReplaceLock
  BY DEF NoEdits, EditKinds, RemoveFile, EditFile, RemoveWitness, ReplaceLock, Fault

(* What every step of a running revoke does to the control state. *)
LEMMA ProgressShape ==
  ASSUME TypeOK, NEW t \in Threads, Progress(t)
  PROVE  /\ UNCHANGED <<lockVars, live, look, fresh, faults>>
         /\ pc[t] # "idle"
         /\ \E label \in {"idle"} \cup Writing :
              /\ pc' = [pc EXCEPT ![t] = label]
              /\ label \in Writing =>
                   pc[t] \in Writing \/ (pc[t] = "read" /\ SlotFree(t))
<1> USE DEF Goto, Return, Writing, instVars, lockVars
<1>1. CASE ReadFile(t)
  BY <1>1 DEF ReadFile
<1>2. CASE MergeRepeat(t)
  BY <1>2 DEF MergeRepeat
<1>3. CASE MergeWrite(t)
  BY <1>3 DEF MergeWrite
<1>4. CASE WriteBody(t)
  BY <1>4 DEF WriteBody
<1>5. CASE SyncBody(t)
  BY <1>5 DEF SyncBody
<1>6. CASE ReadWitness(t)
  <2>1. CASE dir.mark >= Count(call[t])
    BY <1>6, <2>1 DEF ReadWitness
  <2>2. CASE ~(dir.mark >= Count(call[t]))
    BY <1>6, <2>2 DEF ReadWitness
  <2> QED
    BY <2>1, <2>2
<1>7. CASE WriteWitness(t)
  BY <1>7 DEF WriteWitness
<1>8. CASE SyncWitness(t)
  BY <1>8 DEF SyncWitness
<1>9. CASE Adopt(t)
  BY <1>9 DEF Adopt
<1>10. CASE ReturnRepeat(t)
  BY <1>10 DEF ReturnRepeat
<1> QED
  BY <1>1, <1>2, <1>3, <1>4, <1>5, <1>6, <1>7, <1>8, <1>9, <1>10 DEF Progress

LEMMA LockInit == Init => LockInv
  BY DEF Init, LockInv, Writing

LEMMA LockUnchanged ==
  ASSUME LockInv, UNCHANGED <<lockVars, live, pc>> PROVE LockInv'
  BY DEF LockInv, lockVars, Running

LEMMA LockStep ==
  ASSUME TypeOK, LockInv, NoEdits, [Next]_vars PROVE LockInv'
<1> USE PlacesAssumption DEF TypeOK, LockInv, Home, Running
<1>1. CASE UNCHANGED vars
  BY <1>1, LockUnchanged DEF vars, instVars, callVars
<1>2. ASSUME NEW i \in Instances, Lifecycle(i) PROVE LockInv'
  <2>1. CASE Drop(i)
    BY <1>2, <2>1 DEF Drop, Forget, lockVars, callVars
  <2>2. CASE LoadRead(i) \/ LoadCheck(i) \/ ForRepair(i)
    <3>1. UNCHANGED <<lockVars, pc>> /\ ~Running(i)
          /\ \A j \in Instances \ {i} : live'[j] = live[j]
      <4>1. CASE LoadRead(i)
        BY <4>1 DEF LoadRead, lockVars, callVars
      <4>2. CASE LoadCheck(i)
        <5>1. CASE Lost(Cardinality(held[i]))
          BY <4>2, <5>1 DEF LoadCheck, lockVars, callVars
        <5>2. CASE ~Lost(Cardinality(held[i]))
          BY <4>2, <5>2 DEF LoadCheck, lockVars, callVars
        <5> QED
          BY <5>1, <5>2
      <4>3. CASE ForRepair(i)
        BY <4>3 DEF ForRepair, lockVars, callVars
      <4> QED
        BY <2>2, <4>1, <4>2, <4>3
    <3>2. \A t \in Threads : pc[t] # "idle" =>
            live'[InstanceOf[t]] = live[InstanceOf[t]]
      BY <3>1
    <3> QED
      BY <3>1, <3>2 DEF lockVars
  <2> QED
    BY <1>2, <2>1, <2>2 DEF Lifecycle
<1>3. ASSUME NEW i \in Instances, Asking(i) PROVE LockInv'
  BY <1>3, LockUnchanged DEF Asking, Debounced, RefreshSkip, RefreshStat,
     RefreshRead, lockVars, callVars
<1>4. ASSUME NEW p \in Processes, Locking(p) PROVE LockInv'
  <2>1. CASE OpenLock(p)
    BY <1>4, <2>1 DEF OpenLock, instVars, callVars
  <2>2. CASE TakeLock(p)
    <3>1. \A q \in Processes : locked[q] => q = p
      BY <2>2 DEF TakeLock, LockFree
    <3> QED
      BY <2>2, <3>1 DEF TakeLock, instVars, callVars
  <2>3. CASE Unlock(p)
    BY <1>4, <2>3 DEF Unlock, Busy, instVars, callVars
  <2> QED
    BY <1>4, <2>1, <2>2, <2>3 DEF Locking
<1>5. ASSUME NEW t \in Threads, Calling(t) PROVE LockInv'
  <2>1. PICK ask \in Asks : RevokeWrongLock(t, ask) \/ Revoke(t, ask)
    BY <1>5 DEF Calling
  <2>2. CASE RevokeWrongLock(t, ask)
    BY <2>2, LockUnchanged DEF RevokeWrongLock, Extend, callVars
  <2>3. CASE Revoke(t, ask)
    BY <2>3 DEF Revoke, Extend, Goto, lockVars, Writing
  <2> QED
    BY <2>1, <2>2, <2>3
<1>6. ASSUME NEW t \in Threads, Progress(t) PROVE LockInv'
  <2>1. UNCHANGED <<lockVars, live>> /\ pc[t] # "idle"
    BY <1>6, ProgressShape
  <2>2. PICK label \in {"idle"} \cup Writing :
          /\ pc' = [pc EXCEPT ![t] = label]
          /\ label \in Writing =>
               pc[t] \in Writing \/ (pc[t] = "read" /\ SlotFree(t))
    BY <1>6, ProgressShape
  <2>3. ASSUME NEW u \in Threads, pc[u] \in Writing, label \in Writing PROVE u = t
    <3>1. pc[u] # "idle" /\ Home(u) = Home(t)
      BY <2>1, <2>3 DEF Writing
    <3> QED
      BY <2>2, <2>3, <3>1 DEF SlotFree
  <2> QED
    BY <2>1, <2>2, <2>3 DEF lockVars
<1>7. CASE Environment
  <2>1. ASSUME NEW t \in Threads, IoError(t) PROVE LockInv'
    BY <2>1 DEF IoError, Return, Goto, lockVars, instVars, Writing
  <2>2. ASSUME NEW died \in SUBSET Processes, Die(died) PROVE LockInv'
    <3>1. \A t \in Threads :
            IF Home(t) \in died
            THEN pc'[t] = "idle"
            ELSE pc'[t] = pc[t] /\ live'[InstanceOf[t]] = live[InstanceOf[t]]
                 /\ locked'[Home(t)] = locked[Home(t)]
      BY <2>2 DEF Die, Forget
    <3>2. \A t \in Threads : pc'[t] # "idle" => pc'[t] = pc[t]
      BY <3>1
    <3>3. \A p \in Processes : /\ guard'[p] \in {0, lockFile'}
                               /\ locked'[p] => locked[p] /\ guard'[p] = lockFile'
      BY <2>2 DEF Die
    <3>4. \A t \in Threads : pc'[t] # "idle" =>
            locked'[Home(t)] /\ Running(InstanceOf[t])'
      BY <3>1
    <3>5. \A t \in Threads : pc'[t] \in Writing => pc[t] \in Writing
      BY <3>2 DEF Writing
    <3> QED
      BY <3>3, <3>4, <3>5
  <2>3. ASSUME NEW p \in Processes, Crash(p) PROVE LockInv'
    <3>1. Die({p})
      BY <2>3 DEF Crash
    <3> QED
      BY <2>2, <3>1
  <2>4. CASE PowerCut
    <3>1. Die(Processes)
      BY <2>4 DEF PowerCut
    <3> QED
      BY <2>2, <3>1
  <2> QED
    BY <1>7, <2>1, <2>3, <2>4, NoEditSteps DEF Environment
<1> QED
  BY <1>1, <1>2, <1>3, <1>4, <1>5, <1>6, <1>7 DEF Next
-----------------------------------------------------------------------------
(* What a write answered Ok for is in every directory a power cut can leave, *)
(* and no witness is ahead of its file (WriterInv, DiskInv).                 *)

LEMMA FaultInit == Init => FaultInv
<1> SUFFICES ASSUME Init PROVE FaultInv
  OBVIOUS
<1>1. Cardinality({}) = 0
  BY FS_EmptySet
<1>2. WriterInv
  BY DEF Init, WriterInv, WriterOk, Renaming, Durable
<1>3. dir.file.entries = {} /\ dir.mark = 0 /\ dirs = {dir} /\ written = {}
  BY DEF Init, NoFile
<1>4. DiskInv
  BY <1>1, <1>3 DEF DiskInv
<1> QED
  BY <1>2, <1>4, LockInit DEF FaultInv

(* A step that moves no revoke and leaves the directory alone. *)
LEMMA QuietStep ==
  ASSUME TypeOK, WriterInv, DiskInv, UNCHANGED <<dir, dirs, pc, call, written>>,
         \A t \in Threads : pc[t] # "idle" =>
           held[InstanceOf[t]] \subseteq held'[InstanceOf[t]]
  PROVE  WriterInv' /\ DiskInv'
<1>1. DiskInv'
  BY DEF DiskInv
<1>2. ASSUME NEW t \in Threads PROVE WriterOk(t)'
  <2>1. WriterOk(t)
    BY DEF WriterInv
  <2> QED
    BY <2>1 DEF WriterOk, Renaming, Durable
<1> QED
  BY <1>1, <1>2 DEF WriterInv

(* While one thread writes, every other one waits to read or is idle: a step *)
(* of the writer has only its own clause to restore.                         *)
LEMMA WriterStep ==
  ASSUME TypeOK, LockInv, LockInv', WriterInv, NEW t \in Threads,
         pc[t] \in Writing \/ pc'[t] \in Writing,
         \A u \in Threads \ {t} : pc'[u] = pc[u] /\ call'[u] = call[u],
         \A i \in Instances : held[i] \subseteq held'[i],
         WriterOk(t)'
  PROVE  WriterInv'
<1> SUFFICES ASSUME NEW u \in Threads, u # t PROVE WriterOk(u)'
  BY DEF WriterInv
<1>1. pc'[u] \notin Writing /\ pc'[u] = pc[u]
  BY DEF LockInv
<1>2. pc'[u] \notin {"merge", "write"} \cup Renaming \cup Durable
  BY <1>1 DEF Writing, Renaming, Durable
<1>3. WriterOk(u) /\ call'[u] = call[u] /\ InstanceOf[u] \in Instances
  BY PlacesAssumption DEF WriterInv
<1> QED
  BY <1>1, <1>2, <1>3 DEF WriterOk

(* A revoke that ends, and processes that die, leave nothing to restore. *)
LEMMA EndStep ==
  ASSUME TypeOK, WriterInv, NEW ended \in SUBSET Threads,
         \A t \in ended : pc'[t] = "idle",
         \A t \in Threads \ ended :
           /\ pc'[t] = pc[t] /\ call'[t] = call[t]
           /\ held'[InstanceOf[t]] = held[InstanceOf[t]],
         \/ UNCHANGED <<dir, dirs>>
         \/ ended = Threads
  PROVE  WriterInv'
<1> SUFFICES ASSUME NEW t \in Threads PROVE WriterOk(t)'
  BY DEF WriterInv
<1>1. CASE t \in ended
  BY <1>1 DEF WriterOk, Renaming, Durable
<1>2. CASE t \notin ended
  BY <1>2 DEF WriterInv, WriterOk, Renaming, Durable
<1> QED
  BY <1>1, <1>2

LEMMA ProgressFaultInv ==
  ASSUME TypeOK, TypeOK', FaultInv, LockInv', NEW t \in Threads, Progress(t)
  PROVE  WriterInv' /\ DiskInv'
<1> DEFINE i == InstanceOf[t]
<1>0. i \in Instances
  BY PlacesAssumption
<1> USE DEF FaultInv, TypeOK, fileVars, lockVars, instVars, callVars, Goto
<1>1. WriterOk(t) /\ LockInv /\ WriterInv /\ DiskInv
  BY DEF WriterInv
<1>2. CASE ReadFile(t)
  <2>1. UNCHANGED <<fileVars, instVars>>
    BY <1>2 DEF ReadFile
  <2>2. CASE Fits(dir.file.entries, dir.file.bad)
    <3>1. /\ pc' = [pc EXCEPT ![t] = "merge"]
          /\ call' = [call EXCEPT ![t] = [@ EXCEPT !.entries = dir.file.entries,
                                                   !.bad = dir.file.bad,
                                                   !.stamp = dir.file.id]]
          /\ pc[t] = "read" /\ written' = written
      BY <1>2, <2>2 DEF ReadFile
    <3>2. call'[t].entries = dir.file.entries /\ call'[t].ask = call[t].ask
          /\ call'[t].wrote = call[t].wrote
      BY <3>1 DEF Calls
    <3>3. WriterOk(t)'
      BY <1>1, <2>1, <3>1, <3>2 DEF WriterOk, Renaming, Durable
    <3>4. pc'[t] \in Writing
      BY <3>1 DEF Writing
    <3> QED
      BY <1>1, <2>1, <3>1, <3>3, <3>4, WriterStep DEF DiskInv
  <2>3. CASE ~Fits(dir.file.entries, dir.file.bad)
    <3>1. Return(t, FALSE)
      BY <1>2, <2>3 DEF ReadFile
    <3> DEFINE ended == {t}
    <3>2. /\ ended \in SUBSET Threads
          /\ \A u \in ended : pc'[u] = "idle"
          /\ \A u \in Threads \ ended :
               /\ pc'[u] = pc[u] /\ call'[u] = call[u]
               /\ held'[InstanceOf[u]] = held[InstanceOf[u]]
          /\ written' = written
      BY <2>1, <3>1 DEF Return
    <3> HIDE DEF ended
    <3>3. WriterInv'
      BY <1>1, <2>1, <3>2, EndStep
    <3> QED
      BY <1>1, <2>1, <3>2, <3>3 DEF DiskInv
  <2> QED
    BY <2>2, <2>3
<1>3. CASE MergeRepeat(t)
  <2>1. /\ pc[t] = "merge" /\ pc' = [pc EXCEPT ![t] = "witness"]
        /\ UNCHANGED <<dir, dirs, call, written>>
        /\ held' = [held EXCEPT ![i] = Joined(i, call[t].entries)]
        /\ Joined(i, call[t].entries) \subseteq call[t].entries
    BY <1>3 DEF MergeRepeat
  <2>2. call[t].ask \subseteq call[t].entries
    BY <1>1, <2>1 DEF WriterOk, Joined
  <2>3. WriterOk(t)'
    BY <1>1, <2>1, <2>2 DEF WriterOk, Renaming, Durable
  <2>4. \A j \in Instances : held[j] \subseteq held'[j]
    BY <1>0, <2>1 DEF Joined
  <2>5. pc[t] \in Writing
    BY <2>1 DEF Writing
  <2> QED
    BY <1>1, <2>1, <2>3, <2>4, <2>5, WriterStep DEF DiskInv
<1>4. CASE MergeWrite(t)
  <2>1. /\ pc[t] = "merge" /\ UNCHANGED <<dir, dirs>>
        /\ held' = [held EXCEPT ![i] = Joined(i, call[t].entries)]
    BY <1>4 DEF MergeWrite
  <2>2. \A j \in Instances : held[j] \subseteq held'[j]
    BY <1>0, <2>1 DEF Joined
  <2>3. pc[t] \in Writing
    BY <2>1 DEF Writing
  <2>4. CASE Fits(Joined(i, call[t].entries), call[t].bad)
    <3>1. /\ pc' = [pc EXCEPT ![t] = "write"] /\ written' = written
          /\ call' = [call EXCEPT ![t] = [@ EXCEPT !.entries =
                                                     Joined(i, call[t].entries),
                                                   !.wrote = TRUE]]
      BY <1>4, <2>4 DEF MergeWrite
    <3>2. call'[t].entries = Joined(i, call[t].entries) /\ call'[t].ask = call[t].ask
      BY <3>1 DEF Calls
    <3>3. WriterOk(t)'
      BY <1>0, <1>1, <2>1, <3>1, <3>2 DEF WriterOk, Renaming, Durable, Joined
    <3> QED
      BY <1>1, <2>1, <2>2, <2>3, <3>1, <3>3, WriterStep DEF DiskInv
  <2>5. CASE ~Fits(Joined(i, call[t].entries), call[t].bad)
    <3>1. Return(t, FALSE)
      BY <1>4, <2>5 DEF MergeWrite
    <3>2. pc'[t] = "idle" /\ written' = written
          /\ \A u \in Threads \ {t} : pc'[u] = pc[u] /\ call'[u] = call[u]
      BY <3>1 DEF Return
    <3>3. WriterOk(t)'
      BY <3>2 DEF WriterOk, Renaming, Durable
    <3> QED
      BY <1>1, <2>1, <2>2, <2>3, <3>2, <3>3, WriterStep DEF DiskInv
  <2> QED
    BY <2>4, <2>5
<1>5. CASE WriteBody(t)
  <2>1. /\ pc[t] = "write" /\ pc' = [pc EXCEPT ![t] = "sync"]
        /\ dir' = [dir EXCEPT !.file = Body(call[t])]
        /\ dirs' = dirs \cup {dir'}
        /\ held' = held /\ written' = written
    BY <1>5 DEF WriteBody, Renamed
  <2>2. PICK s \in Nat : call' = [call EXCEPT ![t] = [@ EXCEPT !.stamp = s]]
    BY <1>5 DEF WriteBody, NoStamp
  <2>3. /\ dir'.file.entries = call[t].entries /\ dir'.mark = dir.mark
        /\ call'[t].entries = call[t].entries /\ call'[t].ask = call[t].ask
    BY <2>1, <2>2 DEF Body, Directories, Calls
  <2>4. dir.file.entries \subseteq dir'.file.entries
    BY <1>1, <2>1, <2>3 DEF WriterOk
  <2>5. dir.mark <= Cardinality(dir'.file.entries)
    <3>1. IsFiniteSet(dir'.file.entries)
      BY EntryCount DEF Directories, Files
    <3>2. Cardinality(dir.file.entries) <= Cardinality(dir'.file.entries)
      BY <2>4, <3>1, FS_Subset
    <3>3. /\ Cardinality(dir.file.entries) \in Nat
          /\ Cardinality(dir'.file.entries) \in Nat /\ dir.mark \in Nat
      BY EntryCount DEF Directories, Files
    <3> QED
      BY <1>1, <3>2, <3>3 DEF DiskInv
  <2>6. DiskInv'
    BY <1>1, <2>1, <2>3, <2>4, <2>5 DEF DiskInv
  <2>7. WriterOk(t)'
    BY <1>1, <2>1, <2>3 DEF WriterOk, Renaming, Durable
  <2>8. pc[t] \in Writing
    BY <2>1 DEF Writing
  <2> QED
    BY <1>1, <2>1, <2>2, <2>6, <2>7, <2>8, WriterStep
<1>6. CASE SyncBody(t)
  <2>1. /\ pc[t] = "sync" /\ pc' = [pc EXCEPT ![t] = "witness"]
        /\ dirs' = {dir} /\ UNCHANGED <<dir, call, written, held>>
    BY <1>6 DEF SyncBody, Synced
  <2>2. WriterOk(t)' /\ DiskInv'
    BY <1>1, <2>1 DEF WriterOk, DiskInv, Renaming, Durable
  <2>3. pc[t] \in Writing
    BY <2>1 DEF Writing
  <2> QED
    BY <1>1, <2>1, <2>2, <2>3, WriterStep
<1>7. CASE ReadWitness(t)
  <2>1. PICK label \in {"done", "mark"} : pc' = [pc EXCEPT ![t] = label]
    BY <1>7 DEF ReadWitness
  <2>2. pc[t] = "witness" /\ UNCHANGED <<dir, dirs, call, written, held>>
    BY <1>7 DEF ReadWitness
  <2>3. WriterOk(t)' /\ DiskInv'
    BY <1>1, <2>1, <2>2 DEF WriterOk, DiskInv, Renaming, Durable
  <2>4. pc[t] \in Writing
    BY <2>2 DEF Writing
  <2> QED
    BY <1>1, <2>1, <2>2, <2>3, <2>4, WriterStep
<1>8. CASE WriteWitness(t)
  <2>1. /\ pc[t] = "mark" /\ pc' = [pc EXCEPT ![t] = "marksync"]
        /\ dir' = [dir EXCEPT !.mark = Count(call[t])]
        /\ dirs' = dirs \cup {dir'} /\ UNCHANGED <<call, written, held>>
    BY <1>8 DEF WriteWitness, Renamed
  <2>2. dir'.file = dir.file /\ dir'.mark = Cardinality(call[t].entries)
    BY <2>1 DEF Directories, Count
  <2>3. call[t].entries = dir.file.entries
    BY <1>1, <2>1 DEF WriterOk, Renaming
  <2>4. Cardinality(dir.file.entries) \in Nat
    BY EntryCount DEF Directories, Files
  <2>5. dir'.mark <= Cardinality(dir'.file.entries)
    BY <2>2, <2>3, <2>4
  <2>6. DiskInv'
    BY <1>1, <2>1, <2>2, <2>5 DEF DiskInv
  <2>7. call'[t] = call[t] /\ call[t].entries = dir'.file.entries
    BY <2>1, <2>2, <2>3
  <2>8. WriterOk(t)'
    BY <1>1, <2>1, <2>2, <2>7 DEF WriterOk, Renaming, Durable
  <2>9. pc[t] \in Writing
    BY <2>1 DEF Writing
  <2> QED
    BY <1>1, <2>1, <2>6, <2>8, <2>9, WriterStep
<1>9. CASE SyncWitness(t)
  <2>1. /\ pc[t] = "marksync" /\ pc' = [pc EXCEPT ![t] = "done"]
        /\ dirs' = {dir} /\ UNCHANGED <<dir, call, written, held>>
    BY <1>9 DEF SyncWitness, Synced
  <2>2. WriterOk(t)' /\ DiskInv'
    BY <1>1, <2>1 DEF WriterOk, DiskInv, Renaming, Durable
  <2>3. pc[t] \in Writing
    BY <2>1 DEF Writing
  <2> QED
    BY <1>1, <2>1, <2>2, <2>3, WriterStep
<1>10. CASE Adopt(t) \/ ReturnRepeat(t)
  <2>1. /\ pc[t] = "done" /\ Return(t, TRUE) /\ UNCHANGED <<dir, dirs, held>>
    BY <1>10 DEF Adopt, ReturnRepeat
  <2>2. /\ pc'[t] = "idle"
        /\ \A u \in Threads \ {t} : pc'[u] = pc[u] /\ call'[u] = call[u]
    BY <2>1 DEF Return
  <2>3. WriterInv'
    <3> DEFINE ended == {t}
    <3>1. /\ ended \in SUBSET Threads
          /\ \A u \in ended : pc'[u] = "idle"
          /\ \A u \in Threads \ ended :
               /\ pc'[u] = pc[u] /\ call'[u] = call[u]
               /\ held'[InstanceOf[u]] = held[InstanceOf[u]]
      BY <2>1, <2>2
    <3> HIDE DEF ended
    <3> QED
      BY <1>1, <2>1, <3>1, EndStep
  <2>4. \A d \in dirs : written' \subseteq d.file.entries
    <3>1. CASE call[t].wrote
      <4>1. \A d \in dirs : call[t].ask \subseteq d.file.entries
        BY <1>1, <2>1, <3>1 DEF WriterOk, Renaming, Durable
      <4> QED
        BY <1>1, <2>1, <4>1 DEF Return, DiskInv
    <3>2. CASE ~call[t].wrote
      BY <1>1, <2>1, <3>2 DEF Return, DiskInv
    <3> QED
      BY <3>1, <3>2
  <2> QED
    BY <1>1, <2>1, <2>3, <2>4 DEF DiskInv
<1> QED
  BY <1>2, <1>3, <1>4, <1>5, <1>6, <1>7, <1>8, <1>9, <1>10 DEF Progress

(* Steps that leave every revoke where it is. *)
LEMMA LifecycleQuiet ==
  ASSUME TypeOK, LockInv, NEW i \in Instances, Lifecycle(i) \/ Asking(i)
  PROVE  /\ UNCHANGED <<dir, dirs, pc, call, acked, written>>
         /\ \A t \in Threads : pc[t] # "idle" =>
              held[InstanceOf[t]] \subseteq held'[InstanceOf[t]]
<1> USE PlacesAssumption DEF TypeOK, fileVars, callVars
<1>1. CASE Asking(i)
  <2>1. UNCHANGED <<dir, dirs, pc, call, acked, written>>
    BY <1>1 DEF Asking, Debounced, RefreshSkip, RefreshStat, RefreshRead
  <2>2. \A j \in Instances : held[j] \subseteq held'[j]
    <3>1. CASE Debounced(i) \/ RefreshSkip(i) \/ RefreshStat(i)
      BY <3>1 DEF Debounced, RefreshSkip, RefreshStat
    <3>2. CASE RefreshRead(i)
      BY <3>2 DEF RefreshRead, RefreshUnion, Joined
    <3> QED
      BY <1>1, <3>1, <3>2 DEF Asking
  <2> QED
    BY <2>1, <2>2
<1>2. CASE Drop(i)
  <2>1. \A t \in Threads : pc[t] # "idle" => InstanceOf[t] # i
    BY <1>2 DEF Drop
  <2>2. \A j \in Instances \ {i} : held'[j] = held[j]
    BY <1>2 DEF Drop, Forget
  <2> QED
    BY <1>2, <2>1, <2>2 DEF Drop
<1>3. CASE LoadRead(i) \/ LoadCheck(i) \/ ForRepair(i)
  <2>1. ~Running(i)
    BY <1>3 DEF LoadRead, LoadCheck, ForRepair, Running
  <2>2. \A t \in Threads : pc[t] # "idle" => InstanceOf[t] # i
    BY <2>1 DEF LockInv
  <2>3. \A j \in Instances \ {i} : held'[j] = held[j]
    <3>1. CASE LoadRead(i)
      BY <3>1 DEF LoadRead
    <3>2. CASE LoadCheck(i)
      BY <3>2 DEF LoadCheck
    <3>3. CASE ForRepair(i)
      BY <3>3 DEF ForRepair
    <3> QED
      BY <1>3, <3>1, <3>2, <3>3
  <2>4. UNCHANGED <<dir, dirs, pc, call, acked, written>>
    BY <1>3 DEF LoadRead, LoadCheck, ForRepair
  <2> QED
    BY <2>2, <2>3, <2>4
<1> QED
  BY <1>1, <1>2, <1>3 DEF Lifecycle

LEMMA CallingFaultInv ==
  ASSUME TypeOK, FaultInv, NEW t \in Threads, Calling(t)
  PROVE  WriterInv' /\ DiskInv'
<1> DEFINE i == InstanceOf[t]
<1> USE DEF FaultInv, TypeOK, fileVars, callVars
<1>1. PICK ask \in Asks : RevokeWrongLock(t, ask) \/ Revoke(t, ask)
  BY DEF Calling
<1>2. /\ i \in Instances /\ UNCHANGED <<dir, dirs, written>>
      /\ held' = [held EXCEPT ![i] = Joined(i, ask)]
  BY <1>1, PlacesAssumption DEF RevokeWrongLock, Revoke, Extend
<1>3. \A j \in Instances : held[j] \subseteq held'[j]
  BY <1>2 DEF Joined
<1>4. CASE RevokeWrongLock(t, ask)
  BY <1>2, <1>3, <1>4, QuietStep, PlacesAssumption DEF RevokeWrongLock
<1>5. CASE Revoke(t, ask)
  <2>1. /\ pc' = [pc EXCEPT ![t] = "read"]
        /\ call' = [call EXCEPT ![t] = [NoCall EXCEPT !.ask = ask]]
    BY <1>5 DEF Revoke, Goto
  <2>2. call'[t].ask = ask /\ ~call'[t].wrote
    BY <2>1 DEF NoCall
  <2>3. WriterOk(t)'
    BY <1>2, <2>1, <2>2 DEF WriterOk, Renaming, Durable, Joined
  <2>4. ASSUME NEW u \in Threads, u # t PROVE WriterOk(u)'
    <3>1. WriterOk(u) /\ pc'[u] = pc[u] /\ call'[u] = call[u]
      BY <2>1, <2>4 DEF WriterInv
    <3>2. held[InstanceOf[u]] \subseteq held'[InstanceOf[u]]
      BY <1>3, PlacesAssumption
    <3> QED
      BY <1>2, <3>1, <3>2 DEF WriterOk, Renaming, Durable
  <2> QED
    BY <1>2, <2>3, <2>4 DEF WriterInv, DiskInv
<1> QED
  BY <1>1, <1>4, <1>5

(* Crashes, failures and power cuts. *)
LEMMA EnvironmentFaultInv ==
  ASSUME TypeOK, FaultInv, NoEdits, Environment
  PROVE  WriterInv' /\ DiskInv'
<1> USE DEF FaultInv, TypeOK
<1>1. ASSUME NEW t \in Threads, IoError(t) PROVE WriterInv' /\ DiskInv'
  <2>1. UNCHANGED <<dir, dirs, held>> /\ Return(t, FALSE)
    BY <1>1 DEF IoError, fileVars, instVars
  <2> DEFINE ended == {t}
  <2>2. /\ ended \in SUBSET Threads
        /\ \A u \in ended : pc'[u] = "idle"
        /\ \A u \in Threads \ ended :
             /\ pc'[u] = pc[u] /\ call'[u] = call[u]
             /\ held'[InstanceOf[u]] = held[InstanceOf[u]]
        /\ written' = written
    BY <2>1 DEF Return, Goto
  <2> HIDE DEF ended
  <2>3. WriterInv'
    BY <2>1, <2>2, EndStep
  <2> QED
    BY <2>1, <2>2, <2>3 DEF DiskInv
<1>2. ASSUME NEW died \in SUBSET Processes, Die(died),
             \/ UNCHANGED <<dir, dirs>>
             \/ died = Processes
      PROVE  WriterInv'
  <2> DEFINE ended == {t \in Threads : Home(t) \in died}
  <2>1. /\ ended \in SUBSET Threads
        /\ \A u \in ended : pc'[u] = "idle"
        /\ \A u \in Threads \ ended :
             /\ pc'[u] = pc[u] /\ call'[u] = call[u]
             /\ held'[InstanceOf[u]] = held[InstanceOf[u]]
    BY <1>2, PlacesAssumption DEF Die, Forget, Home
  <2>2. died = Processes => ended = Threads
    BY PlacesAssumption DEF Home
  <2> HIDE DEF ended
  <2> QED
    BY <1>2, <2>1, <2>2, EndStep
<1>3. ASSUME NEW p \in Processes, Crash(p) PROVE WriterInv' /\ DiskInv'
  <2>1. Die({p}) /\ UNCHANGED <<dir, dirs, written>>
    BY <1>3 DEF Crash, Die
  <2> QED
    BY <1>2, <2>1 DEF DiskInv
<1>4. CASE PowerCut
  <2>1. Die(Processes) /\ written' = written
    BY <1>4 DEF PowerCut, Die
  <2>2. PICK d \in dirs : dir' = d /\ dirs' = {d}
    BY <1>4 DEF PowerCut
  <2>3. DiskInv'
    BY <2>1, <2>2 DEF DiskInv
  <2> QED
    BY <1>2, <2>1, <2>3
<1> QED
  BY <1>1, <1>3, <1>4, NoEditSteps DEF Environment

LEMMA FaultStep ==
  ASSUME TypeOK, TypeOK', FaultInv, NoEdits, [Next]_vars PROVE FaultInv'
<1>1. LockInv'
  BY LockStep DEF FaultInv
<1>2. CASE UNCHANGED vars
  BY <1>1, <1>2, QuietStep DEF FaultInv, vars, fileVars, instVars, callVars
<1>3. ASSUME NEW i \in Instances, Lifecycle(i) \/ Asking(i) PROVE FaultInv'
  BY <1>1, <1>3, LifecycleQuiet, QuietStep DEF FaultInv
<1>4. ASSUME NEW p \in Processes, Locking(p) PROVE FaultInv'
  <2>1. UNCHANGED <<dir, dirs, pc, call, written, held>>
    BY <1>4 DEF Locking, OpenLock, TakeLock, Unlock, fileVars, instVars, callVars
  <2> QED
    BY <1>1, <2>1, QuietStep DEF FaultInv
<1>5. ASSUME NEW t \in Threads, Calling(t) \/ Progress(t) PROVE FaultInv'
  BY <1>1, <1>5, CallingFaultInv, ProgressFaultInv DEF FaultInv
<1>6. CASE Environment
  BY <1>1, <1>6, EnvironmentFaultInv DEF FaultInv
<1> QED
  BY <1>2, <1>3, <1>4, <1>5, <1>6 DEF Next

LEMMA FaultCorrect ==
  ASSUME NoEdits PROVE Spec => [](TypeOK /\ FaultInv)
<1>1. Init => TypeOK /\ FaultInv
  BY TypeInit, FaultInit
<1>2. TypeOK /\ FaultInv /\ [Next]_vars => (TypeOK /\ FaultInv)'
  BY TypeStep, FaultStep
<1> QED
  BY <1>1, <1>2, PTL DEF Spec

(* As long as nobody but nauthy touches the directory, no run of crashes,    *)
(* failures and power cuts takes back what a write answered Ok for.          *)
THEOREM WrittenSurvives ==
  ASSUME NoEdits PROVE Spec => []WrittenSurvivesPowerCut
<1>1. FaultInv => WrittenSurvivesPowerCut
  BY DEF FaultInv, DiskInv, WrittenSurvivesPowerCut
<1> QED
  BY <1>1, FaultCorrect, PTL

(* ... nor leaves a file that holds less than its witness says.              *)
THEOREM WitnessTrue ==
  ASSUME NoEdits PROVE Spec => []WitnessNeverAhead
<1>1. FaultInv => WitnessNeverAhead
  BY DEF FaultInv, DiskInv, WitnessNeverAhead
<1> QED
  BY <1>1, FaultCorrect, PTL
-----------------------------------------------------------------------------
(* Without a power cut, what was answered Ok for stays in the file.         *)

LEMMA AckedProgress ==
  ASSUME TypeOK, FaultInv, AckedInFile, NEW t \in Threads, Progress(t)
  PROVE  AckedInFile'
<1> USE DEF AckedInFile, TypeOK, fileVars, callVars, Goto
<1>1. WriterOk(t)
  BY DEF FaultInv, WriterInv
<1>2. CASE WriteBody(t)
  <2>1. /\ pc[t] = "write" /\ acked' = acked
        /\ dir' = [dir EXCEPT !.file = Body(call[t])]
    BY <1>2 DEF WriteBody
  <2>2. dir'.file.entries = call[t].entries
    BY <2>1 DEF Body, Directories
  <2> QED
    BY <1>1, <2>1, <2>2 DEF WriterOk
<1>3. CASE WriteWitness(t)
  <2>1. acked' = acked /\ dir'.file = dir.file
    BY <1>3 DEF WriteWitness, Directories
  <2> QED
    BY <2>1
<1>4. CASE Adopt(t) \/ ReturnRepeat(t)
  <2>1. pc[t] = "done" /\ Return(t, TRUE) /\ dir' = dir
    BY <1>4 DEF Adopt, ReturnRepeat
  <2>2. call[t].ask \subseteq dir.file.entries
    BY <1>1, <2>1 DEF WriterOk, Renaming
  <2> QED
    BY <2>1, <2>2 DEF Return
<1>5. CASE ReadFile(t) \/ MergeRepeat(t) \/ MergeWrite(t) \/ SyncBody(t)
           \/ ReadWitness(t) \/ SyncWitness(t)
  <2>1. acked' = acked /\ dir' = dir
    BY <1>5 DEF ReadFile, MergeRepeat, MergeWrite, SyncBody, ReadWitness,
       SyncWitness, Return
  <2> QED
    BY <2>1
<1> QED
  BY <1>2, <1>3, <1>4, <1>5 DEF Progress

LEMMA AckedStep ==
  ASSUME TypeOK, FaultInv, NoEdits, NoPowerCut, AckedInFile, [Next]_vars
  PROVE  AckedInFile'
<1>1. CASE UNCHANGED <<dir, acked>>
  BY <1>1 DEF AckedInFile
<1>2. ASSUME NEW t \in Threads, Progress(t) PROVE AckedInFile'
  BY <1>2, AckedProgress
<1>3. ASSUME NEW i \in Instances, Lifecycle(i) \/ Asking(i)
      PROVE UNCHANGED <<dir, acked>>
  BY <1>3, LifecycleQuiet DEF FaultInv
<1>4. ASSUME NEW p \in Processes, Locking(p) PROVE UNCHANGED <<dir, acked>>
  BY <1>4 DEF Locking, OpenLock, TakeLock, Unlock, fileVars, callVars
<1>5. ASSUME NEW t \in Threads, Calling(t) PROVE UNCHANGED <<dir, acked>>
  BY <1>5 DEF Calling, RevokeWrongLock, Revoke, fileVars, callVars
<1>6. ASSUME NEW t \in Threads, IoError(t) PROVE UNCHANGED <<dir, acked>>
  BY <1>6 DEF IoError, Return, fileVars
<1>7. ASSUME NEW p \in Processes, Crash(p) PROVE UNCHANGED <<dir, acked>>
  BY <1>7 DEF Crash, Die
<1>8. ~PowerCut
  BY DEF PowerCut, Fault, NoPowerCut
<1>9. UNCHANGED vars => UNCHANGED <<dir, acked>>
  BY DEF vars, fileVars, callVars
<1> QED
  BY <1>1, <1>2, <1>3, <1>4, <1>5, <1>6, <1>7, <1>8, <1>9, NoEditSteps
     DEF Next, Environment

(* As long as nobody but nauthy touches the directory and the power stays on, *)
(* an entry answered Ok for is in the file for good, whichever threads and    *)
(* processes write at once and wherever they crash or fail.                   *)
THEOREM AckedStays ==
  ASSUME NoEdits, NoPowerCut PROVE Spec => []AckedInFile
<1>1. Init => AckedInFile
  BY DEF Init, AckedInFile
<1>2. TypeOK /\ FaultInv /\ AckedInFile /\ [Next]_vars => AckedInFile'
  BY AckedStep
<1> QED
  BY <1>1, <1>2, FaultCorrect, PTL DEF Spec
-----------------------------------------------------------------------------
(* Whatever happens to the directory, a running instance only ever adds to   *)
(* what it refuses.                                                          *)

LEMMA HeldGrows ==
  ASSUME TypeOK, [Next]_vars, NEW i \in Instances, Running(i), Running(i)'
  PROVE  held[i] \subseteq held'[i]
<1> USE PlacesAssumption DEF TypeOK, instVars
<1>1. ASSUME NEW j \in Instances, Lifecycle(j) PROVE held[i] \subseteq held'[i]
  <2>1. CASE LoadRead(j) \/ LoadCheck(j) \/ ForRepair(j)
    <3>1. i # j
      BY <2>1 DEF LoadRead, LoadCheck, ForRepair, Running
    <3>2. CASE LoadRead(j)
      BY <3>1, <3>2 DEF LoadRead
    <3>3. CASE LoadCheck(j)
      BY <3>1, <3>3 DEF LoadCheck
    <3>4. CASE ForRepair(j)
      BY <3>4 DEF ForRepair
    <3> QED
      BY <2>1, <3>2, <3>3, <3>4
  <2>2. CASE Drop(j)
    BY <2>2 DEF Drop, Forget, Running
  <2> QED
    BY <1>1, <2>1, <2>2 DEF Lifecycle
<1>2. ASSUME NEW j \in Instances, Asking(j) PROVE held[i] \subseteq held'[i]
  <2>1. CASE RefreshRead(j)
    BY <2>1 DEF RefreshRead, RefreshUnion, Joined
  <2>2. CASE Debounced(j) \/ RefreshSkip(j) \/ RefreshStat(j)
    BY <2>2 DEF Debounced, RefreshSkip, RefreshStat
  <2> QED
    BY <1>2, <2>1, <2>2 DEF Asking
<1>3. ASSUME NEW p \in Processes, Locking(p) PROVE held' = held
  BY <1>3 DEF Locking, OpenLock, TakeLock, Unlock
<1>4. ASSUME NEW t \in Threads, Calling(t) PROVE held[i] \subseteq held'[i]
  BY <1>4 DEF Calling, RevokeWrongLock, Revoke, Extend, Joined
<1>5. ASSUME NEW t \in Threads, Progress(t) PROVE held[i] \subseteq held'[i]
  <2>1. CASE MergeRepeat(t)
    BY <2>1 DEF MergeRepeat, Joined
  <2>2. CASE MergeWrite(t)
    BY <2>2 DEF MergeWrite, Joined
  <2>3. CASE ~(MergeRepeat(t) \/ MergeWrite(t))
    BY <1>5, <2>3 DEF Progress, ReadFile, WriteBody, SyncBody, ReadWitness,
       WriteWitness, SyncWitness, Adopt, ReturnRepeat
  <2> QED
    BY <2>1, <2>2, <2>3
<1>6. CASE Environment
  <2>1. ASSUME NEW died, Die(died) PROVE held[i] \subseteq held'[i]
    BY <2>1 DEF Die, Forget, Running
  <2>2. CASE \E p \in Processes : Crash(p)
    BY <2>1, <2>2 DEF Crash
  <2>3. CASE PowerCut
    BY <2>1, <2>3 DEF PowerCut
  <2>4. CASE ~(PowerCut \/ \E p \in Processes : Crash(p))
    BY <1>6, <2>4 DEF Environment, IoError, RemoveFile, EditFile, RemoveWitness,
       ReplaceLock
  <2> QED
    BY <2>2, <2>3, <2>4
<1>7. CASE UNCHANGED vars
  BY <1>7 DEF vars
<1> QED
  BY <1>1, <1>2, <1>3, <1>4, <1>5, <1>6, <1>7 DEF Next

(* No deletion, edit or fault makes a running instance un-refuse an entry.   *)
THEOREM HeldStays == Spec => HeldNeverShrinks
<1>1. TypeOK /\ [Next]_vars =>
        [\A i \in Instances :
           Running(i) /\ Running(i)' => held[i] \subseteq held'[i]]_vars
  BY HeldGrows
<1> QED
  BY <1>1, TypeCorrect, PTL DEF Spec, HeldNeverShrinks
-----------------------------------------------------------------------------
(* A stamp never lies: an instance that skips a read because its stamp is    *)
(* the file's holds what the read would give, whatever happens to the        *)
(* directory.  No step here assumes a kind of fault away.                    *)

LEMMA CurrentInit == Init => CurrentInv
<1> SUFFICES ASSUME Init PROVE CurrentInv
  OBVIOUS
<1>1. VersionInv
  BY DEF Init, VersionInv, NoFile, NoStamp, NoCall
<1>2. StampInv
  BY DEF Init, StampInv, StampOk, CallOk, Is, Running, Renaming
<1> QED
  BY <1>1, <1>2 DEF CurrentInv

(* Nothing about the file or the instances changes but that they hold more, *)
(* and only t moves.                                                        *)
LEMMA GrowStep ==
  ASSUME StampInv, NEW t \in Threads, CallOk(t)',
         dir'.file = dir.file,
         UNCHANGED <<live, stamp, malformed, look>>,
         \A i \in Instances : held[i] \subseteq held'[i],
         \A u \in Threads \ {t} : pc'[u] = pc[u] /\ call'[u] = call[u]
  PROVE  StampInv'
<1>1. ASSUME NEW i \in Instances PROVE StampOk(i)'
  BY <1>1 DEF StampInv, StampOk, Running, Is, Has
<1>2. ASSUME NEW u \in Threads, u # t PROVE CallOk(u)'
  BY <1>2, PlacesAssumption DEF StampInv, CallOk, Running, Is, Has, Renaming
<1> QED
  BY <1>1, <1>2 DEF StampInv

(* Only i changes, and no revoke is running on it unless it holds more.     *)
LEMMA InstanceStep ==
  ASSUME StampInv, NEW i \in Instances, StampOk(i)',
         UNCHANGED <<dir, pc, call>>,
         \A j \in Instances \ {i} :
           /\ live'[j] = live[j] /\ held'[j] = held[j] /\ stamp'[j] = stamp[j]
           /\ malformed'[j] = malformed[j] /\ look'[j] = look[j],
         \/ \A t \in Threads : InstanceOf[t] = i => pc[t] = "idle"
         \/ live'[i] = live[i] /\ held[i] \subseteq held'[i]
  PROVE  StampInv'
<1>1. ASSUME NEW j \in Instances, j # i PROVE StampOk(j)'
  BY <1>1 DEF StampInv, StampOk, Running, Is, Has
<1>2. ASSUME NEW t \in Threads PROVE CallOk(t)'
  BY <1>2, PlacesAssumption DEF StampInv, CallOk, Running, Is, Has, Renaming
<1> QED
  BY <1>1, <1>2 DEF StampInv

(* The file is replaced or removed: no stamp but the replacer's is of it.   *)
LEMMA ReplaceStep ==
  ASSUME TypeOK, CurrentInv, NEW moved \in SUBSET Threads,
         dir'.file.id \in {NoStamp, gen + 1},
         UNCHANGED instVars,
         \A u \in Threads \ moved : pc'[u] = pc[u] /\ call'[u] = call[u],
         \A t \in moved : CallOk(t)'
  PROVE  StampInv'
<1> USE DEF CurrentInv, VersionInv, StampInv, TypeOK, instVars
<1>1. ASSUME NEW i \in Instances PROVE StampOk(i)'
  <2>1. ~Is(stamp[i])'
    BY DEF Is, NoStamp
  <2> QED
    BY <2>1 DEF StampOk, Running
<1>2. ASSUME NEW u \in Threads, u \notin moved PROVE CallOk(u)'
  <2>1. call[u].stamp \in Nat /\ call'[u].stamp = call[u].stamp
    BY <1>2 DEF Calls
  <2>2. ~Is(call[u].stamp)'
    BY <1>2, <2>1 DEF Is, NoStamp
  <2> QED
    BY <1>2, <2>2 DEF CallOk, Running, Renaming
<1> QED
  BY <1>1, <1>2

(* Instances that are gone have no stamp, and revokes that are gone no file. *)
LEMMA DieStep ==
  ASSUME TypeOK, StampInv, NEW died \in SUBSET Processes, Die(died),
         dir' = dir \/ died = Processes
  PROVE  StampInv'
<1> USE PlacesAssumption DEF TypeOK, StampInv, Die, Forget
<1>1. ASSUME NEW i \in Instances PROVE StampOk(i)'
  <2>1. CASE ProcessOf[i] \in died
    BY <2>1 DEF StampOk, Is, Running
  <2>2. CASE ProcessOf[i] \notin died
    <3>1. /\ live'[i] = live[i] /\ held'[i] = held[i] /\ stamp'[i] = stamp[i]
          /\ malformed'[i] = malformed[i] /\ look'[i] = look[i] /\ dir' = dir
      BY <2>2
    <3> QED
      BY <3>1 DEF StampOk, Is, Has, Running
  <2> QED
    BY <2>1, <2>2
<1>2. ASSUME NEW t \in Threads PROVE CallOk(t)'
  <2>1. CASE Home(t) \in died
    BY <2>1 DEF CallOk, Renaming
  <2>2. CASE Home(t) \notin died
    BY <2>2 DEF CallOk, Is, Has, Running, Home, Renaming
  <2> QED
    BY <2>1, <2>2
<1> QED
  BY <1>1, <1>2
-----------------------------------------------------------------------------
LEMMA StampLifecycle ==
  ASSUME TypeOK, CurrentInv, NEW i \in Instances, Lifecycle(i) PROVE StampInv'
<1> USE DEF CurrentInv, TypeOK, fileVars, callVars
<1>1. CASE LoadRead(i) \/ LoadCheck(i) \/ ForRepair(i)
  <2>1. /\ UNCHANGED <<dir, pc, call, malformed, look>>
        /\ ~Running(i)
    BY <1>1 DEF LoadRead, LoadCheck, ForRepair, Running
  <2>2. \A t \in Threads : InstanceOf[t] = i => pc[t] = "idle"
    BY <2>1 DEF StampInv, CallOk
  <2>3. look[i] = NoStamp /\ ~malformed[i]
    BY <2>1 DEF StampInv, StampOk
  <2>4. StampOk(i)'
    <3>1. CASE LoadRead(i)
      BY <2>1, <2>3, <3>1 DEF LoadRead, StampOk, Running, Is, Has, Directories, Files
    <3>2. CASE LoadCheck(i)
      BY <2>1, <2>3, <3>2 DEF LoadCheck, StampInv, StampOk, Running, Is, Has
    <3>3. CASE ForRepair(i)
      BY <2>1, <2>3, <3>3 DEF ForRepair, StampInv, StampOk, Running, Is, Has
    <3> QED
      BY <1>1, <3>1, <3>2, <3>3
  <2>5. \A j \in Instances \ {i} :
          live'[j] = live[j] /\ held'[j] = held[j] /\ stamp'[j] = stamp[j]
    BY <1>1 DEF LoadRead, LoadCheck, ForRepair
  <2> QED
    BY <2>1, <2>2, <2>4, <2>5, InstanceStep
<1>2. CASE Drop(i)
  <2>1. StampOk(i)'
    BY <1>2 DEF Drop, Forget, StampOk, Is
  <2> QED
    BY <1>2, <2>1, InstanceStep DEF Drop, Forget
<1> QED
  BY <1>1, <1>2 DEF Lifecycle

LEMMA StampAsking ==
  ASSUME TypeOK, CurrentInv, NEW i \in Instances, Asking(i) PROVE StampInv'
<1> USE DEF CurrentInv, TypeOK, fileVars, callVars
<1>1. CASE RefreshRead(i)
  <2>1. Running(i) /\ UNCHANGED <<dir, pc, call, live>>
    BY <1>1 DEF RefreshRead, StampInv, StampOk
  <2>2. CASE dir.file.id # NoStamp /\ Fits(dir.file.entries, dir.file.bad)
    <3>1. StampOk(i)'
      BY <1>1, <2>1, <2>2 DEF RefreshRead, RefreshUnion, Joined, StampOk, Running,
         Is, Has
    <3> QED
      BY <1>1, <2>1, <2>2, <3>1, InstanceStep DEF RefreshRead, RefreshUnion, Joined
  <2>3. CASE ~(dir.file.id # NoStamp /\ Fits(dir.file.entries, dir.file.bad))
    <3>1. StampOk(i)'
      BY <1>1, <2>1, <2>3 DEF RefreshRead, Released, StampInv, StampOk, Running,
         Is, Has
    <3> QED
      BY <1>1, <2>1, <2>3, <3>1, InstanceStep DEF RefreshRead
  <2> QED
    BY <2>2, <2>3
<1>2. CASE Debounced(i) \/ RefreshSkip(i) \/ RefreshStat(i)
  <2>1. /\ Running(i) \/ UNCHANGED look
        /\ UNCHANGED <<dir, pc, call, live, held, stamp, malformed>>
    BY <1>2 DEF Debounced, RefreshSkip, RefreshStat, RefreshDue
  <2>2. \A j \in Instances \ {i} : look'[j] = look[j]
    BY <1>2 DEF Debounced, RefreshSkip, RefreshStat
  <2>3. StampOk(i)'
    BY <2>1 DEF StampInv, StampOk, Running, Is, Has
  <2> QED
    BY <2>1, <2>2, <2>3, InstanceStep
<1> QED
  BY <1>1, <1>2 DEF Asking

LEMMA StampCalling ==
  ASSUME TypeOK, CurrentInv, NEW t \in Threads, Calling(t) PROVE StampInv'
<1> DEFINE i == InstanceOf[t]
<1> USE DEF CurrentInv, TypeOK, fileVars
<1>1. PICK ask \in Asks : RevokeWrongLock(t, ask) \/ Revoke(t, ask)
  BY DEF Calling
<1>2. /\ i \in Instances /\ Running(i)
      /\ held' = [held EXCEPT ![i] = Joined(i, ask)]
      /\ UNCHANGED <<dir, live, stamp, malformed, look>>
  BY <1>1, PlacesAssumption DEF RevokeWrongLock, Revoke, Extend
<1>3. \A j \in Instances : held[j] \subseteq held'[j]
  BY <1>2 DEF Joined
<1>4. CallOk(t)'
  <2>1. CASE RevokeWrongLock(t, ask)
    BY <1>2, <1>3, <2>1 DEF RevokeWrongLock, callVars, StampInv, CallOk, Running, Is,
       Has, Renaming
  <2>2. CASE Revoke(t, ask)
    BY <1>2, <2>2 DEF Revoke, Goto, CallOk, Running, Renaming
  <2> QED
    BY <1>1, <2>1, <2>2
<1>5. \A u \in Threads \ {t} : pc'[u] = pc[u] /\ call'[u] = call[u]
  BY <1>1 DEF RevokeWrongLock, Revoke, callVars, Goto
<1> QED
  BY <1>2, <1>3, <1>4, <1>5, GrowStep

(* The revoke of t is over. *)
LEMMA ReturnCall ==
  ASSUME TypeOK, NEW t \in Threads, NEW answer \in BOOLEAN, Return(t, answer)
  PROVE  CallOk(t)' /\ \A u \in Threads \ {t} : pc'[u] = pc[u] /\ call'[u] = call[u]
  BY DEF TypeOK, Return, Goto, CallOk, Renaming

LEMMA StampProgress ==
  ASSUME TypeOK, CurrentInv, NEW t \in Threads, Progress(t) PROVE StampInv'
<1> DEFINE i == InstanceOf[t]
<1>0. i \in Instances /\ StampInv /\ CallOk(t) /\ StampOk(i)
  BY PlacesAssumption DEF CurrentInv, StampInv
<1> USE DEF TypeOK, fileVars, lockVars, instVars, Goto
<1>1. CASE ReadFile(t)
  <2>1. UNCHANGED <<dir, live, held, stamp, malformed, look>>
    BY <1>1 DEF ReadFile
  <2>2. CASE Fits(dir.file.entries, dir.file.bad)
    <3>1. /\ pc[t] = "read" /\ pc' = [pc EXCEPT ![t] = "merge"]
          /\ call' = [call EXCEPT ![t] = [@ EXCEPT !.entries = dir.file.entries,
                                                   !.bad = dir.file.bad,
                                                   !.stamp = dir.file.id]]
      BY <1>1, <2>2 DEF ReadFile
    <3>2. call'[t].entries = dir.file.entries /\ call'[t].bad = dir.file.bad
      BY <3>1 DEF Calls
    <3>3. CallOk(t)'
      BY <1>0, <2>1, <3>1, <3>2 DEF CallOk, Running, Has, Renaming
    <3> QED
      BY <1>0, <2>1, <3>1, <3>3, GrowStep
  <2>3. CASE ~Fits(dir.file.entries, dir.file.bad)
    <3>1. Return(t, FALSE)
      BY <1>1, <2>3 DEF ReadFile
    <3> QED
      BY <1>0, <2>1, <3>1, ReturnCall, GrowStep
  <2> QED
    BY <2>2, <2>3
<1>2. CASE MergeRepeat(t)
  <2>1. /\ pc[t] = "merge" /\ pc' = [pc EXCEPT ![t] = "witness"]
        /\ UNCHANGED <<dir, live, look, call>>
        /\ held' = [held EXCEPT ![i] = Joined(i, call[t].entries)]
        /\ stamp' = [stamp EXCEPT ![i] = call[t].stamp]
        /\ malformed' = [malformed EXCEPT ![i] = call[t].bad]
    BY <1>2 DEF MergeRepeat
  <2>2. held'[i] = held[i] \cup call[t].entries
    BY <1>0, <2>1 DEF Joined
  <2>3. Running(i)
    BY <1>0, <2>1 DEF CallOk
  <2>4. StampOk(i)'
    BY <1>0, <2>1, <2>2, <2>3 DEF CallOk, StampOk, Running, Is, Has
  <2>5. CallOk(t)'
    BY <1>0, <2>1, <2>2, <2>3 DEF CallOk, Running, Is, Has, Renaming
  <2>6. ASSUME NEW u \in Threads, u # t PROVE CallOk(u)'
    BY <1>0, <2>1, <2>2, <2>6, PlacesAssumption DEF StampInv, CallOk, Running, Is, Has,
       Renaming
  <2>7. ASSUME NEW j \in Instances, j # i PROVE StampOk(j)'
    BY <1>0, <2>1, <2>7 DEF StampInv, StampOk, Running, Is, Has
  <2> QED
    BY <2>4, <2>5, <2>6, <2>7 DEF StampInv
<1>3. CASE MergeWrite(t)
  <2>1. /\ pc[t] = "merge" /\ UNCHANGED <<dir, live, stamp, malformed, look>>
        /\ held' = [held EXCEPT ![i] = Joined(i, call[t].entries)]
    BY <1>3 DEF MergeWrite
  <2>2. \A j \in Instances : held[j] \subseteq held'[j]
    BY <1>0, <2>1 DEF Joined
  <2>3. CASE Fits(Joined(i, call[t].entries), call[t].bad)
    <3>1. /\ pc' = [pc EXCEPT ![t] = "write"]
          /\ call' = [call EXCEPT ![t] = [@ EXCEPT !.entries =
                                                     Joined(i, call[t].entries),
                                                   !.wrote = TRUE]]
      BY <1>3, <2>3 DEF MergeWrite
    <3>2. call'[t].entries = held'[i]
      BY <1>0, <2>1, <3>1 DEF Calls
    <3>3. CallOk(t)'
      BY <1>0, <2>1, <3>1, <3>2 DEF CallOk, Running, Renaming
    <3> QED
      BY <1>0, <2>1, <2>2, <3>1, <3>3, GrowStep
  <2>4. CASE ~Fits(Joined(i, call[t].entries), call[t].bad)
    <3>1. Return(t, FALSE)
      BY <1>3, <2>4 DEF MergeWrite
    <3> QED
      BY <1>0, <2>1, <2>2, <3>1, ReturnCall, GrowStep
  <2> QED
    BY <2>3, <2>4
<1>4. CASE WriteBody(t)
  <2>1. /\ pc[t] = "write" /\ pc' = [pc EXCEPT ![t] = "sync"]
        /\ dir' = [dir EXCEPT !.file = Body(call[t])]
        /\ UNCHANGED <<live, held, stamp, malformed, fresh, look>>
    BY <1>4 DEF WriteBody
  <2>2. PICK s : call' = [call EXCEPT ![t] = [@ EXCEPT !.stamp = s]]
    BY <1>4 DEF WriteBody
  <2>3. dir'.file = Body(call[t])
    BY <2>1 DEF Directories
  <2>4. call'[t].entries = call[t].entries /\ call'[t].bad = call[t].bad
    BY <2>2 DEF Calls
  <2>5. CallOk(t)'
    BY <1>0, <2>1, <2>3, <2>4 DEF CallOk, Body, Running, Has, Renaming
  <2> DEFINE moved == {t}
  <2>6. /\ moved \in SUBSET Threads
        /\ \A u \in Threads \ moved : pc'[u] = pc[u] /\ call'[u] = call[u]
        /\ \A u \in moved : CallOk(u)'
    BY <2>1, <2>2, <2>5
  <2>7. dir'.file.id \in {NoStamp, gen + 1}
    BY <2>3 DEF Body
  <2> HIDE DEF moved
  <2> QED
    BY <2>1, <2>6, <2>7, ReplaceStep
<1>5. CASE SyncBody(t) \/ ReadWitness(t) \/ SyncWitness(t) \/ WriteWitness(t)
  <2>1. /\ UNCHANGED <<live, held, stamp, malformed, look, call>>
        /\ dir'.file = dir.file
        /\ pc[t] \in Renaming
    BY <1>5 DEF SyncBody, ReadWitness, SyncWitness, WriteWitness, Directories, Renaming
  <2>2. PICK label \in Renaming : pc' = [pc EXCEPT ![t] = label]
    BY <1>5 DEF SyncBody, ReadWitness, SyncWitness, WriteWitness, Renaming
  <2>3. CallOk(t)'
    BY <1>0, <2>1, <2>2 DEF CallOk, Running, Is, Has, Renaming
  <2> QED
    BY <1>0, <2>1, <2>2, <2>3, GrowStep
<1>6. CASE Adopt(t)
  <2>1. /\ pc[t] = "done" /\ call[t].wrote /\ Return(t, TRUE)
        /\ UNCHANGED <<dir, live, held, look>>
        /\ stamp' = [stamp EXCEPT ![i] = call[t].stamp]
        /\ malformed' = [malformed EXCEPT ![i] = call[t].bad]
    BY <1>6 DEF Adopt
  <2>2. Running(i)
    BY <1>0, <2>1 DEF CallOk
  <2>3. StampOk(i)'
    BY <1>0, <2>1, <2>2 DEF CallOk, StampOk, Running, Is, Has, Renaming
  <2>4. ASSUME NEW j \in Instances, j # i PROVE StampOk(j)'
    BY <1>0, <2>1, <2>4 DEF StampInv, StampOk, Running, Is, Has
  <2>5. ASSUME NEW u \in Threads, u # t PROVE CallOk(u)'
    <3>1. CallOk(u) /\ pc'[u] = pc[u] /\ call'[u] = call[u]
      BY <1>0, <2>1, <2>5, ReturnCall DEF StampInv
    <3> QED
      BY <2>1, <3>1 DEF CallOk, Running, Is, Has, Renaming
  <2> QED
    BY <2>1, <2>3, <2>4, <2>5, ReturnCall DEF StampInv
<1>7. CASE ReturnRepeat(t)
  BY <1>0, <1>7, ReturnCall, GrowStep DEF ReturnRepeat
<1> QED
  BY <1>1, <1>2, <1>3, <1>4, <1>5, <1>6, <1>7 DEF Progress

LEMMA StampEnvironment ==
  ASSUME TypeOK, CurrentInv, Environment PROVE StampInv'
<1> USE DEF CurrentInv, TypeOK, fileVars, lockVars, instVars, callVars
<1>1. ASSUME NEW t \in Threads, IoError(t) PROVE StampInv'
  BY <1>1, ReturnCall, GrowStep DEF IoError
<1>2. ASSUME NEW p \in Processes, Crash(p) PROVE StampInv'
  BY <1>2, DieStep DEF Crash
<1>3. CASE PowerCut
  BY <1>3, DieStep DEF PowerCut
<1>4. CASE RemoveFile \/ EditFile
  <2>1. dir'.file.id \in {NoStamp, gen + 1} /\ UNCHANGED <<instVars, pc, call>>
    BY <1>4 DEF RemoveFile, EditFile, NoFile, Directories
  <2> DEFINE moved == {}
  <2>2. moved \in SUBSET Threads /\ \A t \in moved : CallOk(t)'
    OBVIOUS
  <2>3. \A t \in Threads \ moved : pc'[t] = pc[t] /\ call'[t] = call[t]
    BY <2>1
  <2> HIDE DEF moved
  <2> QED
    BY <2>1, <2>2, <2>3, ReplaceStep
<1>5. CASE RemoveWitness \/ ReplaceLock
  <2>1. dir'.file = dir.file /\ UNCHANGED <<live, held, stamp, malformed, look, pc, call>>
    BY <1>5 DEF RemoveWitness, ReplaceLock, Directories
  <2>2. ASSUME NEW i \in Instances PROVE StampOk(i)'
    BY <2>1 DEF StampInv, StampOk, Running, Is, Has
  <2>3. ASSUME NEW t \in Threads PROVE CallOk(t)'
    BY <2>1 DEF StampInv, CallOk, Running, Is, Has, Renaming
  <2> QED
    BY <2>2, <2>3 DEF StampInv
<1> QED
  BY <1>1, <1>2, <1>3, <1>4, <1>5 DEF Environment

(* No step hands out or keeps a stamp of a version yet to come.             *)
LEMMA VersionStep ==
  ASSUME TypeOK, TypeOK', VersionInv, [Next]_vars PROVE VersionInv'
<1> USE DEF TypeOK, VersionInv, NoStamp
<1>1. \A d \in dirs \cup {dir} : d.file.id \in Nat
  BY DEF Directories, Files
<1>2. \A t \in Threads : call[t].stamp \in Nat
  BY DEF Calls
<1>3. ASSUME NEW i \in Instances, Lifecycle(i) PROVE VersionInv'
  <2>1. UNCHANGED <<fileVars, call, look>> \/ Drop(i)
    BY <1>3 DEF Lifecycle, LoadRead, LoadCheck, ForRepair, callVars
  <2>2. \A j \in Instances : stamp'[j] \in {stamp[j], NoStamp, dir.file.id}
    <3>1. CASE LoadRead(i)
      BY <3>1 DEF LoadRead
    <3>2. CASE LoadCheck(i)
      BY <3>2 DEF LoadCheck
    <3>3. CASE ForRepair(i)
      BY <3>3 DEF ForRepair
    <3>4. CASE Drop(i)
      BY <3>4 DEF Drop, Forget
    <3> QED
      BY <1>3, <3>1, <3>2, <3>3, <3>4 DEF Lifecycle
  <2>3. CASE Drop(i)
    BY <1>1, <2>2, <2>3 DEF Drop, Forget, fileVars, callVars
  <2> QED
    BY <1>1, <2>1, <2>2, <2>3 DEF fileVars
<1>4. ASSUME NEW i \in Instances, Asking(i) PROVE VersionInv'
  <2>1. UNCHANGED <<fileVars, call>>
    BY <1>4 DEF Asking, Debounced, RefreshSkip, RefreshStat, RefreshRead, callVars
  <2>2. \A j \in Instances : /\ stamp'[j] \in {stamp[j], look[j]}
                             /\ look'[j] \in {look[j], NoStamp, dir.file.id}
    BY <1>4 DEF Asking, Debounced, RefreshSkip, RefreshStat, RefreshRead,
       RefreshUnion, Released
  <2> QED
    BY <1>1, <2>1, <2>2 DEF fileVars
<1>5. ASSUME NEW p \in Processes, Locking(p) PROVE VersionInv'
  BY <1>5 DEF Locking, OpenLock, TakeLock, Unlock, fileVars, instVars, callVars
<1>6. ASSUME NEW t \in Threads, Calling(t) PROVE VersionInv'
  <2>1. UNCHANGED <<fileVars, stamp, look>>
    BY <1>6 DEF Calling, RevokeWrongLock, Revoke
  <2>2. \A u \in Threads : call'[u] = call[u] \/ call'[u].stamp = NoStamp
    BY <1>6 DEF Calling, RevokeWrongLock, Revoke, callVars, NoCall
  <2> QED
    BY <2>1, <2>2 DEF fileVars
<1>7. ASSUME NEW t \in Threads, Progress(t) PROVE VersionInv'
  <2>1. CASE WriteBody(t)
    <3>1. /\ gen' = gen + 1 /\ UNCHANGED <<stamp, look>>
          /\ dirs' = dirs \cup {dir'} /\ dir'.file.id = gen + 1
      BY <2>1 DEF WriteBody, Renamed, Body, Directories, instVars
    <3>2. \A u \in Threads : call'[u].stamp \in {call[u].stamp, NoStamp, gen + 1}
      BY <2>1 DEF WriteBody, Calls
    <3>3. \A d \in dirs' \cup {dir'} : d.file.id <= gen'
      BY <1>1, <3>1
    <3>4. \A i \in Instances : stamp'[i] <= gen' /\ look'[i] <= gen'
      BY <3>1
    <3>5. \A u \in Threads : call'[u].stamp <= gen'
      BY <1>2, <3>1, <3>2
    <3> QED
      BY <3>3, <3>4, <3>5
  <2>2. CASE ~WriteBody(t)
    <3>1. gen' = gen /\ UNCHANGED look
      BY <1>7, <2>2 DEF Progress, ReadFile, MergeRepeat, MergeWrite, SyncBody,
         ReadWitness, WriteWitness, SyncWitness, Adopt, ReturnRepeat, fileVars, instVars
    <3>2. dir'.file = dir.file /\ dirs' \subseteq dirs \cup {dir, dir'}
      BY <1>7, <2>2 DEF Progress, ReadFile, MergeRepeat, MergeWrite, SyncBody,
         ReadWitness, WriteWitness, SyncWitness, Adopt, ReturnRepeat, fileVars,
         Renamed, Synced, Directories
    <3>3. \A j \in Instances : stamp'[j] \in {stamp[j], call[t].stamp}
      BY <1>7, <2>2 DEF Progress, ReadFile, MergeRepeat, MergeWrite, SyncBody,
         ReadWitness, WriteWitness, SyncWitness, Adopt, ReturnRepeat, instVars
    <3>4. \A u \in Threads : call'[u].stamp \in {call[u].stamp, NoStamp, dir.file.id}
      <4>1. CASE \E answer \in BOOLEAN : Return(t, answer)
        BY <4>1 DEF Return, NoCall
      <4>2. CASE call' = call
        BY <4>2
      <4>3. CASE call' = [call EXCEPT ![t] = [@ EXCEPT !.entries = dir.file.entries,
                                                       !.bad = dir.file.bad,
                                                       !.stamp = dir.file.id]]
        BY <4>3 DEF Calls
      <4>4. CASE call' = [call EXCEPT ![t] =
                            [@ EXCEPT !.entries = Joined(InstanceOf[t],
                                                         call[t].entries),
                                      !.wrote = TRUE]]
        BY <4>4 DEF Calls
      <4>5. CASE ReadFile(t)
        BY <4>1, <4>3, <4>5 DEF ReadFile
      <4>6. CASE MergeWrite(t)
        BY <4>1, <4>4, <4>6 DEF MergeWrite
      <4>7. CASE MergeRepeat(t) \/ SyncBody(t) \/ ReadWitness(t) \/ WriteWitness(t)
                 \/ SyncWitness(t) \/ Adopt(t) \/ ReturnRepeat(t)
        BY <4>1, <4>2, <4>7 DEF MergeRepeat, SyncBody, ReadWitness, WriteWitness,
           SyncWitness, Adopt, ReturnRepeat
      <4> QED
        BY <1>7, <2>2, <4>5, <4>6, <4>7 DEF Progress
    <3>5. \A d \in dirs' \cup {dir'} : d.file.id <= gen'
      BY <1>1, <3>1, <3>2
    <3>6. \A i \in Instances : stamp'[i] <= gen' /\ look'[i] <= gen'
      BY <1>2, <3>1, <3>3
    <3>7. \A u \in Threads : call'[u].stamp <= gen'
      BY <1>1, <1>2, <3>1, <3>4
    <3> QED
      BY <3>5, <3>6, <3>7
  <2> QED
    BY <2>1, <2>2
<1>8. CASE Environment
  <2>1. ASSUME NEW died, Die(died) PROVE
          /\ gen' = gen
          /\ \A i \in Instances : /\ stamp'[i] \in {stamp[i], NoStamp}
                                  /\ look'[i] \in {look[i], NoStamp}
          /\ \A t \in Threads : call'[t] = call[t] \/ call'[t].stamp = NoStamp
    BY <2>1 DEF Die, Forget, NoCall
  <2>2. CASE \E p \in Processes : Crash(p)
    BY <2>1, <2>2 DEF Crash
  <2>3. CASE PowerCut
    BY <2>1, <2>3 DEF PowerCut
  <2>4. CASE \E t \in Threads : IoError(t)
    <3>1. UNCHANGED <<fileVars, instVars>>
      BY <2>4 DEF IoError
    <3>2. \A t \in Threads : call'[t] = call[t] \/ call'[t].stamp = NoStamp
      BY <2>4 DEF IoError, Return, NoCall
    <3> QED
      BY <3>1, <3>2 DEF fileVars, instVars
  <2>5. CASE RemoveFile \/ RemoveWitness \/ ReplaceLock
    <3>1. /\ gen' = gen /\ dirs' \subseteq dirs \cup {dir'}
          /\ dir'.file.id \in {dir.file.id, NoStamp}
          /\ UNCHANGED <<stamp, look, call>>
      BY <2>5 DEF RemoveFile, RemoveWitness, ReplaceLock, Renamed, fileVars, instVars,
         callVars, NoFile, Directories
    <3> QED
      BY <1>1, <3>1
  <2>6. CASE EditFile
    <3>1. /\ gen' = gen + 1 /\ dirs' = dirs \cup {dir'} /\ dir'.file.id = gen + 1
          /\ UNCHANGED <<stamp, look, call>>
      BY <2>6 DEF EditFile, Renamed, instVars, callVars, Directories
    <3> QED
      BY <1>1, <1>2, <3>1
  <2> QED
    BY <1>8, <2>2, <2>3, <2>4, <2>5, <2>6 DEF Environment
<1>9. CASE UNCHANGED vars
  BY <1>9 DEF vars, fileVars, instVars, callVars
<1> QED
  BY <1>3, <1>4, <1>5, <1>6, <1>7, <1>8, <1>9 DEF Next

LEMMA CurrentStep ==
  ASSUME TypeOK, TypeOK', CurrentInv, [Next]_vars PROVE CurrentInv'
<1>1. VersionInv'
  BY VersionStep DEF CurrentInv
<1>2. CASE UNCHANGED <<dir, live, held, stamp, malformed, look, pc, call>>
  <2>1. ASSUME NEW i \in Instances PROVE StampOk(i)'
    BY <1>2 DEF CurrentInv, StampInv, StampOk, Running, Is, Has
  <2>2. ASSUME NEW t \in Threads PROVE CallOk(t)'
    BY <1>2 DEF CurrentInv, StampInv, CallOk, Running, Is, Has, Renaming
  <2> QED
    BY <1>1, <2>1, <2>2 DEF CurrentInv, StampInv
<1>3. ASSUME NEW p \in Processes, Locking(p)
      PROVE  UNCHANGED <<dir, live, held, stamp, malformed, look, pc, call>>
  BY <1>3 DEF Locking, OpenLock, TakeLock, Unlock, fileVars, instVars, callVars
<1>4. ASSUME UNCHANGED vars
      PROVE  UNCHANGED <<dir, live, held, stamp, malformed, look, pc, call>>
  BY <1>4 DEF vars, fileVars, instVars, callVars
<1>5. ASSUME NEW i \in Instances, Lifecycle(i) \/ Asking(i) PROVE CurrentInv'
  BY <1>1, <1>5, StampLifecycle, StampAsking DEF CurrentInv
<1>6. ASSUME NEW t \in Threads, Calling(t) \/ Progress(t) PROVE CurrentInv'
  BY <1>1, <1>6, StampCalling, StampProgress DEF CurrentInv
<1>7. CASE Environment
  BY <1>1, <1>7, StampEnvironment DEF CurrentInv
<1> QED
  BY <1>2, <1>3, <1>4, <1>5, <1>6, <1>7 DEF Next

(* An instance that trusts its stamp instead of reading the file misses no   *)
(* entry of it and no bad line, whatever is done to the file, and whenever   *)
(* it is replaced between the stat and the read.                             *)
THEOREM StampsTrue == Spec => []CurrentMeansHeld
<1>1. Init => TypeOK /\ CurrentInv
  BY TypeInit, CurrentInit
<1>2. TypeOK /\ CurrentInv /\ [Next]_vars => (TypeOK /\ CurrentInv)'
  BY TypeStep, CurrentStep
<1>3. TypeOK /\ CurrentInv => CurrentMeansHeld
  BY DEF CurrentInv, StampInv, StampOk, Is, Has, Running, CurrentMeansHeld
<1> QED
  BY <1>1, <1>2, <1>3, PTL DEF Spec
=============================================================================
