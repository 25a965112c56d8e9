-------------------------- MODULE ExclusionProofs --------------------------
(* What is left of the denylist's promises under a lock that does not        *)
(* exclude, for any processes, threads, guards and calls.                    *)
EXTENDS Exclusion, DenylistProofs

\* Nobody changes the file but nauthy, and no power cut sets it back.
FileKept == Faults \cap {"remove", "edit", "cut"} = {}

\* A revoke that runs holds its process's lock, of whatever kind, and its instance
\* refuses what it was asked to.
HoldInv ==
  \A t \in Threads : pc[t] # "idle" =>
    /\ locked[Home(t)] /\ Running(InstanceOf[t])
    /\ call[t].ask \subseteq held[InstanceOf[t]]

\* One writer a process, and one process a lock file.
SlotInv ==
  \A t1, t2 \in Threads :
    Home(t1) = Home(t2) /\ pc[t1] \in Writing /\ pc[t2] \in Writing => t1 = t2
FlockInv ==
  \A p1, p2 \in Processes :
    locked[p1] /\ locked[p2] /\ guard[p1] = guard[p2] /\ guard[p1] # 0 => p1 = p2

\* Where no caller's guard was trusted and no lock file swapped under a revoke, every
\* revoke runs under the one lock file.
SwapInv ==
  ~trusted /\ ~swapped => \A t \in Threads : pc[t] # "idle" => guard[Home(t)] = lockFile
MeetInv == Meet => met

\* Where no two writers met, each writes over the file it read.
MergedOk(t) ==
  /\ pc[t] = "merge" => call[t].entries = dir.file.entries
  /\ pc[t] = "write" => (dir.file.entries \cup call[t].ask) \subseteq call[t].entries
  /\ pc[t] \in Renaming => call[t].ask \subseteq dir.file.entries
MergedInv == ~met => AckedInFile /\ \A t \in Threads : MergedOk(t)

\* What an instance answered Ok for it refuses and writes.
MineInv ==
  /\ \A i \in Instances : mine[i] \subseteq held[i] /\ (mine[i] # {} => Running(i))
  /\ \A t \in Threads : pc[t] = "write" => mine[InstanceOf[t]] \subseteq call[t].entries

-----------------------------------------------------------------------------
\* A step is one of Denylist's, or one with a guard of the caller's own.
OwnStep == (\E p \in Processes : TakeOwn(p))
           \/ (\E t \in Threads, ask \in Asks : RevokeOwn(t, ask))
LEMMA StepOf ==
  ASSUME [ExclusionNext]_exclusionVars
  PROVE  [Next]_vars \/ OwnStep
<1> USE DEF OwnStep, Next
<1>1. ASSUME NEW t \in Threads, Revoking(t) PROVE [Next]_vars \/ OwnStep
  BY <1>1 DEF Revoking, Calling
<1>2. ASSUME NEW i \in Instances, LoadRead(i) \/ LoadCheck(i) PROVE [Next]_vars
  BY <1>2 DEF Lifecycle
<1>3. ASSUME NEW i \in Asked, Asking(i) PROVE [Next]_vars
  BY <1>3, ExclusionAssumption
<1>4. ASSUME NEW p \in Processes, Guarding(p) PROVE [Next]_vars \/ OwnStep
  BY <1>4 DEF Guarding, Locking
<1>5. UNCHANGED exclusionVars => UNCHANGED vars
  BY DEF exclusionVars
<1> QED
  BY <1>1, <1>2, <1>3, <1>4, <1>5 DEF ExclusionNext

LEMMA ExclusionType ==
  ASSUME TypeOK, [ExclusionNext]_exclusionVars PROVE TypeOK'
<1>1. CASE [Next]_vars
  BY <1>1, TypeStep
<1>2. ASSUME NEW p \in Processes, TakeOwn(p) PROVE TypeOK'
  BY <1>2 DEF TakeOwn, TypeOK, fileVars, instVars, callVars, Directories, Files, Calls
<1>3. ASSUME NEW t \in Threads, NEW ask \in Asks, RevokeOwn(t, ask) PROVE TypeOK'
  <2>1. ask \in SUBSET Entries /\ InstanceOf[t] \in Instances
    BY BoundsAssumption, PlacesAssumption
  <2> QED
    BY <1>3, <2>1 DEF RevokeOwn, Goto, TypeOK, fileVars, lockVars, callVars, Extend,
       Joined, Calls, NoCall, NoStamp, Directories, Files
<1> QED
  BY <1>1, <1>2, <1>3, StepOf DEF OwnStep

\* What a step does to the calls: nothing; or it begins one, takes one further, or
\* ends some.
Quiet ==
  /\ UNCHANGED <<pc, call, acked, lockVars>>
  /\ dir'.file = dir.file \/ ~FileKept
  /\ \A i \in Instances : Running(i) => Running(i)'
Begins(t) ==
  /\ pc[t] = "idle" /\ pc'[t] = "read" /\ Running(InstanceOf[t])
  /\ locked[Home(t)]
  /\ Own(Home(t)) \/ Guards(Home(t))
  /\ \A u \in Threads \ {t} : pc'[u] = pc[u] /\ call'[u] = call[u]
  /\ call'[t].ask \subseteq held'[InstanceOf[t]]
  /\ UNCHANGED <<fileVars, lockVars, live, acked>>
Ends(ended) ==
  /\ \A t \in ended : pc'[t] = "idle"
  /\ \A t \in Threads \ ended : pc'[t] = pc[t] /\ call'[t] = call[t]
  /\ UNCHANGED <<lockFile, acked>>
  /\ \/ UNCHANGED <<dir, lockVars, live, held>>
     \/ \E died \in SUBSET Processes :
          /\ Die(died) /\ ended = {t \in Threads : Home(t) \in died}
          /\ dir' = dir \/ "cut" \in Faults

LEMMA CallSteps ==
  ASSUME TypeOK, [ExclusionNext]_exclusionVars
  PROVE  \/ Quiet
         \/ \E p \in Processes : Guarding(p)
         \/ ReplaceLock
         \/ \E t \in Threads : Begins(t)
         \/ \E t \in Threads : Progress(t)
         \/ \E ended \in SUBSET Threads : Ends(ended)
<1> USE DEF fileVars, lockVars, instVars, callVars
<1>1. ASSUME NEW t \in Threads, NEW ask \in Asks,
             RevokeOwn(t, ask) \/ (~Own(Home(t)) /\ Revoke(t, ask))
      PROVE  Begins(t)
  <2>1. /\ pc[t] = "idle" /\ pc' = [pc EXCEPT ![t] = "read"] /\ Running(InstanceOf[t])
        /\ locked[Home(t)] /\ (Own(Home(t)) \/ Guards(Home(t)))
        /\ call' = [call EXCEPT ![t] = [NoCall EXCEPT !.ask = ask]]
        /\ held' = [held EXCEPT ![InstanceOf[t]] = Joined(InstanceOf[t], ask)]
        /\ UNCHANGED <<fileVars, lockVars, live, acked>>
    BY <1>1 DEF RevokeOwn, Revoke, Extend, Goto
  <2>2. InstanceOf[t] \in Instances
    BY PlacesAssumption
  <2>3. ask \subseteq held'[InstanceOf[t]]
    BY <2>1, <2>2 DEF TypeOK, Joined
  <2>4. call'[t].ask = ask /\ (\A u \in Threads \ {t} : call'[u] = call[u])
    BY <2>1 DEF TypeOK, NoCall
  <2>5. pc'[t] = "read" /\ (\A u \in Threads \ {t} : pc'[u] = pc[u])
    BY <2>1 DEF TypeOK
  <2> QED
    BY <2>1, <2>3, <2>4, <2>5 DEF Begins
<1>2. ASSUME NEW t \in Threads, Revoking(t) PROVE Begins(t) \/ Quiet
  BY <1>1, <1>2 DEF Revoking, RevokeWrongLock, Quiet, Running
<1>3. ASSUME NEW i \in Instances, LoadRead(i) \/ LoadCheck(i) PROVE Quiet
  BY <1>3 DEF LoadRead, LoadCheck, Quiet, Running, TypeOK
<1>4. ASSUME NEW i \in Instances, Asking(i) PROVE Quiet
  BY <1>4 DEF Asking, Debounced, RefreshSkip, RefreshStat, RefreshRead, Quiet, Running
<1>5. ASSUME NEW t \in Threads, IoError(t) PROVE Ends({t})
  BY <1>5 DEF IoError, Return, Goto, Ends, TypeOK
<1>6. ASSUME NEW died \in SUBSET Processes, Die(died), dir' = dir \/ "cut" \in Faults
      PROVE  Ends({t \in Threads : Home(t) \in died})
  BY <1>6 DEF Die, Ends
<1>7. ASSUME NEW p \in Processes, Crash(p) PROVE \E ended \in SUBSET Threads : Ends(ended)
  BY <1>6, <1>7 DEF Crash
<1>8. ASSUME PowerCut PROVE \E ended \in SUBSET Threads : Ends(ended)
  BY <1>6, <1>8 DEF PowerCut, Fault
<1>9. RemoveFile \/ EditFile \/ RemoveWitness => Quiet
  <2>1. RemoveFile \/ EditFile => ~FileKept
    BY DEF RemoveFile, EditFile, FileKept, Fault
  <2>2. RemoveWitness => dir'.file = dir.file
    BY DEF RemoveWitness, TypeOK, Directories
  <2> QED
    BY <2>1, <2>2 DEF RemoveFile, EditFile, RemoveWitness, Quiet, Running
<1>10. UNCHANGED exclusionVars => Quiet
  BY DEF exclusionVars, vars, Quiet, Running
<1> QED
  BY <1>2, <1>3, <1>4, <1>5, <1>7, <1>8, <1>9, <1>10, ExclusionAssumption
     DEF ExclusionNext, Environment

\* A revoke that goes on is still asked for the same, and nobody else's is touched.
LEMMA ProgressCalls ==
  ASSUME TypeOK, NEW t \in Threads, Progress(t)
  PROVE  /\ \A u \in Threads \ {t} : pc'[u] = pc[u] /\ call'[u] = call[u]
         /\ pc'[t] # "idle" => call'[t].ask = call[t].ask
<1>1. \A u \in Threads \ {t} : pc'[u] = pc[u]
  BY ProgressShape DEF TypeOK
<1> DEFINE Touched == /\ \A u \in Threads \ {t} : call'[u] = call[u]
                      /\ pc'[t] # "idle" => call'[t].ask = call[t].ask
<1>2. call[t] \in Calls
  BY DEF TypeOK
<1>3. ASSUME NEW answer \in BOOLEAN, Return(t, answer) PROVE Touched
  BY <1>3 DEF Return, Goto, TypeOK
<1>4. UNCHANGED call => Touched
  OBVIOUS
<1>5. ReadFile(t) => Touched
  <2>1. ReadFile(t) /\ ~Return(t, FALSE) =>
          call' = [call EXCEPT ![t] = [@ EXCEPT !.entries = dir.file.entries,
                                                !.bad = dir.file.bad,
                                                !.stamp = dir.file.id]]
    BY DEF ReadFile
  <2>2. [call[t] EXCEPT !.entries = dir.file.entries, !.bad = dir.file.bad,
                        !.stamp = dir.file.id].ask = call[t].ask
    BY <1>2 DEF Calls
  <2> QED
    BY <1>3, <2>1, <2>2 DEF TypeOK
<1>6. MergeWrite(t) => Touched
  <2>1. MergeWrite(t) /\ ~Return(t, FALSE) =>
          call' = [call EXCEPT
                     ![t] = [@ EXCEPT !.entries = Joined(InstanceOf[t], call[t].entries),
                                      !.wrote = TRUE]]
    BY DEF MergeWrite
  <2>2. [call[t] EXCEPT !.entries = Joined(InstanceOf[t], call[t].entries),
                        !.wrote = TRUE].ask = call[t].ask
    BY <1>2 DEF Calls
  <2> QED
    BY <1>3, <2>1, <2>2 DEF TypeOK
<1>7. WriteBody(t) => Touched
  BY <1>2 DEF WriteBody, TypeOK, Calls
<1>8. Adopt(t) \/ ReturnRepeat(t) => Touched
  BY <1>3 DEF Adopt, ReturnRepeat
<1>9. Touched
  BY <1>4, <1>5, <1>6, <1>7, <1>8 DEF Progress, MergeRepeat, SyncBody, ReadWitness,
     WriteWitness, SyncWitness
<1> QED
  BY <1>1, <1>9

LEMMA RunningHeldGrows ==
  ASSUME TypeOK, [ExclusionNext]_exclusionVars, NEW i \in Instances, Running(i),
         Running(i)'
  PROVE  held[i] \subseteq held'[i]
<1>1. CASE [Next]_vars
  BY <1>1, HeldGrows
<1>2. CASE OwnStep
  <2>1. UNCHANGED held \/ \E t \in Threads, ask \in Asks : Extend(t, ask)
    BY <1>2 DEF OwnStep, TakeOwn, RevokeOwn, instVars
  <2> QED
    BY <2>1, PlacesAssumption DEF Extend, Joined, TypeOK
<1> QED
  BY <1>1, <1>2, StepOf
-----------------------------------------------------------------------------
(* Locks.                                                                    *)

LEMMA HoldStep ==
  ASSUME TypeOK, HoldInv, [ExclusionNext]_exclusionVars PROVE HoldInv'
<1> SUFFICES ASSUME NEW t \in Threads, pc'[t] # "idle"
             PROVE  /\ locked'[Home(t)] /\ Running(InstanceOf[t])'
                    /\ call'[t].ask \subseteq held'[InstanceOf[t]]
  BY DEF HoldInv, Home
<1> DEFINE i == InstanceOf[t]
<1>1. i \in Instances /\ Home(t) \in Processes
  BY PlacesAssumption DEF Home
<1>2. Running(i) /\ Running(i)' => held[i] \subseteq held'[i]
  BY <1>1, RunningHeldGrows
<1>3. pc[t] # "idle" => locked[Home(t)] /\ Running(i) /\ call[t].ask \subseteq held[i]
  BY DEF HoldInv
<1>4. CASE Quiet
  BY <1>1, <1>2, <1>3, <1>4 DEF Quiet, lockVars
<1>5. ASSUME NEW p \in Processes, Guarding(p), pc[t] # "idle"
      PROVE  locked'[Home(t)]
  <2>1. Busy(Home(t))
    BY <1>5 DEF Busy
  <2> QED
    BY <1>1, <1>3, <1>5, <2>1 DEF Guarding, TakeOwn, OpenLock, TakeLock, Unlock, TypeOK
<1>6. ASSUME NEW p \in Processes, Guarding(p) PROVE UNCHANGED <<pc, call, live, held>>
  BY <1>6 DEF Guarding, TakeOwn, OpenLock, TakeLock, Unlock, instVars, callVars
<1>7. CASE \E p \in Processes : Guarding(p)
  <2>1. /\ pc[t] # "idle" /\ call'[t] = call[t] /\ live' = live /\ held' = held
        /\ locked'[Home(t)]
    BY <1>5, <1>6, <1>7
  <2> QED
    BY <1>3, <2>1 DEF Running
<1>8. CASE ReplaceLock
  BY <1>3, <1>8 DEF ReplaceLock, instVars, callVars, Running
<1>9. ASSUME NEW u \in Threads, Begins(u)
      PROVE  locked'[Home(t)] /\ Running(i)' /\ call'[t].ask \subseteq held'[i]
  <2>1. UNCHANGED <<live, locked>>
    BY <1>9 DEF Begins, lockVars
  <2>2. CASE t = u
    BY <1>9, <2>1, <2>2 DEF Begins, Running
  <2>3. CASE t # u
    BY <1>2, <1>3, <1>9, <2>1, <2>3 DEF Begins, Running
  <2> QED
    BY <2>2, <2>3
<1>10. ASSUME NEW u \in Threads, Progress(u)
       PROVE  locked'[Home(t)] /\ Running(i)' /\ call'[t].ask \subseteq held'[i]
  <2>1. UNCHANGED <<live, locked>> /\ pc[u] # "idle"
    BY <1>10, ProgressShape DEF lockVars
  <2>2. pc[t] # "idle" /\ call'[t].ask = call[t].ask
    BY <1>10, <2>1, ProgressCalls
  <2> QED
    BY <1>2, <1>3, <2>1, <2>2 DEF Running
<1>11. ASSUME NEW ended \in SUBSET Threads, Ends(ended)
       PROVE  locked'[Home(t)] /\ Running(i)' /\ call'[t].ask \subseteq held'[i]
  <2>1. t \notin ended /\ pc[t] # "idle" /\ call'[t] = call[t]
    BY <1>11 DEF Ends
  <2>2. locked'[Home(t)] /\ live'[i] = live[i] /\ held'[i] = held[i]
    <3>1. ASSUME NEW died \in SUBSET Processes, Die(died), Home(t) \notin died
          PROVE  locked'[Home(t)] /\ live'[i] = live[i] /\ held'[i] = held[i]
      <4>1. locked'[Home(t)]
        BY <1>1, <1>3, <2>1, <3>1 DEF Die
      <4>2. ProcessOf[i] \notin died
        BY <3>1 DEF Home
      <4> QED
        BY <1>1, <3>1, <4>1, <4>2 DEF Die, Forget
    <3> QED
      BY <1>3, <1>11, <2>1, <3>1 DEF Ends, lockVars
  <2> QED
    BY <1>3, <2>1, <2>2 DEF Running
<1> QED
  BY <1>4, <1>7, <1>8, <1>9, <1>10, <1>11, CallSteps

LEMMA SlotStep ==
  ASSUME TypeOK, SlotInv, [ExclusionNext]_exclusionVars PROVE SlotInv'
<1> USE DEF SlotInv, Writing, Home
<1>1. Quiet \/ (\E p \in Processes : Guarding(p)) \/ ReplaceLock => UNCHANGED pc
  BY DEF Quiet, Guarding, TakeOwn, OpenLock, TakeLock, Unlock, ReplaceLock, callVars
<1>2. ASSUME NEW t \in Threads, Begins(t) PROVE SlotInv'
  BY <1>2 DEF Begins
<1>3. ASSUME NEW t \in Threads, Progress(t) PROVE SlotInv'
  BY <1>3, ProgressShape DEF TypeOK, SlotFree
<1>4. ASSUME NEW ended \in SUBSET Threads, Ends(ended) PROVE SlotInv'
  BY <1>4 DEF Ends
<1> QED
  BY <1>1, <1>2, <1>3, <1>4, CallSteps

LEMMA FlockStep ==
  ASSUME TypeOK, FlockInv, [ExclusionNext]_exclusionVars PROVE FlockInv'
<1> USE DEF FlockInv, TypeOK
<1>1. Quiet \/ ReplaceLock \/ (\E t \in Threads : Begins(t) \/ Progress(t)) =>
        UNCHANGED <<guard, locked>>
  BY ProgressShape DEF Quiet, Begins, ReplaceLock, lockVars
<1>2. ASSUME NEW p \in Processes, Guarding(p) PROVE FlockInv'
  <2>1. CASE TakeOwn(p)
    BY <2>1 DEF TakeOwn
  <2>2. CASE ~Own(p) /\ OpenLock(p)
    BY <2>2 DEF OpenLock, Own
  <2>3. CASE TakeLock(p)
    BY <2>3 DEF TakeLock, LockFree
  <2>4. CASE Unlock(p)
    BY <2>4 DEF Unlock
  <2> QED
    BY <1>2, <2>1, <2>2, <2>3, <2>4 DEF Guarding
<1>3. ASSUME NEW ended \in SUBSET Threads, Ends(ended) PROVE FlockInv'
  <2>1. \A p \in Processes : locked'[p] => locked[p] /\ guard'[p] = guard[p]
    BY <1>3 DEF Ends, Die, lockVars
  <2> QED
    BY <2>1
<1> QED
  BY <1>1, <1>2, <1>3, CallSteps

LEMMA SwapStep ==
  ASSUME TypeOK, HoldInv, SwapInv, [ExclusionNext]_exclusionVars PROVE SwapInv'
<1>1. UNCHANGED exclusionVars => SwapInv'
  BY DEF SwapInv, exclusionVars, vars, lockVars, callVars
<1> SUFFICES ASSUME Recorded, ~trusted', ~swapped', NEW t \in Threads, pc'[t] # "idle"
             PROVE  guard'[Home(t)] = lockFile'
  BY <1>1 DEF ExclusionNext, SwapInv, Home
<1>2. ~trusted /\ ~swapped /\ ~Trust /\ ~Swap
  BY DEF Recorded
<1>3. pc[t] # "idle" => guard[Home(t)] = lockFile /\ lockFile' = lockFile /\ Busy(Home(t))
                        /\ locked[Home(t)]
  BY <1>2 DEF SwapInv, Swap, Busy, HoldInv
<1>4. Home(t) \in Processes
  BY PlacesAssumption DEF Home
<1>5. CASE Quiet
  BY <1>3, <1>5 DEF Quiet, lockVars
<1>6. ASSUME NEW p \in Processes, Guarding(p) PROVE guard'[Home(t)] = lockFile'
  <2>1. UNCHANGED pc
    BY <1>6 DEF Guarding, TakeOwn, OpenLock, TakeLock, Unlock, callVars
  <2>2. guard[p] = 0 /\ locked[p] => Own(p)
    BY DEF Own
  <2>3. lockFile # 0
    BY DEF TypeOK
  <2> QED
    BY <1>3, <1>4, <1>6, <2>1, <2>2, <2>3 DEF Guarding, TakeOwn, OpenLock, TakeLock, Unlock, TypeOK
<1>7. CASE ReplaceLock
  BY <1>3, <1>7 DEF ReplaceLock, callVars
<1>8. ASSUME NEW u \in Threads, Begins(u) PROVE guard'[Home(t)] = lockFile'
  BY <1>2, <1>3, <1>8 DEF Begins, Trust, Guards, lockVars
<1>9. ASSUME NEW u \in Threads, Progress(u) PROVE guard'[Home(t)] = lockFile'
  <2>1. UNCHANGED lockVars /\ pc[t] # "idle"
    BY <1>9, ProgressShape, ProgressCalls
  <2> QED
    BY <1>3, <2>1 DEF lockVars
<1>10. ASSUME NEW ended \in SUBSET Threads, Ends(ended) PROVE guard'[Home(t)] = lockFile'
  <2>1. t \notin ended /\ pc[t] # "idle"
    BY <1>10 DEF Ends
  <2> QED
    BY <1>3, <1>4, <1>10, <2>1 DEF Ends, Die, lockVars
<1> QED
  BY <1>5, <1>6, <1>7, <1>8, <1>9, <1>10, CallSteps
LEMMA RecordedStep ==
  ASSUME [ExclusionNext]_exclusionVars
  PROVE  \/ Recorded
         \/ UNCHANGED exclusionVars
  BY DEF ExclusionNext

\* Two writers met under DenylistLock: then a lock file was swapped under a revoke.
LocksInv == TypeOK /\ HoldInv /\ SlotInv /\ FlockInv /\ SwapInv

LEMMA LocksInit == ExclusionInit => LocksInv
<1> SUFFICES ASSUME ExclusionInit PROVE LocksInv
  OBVIOUS
<1>1. TypeOK
  BY TypeInit DEF ExclusionInit
<1>2. \A t \in Threads : pc[t] = "idle"
  BY DEF ExclusionInit, Init
<1>3. \A p \in Processes : ~locked[p]
  BY DEF ExclusionInit, Init
<1> QED
  BY <1>1, <1>2, <1>3 DEF LocksInv, HoldInv, SlotInv, FlockInv, SwapInv, Writing

LEMMA LocksStep == LocksInv /\ [ExclusionNext]_exclusionVars => LocksInv'
  BY ExclusionType, HoldStep, SlotStep, FlockStep, SwapStep DEF LocksInv

LEMMA MeetingSwaps == LocksInv /\ Meet => trusted \/ swapped
<1> SUFFICES ASSUME LocksInv, ~trusted, ~swapped,
                    NEW t1 \in Threads, NEW t2 \in Threads,
                    Replacing(t1), Replacing(t2)
             PROVE  t1 = t2
  BY DEF Meet
<1>1. pc[t1] \in Writing /\ pc[t2] \in Writing /\ pc[t1] # "idle" /\ pc[t2] # "idle"
  BY DEF Replacing, Writing
<1>2. /\ locked[Home(t1)] /\ guard[Home(t1)] = lockFile
      /\ locked[Home(t2)] /\ guard[Home(t2)] = lockFile
  BY <1>1 DEF LocksInv, HoldInv, SwapInv
<1>3. Home(t1) \in Processes /\ Home(t2) \in Processes /\ lockFile # 0
  BY PlacesAssumption DEF Home, LocksInv, TypeOK
<1>4. Home(t1) = Home(t2)
  BY <1>2, <1>3 DEF LocksInv, FlockInv
<1> QED
  BY <1>1, <1>4 DEF LocksInv, SlotInv

LEMMA MeetStep ==
  ASSUME LocksInv', MeetOnlyAcrossSwap, [ExclusionNext]_exclusionVars
  PROVE  MeetOnlyAcrossSwap'
<1>1. CASE Recorded
  <2>1. Meet' => trusted' \/ swapped'
    <3>1. LocksInv' /\ Meet' => (trusted \/ swapped)'
      BY MeetingSwaps, PTL
    <3> QED
      BY <3>1
  <2> QED
    BY <1>1, <2>1 DEF Recorded, MeetOnlyAcrossSwap
<1>2. CASE UNCHANGED exclusionVars
  BY <1>2 DEF exclusionVars, MeetOnlyAcrossSwap
<1> QED
  BY <1>1, <1>2, RecordedStep

(* Two writers under DenylistLock meet only where the lock file was replaced  *)
(* while a revoke ran (MeetOnlyAcrossSwap), however many processes, threads   *)
(* and lock files there are.  (DenylistLock::guards, writers_of.)             *)
THEOREM WritersMeetAcrossSwap == ExclusionSpec => []MeetOnlyAcrossSwap
<1>1. ExclusionInit => MeetOnlyAcrossSwap
  BY DEF ExclusionInit, MeetOnlyAcrossSwap
<1>2. LocksInv /\ LocksInv' /\ MeetOnlyAcrossSwap /\ [ExclusionNext]_exclusionVars =>
        MeetOnlyAcrossSwap'
  BY MeetStep
<1> QED
  BY <1>1, <1>2, LocksInit, LocksStep, PTL DEF ExclusionSpec
-----------------------------------------------------------------------------
(* What a writer lost.                                                       *)

LEMMA MineStep ==
  ASSUME LocksInv, MineInv, [ExclusionNext]_exclusionVars PROVE MineInv'
<1>1. CASE UNCHANGED exclusionVars
  BY <1>1 DEF MineInv, exclusionVars, vars, instVars, callVars, Running
<1>2. CASE Recorded
  <2>1. ASSUME NEW i \in Instances, NEW e \in mine'[i]
        PROVE  Running(i)' /\ (e \in mine[i] \/ \E t \in Answered(i) : e \in call[t].ask)
    <3>1. mine'[i] = IF Running(i)' THEN mine[i] \cup UNION {call[t].ask : t \in Answered(i)}
                     ELSE {}
      BY <1>2 DEF Recorded
    <3>2. Running(i)' /\ (e \in mine[i] \/ e \in UNION {call[t].ask : t \in Answered(i)})
      BY <3>1
    <3> QED
      BY <3>2
  <2>2. ASSUME NEW i \in Instances, Running(i)' PROVE mine'[i] \subseteq held'[i]
    <3>1. ASSUME NEW e \in mine[i] PROVE e \in held'[i]
      BY <2>2, <3>1, RunningHeldGrows DEF MineInv, LocksInv
    <3>2. ASSUME NEW t \in Answered(i) PROVE call[t].ask \subseteq held'[i]
      <4>1. t \in Threads /\ InstanceOf[t] = i /\ pc[t] # "idle"
        BY DEF Answered
      <4>2. Running(i) /\ call[t].ask \subseteq held[i]
        BY <4>1 DEF LocksInv, HoldInv
      <4> QED
        BY <2>2, <4>2, RunningHeldGrows DEF LocksInv
    <3> QED
      BY <2>1, <2>2, <3>1, <3>2
  <2>3. \A i \in Instances : mine'[i] \subseteq held'[i] /\ (mine'[i] # {} => Running(i)')
    <3>1. \A i \in Instances : mine'[i] # {} => Running(i)'
      BY <2>1
    <3> QED
      BY <2>2, <3>1
  <2>4. ASSUME NEW t \in Threads, pc'[t] = "write"
        PROVE  mine'[InstanceOf[t]] \subseteq call'[t].entries
    <3> DEFINE i == InstanceOf[t]
    <3>0. i \in Instances
      BY PlacesAssumption
    <3>1. CASE pc[t] = "write" /\ call'[t] = call[t]
      <4>1. Answered(i) = {}
        <5> SUFFICES ASSUME NEW u \in Threads, InstanceOf[u] = i, pc[u] = "done",
                            pc'[u] = "idle"
                     PROVE  FALSE
          BY DEF Answered
        <5>1. Home(u) = Home(t) /\ pc[u] \in Writing /\ pc[t] \in Writing
          BY <3>1 DEF Home, Writing
        <5> QED
          BY <3>1, <5>1 DEF LocksInv, SlotInv
      <4>2. mine'[i] \subseteq mine[i]
        BY <2>1, <3>0, <4>1
      <4> QED
        BY <3>1, <4>2 DEF MineInv
    <3>2. CASE MergeWrite(t)
      <4>1. /\ pc[t] = "merge" /\ Fits(Joined(i, call[t].entries), call[t].bad)
            /\ call' = [call EXCEPT ![t] = [@ EXCEPT !.entries = Joined(i, call[t].entries),
                                                     !.wrote = TRUE]]
            /\ pc' = [pc EXCEPT ![t] = "write"]
        <5>1. ~Return(t, FALSE)
          BY <2>4 DEF Return, Goto, LocksInv, TypeOK
        <5> QED
          BY <3>2, <5>1 DEF MergeWrite, Goto
      <4>2. call'[t].entries = Joined(i, call[t].entries)
        BY <4>1 DEF LocksInv, TypeOK, Calls
      <4>3. Answered(i) = {}
        BY <4>1 DEF Answered, LocksInv, TypeOK
      <4>4. mine'[i] \subseteq mine[i]
        BY <2>1, <3>0, <4>3
      <4> QED
        BY <3>0, <4>2, <4>4 DEF MineInv, Joined
    <3>3. ASSUME Progress(t), ~MergeWrite(t) PROVE FALSE
      BY <2>4, <3>3 DEF Progress, ReadFile, MergeRepeat, WriteBody, SyncBody, ReadWitness,
         WriteWitness, SyncWitness, Adopt, ReturnRepeat, Goto, Return, LocksInv, TypeOK
    <3>4. ASSUME NEW u \in Threads \ {t}, Progress(u)
          PROVE  pc[t] = "write" /\ call'[t] = call[t]
      BY <2>4, <3>4, ProgressCalls DEF LocksInv
    <3>5. ASSUME NEW u \in Threads, Begins(u)
          PROVE  pc[t] = "write" /\ call'[t] = call[t]
      BY <2>4, <3>5 DEF Begins
    <3>6. ASSUME NEW ended \in SUBSET Threads, Ends(ended)
          PROVE  pc[t] = "write" /\ call'[t] = call[t]
      BY <2>4, <3>6 DEF Ends
    <3>7. Quiet \/ (\E p \in Processes : Guarding(p)) \/ ReplaceLock => UNCHANGED <<pc, call>>
      BY DEF Quiet, Guarding, TakeOwn, OpenLock, TakeLock, Unlock, ReplaceLock, callVars
    <3> QED
      BY <2>4, <3>1, <3>2, <3>3, <3>4, <3>5, <3>6, <3>7, CallSteps DEF LocksInv
  <2> QED
    BY <2>3, <2>4 DEF MineInv
<1> QED
  BY <1>1, <1>2, RecordedStep

LEMMA MineCorrect == ExclusionSpec => [](LocksInv /\ MineInv)
<1>1. ExclusionInit => MineInv
  BY DEF ExclusionInit, Init, MineInv
<1> QED
  BY <1>1, LocksInit, LocksStep, MineStep, PTL DEF ExclusionSpec

(* An instance that runs refuses whatever its own revokes answered Ok for     *)
(* (LoserStillRefuses), though no lock excluded and the file has lost it.     *)
THEOREM LoserRefuses == ExclusionSpec => []LoserStillRefuses
<1>1. MineInv => LoserStillRefuses
  BY DEF MineInv, LoserStillRefuses
<1> QED
  BY <1>1, MineCorrect, PTL

(* And puts it into every file it writes (NextWriteRestores).                 *)
THEOREM WriteRestores == ExclusionSpec => NextWriteRestores
<1>1. ASSUME LocksInv, MineInv, [ExclusionNext]_exclusionVars,
             NEW t \in Threads, pc[t] = "write", pc'[t] = "sync"
      PROVE  mine[InstanceOf[t]] \subseteq dir'.file.entries
  <2>1. ~Quiet /\ ~(\E p \in Processes : Guarding(p)) /\ ~ReplaceLock
    BY <1>1 DEF Quiet, Guarding, TakeOwn, OpenLock, TakeLock, Unlock, ReplaceLock, callVars
  <2>2. ~(\E u \in Threads : Begins(u)) /\ ~(\E ended \in SUBSET Threads : Ends(ended))
    BY <1>1 DEF Begins, Ends
  <2>3. Progress(t)
    BY <1>1, <2>1, <2>2, CallSteps, ProgressCalls DEF LocksInv
  <2>4. WriteBody(t)
    BY <1>1, <2>3 DEF Progress, ReadFile, MergeRepeat, MergeWrite, SyncBody, ReadWitness,
       WriteWitness, SyncWitness, Adopt, ReturnRepeat, Goto, Return, LocksInv, TypeOK
  <2>5. dir'.file.entries = call[t].entries
    BY <2>4 DEF WriteBody, Body, LocksInv, TypeOK, Directories
  <2> QED
    BY <1>1, <2>5 DEF MineInv
<1>2. LocksInv /\ MineInv /\ [ExclusionNext]_exclusionVars =>
        [\A t \in Threads :
           pc[t] = "write" /\ pc'[t] = "sync" =>
             mine[InstanceOf[t]] \subseteq dir'.file.entries]_exclusionVars
  BY <1>1
<1> QED
  BY <1>2, MineCorrect, PTL DEF ExclusionSpec, NextWriteRestores-----------------------------------------------------------------------------
(* What the file lost.                                                       *)

\* A step that leaves the file and every revoke in hand where they were.
LEMMA MergedKept ==
  ASSUME MergedInv, ~met, dir'.file = dir.file, UNCHANGED acked,
         \A t \in Threads : pc'[t] \in {"idle", "read"}
                            \/ (pc'[t] = pc[t] /\ call'[t] = call[t])
  PROVE  MergedInv'
  BY DEF MergedInv, MergedOk, AckedInFile, Renaming

LEMMA MergedProgress ==
  ASSUME LocksInv, MergedInv, ~met, ~Meet, NEW t \in Threads, Progress(t)
  PROVE  MergedInv'
<1> DEFINE i == InstanceOf[t]
<1>1. i \in Instances
  BY PlacesAssumption
<1>2. /\ pc[t] # "idle" /\ call[t].ask \subseteq held[i]
      /\ \A u \in Threads \ {t} : pc'[u] = pc[u] /\ call'[u] = call[u]
  BY ProgressCalls, ProgressShape DEF LocksInv, HoldInv
<1>3. ASSUME dir'.file = dir.file, acked' = acked, MergedOk(t)' PROVE MergedInv'
  BY <1>2, <1>3 DEF MergedInv, MergedOk, AckedInFile, Renaming
<1>4. pc'[t] \in {"idle", "read"} => MergedOk(t)'
  BY DEF MergedOk, Renaming
<1>5. MergedOk(t) /\ AckedInFile
  BY DEF MergedInv
<1> USE DEF fileVars, instVars
<1>6. ASSUME Return(t, FALSE), UNCHANGED dir PROVE MergedInv'
  BY <1>3, <1>4, <1>6 DEF Return, Goto, LocksInv, TypeOK
<1>7. CASE ReadFile(t)
  <2>1. ASSUME ~Return(t, FALSE) PROVE MergedInv'
    <3>1. /\ pc' = [pc EXCEPT ![t] = "merge"] /\ UNCHANGED <<dir, acked>>
          /\ call' = [call EXCEPT ![t] = [@ EXCEPT !.entries = dir.file.entries,
                                                   !.bad = dir.file.bad,
                                                   !.stamp = dir.file.id]]
      BY <1>7, <2>1 DEF ReadFile, Goto
    <3>2. pc'[t] = "merge" /\ call'[t].entries = dir.file.entries
      BY <3>1 DEF LocksInv, TypeOK, Calls
    <3> QED
      BY <1>3, <3>1, <3>2 DEF MergedOk, Renaming
  <2> QED
    BY <1>6, <1>7, <2>1 DEF ReadFile
<1>8. CASE MergeRepeat(t)
  <2>1. /\ pc[t] = "merge" /\ pc' = [pc EXCEPT ![t] = "witness"]
        /\ UNCHANGED <<dir, call, acked>>
        /\ held[i] \subseteq call[t].entries
    BY <1>8 DEF MergeRepeat, Goto, Joined
  <2>2. pc'[t] = "witness" /\ call[t].ask \subseteq dir.file.entries
    BY <1>2, <1>5, <2>1 DEF MergedOk, LocksInv, TypeOK
  <2> QED
    BY <1>3, <2>1, <2>2 DEF MergedOk, Renaming
<1>9. CASE MergeWrite(t)
  <2>1. ASSUME ~Return(t, FALSE) PROVE MergedInv'
    <3>1. /\ pc[t] = "merge" /\ pc' = [pc EXCEPT ![t] = "write"]
          /\ UNCHANGED <<dir, acked>>
          /\ call' = [call EXCEPT ![t] = [@ EXCEPT !.entries = Joined(i, call[t].entries),
                                                   !.wrote = TRUE]]
      BY <1>9, <2>1 DEF MergeWrite, Goto
    <3>2. /\ pc'[t] = "write" /\ call'[t].entries = held[i] \cup call[t].entries
          /\ call'[t].ask = call[t].ask
      BY <3>1 DEF LocksInv, TypeOK, Calls, Joined
    <3>3. (dir.file.entries \cup call'[t].ask) \subseteq call'[t].entries
      BY <1>2, <1>5, <3>1, <3>2 DEF MergedOk
    <3> QED
      BY <1>3, <3>1, <3>2, <3>3 DEF MergedOk, Renaming
  <2> QED
    BY <1>6, <1>9, <2>1 DEF MergeWrite
<1>10. CASE WriteBody(t)
  <2>1. /\ pc[t] = "write" /\ pc'[t] = "sync" /\ UNCHANGED acked
        /\ dir'.file.entries = call[t].entries /\ call'[t].ask = call[t].ask
    <3>1. call[t] \in Calls
      BY DEF LocksInv, TypeOK
    <3>2. call'[t].ask = call[t].ask
      BY <1>2, <1>10, <3>1, ProgressCalls DEF WriteBody, LocksInv, TypeOK, Goto
    <3> QED
      BY <1>10, <3>2 DEF WriteBody, Goto, Body, LocksInv, TypeOK, Directories
  <2>2. (dir.file.entries \cup call[t].ask) \subseteq dir'.file.entries
    BY <1>5, <2>1 DEF MergedOk
  <2>3. \A u \in Threads \ {t} : pc[u] \notin {"merge", "write"}
    BY <2>1 DEF Meet, Replacing
  <2>4. \A u \in Threads \ {t} : MergedOk(u)'
    BY <1>2, <2>2, <2>3 DEF MergedInv, MergedOk, Renaming
  <2>5. MergedOk(t)' /\ AckedInFile'
    BY <1>5, <2>1, <2>2 DEF MergedOk, AckedInFile, Renaming
  <2> QED
    BY <2>4, <2>5 DEF MergedInv
<1>11. CASE SyncBody(t) \/ ReadWitness(t) \/ WriteWitness(t) \/ SyncWitness(t)
  <2>1. UNCHANGED <<call, acked>> /\ pc[t] \in Renaming
    BY <1>11 DEF SyncBody, ReadWitness, WriteWitness, SyncWitness, Renaming
  <2>2. dir'.file = dir.file
    BY <1>11 DEF SyncBody, ReadWitness, WriteWitness, SyncWitness, LocksInv, TypeOK,
       Directories
  <2>3. pc'[t] \in Renaming
    BY <1>11 DEF SyncBody, ReadWitness, WriteWitness, SyncWitness, Renaming, Goto,
       LocksInv, TypeOK
  <2> QED
    BY <1>3, <1>5, <2>1, <2>2, <2>3 DEF MergedOk, Renaming
<1>12. CASE Adopt(t) \/ ReturnRepeat(t)
  <2>1. pc[t] \in Renaming /\ UNCHANGED dir /\ Return(t, TRUE)
    BY <1>12 DEF Adopt, ReturnRepeat, Renaming
  <2>2. pc'[t] = "idle" /\ acked' = acked \cup call[t].ask
    BY <2>1 DEF Return, Goto, LocksInv, TypeOK
  <2>3. AckedInFile'
    BY <1>5, <2>1, <2>2 DEF MergedOk, AckedInFile
  <2> QED
    BY <1>2, <1>4, <2>1, <2>2, <2>3 DEF MergedInv, MergedOk
<1> QED
  BY <1>7, <1>8, <1>9, <1>10, <1>11, <1>12 DEF Progress

LEMMA MergedStep ==
  ASSUME FileKept, LocksInv, MeetInv, MergedInv, [ExclusionNext]_exclusionVars
  PROVE  MergedInv'
<1>1. CASE UNCHANGED exclusionVars
  BY <1>1 DEF exclusionVars, vars, fileVars, callVars, MergedInv, MergedOk, AckedInFile
<1>2. CASE Recorded /\ met'
  BY <1>2 DEF MergedInv
<1>3. CASE Recorded /\ ~met'
  <2>1. ~met /\ ~Meet
    BY <1>3 DEF Recorded, MeetInv
  <2>2. Quiet => MergedInv'
    BY <2>1, MergedKept DEF Quiet
  <2>3. (\E p \in Processes : Guarding(p)) \/ ReplaceLock => MergedInv'
    <3>1. (\E p \in Processes : Guarding(p)) \/ ReplaceLock =>
            UNCHANGED <<dir, pc, call, acked>>
      BY DEF Guarding, TakeOwn, OpenLock, TakeLock, Unlock, ReplaceLock, fileVars, callVars
    <3> QED
      BY <2>1, <3>1, MergedKept
  <2>4. ASSUME NEW t \in Threads, Begins(t) PROVE MergedInv'
    BY <2>1, <2>4, MergedKept DEF Begins, fileVars
  <2>5. ASSUME NEW t \in Threads, Progress(t) PROVE MergedInv'
    BY <2>1, <2>5, MergedProgress
  <2>6. ASSUME NEW ended \in SUBSET Threads, Ends(ended) PROVE MergedInv'
    <3>1. dir' = dir
      BY <2>6 DEF Ends, FileKept
    <3> QED
      BY <2>1, <2>6, <3>1, MergedKept DEF Ends
  <2> QED
    BY <2>2, <2>3, <2>4, <2>5, <2>6, CallSteps DEF LocksInv
<1> QED
  BY <1>1, <1>2, <1>3, RecordedStep

LEMMA MeetRecorded ==
  ASSUME MeetInv, [ExclusionNext]_exclusionVars PROVE MeetInv'
<1>1. CASE Recorded
  BY <1>1 DEF Recorded, MeetInv
<1>2. CASE UNCHANGED exclusionVars
  BY <1>2 DEF exclusionVars, vars, callVars, MeetInv, Meet, Replacing
<1> QED
  BY <1>1, <1>2, RecordedStep

(* As long as no two writers met between their read and their rename, every   *)
(* entry answered Ok is in the file (LostOnlyWhereWritersMet), whatever lock  *)
(* there is or is not, if nobody but nauthy changes the file.                 *)
THEOREM LostWhereWritersMet ==
  ASSUME FileKept PROVE ExclusionSpec => []LostOnlyWhereWritersMet
<1>1. ExclusionInit => MeetInv /\ MergedInv
  BY DEF ExclusionInit, Init, MeetInv, Meet, Replacing, MergedInv, MergedOk, AckedInFile,
     Renaming
<1>2. LocksInv /\ MeetInv /\ MergedInv /\ [ExclusionNext]_exclusionVars =>
        MeetInv' /\ MergedInv'
  BY MeetRecorded, MergedStep
<1>3. MergedInv => LostOnlyWhereWritersMet
  BY DEF MergedInv, LostOnlyWhereWritersMet
<1> QED
  BY <1>1, <1>2, <1>3, LocksInit, LocksStep, PTL DEF ExclusionSpec
=============================================================================
