--------------------------- MODULE AdmissionProofs ---------------------------
(* How late a gate of another process may still admit, for every number of   *)
(* rulings, writers and processes and every debounce: the rulings' bound     *)
(* from the promises of Denylist, by the one clock of Admission.             *)
EXTENDS Admission, DenylistStoreProofs

\* What Denylist keeps; and the file, whoever wrote it, is one a refresh reads.
FileFits == Fits(dir.file.entries, dir.file.bad)
PromiseInv ==
  TypeOK /\ FaultInv /\ CurrentInv /\ BodyInv /\ AckedInFile /\ FileFits

\* A question is debounced only by an instance that is there, and only within
\* the interval of its last stat.
ClockInv ==
  /\ now \in Nat /\ now <= MaxTime
  /\ lastStat \in Nat /\ lastStat <= now
  /\ fresh[Server] => Running(Server) /\ now < lastStat + StatDebounce

AckInv ==
  /\ ackedAt \in [Entries -> Nat]
  /\ \A e \in Entries : e \notin acked => ackedAt[e] = Never

\* Between two refreshes the gate's instance holds all that was answered Ok for
\* before the last stat.
KnownInv ==
  Running(Server) /\ look[Server] = NoStamp =>
    \A e \in acked : ackedAt[e] < lastStat => e \in held[Server]

\* Past its question of the peer, and once admitted, a ruling has its bound: an Ok
\* that comes later comes later than what it asked at.
Within(e, t) == ackedAt[e] + StatDebounce > t
RulingType ==
  [stage : Questions \cup {"evaluate", "admitted", "refused"}, reading : BOOLEAN,
   asked : Nat, peerAt : Nat, ruledAt : Nat]
RulingOk(r) ==
  /\ ruling[r].reading => ruling[r].stage \in Questions
  /\ ruling[r].asked <= now /\ ruling[r].peerAt <= now /\ ruling[r].ruledAt <= now
  /\ ruling[r].stage \in {"token", "evaluate", "again", "admitted"} =>
       Within(Peer, ruling[r].peerAt)
  /\ ruling[r].stage = "admitted" => Within(Token, ruling[r].ruledAt)
RulingInv ==
  /\ ruling \in [Rulings -> RulingType]
  /\ \A r \in Rulings : RulingOk(r)

AdmissionInv == PromiseInv /\ ClockInv /\ AckInv /\ KnownInv /\ RulingInv

LEMMA AdmissionStart ==
  ASSUME AdmissionInit PROVE AdmissionInv
<1> USE AdmissionAssumption, BoundsAssumption DEF AdmissionInit
<1>1. TypeOK
  <2>1. Cardinality(Entries) \in Nat
    BY EntryCount
  <2> QED
    BY <2>1 DEF TypeOK, Directories, Files, NoFile, NoStamp, Calls, NoCall, Stages
<1>2. FaultInv
  <2>1. Cardinality({}) = 0
    BY FS_EmptySet
  <2>2. dir.file.entries = {} /\ dir.mark = 0 /\ dirs = {dir} /\ written = {}
    BY DEF NoFile
  <2>3. LockInv
    BY DEF LockInv, Writing
  <2>4. WriterInv
    BY DEF WriterInv, WriterOk, Renaming, Durable
  <2>5. DiskInv
    <3>1. dir \in dirs /\ \A d \in dirs : d = dir
      OBVIOUS
    <3> HIDE DEF AdmissionInit
    <3>2. \A d \in dirs : d.mark <= Cardinality(d.file.entries)
      <4> SUFFICES ASSUME NEW d \in dirs PROVE d.mark <= Cardinality(d.file.entries)
        OBVIOUS
      <4>1. d.mark = 0 /\ Cardinality(d.file.entries) = 0
        BY <2>1, <2>2, <3>1, Zenon
      <4> QED
        BY <4>1
    <3> QED
      BY <2>2, <3>1, <3>2 DEF DiskInv
  <2> QED
    BY <2>3, <2>4, <2>5 DEF FaultInv
<1>3. CurrentInv
  BY DEF CurrentInv, VersionInv, StampInv, StampOk, CallOk, Is, Running, Renaming, NoFile,
     NoStamp, NoCall
<1>4. BodyInv /\ AckedInFile
  BY DEF BodyInv, BodyOk, FileInv, AckedInFile
<1>5. FileFits
  <2>1. Cardinality({}) = 0 /\ dir.file.entries = {} /\ dir.file.bad = FALSE
    BY FS_EmptySet DEF NoFile
  <2> HIDE DEF AdmissionInit
  <2> QED
    BY <2>1 DEF FileFits, Fits, Size
<1>6. Never \in Nat
  BY DEF Never
<1>7. ClockInv /\ AckInv /\ KnownInv
  BY <1>6 DEF ClockInv, AckInv, KnownInv
<1>8. RulingInv
  BY DEF RulingInv, RulingType, RulingOk, Questions
<1> QED
  BY <1>1, <1>2, <1>3, <1>4, <1>5, <1>7, <1>8 DEF AdmissionInv, PromiseInv

\* Only the rename of a body that fits changes the file, with no other hand in the
\* directory.
LEMMA FitsStep ==
  ASSUME NoEdits, NoPowerCut, TypeOK, FaultInv, BodyInv, FileFits, [Next]_vars
  PROVE  FileFits'
<1>1. CASE dir'.file = dir.file
  BY <1>1 DEF FileFits, Fits, Size
<1>2. ASSUME NEW i \in Instances, Lifecycle(i) \/ Asking(i) PROVE dir' = dir
  BY <1>2, LifecycleQuiet DEF FaultInv
<1>3. ASSUME NEW p \in Processes, Locking(p) PROVE dir' = dir
  BY <1>3 DEF Locking, OpenLock, TakeLock, Unlock, fileVars
<1>4. ASSUME NEW t \in Threads, Calling(t) PROVE dir' = dir
  BY <1>4 DEF Calling, RevokeWrongLock, Revoke, fileVars
<1>5. ASSUME NEW t \in Threads, Progress(t) PROVE FileFits'
  <2>1. CASE WriteBody(t)
    BY <2>1, WritesItsBody DEF FileFits, Fits
  <2>2. CASE ~WriteBody(t)
    BY <1>1, <1>5, <2>2 DEF TypeOK, Directories, Progress, ReadFile, MergeRepeat,
       MergeWrite, SyncBody, ReadWitness, WriteWitness, SyncWitness, Adopt, ReturnRepeat,
       fileVars
  <2> QED
    BY <2>1, <2>2
<1>6. ASSUME NEW t \in Threads, IoError(t) PROVE dir' = dir
  BY <1>6 DEF IoError, fileVars
<1>7. ASSUME NEW p \in Processes, Crash(p) PROVE dir' = dir
  BY <1>7 DEF Crash
<1>8. ~PowerCut
  BY DEF PowerCut, Fault, NoPowerCut
<1>9. UNCHANGED vars => dir' = dir
  BY DEF vars, fileVars
<1> QED
  BY <1>1, <1>2, <1>3, <1>4, <1>5, <1>6, <1>7, <1>8, <1>9, NoEditSteps DEF Next, Environment

LEMMA PromiseStep ==
  ASSUME NoEdits, NoPowerCut, PromiseInv, [Next]_vars
  PROVE  PromiseInv'
<1>1. TypeOK'
  BY TypeStep DEF PromiseInv
<1> QED
  BY <1>1, FaultStep, CurrentStep, BodyStep, AckedStep, FitsStep DEF PromiseInv

\* An Ok is never taken back.
LEMMA AckedGrows == ASSUME [Next]_vars PROVE acked \subseteq acked'
<1> USE DEF callVars
<1>1. ASSUME NEW i \in Instances, Lifecycle(i) \/ Asking(i) PROVE acked' = acked
  BY <1>1 DEF Lifecycle, LoadRead, LoadCheck, ForRepair, Drop, Asking, Debounced,
     RefreshSkip, RefreshStat, RefreshRead
<1>2. ASSUME NEW p \in Processes, Locking(p) PROVE acked' = acked
  BY <1>2 DEF Locking, OpenLock, TakeLock, Unlock
<1>3. ASSUME NEW t \in Threads, Calling(t) PROVE acked' = acked
  BY <1>3 DEF Calling, RevokeWrongLock, Revoke
<1>4. ASSUME NEW t \in Threads, Progress(t) PROVE acked \subseteq acked'
  BY <1>4 DEF Progress, ReadFile, MergeRepeat, MergeWrite, WriteBody, SyncBody,
     ReadWitness, WriteWitness, SyncWitness, Adopt, ReturnRepeat, Return
<1>5. CASE Environment
  BY <1>5 DEF Environment, IoError, Return, Crash, PowerCut, Die, RemoveFile, EditFile,
     RemoveWitness, ReplaceLock
<1>6. CASE UNCHANGED vars
  BY <1>6 DEF vars
<1> QED
  BY <1>1, <1>2, <1>3, <1>4, <1>5, <1>6 DEF Next
-----------------------------------------------------------------------------
(* A step of a ruling, of the clock or of a writer is one of Denylist, or    *)
(* changes nothing of it.                                                    *)

LEMMA AsNext == ASSUME AdmissionInv, [AdmissionNext]_admissionVars PROVE [Next]_vars
<1> USE AdmissionAssumption
<1>1. ASSUME NEW r \in Rulings, Ruling(r) PROVE [Next]_vars
  <2>1. UNCHANGED vars \/ RefreshSkip(Server) \/ RefreshStat(Server) \/ RefreshRead(Server)
    BY <1>1 DEF Ruling, Ask, AskDebounced, AskStat, AskRead, Evaluate
  <2> QED
    BY <2>1 DEF Next, Asking
<1>2. CASE Tick
  <2>1. CASE fresh[Server] /\ ~DebouncedAt(now')
    <3>1. fresh' = [fresh EXCEPT ![Server] = FALSE]
      BY <1>2, <2>1 DEF Tick
    <3> QED
      BY <1>2, <2>1, <3>1 DEF Tick, Debounced, Next, Asking
  <2>2. CASE ~(fresh[Server] /\ ~DebouncedAt(now'))
    <3>1. fresh' = fresh
      BY <1>2, <2>2 DEF Tick, AdmissionInv, PromiseInv, TypeOK
    <3> QED
      BY <1>2, <3>1 DEF Tick, vars, instVars
  <2> QED
    BY <2>1, <2>2
<1>3. CASE Writers
  BY <1>3 DEF Writers, CallRevoke, Next
<1>4. CASE UNCHANGED admissionVars
  BY <1>4 DEF admissionVars
<1> QED
  BY <1>1, <1>2, <1>3, <1>4 DEF AdmissionNext

\* An answer from a held set that lacks only what was answered Ok for within the
\* interval, or never.
LEMMA AnswerStep ==
  ASSUME ClockInv, AckInv, RulingInv, NEW r \in Rulings, NEW asked \in Nat, asked <= now,
         ruling[r].stage \in Questions, Answered(r, asked),
         UNCHANGED <<now, ackedAt>>,
         \A e \in {Peer, Token} : e \notin held'[Server] => Within(e, now)
  PROVE  RulingInv'
<1> DEFINE stage == ruling[r].stage
           refused == AsksOf[stage] \in held'[Server]
           next == IF refused THEN "refused" ELSE NextStage[stage]
<1>1. {Peer, Token} \subseteq Entries /\ StatDebounce \in Nat /\ StatDebounce > 0
  BY AdmissionAssumption
<1>2. /\ now \in Nat /\ ackedAt[Peer] \in Nat /\ ackedAt[Token] \in Nat
      /\ RulingOk(r) /\ ruling[r] \in RulingType
  BY <1>1 DEF ClockInv, AckInv, RulingInv
<1>3. /\ ruling'[r].stage = next /\ ruling'[r].reading = FALSE
      /\ ruling'[r].asked = ruling[r].asked /\ ruling'[r].ruledAt = ruling[r].ruledAt
      /\ ruling'[r].peerAt = IF stage = "peer" THEN asked ELSE ruling[r].peerAt
      /\ ruling' \in [Rulings -> RulingType]
      /\ \A q \in Rulings \ {r} : ruling'[q] = ruling[q]
  <2>1. ruling \in [Rulings -> RulingType]
    BY DEF RulingInv
  <2>2. ruling'[r].stage = next
    BY <1>2, <2>1 DEF Answered, RulingType
  <2>3. /\ ruling'[r].reading = FALSE
        /\ ruling'[r].asked = ruling[r].asked /\ ruling'[r].ruledAt = ruling[r].ruledAt
    BY <1>2, <2>1 DEF Answered, RulingType
  <2>4. ruling'[r].peerAt = IF stage = "peer" THEN asked ELSE ruling[r].peerAt
    BY <1>2, <2>1 DEF Answered, RulingType
  <2>5. \A q \in Rulings \ {r} : ruling'[q] = ruling[q]
    BY <1>2, <2>1 DEF Answered, RulingType
  <2>6. next \in Questions \cup {"evaluate", "admitted", "refused"}
    BY DEF NextStage, Questions
  <2>7. ruling' \in [Rulings -> RulingType]
    BY <1>2, <2>1, <2>6 DEF Answered, RulingType
  <2> QED
    BY <2>2, <2>3, <2>4, <2>5, <2>7
<1>4. RulingOk(r)'
  <2>1. CASE refused
    BY <1>2, <1>3, <2>1 DEF RulingOk, RulingType
  <2>2. CASE ~refused /\ stage = "peer"
    <3>1. next = "token" /\ Within(Peer, now)
      BY <2>2 DEF AsksOf, NextStage
    <3>2. Within(Peer, asked)
      BY <1>1, <1>2, <3>1 DEF Within
    <3> QED
      BY <1>2, <1>3, <2>2, <3>1, <3>2 DEF RulingOk, RulingType, Within
  <2>3. CASE ~refused /\ stage = "token"
    <3>1. next = "evaluate"
      BY <2>3 DEF NextStage
    <3> QED
      BY <1>2, <1>3, <2>3, <3>1 DEF RulingOk, RulingType, Within
  <2>4. CASE ~refused /\ stage = "again"
    <3>1. next = "admitted" /\ Within(Token, now)
      BY <2>4 DEF AsksOf, NextStage
    <3>2. Within(Token, ruling[r].ruledAt)
      BY <1>1, <1>2, <3>1 DEF Within, RulingOk, RulingType
    <3> QED
      BY <1>2, <1>3, <2>4, <3>1, <3>2 DEF RulingOk, RulingType, Within
  <2> QED
    BY <2>1, <2>2, <2>3, <2>4 DEF Questions
<1>5. ASSUME NEW q \in Rulings \ {r} PROVE RulingOk(q)'
  BY <1>3, <1>5 DEF RulingInv, RulingOk, Within
<1> QED
  BY <1>3, <1>4, <1>5 DEF RulingInv

\* What is in no file was never answered Ok for.
LEMMA Unacked ==
  ASSUME ClockInv, AckInv, NEW e \in Entries, e \notin acked PROVE Within(e, now)
<1>1. now \in Nat /\ now <= MaxTime /\ ackedAt[e] = MaxTime + StatDebounce + 1
  BY DEF ClockInv, AckInv, Never
<1>2. MaxTime \in Nat /\ StatDebounce \in Nat
  BY AdmissionAssumption
<1> QED
  BY <1>1, <1>2 DEF Within

\* With no file there is no Ok, and with the stamp of the file all of it is held.
LEMMA SkipHolds ==
  ASSUME PromiseInv, NEW i \in Instances, RefreshSkip(i) PROVE acked \subseteq held[i]
<1>1. CASE dir.file.id = NoStamp
  <2>1. dir.file = NoFile
    BY <1>1 DEF PromiseInv, BodyInv, FileInv
  <2> QED
    BY <2>1 DEF PromiseInv, AckedInFile, NoFile
<1>2. CASE Unchanged(stamp[i], dir.file.id)
  <2>1. Is(stamp[i]) /\ Running(i)
    BY <1>2 DEF RefreshSkip, RefreshDue, Unchanged, Is
  <2>2. StampOk(i)
    BY DEF PromiseInv, CurrentInv, StampInv
  <2>3. dir.file.entries \subseteq held[i]
    BY <2>1, <2>2 DEF StampOk, Running, Has
  <2> QED
    BY <2>3 DEF PromiseInv, AckedInFile
<1> QED
  BY <1>1, <1>2 DEF RefreshSkip

LEMMA ReadHolds ==
  ASSUME PromiseInv, NEW i \in Instances, RefreshRead(i) PROVE acked \subseteq held'[i]
<1>1. acked \subseteq dir.file.entries /\ Fits(dir.file.entries, dir.file.bad)
  BY DEF PromiseInv, AckedInFile, FileFits
<1>2. CASE dir.file.id = NoStamp
  <2>1. dir.file = NoFile
    BY <1>2 DEF PromiseInv, BodyInv, FileInv
  <2> QED
    BY <1>1, <2>1 DEF NoFile
<1>3. CASE dir.file.id # NoStamp
  <2>1. held'[i] = held[i] \cup dir.file.entries
    BY <1>1, <1>3 DEF RefreshRead, RefreshUnion, Joined, PromiseInv, TypeOK
  <2> QED
    BY <1>1, <2>1
<1> QED
  BY <1>2, <1>3
-----------------------------------------------------------------------------
(* Every step keeps the rest of AdmissionInv.                                *)

RulingsInv == ClockInv /\ AckInv /\ KnownInv /\ RulingInv

LEMMA AskStep ==
  ASSUME AdmissionInv, NEW r \in Rulings, Ask(r) PROVE RulingsInv'
<1>1. /\ PromiseInv /\ ClockInv /\ AckInv /\ KnownInv /\ RulingInv /\ TypeOK
      /\ Server \in Instances /\ {Peer, Token} \subseteq Entries
      /\ StatDebounce \in Nat /\ StatDebounce > 0
  BY AdmissionAssumption DEF AdmissionInv, PromiseInv
<1>2. /\ ruling[r].stage \in Questions /\ UNCHANGED <<now, ackedAt>>
      /\ now \in Nat /\ now <= now
  BY <1>1 DEF Ask, ClockInv
<1>3. acked' = acked
  BY DEF Ask, AskDebounced, AskStat, RefreshSkip, RefreshStat, vars, callVars
<1>4. AckInv'
  BY <1>1, <1>2, <1>3 DEF AckInv
<1>5. CASE AskDebounced(r)
  <2>1. UNCHANGED <<vars, lastStat>> /\ Answered(r, now)
    BY <1>5 DEF AskDebounced
  <2>2. UNCHANGED <<live, held, fresh, look, lastStat>>
    BY <2>1 DEF vars, instVars
  <2>3. ClockInv' /\ KnownInv'
    BY <1>1, <1>2, <1>3, <2>2 DEF ClockInv, KnownInv, Running
  <2>4. ASSUME NEW e \in {Peer, Token}, e \notin held'[Server] PROVE Within(e, now)
    <3>1. CASE e \notin acked
      BY <1>1, <3>1, Unacked
    <3>2. CASE e \in acked
      <4>1. /\ Running(Server) /\ look[Server] = NoStamp /\ now < lastStat + StatDebounce
            /\ lastStat \in Nat /\ ackedAt[e] \in Nat
        BY <1>1, <1>5 DEF AskDebounced, ClockInv, AckInv
      <4>2. ~(ackedAt[e] < lastStat)
        BY <1>1, <2>2, <2>4, <3>2, <4>1 DEF KnownInv
      <4> QED
        BY <1>1, <1>2, <4>1, <4>2 DEF Within
    <3> QED
      BY <3>1, <3>2
  <2>5. RulingInv'
    BY <1>1, <1>2, <2>1, <2>4, AnswerStep
  <2> QED
    BY <1>4, <2>3, <2>5 DEF RulingsInv
<1>6. ASSUME AskStat(r) PROVE ClockInv'
  <2>1. /\ lastStat' = now /\ Running(Server) /\ live' = live
    BY <1>6 DEF AskStat, RefreshSkip, RefreshStat, RefreshDue
  <2> QED
    BY <1>1, <1>2, <2>1 DEF ClockInv, Running
<1>7. CASE AskStat(r) /\ RefreshSkip(Server) /\ Answered(r, now)
  <2>1. acked \subseteq held[Server] /\ held' = held
    BY <1>1, <1>7, SkipHolds DEF RefreshSkip
  <2>2. KnownInv'
    BY <1>3, <2>1 DEF KnownInv
  <2>3. \A e \in {Peer, Token} : e \notin held'[Server] => Within(e, now)
    BY <1>1, <2>1, Unacked
  <2>4. RulingInv'
    BY <1>1, <1>2, <1>7, <2>3, AnswerStep
  <2> QED
    BY <1>4, <1>6, <1>7, <2>2, <2>4 DEF RulingsInv
<1>8. CASE /\ AskStat(r) /\ RefreshStat(Server)
           /\ ruling' = [ruling EXCEPT ![r].reading = TRUE, ![r].asked = now]
  <2>1. look'[Server] # NoStamp
    BY <1>1, <1>8 DEF RefreshStat, TypeOK
  <2>2. KnownInv'
    BY <2>1 DEF KnownInv
  <2>3. ruling[r] \in RulingType /\ RulingOk(r) /\ ruling \in [Rulings -> RulingType]
    BY <1>1 DEF RulingInv
  <2>4. /\ ruling'[r].stage = ruling[r].stage /\ ruling'[r].asked = now
        /\ ruling'[r].peerAt = ruling[r].peerAt /\ ruling'[r].ruledAt = ruling[r].ruledAt
        /\ \A q \in Rulings \ {r} : ruling'[q] = ruling[q]
        /\ ruling' \in [Rulings -> RulingType]
    BY <1>2, <1>8, <2>3 DEF RulingType
  <2>5. RulingOk(r)'
    BY <1>2, <2>3, <2>4 DEF RulingOk, Within
  <2>6. \A q \in Rulings \ {r} : RulingOk(q)'
    BY <1>1, <1>2, <2>4 DEF RulingInv, RulingOk, Within
  <2> QED
    BY <1>4, <1>6, <1>8, <2>2, <2>4, <2>5, <2>6 DEF RulingsInv, RulingInv
<1> QED
  BY <1>5, <1>7, <1>8 DEF Ask, AskStat

LEMMA AskReadStep ==
  ASSUME AdmissionInv, NEW r \in Rulings, AskRead(r) PROVE RulingsInv'
<1>1. /\ PromiseInv /\ ClockInv /\ AckInv /\ KnownInv /\ RulingInv /\ TypeOK
      /\ Server \in Instances /\ {Peer, Token} \subseteq Entries
  BY AdmissionAssumption DEF AdmissionInv, PromiseInv
<1>2. /\ UNCHANGED <<now, lastStat, ackedAt, acked, fresh, live>>
      /\ RefreshRead(Server) /\ Answered(r, ruling[r].asked)
  BY DEF AskRead, RefreshRead, callVars
<1>3. ruling[r].stage \in Questions /\ ruling[r].asked \in Nat /\ ruling[r].asked <= now
  BY <1>1 DEF AskRead, RulingInv, RulingOk, RulingType
<1>4. acked \subseteq held'[Server]
  BY <1>1, <1>2, ReadHolds
<1>5. ClockInv' /\ AckInv' /\ KnownInv'
  BY <1>1, <1>2, <1>4 DEF ClockInv, AckInv, KnownInv, Running
<1>6. \A e \in {Peer, Token} : e \notin held'[Server] => Within(e, now)
  BY <1>1, <1>4, Unacked
<1>7. RulingInv'
  BY <1>1, <1>2, <1>3, <1>6, AnswerStep
<1> QED
  BY <1>5, <1>7 DEF RulingsInv

LEMMA EvaluateStep ==
  ASSUME AdmissionInv, NEW r \in Rulings, Evaluate(r) PROVE RulingsInv'
<1>1. ClockInv /\ AckInv /\ KnownInv /\ RulingInv
  BY DEF AdmissionInv
<1>2. UNCHANGED <<now, lastStat, ackedAt, acked, fresh, live, held, look>>
  BY DEF Evaluate, vars, instVars, callVars
<1>3. ClockInv' /\ AckInv' /\ KnownInv'
  BY <1>1, <1>2 DEF ClockInv, AckInv, KnownInv, Running
<1>4. /\ ruling[r] \in RulingType /\ RulingOk(r) /\ ruling \in [Rulings -> RulingType]
      /\ ruling[r].stage = "evaluate" /\ now \in Nat /\ NextStage["evaluate"] = "again"
  BY <1>1 DEF RulingInv, Evaluate, ClockInv, NextStage
<1>5. /\ ruling'[r].stage = "again" /\ ruling'[r].ruledAt = now
      /\ ruling'[r].peerAt = ruling[r].peerAt /\ ruling'[r].asked = ruling[r].asked
      /\ \A q \in Rulings \ {r} : ruling'[q] = ruling[q]
      /\ ruling' \in [Rulings -> RulingType]
  BY <1>4 DEF Evaluate, RulingType, Questions
<1>6. RulingOk(r)'
  BY <1>2, <1>4, <1>5 DEF RulingOk, Within, Questions
<1>7. \A q \in Rulings \ {r} : RulingOk(q)'
  BY <1>1, <1>2, <1>5 DEF RulingInv, RulingOk, Within
<1> QED
  BY <1>3, <1>5, <1>6, <1>7 DEF RulingsInv, RulingInv

LEMMA TickStep == ASSUME AdmissionInv, Tick PROVE RulingsInv'
<1>1. /\ ClockInv /\ AckInv /\ KnownInv /\ RulingInv /\ TypeOK
      /\ Server \in Instances /\ StatDebounce \in Nat /\ MaxTime \in Nat
  BY AdmissionAssumption DEF AdmissionInv, PromiseInv
<1>2. UNCHANGED <<lastStat, ackedAt, acked, live, held, look, ruling>>
  BY DEF Tick, callVars
<1>3. now < MaxTime /\ now' = now + 1 /\ now \in Nat /\ lastStat \in Nat /\ lastStat <= now
  BY <1>1 DEF Tick, ClockInv
<1>4. fresh'[Server] => fresh[Server] /\ now' - lastStat < StatDebounce
  BY <1>1 DEF Tick, TypeOK, DebouncedAt
<1>5. ClockInv'
  BY <1>1, <1>2, <1>3, <1>4 DEF ClockInv, Running
<1>6. AckInv' /\ KnownInv'
  BY <1>1, <1>2 DEF AckInv, KnownInv, Running
<1>7. RulingInv'
  BY <1>1, <1>2, <1>3 DEF RulingInv, RulingOk, RulingType, Within
<1> QED
  BY <1>5, <1>6, <1>7 DEF RulingsInv

\* No writer asks or starts the gate's instance; it may end it.
LEMMA WritersShape ==
  ASSUME TypeOK, Writers
  PROVE  \/ UNCHANGED <<live[Server], look[Server], fresh[Server]>>
         \/ live'[Server] = "down" /\ ~fresh'[Server]
<1> USE AdmissionAssumption DEF instVars
<1>1. ASSUME NEW t \in Threads, Calling(t) \/ Progress(t) \/ IoError(t)
      PROVE  UNCHANGED <<live, look, fresh>>
  <2>1. CASE Calling(t)
    BY <2>1 DEF Calling, RevokeWrongLock, Revoke
  <2>2. CASE Progress(t)
    BY <2>2, ProgressShape
  <2>3. CASE IoError(t)
    BY <2>3 DEF IoError
  <2> QED
    BY <1>1, <2>1, <2>2, <2>3
<1>2. ASSUME NEW p \in Processes, Locking(p) PROVE UNCHANGED <<live, look, fresh>>
  BY <1>2 DEF Locking, OpenLock, TakeLock, Unlock
<1>3. ASSUME NEW died, Die(died)
      PROVE  \/ UNCHANGED <<live[Server], look[Server], fresh[Server]>>
             \/ live'[Server] = "down" /\ ~fresh'[Server]
  BY <1>3 DEF Die, Forget, TypeOK
<1>4. ASSUME RemoveFile \/ EditFile \/ RemoveWitness \/ ReplaceLock
      PROVE  UNCHANGED <<live, look, fresh>>
  BY <1>4 DEF RemoveFile, EditFile, RemoveWitness, ReplaceLock
<1> QED
  BY <1>1, <1>2, <1>3, <1>4 DEF Writers, CallRevoke, Environment, Crash, PowerCut

LEMMA WritersStep ==
  ASSUME AdmissionInv, Writers PROVE RulingsInv'
<1>1. /\ ClockInv /\ AckInv /\ KnownInv /\ RulingInv /\ TypeOK
      /\ Server \in Instances /\ {Peer, Token} \subseteq Entries
      /\ StatDebounce \in Nat /\ StatDebounce > 0
  BY AdmissionAssumption DEF AdmissionInv, PromiseInv
<1>2. [Next]_vars
  BY AsNext DEF AdmissionNext
<1>3. UNCHANGED <<now, lastStat, ruling>> /\ now \in Nat /\ lastStat <= now /\ lastStat \in Nat
  BY <1>1 DEF Writers, ClockInv
<1>4. /\ ackedAt \in [Entries -> Nat]
      /\ ackedAt' = [e \in Entries |-> IF e \in acked' \ acked THEN now ELSE ackedAt[e]]
  BY <1>1 DEF Writers, AckInv
<1>5. acked \subseteq acked' /\ acked \subseteq Entries /\ acked' \subseteq Entries
  BY <1>1, <1>2, AckedGrows, TypeStep DEF TypeOK
<1>6. AckInv'
  BY <1>1, <1>3, <1>4, <1>5 DEF AckInv
<1>7. ClockInv'
  BY <1>1, <1>3, WritersShape DEF ClockInv, Running
<1>8. KnownInv'
  <2> SUFFICES ASSUME Running(Server)', look'[Server] = NoStamp, NEW e \in acked',
                      ackedAt'[e] < lastStat'
               PROVE  e \in held'[Server]
    BY DEF KnownInv
  <2>1. Running(Server) /\ look[Server] = NoStamp
    BY <1>1, WritersShape DEF Running
  <2>2. e \in acked /\ ackedAt[e] < lastStat
    BY <1>3, <1>4, <1>5
  <2>3. held[Server] \subseteq held'[Server]
    BY <1>1, <1>2, <2>1, HeldGrows
  <2> QED
    BY <1>1, <2>1, <2>2, <2>3 DEF KnownInv
<1>9. RulingInv'
  <2> SUFFICES ASSUME NEW r \in Rulings PROVE RulingOk(r)'
    BY <1>1, <1>3 DEF RulingInv
  <2>1. RulingOk(r) /\ ruling[r] \in RulingType
    BY <1>1 DEF RulingInv
  <2>2. ASSUME NEW e \in {Peer, Token}, NEW t \in Nat, t <= now, Within(e, t)
        PROVE  Within(e, t)'
    BY <1>1, <1>3, <1>4, <2>2 DEF Within
  <2> QED
    BY <1>3, <2>1, <2>2 DEF RulingOk, RulingType
<1> QED
  BY <1>6, <1>7, <1>8, <1>9 DEF RulingsInv

LEMMA AdmissionStep ==
  ASSUME NoEdits, NoPowerCut, AdmissionInv, [AdmissionNext]_admissionVars
  PROVE  AdmissionInv'
<1>1. PromiseInv'
  BY AsNext, PromiseStep DEF AdmissionInv
<1>2. ASSUME NEW r \in Rulings, Ruling(r) PROVE RulingsInv'
  BY <1>2, AskStep, AskReadStep, EvaluateStep DEF Ruling
<1>3. ASSUME UNCHANGED admissionVars PROVE RulingsInv'
  <2>1. UNCHANGED <<now, lastStat, ruling, ackedAt, acked, fresh, live, held, look>>
    BY <1>3 DEF admissionVars, vars, instVars, callVars
  <2>2. ClockInv' /\ AckInv' /\ KnownInv'
    BY <2>1 DEF AdmissionInv, ClockInv, AckInv, KnownInv, Running
  <2>3. RulingInv'
    BY <2>1 DEF AdmissionInv, RulingInv, RulingOk, Within
  <2> QED
    BY <2>2, <2>3 DEF RulingsInv
<1>4. RulingsInv'
  BY <1>2, <1>3, TickStep, WritersStep DEF AdmissionNext
<1> QED
  BY <1>1, <1>4 DEF AdmissionInv, RulingsInv

\* As long as nobody but nauthy touches the directory and the power stays on, a
\* gate that asks another process's denylist admits nobody by an entry answered Ok
\* for more than STAT_DEBOUNCE before the question: however its rulings overlap,
\* whoever writes, and wherever a writer stops, fails or is killed.
THEOREM RevokedWithinOneInterval ==
  ASSUME NoEdits, NoPowerCut PROVE AdmissionSpec => []LiveWithinOneInterval
<1>1. AdmissionInit => AdmissionInv
  BY AdmissionStart
<1>2. AdmissionInv /\ [AdmissionNext]_admissionVars => AdmissionInv'
  BY AdmissionStep
<1>3. AdmissionInv => LiveWithinOneInterval
  BY DEF AdmissionInv, RulingInv, RulingOk, Within, Admitted, LiveWithinOneInterval
<1> QED
  BY <1>1, <1>2, <1>3, PTL DEF AdmissionSpec
=============================================================================
