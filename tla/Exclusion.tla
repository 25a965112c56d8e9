----------------------------- MODULE Exclusion -----------------------------
(***************************************************************************)
(* What the denylist is worth under a lock that does not exclude: a guard  *)
(* of the caller's own (trait Exclusive of src/revocations.rs), which      *)
(* nauthy takes at its word, or a DenylistLock whose lock file somebody    *)
(* replaced while it was in use.                                           *)
(*                                                                         *)
(* Everything else is Denylist, but that an instance started once does not *)
(* exit: what it answered for is asked of it as long as it runs.  The      *)
(* history variables record whether two writers did meet, and what each    *)
(* instance answered Ok for.                                               *)
(***************************************************************************)
EXTENDS Denylist

CONSTANTS
  OwnLockers,   \* the processes that may bring a guard of their own
  Asked,        \* the instances that are asked questions; the rest only revoke
  MaxCalls      \* bound: how many revokes are called

ASSUME ExclusionAssumption ==
  /\ OwnLockers \subseteq Processes
  /\ Asked \subseteq Instances
  /\ MaxCalls \in Nat

VARIABLES
  calls,        \* how many revokes were called
  trusted,      \* history: a revoke ran under a guard of a caller's own
  swapped,      \* history: the lock file was replaced while a revoke ran
  met,          \* history: two processes were between their read and rename
  mine          \* history: what a running instance's own revokes answered Ok for

exclusionVars == <<vars, calls, trusted, swapped, met, mine>>
-----------------------------------------------------------------------------
(* A caller's guard is no lock of this file's: it opens nothing, and nothing *)
(* shows that it keeps any other process out.  A process may take either kind*)
(* of lock, one at a time.                                                   *)
Own(p) == locked[p] /\ guard[p] = 0
TakeOwn(p) ==
  /\ p \in OwnLockers
  /\ ~locked[p]
  /\ guard[p] = 0
  /\ locked' = [locked EXCEPT ![p] = TRUE]
  /\ UNCHANGED <<fileVars, lockFile, guard, instVars, callVars, faults>>

Guarding(p) ==
  \/ TakeOwn(p)
  \/ ~Own(p) /\ OpenLock(p)
  \/ TakeLock(p) \/ Unlock(p)

\* Exclusive::guards as provided: it answers true, so a revoke goes on.
RevokeOwn(t, ask) ==
  /\ Own(Home(t))
  /\ Extend(t, ask)
  /\ Goto(t, "read")
  /\ call' = [call EXCEPT ![t] = [NoCall EXCEPT !.ask = ask]]
  /\ UNCHANGED <<fileVars, lockVars, live, stamp, malformed, fresh, look, acked,
                 written, faults>>

Revoking(t) ==
  /\ calls < MaxCalls
  /\ calls' = calls + 1
  /\ \E ask \in Asks :
       \/ RevokeOwn(t, ask)
       \/ ~Own(Home(t)) /\ (RevokeWrongLock(t, ask) \/ Revoke(t, ask))

\* Between the read of the file and the rename that takes its place.
Replacing(t) == pc[t] \in {"merge", "write"}
Meet == \E t1, t2 \in Threads : t1 # t2 /\ Replacing(t1) /\ Replacing(t2)

Answered(i) ==
  {t \in Threads : InstanceOf[t] = i /\ pc[t] = "done" /\ pc'[t] = "idle"}
Swap == lockFile' # lockFile /\ \E t \in Threads : pc[t] # "idle"
Trust == \E t \in Threads : pc[t] = "idle" /\ pc'[t] = "read" /\ Own(Home(t))
Recorded ==
  /\ trusted' = (trusted \/ Trust)
  /\ swapped' = (swapped \/ Swap)
  /\ met' = (met \/ Meet')
  /\ mine' = [i \in Instances |->
                IF Running(i)'
                THEN mine[i] \cup UNION {call[t].ask : t \in Answered(i)} ELSE {}]

ExclusionNext ==
  /\ \/ \E t \in Threads : Revoking(t)
     \/ /\ \/ \E i \in Instances : LoadRead(i) \/ LoadCheck(i)
           \/ \E i \in Asked : Asking(i)
           \/ \E p \in Processes : Guarding(p)
           \/ \E t \in Threads : Progress(t)
           \/ Environment
        /\ UNCHANGED calls
  /\ Recorded

ExclusionInit ==
  /\ Init
  /\ calls = 0
  /\ trusted = FALSE /\ swapped = FALSE /\ met = FALSE
  /\ mine = [i \in Instances |-> {}]

ExclusionSpec ==
  ExclusionInit /\ [][ExclusionNext]_exclusionVars
-----------------------------------------------------------------------------
(* Properties.                                                             *)

\* An entry answered Ok leaves the file only where two writers met between their
\* read and their rename: no other order of their steps loses one, though no lock
\* keeps them apart.
LostOnlyWhereWritersMet == ~met => AckedInFile

\* And two writers under DenylistLock meet only where the lock file was replaced
\* while a revoke ran: one removed between two revokes is noticed by the next, by
\* inode, before it reads the file.  (DenylistLock::guards.)
MeetOnlyAcrossSwap == met /\ ~trusted => swapped

\* The writer whose entry another writer's body left out goes on refusing it until
\* it exits, whoever writes and whatever its refreshes read.
LoserStillRefuses == \A i \in Instances : mine[i] \subseteq held[i]

\* And its next write brings the entry back: whatever an instance answered Ok for
\* is in every file it writes, though the file it read had lost it.
NextWriteRestores ==
  [][\A t \in Threads :
       pc[t] = "write" /\ pc'[t] = "sync" =>
         mine[InstanceOf[t]] \subseteq dir'.file.entries]_exclusionVars
=============================================================================
