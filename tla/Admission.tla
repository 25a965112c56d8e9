------------------------------ MODULE Admission ------------------------------
(***************************************************************************)
(* Rulings of a gate (src/gate.rs) over a Denylist that others write, in   *)
(* time: how long after a revoke answered Ok a gate of another process may *)
(* still admit.                                                            *)
(*                                                                         *)
(* A ruling asks its instance of the store of the peer, of the token, and, *)
(* once the evaluation is over, of the token again.  Each question is the  *)
(* refresh of Denylist, whose debounce runs by a clock here: `fresh` ends  *)
(* when STAT_DEBOUNCE has passed since the last stat, and a question within*)
(* it is answered from the held set as it is.  Any step may take any time. *)
(***************************************************************************)
EXTENDS Denylist

CONSTANTS
  Rulings,      \* rulings in progress
  Server,       \* the instance the gate asks
  Peer, Token,  \* the entries that would revoke the peer and the token
  StatDebounce, \* STAT_DEBOUNCE, in ticks
  MaxTime,      \* bound: the last instant
  MaxCalls      \* bound: how many revokes are called

ASSUME AdmissionAssumption ==
  /\ Server \in Instances
  /\ {Peer, Token} \subseteq Entries
  /\ StatDebounce \in Nat \ {0}
  /\ {MaxTime, MaxCalls} \subseteq Nat

VARIABLES
  now,          \* the clock
  lastStat,     \* State.last_stat of Server; what it is before the first is no matter
  ruling,       \* where each ruling is, and when it asked
  ackedAt,      \* history: when an entry was first answered Ok for
  calls         \* how many revokes were called

admissionVars == <<vars, now, lastStat, ruling, ackedAt, calls>>

Never == MaxTime + StatDebounce + 1
Questions == {"peer", "token", "again"}
-----------------------------------------------------------------------------
(* Rulings.                                                                *)

\* refuse_plain_revocation reads the peer first, then the token;
\* admit_unless_revoked asks of the token again after the evaluation.
NextStageOnce ==
  [peer |-> "token", token |-> "evaluate", evaluate |-> "admitted",
   again |-> "admitted"]
NextStage ==
  [peer |-> "token", token |-> "evaluate", evaluate |-> "again",
   again |-> "admitted"]
AsksOf == [peer |-> Peer, token |-> Token, again |-> Token]

\* The answer of is_revoked or is_revoked_peer, from the set as it is then.
Answered(r, asked) ==
  LET stage == ruling[r].stage IN
  ruling' = [ruling EXCEPT ![r] =
    [@ EXCEPT !.stage = IF AsksOf[stage] \in held'[Server] THEN "refused"
                                                           ELSE NextStage[stage],
              !.reading = FALSE,
              !.peerAt = IF stage = "peer" THEN asked ELSE ruling[r].peerAt]]

\* A question within STAT_DEBOUNCE of the last stat reads no file.
AskDebounced(r) ==
  /\ fresh[Server]
  /\ look[Server] = NoStamp
  /\ UNCHANGED <<vars, lastStat>>
  /\ Answered(r, now)

\* Otherwise it takes the time, then stats the file, then reads it if it changed,
\* with the state mutex held throughout.
AskStat(r) ==
  /\ lastStat' = now
  /\ \/ RefreshSkip(Server) /\ Answered(r, now)
     \/ /\ RefreshStat(Server)
        /\ ruling' = [ruling EXCEPT ![r].reading = TRUE, ![r].asked = now]

Ask(r) ==
  /\ ruling[r].stage \in Questions
  /\ ~ruling[r].reading
  /\ AskDebounced(r) \/ AskStat(r)
  /\ UNCHANGED <<now, ackedAt, calls>>

AskRead(r) ==
  /\ ruling[r].reading
  /\ RefreshRead(Server)
  /\ Answered(r, ruling[r].asked)
  /\ UNCHANGED <<now, lastStat, ackedAt, calls>>

\* The evaluation grants; what else it may answer admits nobody.
Evaluate(r) ==
  /\ ruling[r].stage = "evaluate"
  /\ ruling' = [ruling EXCEPT ![r].stage = NextStage["evaluate"], ![r].ruledAt = now]
  /\ UNCHANGED <<vars, now, lastStat, ackedAt, calls>>
-----------------------------------------------------------------------------
DebouncedThrough(t) == t - lastStat <= StatDebounce
DebouncedAt(t) == t - lastStat < StatDebounce
Tick ==
  /\ now < MaxTime
  /\ now' = now + 1
  /\ fresh' = [fresh EXCEPT ![Server] = @ /\ DebouncedAt(now')]
  /\ UNCHANGED <<fileVars, lockVars, live, held, stamp, malformed, look, callVars,
                 faults, lastStat, ruling, ackedAt, calls>>

\* Writers, in the gate's own process and another.
CallRevoke(t) ==
  /\ calls < MaxCalls
  /\ calls' = calls + 1
  /\ Calling(t)
Writers ==
  /\ \/ \E t \in Threads : CallRevoke(t)
     \/ /\ (\E t \in Threads : Progress(t)) \/ (\E p \in Processes : Locking(p))
           \/ Environment
        /\ UNCHANGED calls
  /\ ackedAt' = [e \in Entries |-> IF e \in acked' \ acked THEN now ELSE ackedAt[e]]
  /\ UNCHANGED <<now, lastStat, ruling>>

\* Every instance has just loaded a file that is not there yet.
AdmissionInit ==
  /\ dir = [file |-> NoFile, mark |-> 0]
  /\ dirs = {dir}
  /\ gen = 0
  /\ lockFile = 1
  /\ guard = [p \in Processes |-> 0]
  /\ locked = [p \in Processes |-> FALSE]
  /\ live = [i \in Instances |-> "up"]
  /\ held = [i \in Instances |-> {}]
  /\ stamp = [i \in Instances |-> NoStamp]
  /\ malformed = [i \in Instances |-> FALSE]
  /\ fresh = [i \in Instances |-> FALSE]
  /\ look = [i \in Instances |-> NoStamp]
  /\ pc = [t \in Threads |-> "idle"]
  /\ call = [t \in Threads |-> NoCall]
  /\ acked = {} /\ written = {} /\ faults = 0
  /\ now = 0 /\ lastStat = 0 /\ calls = 0
  /\ ackedAt = [e \in Entries |-> Never]
  /\ ruling = [r \in Rulings |->
                 [stage |-> "peer", reading |-> FALSE, asked |-> 0, peerAt |-> 0,
                  ruledAt |-> 0]]

Ruling(r) == Ask(r) \/ AskRead(r) \/ Evaluate(r)
AdmissionNext ==
  \/ \E r \in Rulings : Ruling(r)
  \/ Tick
  \/ Writers

AdmissionSpec == AdmissionInit /\ [][AdmissionNext]_admissionVars

\* A ruling's own thread is scheduled.  Nothing is assumed of the writers: one may
\* stop anywhere, its disk hung, its lock held.
FairAdmissionSpec == AdmissionSpec /\ \A r \in Rulings : WF_admissionVars(Ruling(r))
-----------------------------------------------------------------------------
(* Properties.                                                             *)

Admitted(r) == ruling[r].stage = "admitted"

\* A change goes live within one interval, through every step of a ruling: nobody
\* is admitted by a token that any process's revoke had answered Ok for when the
\* evaluation ended, but in the last STAT_DEBOUNCE of it; and no peer whose key had
\* been, when its own question was asked.  (stamp.rs; the second question.)
LiveWithinOneInterval ==
  \A r \in Rulings : Admitted(r) =>
    /\ ackedAt[Token] + StatDebounce > ruling[r].ruledAt
    /\ ackedAt[Peer] + StatDebounce > ruling[r].peerAt

\* No ruling waits for a writer: with one stopped at any of its system calls, in
\* the gate's own instance or elsewhere, every ruling ends.  (revoke holds the
\* state mutex for no I/O.)
RulingEnds == \A r \in Rulings : <>(ruling[r].stage \in {"admitted", "refused"})
=============================================================================
