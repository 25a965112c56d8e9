------------------------------ MODULE GateProofs ------------------------------
(* What holds of every ruling of every gate, whatever the keys, the tokens,   *)
(* the pins and the bounds, and however the world moves between two reads.    *)
EXTENDS Gate, CapProofs

(* The inductive invariant.  Each part says what a ruling has established by  *)
(* the time it is about to make a read, or has ended.                         *)

EndedBy(origin) == ruling.answer = "Admit" /\ ruling.witness.origin = origin
TokenAdmitted == EndedBy("Rooted")

TypeInv ==
  /\ gate \in Gates
  /\ now \in 0 .. MaxTime
  /\ pin \in Pins
  /\ ids \subseteq LookedUpIds /\ keys \subseteq LookedUpKeys
  /\ issued \subseteq LookedUpIds
  /\ pc \in {"idle", "done"} \cup Reads
  /\ ask \in Requests
  /\ trust \in [root : Keys, own : BOOLEAN]
  /\ first \in Answers
  /\ ruling \in Rulings
  /\ past \in Past
  /\ ruling = NoRuling <=> pc # "done"

\* Which reads belong to which path, and which admissions.
TokenReads == Reads \ {"peer", "twin"}
PathInv ==
  /\ pc \in Reads \/ TokenAdmitted => gate # "open"
  /\ pc = "twin" => ask.path = "proven"
  /\ pc \in TokenReads => ask.path # "proven" /\ ask.cap \in Presentable
  /\ pc \in TokenReads /\ ask.path = "foreign" => ask.badge \in Presentable
  /\ pc \in {"badge", "slip", "vouch", "secondbadge"} => ask.path = "foreign"
  /\ pc \in {"member", "grant", "kind"} => ask.path = "plain"
  /\ pc = "anchor" => gate = "anchored"
  /\ EndedBy("Proven") => ask.path = "proven"
  /\ TokenAdmitted => ask.path # "proven" /\ ask.cap \in Presentable
  /\ TokenAdmitted /\ ask.path = "foreign" => ask.badge \in Presentable
  /\ ruling.answer = "Admit" /\ ruling.witness.kind = "Member" =>
       TokenAdmitted /\ ask.path = "plain"

\* What was true at the start and at the last evaluation has only been added to.
PastInv ==
  /\ past.start <= now
  /\ past.revoked \subseteq keys
  /\ past.ids \subseteq ids /\ past.keys \subseteq keys
  /\ pc # "idle" => pin \in past.pins

\* The authority is known, and it is the root of the token.
Judging == Reads \ {"peer", "twin", "anchor", "token", "badge"}
Known == pc \in Judging \/ (pc = "token" /\ ask.path = "plain") \/ TokenAdmitted
TrustInv ==
  /\ gate # "anchored" => trust = ByRoot
  /\ pc \in {"owned", "record"} => trust.own
  /\ pc \in {"member", "kind"} => ~trust.own
  /\ trust.own => gate = "anchored"
  /\ gate = "anchored" /\ Known =>
       /\ trust.root = ask.cap.root
       /\ trust.own <=> ask.cap.root = Own
       /\ ask.cap.root \in past.pins \cup {Own}

\* The peer, and its twin, were asked about.
PeerInv ==
  /\ pc \in Reads \ {"peer"} \/ TokenAdmitted \/ EndedBy("Proven") =>
       ask.peer \notin past.revoked
  /\ EndedBy("Proven") => TwinOf[ask.peer] \notin past.revoked

\* The tokens were asked about again after the last evaluation.
RecallInv ==
  /\ pc \in {"secondbadge", "record", "kind"} \/ TokenAdmitted =>
       ~Recalled(ask.cap, past.ids, past.keys)
  /\ ask.path = "foreign" /\ (pc = "record" \/ TokenAdmitted) =>
       ~Recalled(ask.badge, past.ids, past.keys)

\* The evaluations granted, and would have when the ruling began.
GrantedPlain ==
  /\ ask.cap.root = trust.root
  /\ \/ Grants(ask.cap, ask.cap.root, ask.service, ask.peer, past.start)
     \/ GrantsMember(ask.cap, ask.cap.root, ask.peer, past.start)
GrantedSlip ==
  /\ ask.cap.root = trust.root
  /\ GrantsUnder(ask.cap, ask.cap.root, ask.service, Named(ask.cap), past.start)
  /\ trust.own => Own \notin Authority(ask.cap).bound
GrantInv ==
  /\ ask.path = "plain" /\ (pc \in {"second", "record", "kind"} \/ TokenAdmitted) =>
       GrantedPlain
  /\ ask.path = "foreign" =>
       /\ pc \in {"vouch", "second", "secondbadge", "record"} \/ TokenAdmitted =>
            GrantedSlip
       /\ pc \in {"second", "secondbadge", "record"} \/ TokenAdmitted =>
            GrantsMember(ask.badge, Named(ask.cap), ask.peer, past.start)
  /\ ruling.answer = "Admit" /\ ruling.witness.kind = "Member" =>
       /\ ~trust.own
       /\ GrantsMember(ask.cap, ask.cap.root, ask.peer, past.start)

\* What the own key signed is no badge, and was recorded.
OwnInv ==
  /\ trust.own /\ (pc \in Judging \ {"owned"} \/ TokenAdmitted) =>
       ~Authority(ask.cap).member
  /\ trust.own /\ TokenAdmitted => RootRevocationId(ask.cap) \in issued

\* An evaluation that ran out of time is remembered until the answer.
StarvedInv ==
  /\ past.starved => pc \in {"grant", "second", "kind", "done"}
  /\ past.starved /\ pc # "done" => ~trust.own /\ ask.path = "plain"
  /\ pc = "grant" /\ past.starved => first = "Undecided"
  /\ first = "Undecided" => past.starved
  /\ ruling.answer = "NotGranted" => ~past.starved
  /\ ruling.answer = "Undecided" => past.starved

GateInv ==
  /\ TypeInv /\ PathInv /\ PastInv /\ TrustInv
  /\ PeerInv /\ RecallInv /\ GrantInv /\ OwnInv /\ StarvedInv
-----------------------------------------------------------------------------
(* What the assumptions say of the tokens and the keys of a ruling.          *)

LEMMA CapOf ==
  ASSUME NEW cap \in Presentable
  PROVE  /\ cap \in Caps /\ cap.root \in Keys /\ cap # None
         /\ RevocationIds(cap) \subseteq Nat
         /\ RootRevocationId(cap) \in RevocationIds(cap)
<1>1. cap \in Caps
  BY GateAssumption DEF WrittenCaps
<1> QED
  BY <1>1, GateAssumption, AuthorityOf DEF Caps, RootRevocationId, RevocationIds

LEMMA AskOf ==
  ASSUME ask \in Requests
  PROVE  /\ ask.peer \in Peers /\ ask.peer \in Keys /\ TwinOf[ask.peer] \in Keys
         /\ ask.path \in {"plain", "foreign", "proven"}
         /\ ask.path = "plain" => ask.cap \in Presentable \cup {None} /\ ask.badge = None
         /\ ask.path = "foreign" => {ask.cap, ask.badge} \subseteq Presentable
         /\ ask.path = "proven" => ask.cap = None /\ ask.badge = None
  BY GateAssumption DEF Asked

LEMMA LookedUp ==
  ASSUME ask \in Requests
  PROVE  /\ LookedUpIds \subseteq Nat /\ LookedUpKeys \subseteq Keys
         /\ ask.cap \in Presentable =>
              RootRevocationId(ask.cap) \in LookedUpIds
<1>1. Tokens \subseteq Presentable
  BY AskOf DEF Tokens
<1>2. ask.cap \in Presentable => ask.cap \in Tokens
  BY CapOf DEF Tokens
<1> QED
  BY <1>1, <1>2, AskOf, CapOf DEF LookedUpIds, LookedUpKeys

\* Of the keys an authority slip names there is one.
LEMMA NamedOf ==
  ASSUME NEW cap \in Presentable, NEW x \in Authority(cap).bound
  PROVE  x = Named(cap) /\ x \in Keys /\ Authority(cap).bound = {x}
<1>1. cap \in WrittenCaps
  BY GateAssumption
<1>2. \E y \in Keys : Authority(cap).bound = {y}
  BY <1>1 DEF WrittenCaps, Authority
<1> QED
  BY <1>2 DEF Named, AuthorityBound
-----------------------------------------------------------------------------
LEMMA InitInv == Init => GateInv
<1> SUFFICES ASSUME Init PROVE GateInv
  OBVIOUS
<1> USE DEF Init, NoRuling, NoWitness
<1>1. TypeInv
  BY GateAssumption DEF TypeInv, ByRoot, Answers, Rulings, Witness, Past, Reads
<1>2. PathInv /\ PastInv /\ TrustInv /\ PeerInv /\ RecallInv /\ GrantInv /\ OwnInv
  BY DEF PathInv, PastInv, TrustInv, PeerInv, RecallInv, GrantInv, OwnInv, Reads,
     TokenReads, Judging, Known, TokenAdmitted, EndedBy, ByRoot
<1>3. StarvedInv
  BY DEF StarvedInv
<1> QED
  BY <1>1, <1>2, <1>3 DEF GateInv

\* The world moves: a ruling keeps what it established, since the clock, the store,
\* the record and the pins seen only grow.
LEMMA WorldStep ==
  ASSUME GateInv, TypeInv', UNCHANGED <<gate, asked>>,
         now <= now', ids \subseteq ids', keys \subseteq keys', issued \subseteq issued',
         past' = [past EXCEPT !.pins = past'.pins], past.pins \subseteq past'.pins,
         pc # "idle" => pin' \in past'.pins
  PROVE  GateInv'
<1> USE DEF asked
<1>1. /\ past'.start = past.start /\ past'.revoked = past.revoked
      /\ past'.ids = past.ids /\ past'.keys = past.keys /\ past'.starved = past.starved
  BY DEF GateInv, TypeInv, Past
<1>2. PathInv'
  BY DEF GateInv, PathInv, TokenAdmitted, EndedBy
<1>3. PastInv'
  <2>1. now \in Nat /\ now' \in Nat /\ past.start \in Nat
    BY GateAssumption DEF GateInv, TypeInv, Past
  <2> QED
    BY <1>1, <2>1 DEF GateInv, PastInv
<1>4. TrustInv'
  BY DEF GateInv, TrustInv, Known, TokenAdmitted, EndedBy
<1>5. PeerInv'
  BY <1>1 DEF GateInv, PeerInv, TokenAdmitted, EndedBy
<1>6. RecallInv'
  BY <1>1 DEF GateInv, RecallInv, TokenAdmitted, EndedBy
<1>7. GrantInv'
  BY <1>1 DEF GateInv, GrantInv, GrantedPlain, GrantedSlip, TokenAdmitted, EndedBy
<1>8. OwnInv'
  BY DEF GateInv, OwnInv, TokenAdmitted, EndedBy
<1>9. StarvedInv'
  BY <1>1 DEF GateInv, StarvedInv
<1> QED
  BY <1>2, <1>3, <1>4, <1>5, <1>6, <1>7, <1>8, <1>9 DEF GateInv
LEMMA MovingInv ==
  ASSUME GateInv, Tick \/ Revoke \/ (\E key \in Pins : Pin(key)) \/ Record
  PROVE  GateInv'
<1> USE DEF GateInv, TypeInv, Past, world, asked, Moving
<1>1. /\ UNCHANGED <<gate, asked>> /\ pc # "done"
      /\ LookedUpIds' = LookedUpIds /\ LookedUpKeys' = LookedUpKeys
  BY DEF Tick, Revoke, Pin, Record, LookedUpIds, LookedUpKeys, Tokens
<1>2. now \in Nat /\ MaxTime \in Nat /\ Pins \subseteq Keys \cup {None}
  BY GateAssumption
<1>3. CASE Tick
  <2>1. now' \in 0 .. MaxTime /\ now <= now' /\ UNCHANGED <<pin, ids, keys, issued, past>>
    BY <1>2, <1>3 DEF Tick
  <2>2. TypeInv'
    BY <1>1, <2>1
  <2> QED
    BY <1>1, <2>1, <2>2, WorldStep DEF PastInv
<1>4. CASE Revoke
  <2>1. /\ ids \subseteq ids' /\ keys \subseteq keys' /\ UNCHANGED <<now, pin, issued, past>>
        /\ ids' \subseteq LookedUpIds /\ keys' \subseteq LookedUpKeys
    BY <1>4 DEF Revoke
  <2>2. TypeInv'
    BY <1>1, <2>1
  <2> QED
    BY <1>1, <1>2, <2>1, <2>2, WorldStep DEF PastInv
<1>5. ASSUME NEW key \in Pins, Pin(key) PROVE GateInv'
  <2>1. /\ pin' = key /\ UNCHANGED <<now, ids, keys, issued>>
        /\ past' = [past EXCEPT !.pins = IF pc = "idle" THEN @ ELSE @ \cup {key}]
    BY <1>5 DEF Pin
  <2>2. /\ past' \in Past /\ past' = [past EXCEPT !.pins = past'.pins]
        /\ past.pins \subseteq past'.pins
        /\ pc # "idle" => pin' \in past'.pins
    BY <1>2, <2>1
  <2>3. TypeInv'
    BY <1>1, <2>1, <2>2
  <2> QED
    BY <1>1, <1>2, <2>1, <2>2, <2>3, WorldStep
<1>6. CASE Record
  <2>1. ask.cap \in Presentable
    BY <1>6, AskOf DEF Record
  <2>2. /\ issued \subseteq issued' /\ issued' \subseteq LookedUpIds
        /\ UNCHANGED <<now, pin, ids, keys, past>>
    BY <1>6, <2>1, LookedUp DEF Record
  <2>3. TypeInv'
    BY <1>1, <2>2
  <2> QED
    BY <1>1, <1>2, <2>2, <2>3, WorldStep DEF PastInv
<1> QED
  BY <1>3, <1>4, <1>5, <1>6
-----------------------------------------------------------------------------
(* One step for each read of a ruling.                                       *)

LEMMA BeginInv == ASSUME GateInv, Begin PROVE GateInv'
<1>1. /\ pc = "idle" /\ UNCHANGED <<world, ask, trust, first>>
      /\ past'.start = now /\ past'.revoked = keys /\ past'.pins = {pin}
      /\ past'.ids = ids /\ past'.keys = keys /\ past'.starved = FALSE
  BY DEF Begin, Reading
<1>2. /\ ask.path \in {"plain", "foreign", "proven"}
      /\ now \in Nat /\ pin \in Keys \cup {None}
      /\ ids \subseteq Nat /\ keys \subseteq Keys
  BY AskOf, LookedUp, GateAssumption DEF GateInv, TypeInv
<1>3. \/ /\ gate # "open" /\ pc' = "peer" /\ ruling' = ruling
      \/ /\ gate = "open" /\ pc' = "done"
         /\ ruling' \in {[answer |-> "NotGranted", witness |-> NoWitness],
                        [answer |-> "Admit", witness |-> NoWitness]}
  BY DEF Begin, Goto, Refuse, Admit, Rule, NoWitness
<1>4. /\ ruling'.answer \in {"none", "NotGranted", "Admit"}
      /\ ruling'.witness = NoWitness /\ ruling = NoRuling
  BY <1>1, <1>3 DEF GateInv, TypeInv, NoRuling, Reads
<1>5. ~TokenAdmitted' /\ ~EndedBy("Proven")'
  BY <1>4 DEF TokenAdmitted, EndedBy, NoWitness
<1>6. TypeInv'
  <2>1. past' \in Past
    BY <1>2 DEF Begin, Past
  <2>2. /\ ruling' \in Rulings /\ pc' \in {"done"} \cup Reads
        /\ ruling' = NoRuling <=> pc' # "done"
    BY <1>3, <1>4 DEF Rulings, Witness, Reads, NoRuling, NoWitness, Refusals
  <2>3. LookedUpIds' = LookedUpIds /\ LookedUpKeys' = LookedUpKeys
    BY <1>1 DEF LookedUpIds, LookedUpKeys, Tokens
  <2> QED
    BY <1>1, <2>1, <2>2, <2>3 DEF GateInv, TypeInv, world
<1>7. PathInv'
  BY <1>1, <1>3, <1>4, <1>5 DEF PathInv, Reads, TokenReads, NoWitness, world
<1>8. PastInv'
  BY <1>1, <1>2 DEF PastInv, world
<1>9. TrustInv'
  BY <1>1, <1>3, <1>5 DEF GateInv, TrustInv, Known, Judging, Reads, world
<1>10. PeerInv' /\ RecallInv' /\ OwnInv'
  BY <1>3, <1>5 DEF PeerInv, RecallInv, OwnInv, Judging, Reads
<1>11. GrantInv'
  BY <1>3, <1>4, <1>5 DEF GrantInv, NoWitness
<1>12. StarvedInv'
  <2>1. first # "Undecided"
    BY <1>1 DEF GateInv, StarvedInv
  <2> QED
    BY <1>1, <1>3, <1>4, <2>1 DEF StarvedInv
<1> QED
  BY <1>6, <1>7, <1>8, <1>9, <1>10, <1>11, <1>12 DEF GateInv

\* What every read leaves alone, and what it needs of the types.
LEMMA ReadType ==
  ASSUME GateInv, UNCHANGED <<world, ask>>, pc \in Reads, pc' \in {"done"} \cup Reads,
         trust' \in [root : Keys, own : BOOLEAN], first' \in Answers,
         ruling' \in Rulings, ruling' = NoRuling <=> pc' # "done", past' \in Past
  PROVE  TypeInv'
<1>1. LookedUpIds' = LookedUpIds /\ LookedUpKeys' = LookedUpKeys
  BY DEF LookedUpIds, LookedUpKeys, Tokens
<1> QED
  BY <1>1 DEF GateInv, TypeInv, world

LEMMA Unruled ==
  ASSUME TypeInv, pc # "done"
  PROVE  ruling = NoRuling /\ ruling.answer = "none"
  BY DEF TypeInv, NoRuling

\* An evaluation is remembered with the store as it was then.
LEMMA EvaluatedPast ==
  ASSUME GateInv, UNCHANGED <<world, ask>>, pc \in Reads, pc' # "idle",
         NEW answer \in Answers, Evaluated(answer)
  PROVE  /\ past' \in Past /\ PastInv'
         /\ past'.start = past.start /\ past'.revoked = past.revoked
         /\ past'.pins = past.pins /\ past'.ids = ids /\ past'.keys = keys
         /\ past'.starved = (past.starved \/ answer = "Undecided")
<1>1. past \in Past /\ ids \subseteq Nat /\ keys \subseteq Keys /\ pc # "idle"
  BY LookedUp DEF GateInv, TypeInv, Reads
<1>2. /\ past' \in Past
      /\ past'.start = past.start /\ past'.revoked = past.revoked
      /\ past'.pins = past.pins /\ past'.ids = ids /\ past'.keys = keys
      /\ past'.starved = (past.starved \/ answer = "Undecided")
  BY <1>1 DEF Evaluated, Past
<1> QED
  BY <1>1, <1>2 DEF GateInv, PastInv, world

\* A refusal keeps nothing but whether it may say that it had time to decide.
LEMMA RefuseInv ==
  ASSUME GateInv, NEW refusal \in Refusals, Refuse(refusal), pc \in Reads,
         UNCHANGED <<world, ask, trust, first>>, past' \in Past, PastInv',
         past.starved => past'.starved,
         refusal = "NotGranted" => ~past'.starved,
         refusal = "Undecided" => past'.starved
  PROVE  GateInv'
<1>1. /\ pc' = "done" /\ ruling' = [answer |-> refusal, witness |-> NoWitness]
      /\ ruling' \in Rulings /\ ruling' # NoRuling
  BY DEF Refuse, Rule, Rulings, NoWitness, NoRuling, Witness, Refusals
<1>2. TypeInv'
  BY <1>1, ReadType DEF GateInv, TypeInv
<1>3. ruling'.answer = refusal /\ ruling'.answer # "Admit"
  BY <1>1 DEF Refusals
<1>4. PathInv'
  BY <1>1, <1>3 DEF PathInv, Reads, TokenReads, TokenAdmitted, EndedBy
<1>5. TrustInv'
  BY <1>1, <1>3 DEF GateInv, TrustInv, Known, Judging, Reads, TokenAdmitted, EndedBy, world
<1>6. PeerInv' /\ RecallInv' /\ GrantInv' /\ OwnInv'
  BY <1>1, <1>3 DEF PeerInv, RecallInv, GrantInv, OwnInv, Judging, Reads, TokenAdmitted,
     EndedBy
<1>7. StarvedInv'
  BY <1>1, <1>3 DEF GateInv, StarvedInv
<1> QED
  BY <1>2, <1>4, <1>5, <1>6, <1>7 DEF GateInv

\* Going on to a read, and admitting, keep the types.
LEMMA GotoType ==
  ASSUME GateInv, NEW read \in Reads, Goto(read), pc \in Reads, UNCHANGED <<world, ask>>,
         trust' \in [root : Keys, own : BOOLEAN], first' \in Answers, past' \in Past
  PROVE  TypeInv' /\ pc' = read /\ ruling' = ruling /\ ruling.answer = "none"
<1>1. pc' = read /\ ruling' = ruling /\ ruling = NoRuling /\ ruling.answer = "none"
  BY Unruled DEF Goto, GateInv, Reads
<1>2. ruling \in Rulings /\ pc' # "done"
  BY <1>1 DEF GateInv, TypeInv, Reads
<1> QED
  BY <1>1, <1>2, ReadType

LEMMA AdmitType ==
  ASSUME GateInv, pc \in Reads, UNCHANGED <<world, ask, trust, first, past>>,
         NEW kind \in {"Member", "Slip"}, NEW origin \in {"Rooted", "Proven"},
         Admit(kind, origin)
  PROVE  /\ TypeInv' /\ pc' = "done" /\ ruling'.answer = "Admit"
         /\ ruling'.witness.kind = kind /\ ruling'.witness.origin = origin
<1>1. /\ pc' = "done"
      /\ ruling' = [answer |-> "Admit", witness |-> [kind |-> kind, origin |-> origin]]
  BY DEF Admit, Rule
<1>2. ruling' \in Rulings /\ ruling' # NoRuling
  BY <1>1 DEF Rulings, Witness, NoRuling
<1> QED
  BY <1>1, <1>2, ReadType DEF GateInv, TypeInv

LEMMA ReadPeerInv == ASSUME GateInv, ReadPeer PROVE GateInv'
<1>1. pc = "peer" /\ pc \in Reads /\ UNCHANGED <<world, ask, trust, first, past>>
  BY DEF ReadPeer, Reading, Reads
<1>2. past' \in Past /\ (pc' # "idle" => PastInv')
  BY <1>1 DEF GateInv, TypeInv, PastInv, Reads, world
<1>3. ASSUME NEW refusal \in {"Revoked", "Missing"}, Refuse(refusal) PROVE GateInv'
  BY <1>1, <1>2, <1>3, RefuseInv DEF Refusals, Refuse, Rule
<1>4. ASSUME NEW read \in {"twin", "anchor", "token"}, Goto(read), ask.peer \notin keys,
             read = "twin" <=> ask.path = "proven",
             ask.path = "plain" => ask.cap # None,
             read = "anchor" => ask.path = "plain" /\ gate = "anchored",
             ask.path = "plain" /\ gate = "anchored" => read = "anchor"
      PROVE GateInv'
  <2>1. /\ TypeInv' /\ pc' = read /\ ruling' = ruling /\ ruling.answer = "none"
        /\ read # "idle"
    BY <1>1, <1>4, GotoType DEF GateInv, TypeInv, Reads
  <2>2. PathInv'
    BY <1>1, <1>4, <2>1, AskOf DEF GateInv, TypeInv, PathInv, Reads, TokenReads,
       TokenAdmitted, EndedBy, world
  <2>3. PastInv' /\ PeerInv'
    BY <1>1, <1>2, <1>4, <2>1 DEF GateInv, PastInv, PeerInv, TokenAdmitted, EndedBy
  <2>4. TrustInv'
    BY <1>1, <1>4, <2>1 DEF GateInv, TrustInv, Known, Judging, Reads, TokenAdmitted,
       EndedBy, world
  <2>5. RecallInv' /\ GrantInv' /\ OwnInv'
    BY <1>4, <2>1 DEF RecallInv, GrantInv, OwnInv, Judging, Reads, TokenAdmitted, EndedBy
  <2>6. StarvedInv'
    BY <1>1, <2>1 DEF GateInv, StarvedInv
  <2> QED
    BY <2>1, <2>2, <2>3, <2>4, <2>5, <2>6 DEF GateInv
<1> QED
  BY <1>3, <1>4, AskOf DEF ReadPeer, GateInv, TypeInv
LEMMA ReadTwinInv == ASSUME GateInv, ReadTwin PROVE GateInv'
<1>1. /\ pc = "twin" /\ pc \in Reads /\ ask.path = "proven"
      /\ UNCHANGED <<world, ask, trust, first, past>>
  BY DEF ReadTwin, Reading, Reads, GateInv, PathInv
<1>2. past' \in Past /\ (pc' # "idle" => PastInv')
  BY <1>1 DEF GateInv, TypeInv, PastInv, Reads, world
<1>3. CASE Refuse("Revoked")
  BY <1>1, <1>2, <1>3, RefuseInv DEF Refusals, Refuse, Rule
<1>4. CASE TwinOf[ask.peer] \notin keys /\ Admit("Slip", "Proven")
  <2>1. /\ TypeInv' /\ pc' = "done" /\ ruling'.answer = "Admit"
        /\ ruling'.witness.kind = "Slip" /\ ruling'.witness.origin = "Proven"
    BY <1>1, <1>4, AdmitType
  <2>2. ~TokenAdmitted'
    BY <2>1 DEF TokenAdmitted, EndedBy
  <2>3. PathInv' /\ TrustInv'
    BY <1>1, <2>1, <2>2 DEF GateInv, PathInv, TrustInv, Known, Judging, Reads,
       TokenReads, TokenAdmitted, EndedBy, world
  <2>4. PeerInv'
    BY <1>1, <1>4, <2>1, <2>2 DEF GateInv, PeerInv, PastInv, Reads
  <2>5. RecallInv' /\ GrantInv' /\ OwnInv'
    BY <2>1, <2>2 DEF RecallInv, GrantInv, OwnInv, Judging, Reads
  <2>6. StarvedInv'
    BY <1>1, <2>1 DEF GateInv, StarvedInv
  <2> QED
    BY <1>2, <2>1, <2>3, <2>4, <2>5, <2>6 DEF GateInv
<1> QED
  BY <1>3, <1>4 DEF ReadTwin, SignTwin

\* The pin as it is now decides which key the token is ruled under.
LEMMA AuthorityFrom ==
  ASSUME NEW cap \in Presentable, pin \in Pins, NEW authority \in Authorities(cap)
  PROVE  /\ authority \in [root : Keys, own : BOOLEAN]
         /\ authority.root = cap.root
         /\ authority.own <=> cap.root = Own
         /\ cap.root \in {pin, Own}
<1>1. cap.root \in Keys /\ Own \in Keys /\ None \notin Keys
  BY CapOf, GateAssumption
<1>2. CASE cap.root = AnchorPin
  <2>1. pin # Own /\ cap.root = pin /\ authority = [root |-> cap.root, own |-> FALSE]
    BY <1>1, <1>2 DEF Authorities, AnchorPin
  <2> QED
    BY <1>1, <2>1
<1>3. CASE cap.root = Own /\ cap.root # AnchorPin
  <2>1. authority = [root |-> Own, own |-> TRUE]
    BY <1>3 DEF Authorities
  <2> QED
    BY <1>1, <1>3, <2>1
<1>4. cap.root = AnchorPin \/ cap.root = Own
  BY DEF Authorities
<1> QED
  BY <1>2, <1>3, <1>4

LEMMA ReadPinInv == ASSUME GateInv, ReadPin PROVE GateInv'
<1>1. /\ pc = "anchor" /\ pc \in Reads /\ UNCHANGED <<world, ask, first, past>>
      /\ ask.cap \in Presentable /\ ask.path \in {"plain", "foreign"}
      /\ ~past.starved /\ pin \in Pins
  BY AskOf DEF ReadPin, Reading, Reads, TokenReads, GateInv, PathInv, TypeInv, StarvedInv
<1>2. past' \in Past /\ (pc' # "idle" => PastInv')
  BY <1>1 DEF GateInv, TypeInv, PastInv, Reads, world
<1>3. CASE Refuse("NotGranted") /\ UNCHANGED trust
  BY <1>1, <1>2, <1>3, RefuseInv DEF Refusals, Refuse, Rule
<1>4. ASSUME NEW authority \in Authorities(ask.cap), trust' = authority,
             NEW read \in {"token", "owned", "slip"}, Goto(read),
             read = "token" <=> ask.path = "plain",
             read = "owned" => authority.own, read = "slip" => ~authority.own
      PROVE GateInv'
  <2>1. /\ authority \in [root : Keys, own : BOOLEAN]
        /\ authority.root = ask.cap.root
        /\ authority.own <=> ask.cap.root = Own
        /\ ask.cap.root \in {pin, Own}
    BY <1>1, AuthorityFrom
  <2>2. /\ TypeInv' /\ pc' = read /\ ruling' = ruling /\ ruling.answer = "none"
        /\ read # "idle"
    BY <1>1, <1>2, <1>4, <2>1, GotoType DEF GateInv, TypeInv, Reads
  <2>3. PathInv'
    BY <1>1, <1>4, <2>2 DEF GateInv, PathInv, Reads, TokenReads, TokenAdmitted, EndedBy,
       world
  <2>4. PastInv' /\ PeerInv'
    BY <1>1, <1>2, <1>4, <2>2 DEF GateInv, PeerInv, TokenAdmitted, EndedBy, Reads
  <2>5. gate = "anchored" /\ pin \in past.pins
    BY <1>1 DEF GateInv, PathInv, PastInv, TypeInv
  <2>6. TrustInv'
    BY <1>1, <1>4, <2>1, <2>2, <2>5 DEF TrustInv, world
  <2>7. RecallInv' /\ GrantInv'
    BY <1>4, <2>2 DEF RecallInv, GrantInv, TokenAdmitted, EndedBy
  <2>8. OwnInv'
    BY <1>4, <2>2 DEF OwnInv, Judging, Reads, TokenAdmitted, EndedBy
  <2>9. StarvedInv'
    BY <1>1, <2>2 DEF GateInv, StarvedInv
  <2> QED
    BY <2>2, <2>3, <2>4, <2>6, <2>7, <2>8, <2>9 DEF GateInv
<1> QED
  BY <1>1, <1>3, <1>4 DEF ReadPin

LEMMA ReadTokenInv == ASSUME GateInv, ReadToken PROVE GateInv'
<1>1. /\ pc = "token" /\ pc \in Reads /\ UNCHANGED <<world, ask, trust, first, past>>
      /\ ask.cap \in Presentable /\ ask.path \in {"plain", "foreign"} /\ ~past.starved
  BY AskOf DEF ReadToken, Reading, Reads, TokenReads, GateInv, PathInv, TypeInv, StarvedInv
<1>2. past' \in Past /\ (pc' # "idle" => PastInv')
  BY <1>1 DEF GateInv, TypeInv, PastInv, Reads, world
<1>3. CASE Refuse("Revoked")
  BY <1>1, <1>2, <1>3, RefuseInv DEF Refusals, Refuse, Rule
<1>4. ASSUME NEW read \in {"badge", "owned", "member"}, Goto(read),
             read = "badge" <=> ask.path = "foreign",
             read = "owned" => trust.own, read = "member" => ~trust.own
      PROVE GateInv'
  <2>1. /\ TypeInv' /\ pc' = read /\ ruling' = ruling /\ ruling.answer = "none"
        /\ read # "idle"
    BY <1>1, <1>2, <1>4, GotoType DEF GateInv, TypeInv, Reads
  <2>2. PathInv'
    BY <1>1, <1>4, <2>1 DEF GateInv, PathInv, Reads, TokenReads, TokenAdmitted, EndedBy,
       world
  <2>3. PastInv' /\ PeerInv'
    BY <1>1, <1>2, <1>4, <2>1 DEF GateInv, PeerInv, TokenAdmitted, EndedBy, Reads
  <2>4. TrustInv'
    BY <1>1, <1>4, <2>1 DEF GateInv, TrustInv, Known, Judging, Reads, TokenAdmitted,
       EndedBy, world
  <2>5. RecallInv' /\ GrantInv' /\ OwnInv'
    BY <1>1, <1>4, <2>1 DEF RecallInv, GrantInv, OwnInv, Judging, Reads, TokenAdmitted,
       EndedBy
  <2>6. StarvedInv'
    BY <1>1, <2>1 DEF GateInv, StarvedInv
  <2> QED
    BY <2>1, <2>2, <2>3, <2>4, <2>5, <2>6 DEF GateInv
<1> QED
  BY <1>1, <1>3, <1>4 DEF ReadToken

LEMMA ReadBadgeInv == ASSUME GateInv, ReadBadge PROVE GateInv'
<1>1. /\ pc = "badge" /\ pc \in Reads /\ UNCHANGED <<world, ask, trust, first, past>>
      /\ ask.cap \in Presentable /\ ask.path = "foreign" /\ ~past.starved
  BY DEF ReadBadge, Reading, Reads, TokenReads, GateInv, PathInv, StarvedInv
<1>2. past' \in Past /\ (pc' # "idle" => PastInv')
  BY <1>1 DEF GateInv, TypeInv, PastInv, Reads, world
<1>3. CASE Refuse("Revoked")
  BY <1>1, <1>2, <1>3, RefuseInv DEF Refusals, Refuse, Rule
<1>4. ASSUME NEW read \in {"anchor", "slip"}, Goto(read),
             read = "anchor" <=> gate = "anchored"
      PROVE GateInv'
  <2>1. /\ TypeInv' /\ pc' = read /\ ruling' = ruling /\ ruling.answer = "none"
        /\ read # "idle"
    BY <1>1, <1>2, <1>4, GotoType DEF GateInv, TypeInv, Reads
  <2>2. PathInv'
    BY <1>1, <1>4, <2>1 DEF GateInv, PathInv, Reads, TokenReads, TokenAdmitted, EndedBy,
       world
  <2>3. PastInv' /\ PeerInv'
    BY <1>1, <1>2, <1>4, <2>1 DEF GateInv, PeerInv, TokenAdmitted, EndedBy, Reads
  <2>4. TrustInv'
    BY <1>1, <1>4, <2>1 DEF GateInv, TrustInv, Known, Judging, Reads, TokenAdmitted,
       EndedBy, world
  <2>5. RecallInv' /\ GrantInv'
    BY <1>1, <1>4, <2>1 DEF RecallInv, GrantInv, TokenAdmitted, EndedBy
  <2>6. OwnInv'
    BY <1>1, <1>4, <2>1 DEF GateInv, TrustInv, OwnInv, Judging, Reads, TokenAdmitted,
       EndedBy
  <2>7. StarvedInv'
    BY <1>1, <2>1 DEF GateInv, StarvedInv
  <2> QED
    BY <2>1, <2>2, <2>3, <2>4, <2>5, <2>6, <2>7 DEF GateInv
<1> QED
  BY <1>1, <1>3, <1>4 DEF ReadBadge
-----------------------------------------------------------------------------
(* The evaluations.                                                          *)

\* What an evaluation granted now it would have granted when the ruling began.
LEMMA GrantedAtStart ==
  ASSUME GateInv, NEW cap \in Presentable, NEW root, NEW service, NEW who
  PROVE  /\ Grants(cap, root, service, who, now) =>
              Grants(cap, root, service, who, past.start)
         /\ GrantsMember(cap, root, who, now) => GrantsMember(cap, root, who, past.start)
         /\ GrantsUnder(cap, root, service, who, now) =>
              GrantsUnder(cap, root, service, who, past.start)
<1>1. now \in Nat /\ past.start \in Nat /\ past.start <= now
  BY GateAssumption DEF GateInv, TypeInv, Past, PastInv
<1>2. cap \in Caps
  BY CapOf
<1> QED
  BY <1>1, <1>2, GrantedEarlier

LEMMA ReadOwnedInv == ASSUME GateInv, ReadOwned PROVE GateInv'
<1>1. /\ pc = "owned" /\ pc \in Reads /\ UNCHANGED <<world, ask, trust, first>>
      /\ ask.cap \in Presentable /\ ask.path \in {"plain", "foreign"}
      /\ trust.own /\ ~past.starved /\ first # "Undecided"
  BY AskOf DEF ReadOwned, Reading, Reads, TokenReads, GateInv, PathInv, TypeInv,
     TrustInv, StarvedInv
<1>2. PICK answer \in MemberBadge(ask.cap) :
        /\ Evaluated(answer)
        /\ IF answer # "NotGranted" THEN Refuse(RefuseMember(answer))
           ELSE IF ask.path = "foreign" THEN Goto("slip")
           ELSE Goto("grant")
  BY DEF ReadOwned
<1>3. /\ answer \in Answers
      /\ answer = "NotGranted" => ~Authority(ask.cap).member
  BY DEF MemberBadge, Evaluations, Answers, IsMemberBadge
<1>4. pc' # "idle"
  BY <1>2 DEF Refuse, Rule, Goto
<1>5. /\ past' \in Past /\ PastInv'
      /\ past'.start = past.start /\ past'.revoked = past.revoked
      /\ past'.pins = past.pins
      /\ past'.starved = (answer = "Undecided")
  BY <1>1, <1>2, <1>3, <1>4, EvaluatedPast
<1>6. CASE answer # "NotGranted"
  <2>1. Refuse(RefuseMember(answer))
    BY <1>2, <1>6
  <2>2. /\ RefuseMember(answer) \in Refusals
        /\ RefuseMember(answer) = "NotGranted" => ~past'.starved
        /\ RefuseMember(answer) = "Undecided" => past'.starved
    BY <1>3, <1>5, <1>6 DEF RefuseMember, Answers, Refusals
  <2> QED
    BY <1>1, <1>5, <2>1, <2>2, RefuseInv
<1>7. ASSUME NEW read \in {"slip", "grant"}, Goto(read), answer = "NotGranted",
             read = "slip" <=> ask.path = "foreign"
      PROVE GateInv'
  <2>1. /\ TypeInv' /\ pc' = read /\ ruling' = ruling /\ ruling.answer = "none"
    BY <1>1, <1>5, <1>7, GotoType DEF GateInv, TypeInv, Reads
  <2>2. PathInv'
    BY <1>1, <1>7, <2>1 DEF GateInv, PathInv, Reads, TokenReads, TokenAdmitted, EndedBy,
       world
  <2>3. PeerInv'
    BY <1>1, <1>5, <1>7, <2>1 DEF GateInv, PeerInv, TokenAdmitted, EndedBy, Reads
  <2>4. TrustInv'
    BY <1>1, <1>5, <1>7, <2>1 DEF GateInv, TrustInv, Known, Judging, Reads,
       TokenAdmitted, EndedBy, world
  <2>5. RecallInv' /\ GrantInv'
    BY <1>1, <1>7, <2>1 DEF RecallInv, GrantInv, TokenAdmitted, EndedBy
  <2>6. OwnInv'
    BY <1>1, <1>3, <1>7, <2>1 DEF OwnInv, TokenAdmitted, EndedBy
  <2>7. StarvedInv'
    BY <1>1, <1>5, <1>7, <2>1 DEF StarvedInv
  <2> QED
    BY <1>5, <2>1, <2>2, <2>3, <2>4, <2>5, <2>6, <2>7 DEF GateInv
<1> QED
  BY <1>1, <1>2, <1>6, <1>7

LEMMA AskMemberInv == ASSUME GateInv, AskMember PROVE GateInv'
<1>1. /\ pc = "member" /\ pc \in Reads /\ UNCHANGED <<world, ask, trust>>
      /\ ask.cap \in Presentable /\ ask.path = "plain" /\ ~trust.own /\ ~past.starved
  BY DEF AskMember, Reading, Reads, TokenReads, GateInv, PathInv, TrustInv, StarvedInv
<1>2. PICK answer \in Membership(ask.cap, trust.root) :
        /\ Evaluated(answer) /\ first' = answer
        /\ Goto(IF answer = "Granted" THEN "second" ELSE "grant")
  BY DEF AskMember
<1>3. /\ answer \in Answers
      /\ answer = "Granted" =>
           /\ ask.cap.root = trust.root
           /\ GrantsMember(ask.cap, trust.root, ask.peer, now)
  BY DEF Membership, Evaluations, Answers
<1> DEFINE read == IF answer = "Granted" THEN "second" ELSE "grant"
<1>4. read \in {"second", "grant"} /\ Goto(read) /\ pc' = read
  BY <1>2 DEF Goto
<1>5. /\ past' \in Past /\ PastInv'
      /\ past'.start = past.start /\ past'.revoked = past.revoked
      /\ past'.pins = past.pins
      /\ past'.starved = (answer = "Undecided")
  BY <1>1, <1>2, <1>3, <1>4, EvaluatedPast
<1>6. TypeInv' /\ ruling' = ruling /\ ruling.answer = "none"
  BY <1>1, <1>2, <1>3, <1>4, <1>5, GotoType DEF GateInv, TypeInv, Reads
<1>7. PathInv'
  BY <1>1, <1>4, <1>6 DEF GateInv, PathInv, Reads, TokenReads, TokenAdmitted, EndedBy,
     world
<1>8. PeerInv'
  BY <1>1, <1>4, <1>5, <1>6 DEF GateInv, PeerInv, TokenAdmitted, EndedBy, Reads
<1>9. TrustInv'
  BY <1>1, <1>4, <1>5, <1>6 DEF GateInv, TrustInv, Known, Judging, Reads,
     TokenAdmitted, EndedBy, world
<1>10. RecallInv' /\ OwnInv'
  BY <1>1, <1>4, <1>6 DEF RecallInv, OwnInv, TokenAdmitted, EndedBy
<1>11. GrantInv'
  <2>1. answer = "Granted" => GrantedPlain'
    BY <1>1, <1>3, <1>5, GrantedAtStart DEF GrantedPlain
  <2> QED
    BY <1>1, <1>4, <1>6, <2>1 DEF GrantInv, TokenAdmitted, EndedBy
<1>12. StarvedInv'
  BY <1>1, <1>2, <1>4, <1>5, <1>6 DEF StarvedInv
<1> QED
  BY <1>5, <1>6, <1>7, <1>8, <1>9, <1>10, <1>11, <1>12 DEF GateInv

LEMMA AskGrantInv == ASSUME GateInv, AskGrant PROVE GateInv'
<1>1. /\ pc = "grant" /\ pc \in Reads /\ UNCHANGED <<world, ask, trust, first>>
      /\ ask.cap \in Presentable /\ ask.path = "plain" /\ first \in Answers
      /\ past.starved = (first = "Undecided") /\ past.starved \in BOOLEAN
  BY DEF AskGrant, Reading, Reads, TokenReads, GateInv, PathInv, TypeInv, Past, StarvedInv
<1>2. PICK answer \in Grant(ask.cap, trust.root) :
        /\ Evaluated(answer)
        /\ IF answer = "Granted" THEN Goto("second") ELSE Refuse(OrElse(first, answer))
  BY DEF AskGrant
<1>3. /\ answer \in Answers
      /\ answer = "Granted" =>
           /\ ask.cap.root = trust.root
           /\ Grants(ask.cap, trust.root, ask.service, ask.peer, now)
  BY DEF Grant, Evaluations, Answers
<1>4. pc' # "idle"
  BY <1>2 DEF Refuse, Rule, Goto
<1>5. /\ past' \in Past /\ PastInv'
      /\ past'.start = past.start /\ past'.revoked = past.revoked
      /\ past'.pins = past.pins
      /\ past'.starved = (past.starved \/ answer = "Undecided")
  BY <1>1, <1>2, <1>3, <1>4, EvaluatedPast
<1>6. CASE answer # "Granted"
  <2>1. Refuse(OrElse(first, answer))
    BY <1>2, <1>6
  <2>2. /\ OrElse(first, answer) \in Refusals
        /\ OrElse(first, answer) = "NotGranted" => ~past'.starved
        /\ OrElse(first, answer) = "Undecided" => past'.starved
    BY <1>1, <1>3, <1>5, <1>6 DEF OrElse, Answers, Refusals
  <2> QED
    BY <1>1, <1>5, <2>1, <2>2, RefuseInv
<1>7. CASE answer = "Granted"
  <2>1. Goto("second")
    BY <1>2, <1>7
  <2>2. TypeInv' /\ pc' = "second" /\ ruling' = ruling /\ ruling.answer = "none"
    BY <1>1, <1>5, <2>1, GotoType DEF GateInv, TypeInv, Reads
  <2>3. PathInv'
    BY <1>1, <2>2 DEF GateInv, PathInv, Reads, TokenReads, TokenAdmitted, EndedBy, world
  <2>4. PeerInv'
    BY <1>1, <1>5, <2>2 DEF GateInv, PeerInv, TokenAdmitted, EndedBy, Reads
  <2>5. TrustInv'
    BY <1>1, <1>5, <2>2 DEF GateInv, TrustInv, Known, Judging, Reads, TokenAdmitted,
       EndedBy, world
  <2>6. RecallInv' /\ OwnInv'
    BY <1>1, <2>2 DEF GateInv, RecallInv, OwnInv, Judging, Reads, TokenAdmitted, EndedBy
  <2>7. GrantInv'
    <3>1. GrantedPlain'
      BY <1>1, <1>3, <1>5, <1>7, GrantedAtStart DEF GrantedPlain
    <3> QED
      BY <1>1, <2>2, <3>1 DEF GrantInv, TokenAdmitted, EndedBy
  <2>8. StarvedInv'
    BY <1>1, <1>5, <1>7, <2>2 DEF GateInv, StarvedInv
  <2> QED
    BY <1>5, <2>2, <2>3, <2>4, <2>5, <2>6, <2>7, <2>8 DEF GateInv
<1> QED
  BY <1>6, <1>7

LEMMA AskSlipInv == ASSUME GateInv, AskSlip PROVE GateInv'
<1>1. /\ pc = "slip" /\ pc \in Reads /\ UNCHANGED <<world, ask, trust, first>>
      /\ ask.cap \in Presentable /\ ask.path = "foreign"
      /\ ~past.starved /\ first # "Undecided"
  BY DEF AskSlip, Reading, Reads, TokenReads, GateInv, PathInv, StarvedInv
<1>2. PICK answer \in Slip(ask.cap, trust.root) :
        /\ Evaluated(answer)
        /\ IF answer = "Granted" THEN Goto("vouch") ELSE Refuse(answer)
  BY DEF AskSlip
<1>3. /\ answer \in Answers
      /\ answer = "Granted" =>
           /\ ask.cap.root = trust.root
           /\ \E x \in Authority(ask.cap).bound :
                SlipNames(x) /\ GrantsUnder(ask.cap, trust.root, ask.service, x, now)
  BY DEF Slip, Evaluations, Answers, AuthorityBound
<1>4. pc' # "idle"
  BY <1>2 DEF Refuse, Rule, Goto
<1>5. /\ past' \in Past /\ PastInv'
      /\ past'.start = past.start /\ past'.revoked = past.revoked
      /\ past'.pins = past.pins
      /\ past'.starved = (answer = "Undecided")
  BY <1>1, <1>2, <1>3, <1>4, EvaluatedPast
<1>6. CASE answer # "Granted"
  <2>1. Refuse(answer) /\ answer \in Refusals
    BY <1>2, <1>3, <1>6 DEF Answers, Refusals
  <2> QED
    BY <1>1, <1>5, <2>1, RefuseInv
<1>7. CASE answer = "Granted"
  <2>1. Goto("vouch")
    BY <1>2, <1>7
  <2>2. TypeInv' /\ pc' = "vouch" /\ ruling' = ruling /\ ruling.answer = "none"
    BY <1>1, <1>5, <2>1, GotoType DEF GateInv, TypeInv, Reads
  <2>3. PathInv'
    BY <1>1, <2>2 DEF GateInv, PathInv, Reads, TokenReads, TokenAdmitted, EndedBy, world
  <2>4. PeerInv'
    BY <1>1, <1>5, <2>2 DEF GateInv, PeerInv, TokenAdmitted, EndedBy, Reads
  <2>5. TrustInv'
    BY <1>1, <1>5, <2>2 DEF GateInv, TrustInv, Known, Judging, Reads, TokenAdmitted,
       EndedBy, world
  <2>6. RecallInv' /\ OwnInv'
    BY <1>1, <2>2 DEF GateInv, RecallInv, OwnInv, Judging, Reads, TokenAdmitted, EndedBy
  <2>7. GrantInv'
    <3>1. PICK x \in Authority(ask.cap).bound :
            SlipNames(x) /\ GrantsUnder(ask.cap, trust.root, ask.service, x, now)
      BY <1>3, <1>7
    <3>2. x = Named(ask.cap) /\ Authority(ask.cap).bound = {x}
      BY <1>1, NamedOf
    <3>3. GrantsUnder(ask.cap, ask.cap.root, ask.service, Named(ask.cap), past.start)
      BY <1>1, <1>3, <1>7, <3>1, <3>2, GrantedAtStart
    <3>4. trust.own => Own \notin Authority(ask.cap).bound
      BY <3>1, <3>2 DEF SlipNames
    <3>5. GrantedSlip'
      BY <1>1, <1>3, <1>5, <1>7, <3>3, <3>4 DEF GrantedSlip, Named
    <3> QED
      BY <1>1, <2>2, <3>5 DEF GrantInv, TokenAdmitted, EndedBy
  <2>8. StarvedInv'
    BY <1>1, <1>5, <1>7, <2>2 DEF StarvedInv
  <2> QED
    BY <1>5, <2>2, <2>3, <2>4, <2>5, <2>6, <2>7, <2>8 DEF GateInv
<1> QED
  BY <1>6, <1>7

LEMMA AskVouchInv == ASSUME GateInv, AskVouch PROVE GateInv'
<1>1. /\ pc = "vouch" /\ pc \in Reads /\ UNCHANGED <<world, ask, trust, first>>
      /\ ask.cap \in Presentable /\ ask.path = "foreign" /\ ask.badge \in Presentable
      /\ ~past.starved /\ first # "Undecided"
  BY DEF AskVouch, Reading, Reads, TokenReads, GateInv, PathInv, StarvedInv
<1>2. PICK answer \in Membership(ask.badge, Named(ask.cap)) :
        /\ Evaluated(answer)
        /\ IF answer = "Granted" THEN Goto("second") ELSE Refuse(answer)
  BY DEF AskVouch
<1>3. /\ answer \in Answers
      /\ answer = "Granted" => GrantsMember(ask.badge, Named(ask.cap), ask.peer, now)
  BY DEF Membership, Evaluations, Answers
<1>4. pc' # "idle"
  BY <1>2 DEF Refuse, Rule, Goto
<1>5. /\ past' \in Past /\ PastInv'
      /\ past'.start = past.start /\ past'.revoked = past.revoked
      /\ past'.pins = past.pins
      /\ past'.starved = (answer = "Undecided")
  BY <1>1, <1>2, <1>3, <1>4, EvaluatedPast
<1>6. CASE answer # "Granted"
  <2>1. Refuse(answer) /\ answer \in Refusals
    BY <1>2, <1>3, <1>6 DEF Answers, Refusals
  <2> QED
    BY <1>1, <1>5, <2>1, RefuseInv
<1>7. CASE answer = "Granted"
  <2>1. Goto("second")
    BY <1>2, <1>7
  <2>2. TypeInv' /\ pc' = "second" /\ ruling' = ruling /\ ruling.answer = "none"
    BY <1>1, <1>5, <2>1, GotoType DEF GateInv, TypeInv, Reads
  <2>3. PathInv'
    BY <1>1, <2>2 DEF GateInv, PathInv, Reads, TokenReads, TokenAdmitted, EndedBy, world
  <2>4. PeerInv'
    BY <1>1, <1>5, <2>2 DEF GateInv, PeerInv, TokenAdmitted, EndedBy, Reads
  <2>5. TrustInv'
    BY <1>1, <1>5, <2>2 DEF GateInv, TrustInv, Known, Judging, Reads, TokenAdmitted,
       EndedBy, world
  <2>6. RecallInv' /\ OwnInv'
    BY <1>1, <2>2 DEF GateInv, RecallInv, OwnInv, Judging, Reads, TokenAdmitted, EndedBy
  <2>7. GrantInv'
    <3>1. GrantedSlip'
      BY <1>1, <1>5 DEF GateInv, GrantInv, GrantedSlip, Named
    <3>2. GrantsMember(ask.badge, Named(ask.cap), ask.peer, past.start)'
      BY <1>1, <1>3, <1>5, <1>7, GrantedAtStart DEF Named
    <3> QED
      BY <1>1, <2>2, <3>1, <3>2 DEF GrantInv, TokenAdmitted, EndedBy
  <2>8. StarvedInv'
    BY <1>1, <1>5, <1>7, <2>2 DEF StarvedInv
  <2> QED
    BY <1>5, <2>2, <2>3, <2>4, <2>5, <2>6, <2>7, <2>8 DEF GateInv
<1> QED
  BY <1>6, <1>7
-----------------------------------------------------------------------------
(* The reads after the last evaluation, and the admissions.                  *)

\* The store holds now what it held at the last evaluation.
LEMMA RecalledBefore ==
  ASSUME GateInv, NEW cap, ~IsRevoked(cap)
  PROVE  ~Recalled(cap, past.ids, past.keys)
  BY DEF GateInv, PastInv, IsRevoked, Recalled

LEMMA ReadSecondInv == ASSUME GateInv, ReadSecond PROVE GateInv'
<1>1. /\ pc = "second" /\ pc \in Reads /\ UNCHANGED <<world, ask, trust, first, past>>
      /\ ask.cap \in Presentable /\ ask.path \in {"plain", "foreign"}
  BY AskOf DEF ReadSecond, Reading, Reads, TokenReads, GateInv, PathInv, TypeInv
<1>2. past' \in Past /\ (pc' # "idle" => PastInv')
  BY <1>1 DEF GateInv, TypeInv, PastInv, Reads, world
<1>3. CASE Refuse("Revoked")
  BY <1>1, <1>2, <1>3, RefuseInv DEF Refusals, Refuse, Rule
<1>4. ASSUME NEW read \in {"secondbadge", "record", "kind"}, Goto(read),
             ~IsRevoked(ask.cap), read = "secondbadge" <=> ask.path = "foreign",
             read = "record" => trust.own, read = "kind" => ~trust.own
      PROVE GateInv'
  <2>1. /\ TypeInv' /\ pc' = read /\ ruling' = ruling /\ ruling.answer = "none"
        /\ read # "idle"
    BY <1>1, <1>2, <1>4, GotoType DEF GateInv, TypeInv, Reads
  <2>2. PathInv'
    BY <1>1, <1>4, <2>1 DEF GateInv, PathInv, Reads, TokenReads, TokenAdmitted, EndedBy,
       world
  <2>3. PastInv' /\ PeerInv'
    BY <1>1, <1>2, <1>4, <2>1 DEF GateInv, PeerInv, TokenAdmitted, EndedBy, Reads
  <2>4. TrustInv'
    BY <1>1, <1>4, <2>1 DEF GateInv, TrustInv, Known, Judging, Reads, TokenAdmitted,
       EndedBy, world
  <2>5. RecallInv'
    BY <1>1, <1>4, <2>1, RecalledBefore DEF RecallInv, TokenAdmitted, EndedBy
  <2>6. GrantInv'
    <3>1. (GrantedPlain' <=> GrantedPlain) /\ (GrantedSlip' <=> GrantedSlip)
      BY <1>1 DEF GrantedPlain, GrantedSlip, Named
    <3>2. GrantsMember(ask.badge, Named(ask.cap), ask.peer, past.start)'
            <=> GrantsMember(ask.badge, Named(ask.cap), ask.peer, past.start)
      BY <1>1 DEF Named
    <3> QED
      BY <1>1, <1>4, <2>1, <3>1, <3>2 DEF GateInv, GrantInv, TokenAdmitted, EndedBy
  <2>7. OwnInv'
    BY <1>1, <1>4, <2>1 DEF GateInv, OwnInv, Judging, Reads, TokenAdmitted, EndedBy
  <2>8. StarvedInv'
    BY <1>1, <1>4, <2>1 DEF GateInv, StarvedInv
  <2> QED
    BY <2>1, <2>2, <2>3, <2>4, <2>5, <2>6, <2>7, <2>8 DEF GateInv
<1> QED
  BY <1>1, <1>3, <1>4 DEF ReadSecond, SecondRead

\* The last read of each path admits what the path established, and nothing more.
LEMMA AdmitInv ==
  ASSUME GateInv, pc \in {"secondbadge", "record", "kind"},
         UNCHANGED <<world, ask, trust, first, past>>,
         NEW kind \in {"Member", "Slip"}, Admit(kind, "Rooted"),
         trust.own => RootRevocationId(ask.cap) \in issued,
         ask.path = "foreign" => ~Recalled(ask.badge, past.ids, past.keys),
         kind = "Member" =>
           /\ ask.path = "plain" /\ ~trust.own
           /\ GrantsMember(ask.cap, ask.cap.root, ask.peer, past.start)
  PROVE  GateInv'
<1>1. /\ pc \in Reads /\ pc \in TokenReads /\ pc \in Judging
      /\ pc \in Judging \ {"owned"} /\ pc \in Reads \ {"peer"}
  BY DEF Reads, TokenReads, Judging
<1>2. /\ TypeInv' /\ pc' = "done" /\ ruling'.answer = "Admit"
      /\ ruling'.witness.kind = kind /\ ruling'.witness.origin = "Rooted"
  BY <1>1, AdmitType
<1>3. TokenAdmitted' /\ ~EndedBy("Proven")'
  BY <1>2 DEF TokenAdmitted, EndedBy
<1>4. PathInv'
  BY <1>1, <1>2, <1>3 DEF GateInv, PathInv, Reads, TokenReads, world
<1>5. PastInv'
  BY <1>1, <1>2 DEF GateInv, PastInv, Reads, TypeInv, world
<1>6. TrustInv'
  BY <1>1, <1>2, <1>3 DEF GateInv, TrustInv, Known, world
<1>7. PeerInv'
  BY <1>1, <1>2, <1>3 DEF GateInv, PeerInv
<1>8. RecallInv'
  BY <1>1, <1>2, <1>3 DEF GateInv, RecallInv
<1>9. GrantInv'
  <2>1. (GrantedPlain' <=> GrantedPlain) /\ (GrantedSlip' <=> GrantedSlip)
    BY DEF GrantedPlain, GrantedSlip, Named
  <2>2. GrantsMember(ask.badge, Named(ask.cap), ask.peer, past.start)'
          <=> GrantsMember(ask.badge, Named(ask.cap), ask.peer, past.start)
    BY DEF Named
  <2>3. ask.path = "plain" => GrantedPlain
    BY DEF GateInv, GrantInv, PathInv
  <2>4. ask.path = "foreign" =>
          GrantedSlip /\ GrantsMember(ask.badge, Named(ask.cap), ask.peer, past.start)
    BY DEF GateInv, GrantInv, PathInv
  <2> QED
    BY <1>2, <2>1, <2>2, <2>3, <2>4 DEF GrantInv
<1>10. OwnInv'
  BY <1>1, <1>2, <1>3 DEF GateInv, OwnInv, world
<1>11. StarvedInv'
  BY <1>2 DEF GateInv, StarvedInv
<1> QED
  BY <1>2, <1>4, <1>5, <1>6, <1>7, <1>8, <1>9, <1>10, <1>11 DEF GateInv

LEMMA ReadSecondBadgeInv == ASSUME GateInv, ReadSecondBadge PROVE GateInv'
<1>1. /\ pc = "secondbadge" /\ pc \in Reads
      /\ UNCHANGED <<world, ask, trust, first, past>>
      /\ ask.cap \in Presentable /\ ask.path = "foreign" /\ ~past.starved
  BY DEF ReadSecondBadge, Reading, Reads, TokenReads, GateInv, PathInv, StarvedInv
<1>2. past' \in Past /\ (pc' # "idle" => PastInv')
  BY <1>1 DEF GateInv, TypeInv, PastInv, Reads, world
<1>3. CASE Refuse("Revoked")
  BY <1>1, <1>2, <1>3, RefuseInv DEF Refusals, Refuse, Rule
<1>4. ~IsRevoked(ask.badge) => ~Recalled(ask.badge, past.ids, past.keys)
  BY RecalledBefore
<1>5. CASE ~IsRevoked(ask.badge) /\ trust.own /\ Goto("record")
  <2>1. TypeInv' /\ pc' = "record" /\ ruling' = ruling /\ ruling.answer = "none"
    BY <1>1, <1>2, <1>5, GotoType DEF GateInv, TypeInv, Reads
  <2>2. PathInv'
    BY <1>1, <2>1 DEF GateInv, PathInv, Reads, TokenReads, TokenAdmitted, EndedBy, world
  <2>3. PastInv' /\ PeerInv'
    BY <1>1, <1>2, <2>1 DEF GateInv, PeerInv, TokenAdmitted, EndedBy, Reads
  <2>4. TrustInv'
    BY <1>1, <1>5, <2>1 DEF GateInv, TrustInv, Known, Judging, Reads, TokenAdmitted,
       EndedBy, world
  <2>5. RecallInv'
    BY <1>1, <1>4, <1>5, <2>1 DEF GateInv, RecallInv, TokenAdmitted, EndedBy
  <2>6. GrantInv'
    <3>1. (GrantedPlain' <=> GrantedPlain) /\ (GrantedSlip' <=> GrantedSlip)
      BY <1>1 DEF GrantedPlain, GrantedSlip, Named
    <3>2. GrantsMember(ask.badge, Named(ask.cap), ask.peer, past.start)'
            <=> GrantsMember(ask.badge, Named(ask.cap), ask.peer, past.start)
      BY <1>1 DEF Named
    <3> QED
      BY <1>1, <2>1, <3>1, <3>2 DEF GateInv, GrantInv, TokenAdmitted, EndedBy
  <2>7. OwnInv'
    BY <1>1, <2>1 DEF GateInv, OwnInv, Judging, Reads, TokenAdmitted, EndedBy
  <2>8. StarvedInv'
    BY <1>1, <2>1 DEF GateInv, StarvedInv
  <2> QED
    BY <2>1, <2>2, <2>3, <2>4, <2>5, <2>6, <2>7, <2>8 DEF GateInv
<1>6. CASE ~IsRevoked(ask.badge) /\ ~trust.own /\ Admit("Slip", "Rooted")
  BY <1>1, <1>4, <1>6, AdmitInv
<1> QED
  BY <1>3, <1>5, <1>6 DEF ReadSecondBadge, SecondRead

LEMMA ReadRecordInv == ASSUME GateInv, ReadRecord PROVE GateInv'
<1>1. /\ pc = "record" /\ pc \in Reads /\ UNCHANGED <<world, ask, trust, first, past>>
      /\ trust.own /\ ~past.starved
      /\ ask.path = "foreign" => ~Recalled(ask.badge, past.ids, past.keys)
  BY DEF ReadRecord, Reading, Reads, GateInv, TrustInv, RecallInv, StarvedInv
<1>2. past' \in Past /\ (pc' # "idle" => PastInv')
  BY <1>1 DEF GateInv, TypeInv, PastInv, Reads, world
<1>3. CASE Refuse("NotGranted")
  BY <1>1, <1>2, <1>3, RefuseInv DEF Refusals, Refuse, Rule
<1>4. CASE RootRevocationId(ask.cap) \in issued /\ Admit("Slip", "Rooted")
  BY <1>1, <1>4, AdmitInv
<1> QED
  BY <1>3, <1>4 DEF ReadRecord

LEMMA ReadKindInv == ASSUME GateInv, ReadKind PROVE GateInv'
<1>1. /\ pc = "kind" /\ pc \in Reads /\ UNCHANGED <<world, ask, trust, first, past>>
      /\ ask.cap \in Presentable /\ ask.path = "plain" /\ ~trust.own
  BY DEF ReadKind, Reading, Reads, TokenReads, GateInv, PathInv, TrustInv
<1>2. PICK answer \in Membership(ask.cap, trust.root) : Admit(Kind(answer), "Rooted")
  BY DEF ReadKind
<1>3. answer = "Granted" =>
        /\ ask.cap.root = trust.root
        /\ GrantsMember(ask.cap, trust.root, ask.peer, now)
  BY DEF Membership, Evaluations
<1>4. /\ Kind(answer) \in {"Member", "Slip"}
      /\ Kind(answer) = "Member" =>
           GrantsMember(ask.cap, ask.cap.root, ask.peer, past.start)
  BY <1>1, <1>3, GrantedAtStart DEF Kind
<1> QED
  BY <1>1, <1>2, <1>4, AdmitInv
-----------------------------------------------------------------------------
LEMMA StepInv == ASSUME GateInv, [Next]_vars PROVE GateInv'
<1>1. CASE Begin
  BY <1>1, BeginInv
<1>2. CASE Ruling
  BY <1>2, ReadPeerInv, ReadTwinInv, ReadPinInv, ReadTokenInv, ReadBadgeInv,
     ReadOwnedInv, AskMemberInv, AskGrantInv, AskSlipInv, AskVouchInv, ReadSecondInv,
     ReadSecondBadgeInv, ReadRecordInv, ReadKindInv DEF Ruling
<1>3. CASE Tick \/ Revoke \/ (\E key \in Pins : Pin(key)) \/ Record
  BY <1>3, MovingInv
<1>4. CASE UNCHANGED vars
  <2>1. UNCHANGED <<gate, asked>> /\ UNCHANGED <<now, pin, ids, keys, issued, past>>
    BY <1>4 DEF vars, world
  <2>2. TypeInv'
    BY <1>4 DEF GateInv, TypeInv, LookedUpIds, LookedUpKeys, Tokens, vars, world, asked
  <2>3. now <= now' /\ past' = [past EXCEPT !.pins = past'.pins]
    BY <2>1, GateAssumption DEF GateInv, TypeInv, Past
  <2> QED
    BY <2>1, <2>2, <2>3, WorldStep DEF GateInv, PastInv
<1> QED
  BY <1>1, <1>2, <1>3, <1>4 DEF Next

\* In every state of every ruling, each part of the invariant holds.
THEOREM GateCorrect == Spec => []GateInv
  BY InitInv, StepInv, PTL DEF Spec
-----------------------------------------------------------------------------
(* What it says of the properties.                                           *)

LEMMA ByTokenIs ==
  /\ ByToken <=> TokenAdmitted
  /\ TokenAdmitted => PeerVerified = {ask.peer} /\ ruling.answer = "Admit"
  BY DEF ByToken, PeerVerified, PeerOf, Admitted, TokenAdmitted, EndedBy

\* Of a token ruled under an anchor, the own key's path is taken by what it signed.
LEMMA OwnPath ==
  ASSUME GateInv, TokenAdmitted
  PROVE  /\ ask.cap \in Presentable /\ ask.path \in {"plain", "foreign"}
         /\ gate \in {"rooted", "anchored"}
         /\ gate = "anchored" => (trust.own <=> ask.cap.root = Own)
         /\ ask.path = "foreign" => ask.badge \in Presentable
  BY AskOf, GateAssumption DEF GateInv, TypeInv, PathInv, TrustInv, Known

LEMMA TypeOf == ASSUME GateInv PROVE TypeOK
<1>1. pc = "record" => trust.own /\ ask.cap.root = Own
  BY DEF GateInv, TrustInv, Known, Judging, Reads
<1> QED
  BY <1>1 DEF GateInv, TypeInv, TypeOK

LEMMA RecalledOf == ASSUME GateInv PROVE RecalledNeverAdmitted
<1>1. RevocablePeer \cap past.revoked = {}
  BY DEF RevocablePeer, PeerOf, Admitted, GateInv, PeerInv, TokenAdmitted, EndedBy
<1>2. ASSUME TokenAdmitted, NEW cap \in Tokens PROVE ~Recalled(cap, past.ids, past.keys)
  <2>1. cap = ask.cap \/ (ask.path = "foreign" /\ cap = ask.badge)
    BY <1>2, AskOf DEF Tokens, GateInv, TypeInv
  <2> QED
    BY <1>2, <2>1 DEF GateInv, RecallInv
<1> QED
  BY <1>1, <1>2, ByTokenIs DEF RecalledNeverAdmitted

LEMMA GrantedOf == ASSUME GateInv PROVE AdmittedWasGranted
<1> SUFFICES ASSUME TokenAdmitted, ask.path = "plain"
             PROVE  /\ ask.cap.root \in (IF gate = "rooted" THEN {Root}
                                         ELSE past.pins \cup {Own})
                    /\ GrantedPlain
  BY ByTokenIs DEF AdmittedWasGranted, GrantedPlain
<1>1. GrantedPlain
  BY DEF GateInv, GrantInv
<1>2. CASE gate = "rooted"
  BY <1>1, <1>2 DEF GrantedPlain, GateInv, TrustInv, ByRoot
<1>3. CASE gate = "anchored"
  BY <1>1, <1>3 DEF GateInv, TrustInv, Known
<1> QED
  BY <1>1, <1>2, <1>3, OwnPath

LEMMA MemberOf == ASSUME GateInv PROVE MemberIsTheOwners
<1> SUFFICES ASSUME IsMember
             PROVE  /\ PeerVerified = {ask.peer}
                    /\ GrantsMember(ask.cap, ask.cap.root, ask.peer, past.start)
                    /\ gate = "anchored" => ask.cap.root # Own
  BY DEF MemberIsTheOwners
<1>1. TokenAdmitted /\ ask.path = "plain"
  BY DEF GateInv, PathInv, IsMember, Admitted
<1>2. ~trust.own /\ GrantsMember(ask.cap, ask.cap.root, ask.peer, past.start)
  BY DEF GateInv, GrantInv, IsMember, Admitted
<1> QED
  BY <1>1, <1>2, ByTokenIs, OwnPath

LEMMA OwnKeyOf == ASSUME GateInv PROVE OwnKeyAdmitsWhatItIssued
<1> SUFFICES ASSUME TokenAdmitted, gate = "anchored", ask.cap.root = Own
             PROVE  /\ ruling.witness.kind = "Slip"
                    /\ RootRevocationId(ask.cap) \in issued
                    /\ ~Authority(ask.cap).member
                    /\ Own \notin Authority(ask.cap).bound
  BY ByTokenIs DEF OwnKeyAdmitsWhatItIssued
<1>1. trust.own /\ ask.cap \in Presentable /\ ask.path \in {"plain", "foreign"}
  BY OwnPath
<1>2. ruling.answer = "Admit" /\ ruling \in Rulings
  BY ByTokenIs DEF GateInv, TypeInv
<1>3. ruling.witness.kind = "Slip"
  BY <1>1, <1>2 DEF GateInv, GrantInv, Rulings, Witness
<1>4. RootRevocationId(ask.cap) \in issued /\ ~Authority(ask.cap).member
  BY <1>1 DEF GateInv, OwnInv
<1>5. Own \notin Authority(ask.cap).bound
  <2>1. CASE ask.path = "foreign"
    BY <1>1, <2>1 DEF GateInv, GrantInv, GrantedSlip
  <2>2. CASE ask.path = "plain"
    <3>1. GrantedPlain /\ ask.cap \in WrittenCaps
      BY <1>1, <2>2, GateAssumption DEF GateInv, GrantInv
    <3> QED
      BY <3>1, AuthoritySlipInert DEF GrantedPlain
  <2> QED
    BY <1>1, <2>1, <2>2
<1> QED
  BY <1>3, <1>4, <1>5

LEMMA ForeignOf == ASSUME GateInv PROVE ForeignNeedsBoth
<1> SUFFICES ASSUME TokenAdmitted, ask.path = "foreign"
             PROVE  /\ ruling.witness.kind = "Slip"
                    /\ \E x \in Keys :
                         /\ GrantsUnder(ask.cap, ask.cap.root, ask.service, x, past.start)
                         /\ GrantsMember(ask.badge, x, ask.peer, past.start)
  BY ByTokenIs DEF ForeignNeedsBoth
<1>1. ruling.answer = "Admit" /\ ruling \in Rulings
  BY ByTokenIs DEF GateInv, TypeInv
<1>2. ruling.witness.kind = "Slip"
  BY <1>1 DEF GateInv, PathInv, Rulings, Witness
<1>3. /\ GrantsUnder(ask.cap, ask.cap.root, ask.service, Named(ask.cap), past.start)
      /\ GrantsMember(ask.badge, Named(ask.cap), ask.peer, past.start)
  BY DEF GateInv, GrantInv, GrantedSlip
<1>4. Named(ask.cap) \in Keys
  BY <1>3, OwnPath, NamedOf DEF GrantsUnder
<1> QED
  BY <1>2, <1>3, <1>4

LEMMA UndecidedOf == ASSUME GateInv PROVE UndecidedIsNoAnswer
  BY DEF GateInv, StarvedInv, UndecidedIsNoAnswer

LEMMA TwinOfPeer == ASSUME GateInv PROVE TwinRefused
  BY DEF GateInv, PeerInv, TwinRefused, EndedBy, Admitted

\* Every variable of the gate stays in its type, and only the own-key path reads the
\* record.
THEOREM TypeCorrect == Spec => []TypeOK
  BY GateCorrect, TypeOf, PTL

\* No peer is admitted whose key was revoked when the ruling began, nor one whose
\* token or root key was revoked before the last evaluation ended: the second read
\* of the store in decide catches it, whenever it came.
THEOREM NeverRecalled == Spec => []RecalledNeverAdmitted
  BY GateCorrect, RecalledOf, PTL

\* Answers given at different moments, under pins that move, admit only what one
\* authority the gate trusted would have granted when the ruling began.
THEOREM WasGranted == Spec => []AdmittedWasGranted
  BY GateCorrect, GrantedOf, PTL

\* Only a badge of an authority other than the machine's own key makes a member.
THEOREM OwnersMember == Spec => []MemberIsTheOwners
  BY GateCorrect, MemberOf, PTL

\* What the own key signed is admitted as a recorded slip and as nothing else.
THEOREM OwnKeyIssued == Spec => []OwnKeyAdmitsWhatItIssued
  BY GateCorrect, OwnKeyOf, PTL

\* Two tokens admit only where the slip names the authority that signed the badge,
\* and the badge is the peer's.
THEOREM ForeignBoth == Spec => []ForeignNeedsBoth
  BY GateCorrect, ForeignOf, PTL

\* A "no" is given only by a ruling no evaluation of which ran out of time, and a
\* "could not decide" only by one of which some did.
THEOREM UndecidedSaid == Spec => []UndecidedIsNoAnswer
  BY GateCorrect, UndecidedOf, PTL

\* Neither key its holder can prove is witnessed as proven once either is revoked.
THEOREM TwinsRefused == Spec => []TwinRefused
  BY GateCorrect, TwinOfPeer, PTL
=============================================================================
