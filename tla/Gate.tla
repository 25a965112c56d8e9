-------------------------------- MODULE Gate --------------------------------
(***************************************************************************)
(* The authorization gate, src/gate.rs: one ruling on one connection, step *)
(* by step, while the revocation store, the pin, the record of issued      *)
(* slips and the clock move under it.                                      *)
(*                                                                         *)
(* A step is one read of something shared: the store, the pin, the record, *)
(* or the clock an evaluation runs at.  Rulings share nothing else, and    *)
(* write none of it, so a behaviour is one ruling, begun at any moment, and *)
(* ends with it.  The paths                                                *)
(* are admit_witnessed ("plain"), admit_foreign_witnessed ("foreign") and  *)
(* proven ("proven"); admit and admit_foreign are the first two without    *)
(* the witness.                                                            *)
(***************************************************************************)
EXTENDS Cap

CONSTANTS
  Gates,        \* the kinds of gate: "open", "rooted", "anchored"
  Root,         \* the authority of a rooted gate
  Own,          \* this machine's own key
  None,         \* Option::None
  Pins,         \* what the pin source may report
  Presentable,  \* the capabilities a peer may present
  Requests,     \* the rulings a handler may ask for
  Peers,        \* the keys a peer may have proven
  TwinOf,       \* the sign twin of a key
  MaxRecalls,   \* bound: how many ids and keys are revoked
  MaxTime       \* bound: the last instant of the clock

\* What may be asked on each path.  The witness of a proven key names no token.
Asked == [path : {"plain"}, peer : Peers, cap : Presentable \cup {None},
          badge : {None}, service : Services]
    \cup [path : {"foreign"}, peer : Peers, cap : Presentable,
          badge : Presentable, service : Services]
    \cup [path : {"proven"}, peer : Peers, cap : {None}, badge : {None},
          service : Services]

ASSUME GateAssumption ==
  /\ Gates \subseteq {"open", "rooted", "anchored"}
  /\ Root \in Keys /\ Own \in Keys
  /\ Pins \subseteq Keys \cup {None} /\ None \notin Keys \cup Presentable
  /\ Presentable \subseteq WrittenCaps
  /\ Requests \subseteq Asked
  /\ Peers \subseteq Keys /\ TwinOf \in [Peers -> Keys]
  /\ MaxRecalls \in Nat /\ MaxTime \in Nat

VARIABLES
  gate,         \* the kind of gate, which never changes
  now,          \* the wall clock
  pin,          \* what the pin source would report
  ids, keys,    \* what the revocation store holds
  issued,       \* the root ids this machine recorded issuing
  pc,           \* the next read of the ruling in progress
  ask,          \* what was asked: the path, the peer, the tokens, the service
  trust,        \* Authority: the key the token is ruled under, and on which path
  first,        \* the answer to the membership question, once asked
  ruling,       \* the outcome
  past          \* history: see Past

world == <<gate, now, pin, ids, keys, issued>>
asked == <<pc, ask, trust, first, ruling>>
vars == <<world, asked, past>>
-----------------------------------------------------------------------------
Answers == {"Granted", "NotGranted", "Undecided"}
Refusals == {"Missing", "NotGranted", "Revoked", "Undecided"}
Witness == [kind : {"Member", "Slip"}, origin : {"Rooted", "Open", "Proven"}]
Rulings == [answer : {"none", "Admit"} \cup Refusals, witness : Witness]
NoWitness == [kind |-> "Slip", origin |-> "Open"]
NoRuling == [answer |-> "none", witness |-> NoWitness]
Reads == {"peer", "twin", "anchor", "token", "badge", "owned", "member", "grant",
          "slip", "vouch", "second", "secondbadge", "record", "kind"}

\* What a property may need to know of the world since the ruling began: the
\* clock and the keys revoked then, the pins reported since, the store when the
\* ruling's last evaluation ended, and whether any of them ran out of time.
Past == [start : Nat, revoked : SUBSET Keys, pins : SUBSET (Keys \cup {None}),
         ids : SUBSET Nat, keys : SUBSET Keys, starved : BOOLEAN]

IsRevoked(cap) == Recalled(cap, ids, keys)

\* sign_twin: the other key its holder can prove.
NoTwin(key) == key
SignTwin(key) == TwinOf[key]

\* Anchor::pin: the own key is never a root.
PinUnfiltered == pin
AnchorPin == IF pin = Own THEN None ELSE pin

\* Anchor::authority_of: the pin is asked first.
ByRoot == [root |-> Root, own |-> FALSE]
TokensRoot(cap) == {[root |-> cap.root, own |-> cap.root = Own]}
OwnUnlessPin(cap) == {[root |-> cap.root, own |-> cap.root # AnchorPin]}
Authorities(cap) ==
  IF cap.root = AnchorPin THEN {[root |-> cap.root, own |-> FALSE]}
  ELSE IF cap.root = Own THEN {[root |-> Own, own |-> TRUE]}
  ELSE {}

\* An evaluation runs out of time or gives the true answer; a token with another
\* root is refused before any evaluation.
Evaluations(cap, root, granted) ==
  IF cap.root # root THEN {"NotGranted"}
  ELSE {"Undecided", IF granted THEN "Granted" ELSE "NotGranted"}
Membership(cap, root) ==
  Evaluations(cap, root, GrantsMember(cap, root, ask.peer, now))
Grant(cap, root) ==
  Evaluations(cap, root, Grants(cap, root, ask.service, ask.peer, now))

\* member_badge asks what the issuer signed, not whether it admits now.
MemberBadgeNow(cap) == Membership(cap, cap.root)
MemberBadge(cap) == Evaluations(cap, cap.root, IsMemberBadge(cap))

\* The slip question names the foreign authority; on the own-key path that may
\* not be the own key.
SlipNamesAny(x) == TRUE
SlipNames(x) == ~(trust.own /\ x = Own)
Slip(cap, root) ==
  Evaluations(cap, root,
    \E x \in AuthorityBound(cap) :
      SlipNames(x) /\ GrantsUnder(cap, root, ask.service, x, now))
NamedByBadge(cap) == ask.badge.root
Named(cap) == CHOOSE x \in AuthorityBound(cap) : TRUE

\* Checked::or_else: an answer not given is not overruled by a "no".
OrElseLast(one, other) == other
OrElse(one, other) ==
  IF one = "Undecided" /\ other = "NotGranted" THEN "Undecided" ELSE other

\* Checked::refuse_member: a badge, or what may be one, is refused.
AnyIsRefused(answer) == "NotGranted"
RefuseMember(answer) == IF answer = "Granted" THEN "NotGranted" ELSE answer
-----------------------------------------------------------------------------
Goto(read) == pc' = read /\ UNCHANGED ruling
Rule(outcome) == pc' = "done" /\ ruling' = outcome
Refuse(refusal) == Rule([answer |-> refusal, witness |-> NoWitness])
Admit(kind, origin) ==
  Rule([answer |-> "Admit", witness |-> [kind |-> kind, origin |-> origin]])

\* An evaluation ended with this answer.
Evaluated(answer) ==
  past' = [past EXCEPT !.ids = ids, !.keys = keys,
                       !.starved = @ \/ answer = "Undecided"]

\* One read of the ruling: nothing of the world changes.
Reading(read) == pc = read /\ UNCHANGED <<world, ask>>

\* The ruling begins.  An open gate reads nothing.
Begin ==
  /\ Reading("idle")
  /\ past' = [start |-> now, revoked |-> keys, pins |-> {pin},
              ids |-> ids, keys |-> keys, starved |-> FALSE]
  /\ IF gate # "open" THEN Goto("peer")
     ELSE IF ask.path = "proven" THEN Refuse("NotGranted")
     ELSE Admit("Slip", "Open")
  /\ UNCHANGED <<trust, first>>

\* is_revoked_peer comes before any token is looked at.
ReadPeer ==
  /\ Reading("peer")
  /\ IF ask.peer \in keys THEN Refuse("Revoked")
     ELSE IF ask.path = "plain" /\ ask.cap = None THEN Refuse("Missing")
     ELSE IF ask.path = "proven" THEN Goto("twin")
     ELSE IF ask.path = "plain" /\ gate = "anchored" THEN Goto("anchor")
     ELSE Goto("token")
  /\ UNCHANGED <<trust, first, past>>

ReadTwin ==
  /\ Reading("twin")
  /\ IF SignTwin(ask.peer) \in keys THEN Refuse("Revoked") ELSE Admit("Slip", "Proven")
  /\ UNCHANGED <<trust, first, past>>

\* Anchor::authority_of, from the pin as it is now.
ReadPin ==
  /\ Reading("anchor")
  /\ \/ /\ Authorities(ask.cap) = {}
        /\ Refuse("NotGranted")
        /\ UNCHANGED trust
     \/ \E authority \in Authorities(ask.cap) :
          /\ trust' = authority
          /\ Goto(IF ask.path = "plain" THEN "token"
                  ELSE IF authority.own THEN "owned" ELSE "slip")
  /\ UNCHANGED <<first, past>>

\* The first revocation read, before any evaluation is paid for.
ReadToken ==
  /\ Reading("token")
  /\ IF IsRevoked(ask.cap) THEN Refuse("Revoked")
     ELSE IF ask.path = "foreign" THEN Goto("badge")
     ELSE IF trust.own THEN Goto("owned")
     ELSE Goto("member")
  /\ UNCHANGED <<trust, first, past>>

ReadBadge ==
  /\ Reading("badge")
  /\ IF IsRevoked(ask.badge) THEN Refuse("Revoked")
     ELSE IF gate = "anchored" THEN Goto("anchor")
     ELSE Goto("slip")
  /\ UNCHANGED <<trust, first, past>>

\* refuse_member, on the own-key path.
ReadOwned ==
  /\ Reading("owned")
  /\ \E answer \in MemberBadge(ask.cap) :
       /\ Evaluated(answer)
       /\ IF answer # "NotGranted" THEN Refuse(RefuseMember(answer))
          ELSE IF ask.path = "foreign" THEN Goto("slip")
          ELSE Goto("grant")
  /\ UNCHANGED <<trust, first>>

AskMember ==
  /\ Reading("member")
  /\ \E answer \in Membership(ask.cap, trust.root) :
       /\ Evaluated(answer)
       /\ first' = answer
       /\ Goto(IF answer = "Granted" THEN "second" ELSE "grant")
  /\ UNCHANGED trust

AskGrant ==
  /\ Reading("grant")
  /\ \E answer \in Grant(ask.cap, trust.root) :
       /\ Evaluated(answer)
       /\ IF answer = "Granted" THEN Goto("second") ELSE Refuse(OrElse(first, answer))
  /\ UNCHANGED <<trust, first>>

\* verify_pair: the slip names the authority the badge is then held to.
AskSlip ==
  /\ Reading("slip")
  /\ \E answer \in Slip(ask.cap, trust.root) :
       /\ Evaluated(answer)
       /\ IF answer = "Granted" THEN Goto("vouch") ELSE Refuse(answer)
  /\ UNCHANGED <<trust, first>>

AskVouch ==
  /\ Reading("vouch")
  /\ \E answer \in Membership(ask.badge, Named(ask.cap)) :
       /\ Evaluated(answer)
       /\ IF answer = "Granted" THEN Goto("second") ELSE Refuse(answer)
  /\ UNCHANGED <<trust, first>>

\* decide: the second revocation read, for a token recalled meanwhile.
SecondSkipped(cap) == FALSE
SecondRead(cap) == IsRevoked(cap)
ReadSecond ==
  /\ Reading("second")
  /\ IF SecondRead(ask.cap) THEN Refuse("Revoked")
     ELSE IF ask.path = "foreign" THEN Goto("secondbadge")
     ELSE IF trust.own THEN Goto("record")
     ELSE Goto("kind")
  /\ UNCHANGED <<trust, first, past>>

ReadSecondBadge ==
  /\ Reading("secondbadge")
  /\ IF SecondRead(ask.badge) THEN Refuse("Revoked")
     ELSE IF trust.own THEN Goto("record")
     ELSE Admit("Slip", "Rooted")
  /\ UNCHANGED <<trust, first, past>>

\* recorded: a record that cannot be read answers no.
ReadRecord ==
  /\ Reading("record")
  /\ \/ RootRevocationId(ask.cap) \in issued /\ Admit("Slip", "Rooted")
     \/ Refuse("NotGranted")
  /\ UNCHANGED <<trust, first, past>>

\* admitted_kind asks the membership question again, at a later clock; anything
\* but a plain yes makes a slip.
KindUnlessNo(answer) == IF answer = "NotGranted" THEN "Slip" ELSE "Member"
Kind(answer) == IF answer = "Granted" THEN "Member" ELSE "Slip"
ReadKind ==
  /\ Reading("kind")
  /\ \E answer \in Membership(ask.cap, trust.root) : Admit(Kind(answer), "Rooted")
  /\ UNCHANGED <<trust, first, past>>
-----------------------------------------------------------------------------
(* The world, until the ruling ends: the clock, another process revoking,    *)
(* the owner pinning, and this machine issuing a slip.  An id or a key that  *)
(* no read of the ruling looks up, and the record of another slip, is the    *)
(* same to it as none.                                                       *)

Tokens == {ask.cap, ask.badge} \ {None}
LookedUpIds == UNION {RevocationIds(cap) : cap \in Tokens}
LookedUpKeys == {ask.peer, TwinOf[ask.peer]} \cup {cap.root : cap \in Tokens}

Moving == pc # "done" /\ UNCHANGED <<gate, asked>>

Tick ==
  /\ Moving
  /\ now < MaxTime
  /\ now' = now + 1
  /\ UNCHANGED <<pin, ids, keys, issued, past>>

Revoke ==
  /\ Moving
  /\ Cardinality(ids) + Cardinality(keys) < MaxRecalls
  /\ \/ (\E id \in LookedUpIds : ids' = ids \cup {id}) /\ UNCHANGED keys
     \/ (\E key \in LookedUpKeys : keys' = keys \cup {key}) /\ UNCHANGED ids
  /\ UNCHANGED <<now, pin, issued, past>>

Pin(key) ==
  /\ Moving
  /\ pin' = key
  /\ past' = [past EXCEPT !.pins = IF pc = "idle" THEN @ ELSE @ \cup {key}]
  /\ UNCHANGED <<now, ids, keys, issued>>

Record ==
  /\ Moving
  /\ ask.cap # None /\ ask.cap.root = Own
  /\ issued' = issued \cup {RootRevocationId(ask.cap)}
  /\ UNCHANGED <<now, pin, ids, keys, past>>

Init ==
  /\ gate \in Gates
  /\ now = 0
  /\ pin \in Pins
  /\ ids = {} /\ keys = {} /\ issued = {}
  /\ pc = "idle"
  /\ ask \in Requests
  /\ trust = ByRoot /\ first = "NotGranted" /\ ruling = NoRuling
  /\ past = [start |-> 0, revoked |-> {}, pins |-> {}, ids |-> {}, keys |-> {},
             starved |-> FALSE]

Ruling ==
  \/ ReadPeer \/ ReadTwin \/ ReadPin \/ ReadToken \/ ReadBadge \/ ReadOwned
  \/ AskMember \/ AskGrant \/ AskSlip \/ AskVouch
  \/ ReadSecond \/ ReadSecondBadge \/ ReadRecord \/ ReadKind

Next ==
  \/ Begin
  \/ Ruling
  \/ Tick \/ Revoke
  \/ \E key \in Pins : Pin(key)
  \/ Record

Spec == Init /\ [][Next]_vars
-----------------------------------------------------------------------------
(* Properties.                                                             *)

\* The witness, as a handler reads it: peer_verified and revocable_peer, each a
\* set of at most one key, and is_member.
Admitted == ruling.answer = "Admit"
PeerOf(origins) == {p \in {ask.peer} : Admitted /\ ruling.witness.origin \in origins}
PeerVerified == PeerOf({"Rooted"})
RevocablePeer == PeerOf({"Rooted", "Proven"})
IsMember == Admitted /\ ruling.witness.kind = "Member"

ByToken == PeerVerified # {}

\* Every variable stays in its type; a ruling in progress has no outcome, and
\* only the own-key path reads the record.
TypeOK ==
  /\ gate \in Gates
  /\ now \in 0 .. MaxTime
  /\ pin \in Pins
  /\ ids \subseteq LookedUpIds /\ keys \subseteq LookedUpKeys
  /\ issued \subseteq LookedUpIds
  /\ pc \in {"idle", "done"} \cup Reads
  /\ ask \in Requests
  /\ trust \in [root : Keys, own : BOOLEAN]
  /\ first \in Answers
  /\ ruling \in Rulings
  /\ past \in Past
  /\ ruling = NoRuling <=> pc # "done"
  /\ pc = "record" => trust.own /\ ask.cap.root = Own

\* A peer whose proven key was revoked when the ruling began is not admitted, nor
\* is one whose token, or whose token's root key, was revoked before the last
\* evaluation ended: the store is read again after it.  (admit_token, verify_pair,
\* decide.)
RecalledNeverAdmitted ==
  /\ RevocablePeer \cap past.revoked = {}
  /\ ByToken => \A cap \in Tokens : ~Recalled(cap, past.ids, past.keys)

\* An admission by token was granted when it began, by an authority the gate
\* trusted meanwhile: a membership or the very service, for the peer proven.
\* (No mix of answers given at different moments admits what none would.)
AdmittedWasGranted ==
  ByToken /\ ask.path = "plain" =>
    LET root == ask.cap.root IN
    /\ root \in (IF gate = "rooted" THEN {Root} ELSE past.pins \cup {Own})
    /\ \/ Grants(ask.cap, root, ask.service, ask.peer, past.start)
       \/ GrantsMember(ask.cap, root, ask.peer, past.start)

\* Only an owner's badge makes a member, even where the pin is this machine's own
\* key, and where the kind is read after the ruling, at a later clock.
MemberIsTheOwners ==
  IsMember =>
    /\ PeerVerified = {ask.peer}
    /\ GrantsMember(ask.cap, ask.cap.root, ask.peer, past.start)
    /\ gate = "anchored" => ask.cap.root # Own

\* What the own key signed admits only as a slip this machine recorded, and never
\* when it is a badge, however narrowed, or lends the service to the own key.
OwnKeyAdmitsWhatItIssued ==
  ByToken /\ gate = "anchored" /\ ask.cap.root = Own =>
    /\ ruling.witness.kind = "Slip"
    /\ RootRevocationId(ask.cap) \in issued
    /\ ~Authority(ask.cap).member
    /\ Own \notin Authority(ask.cap).bound

\* The two-token path needs a slip of the gate's authority that names X and a
\* badge X signed for this very peer, and makes no member.
ForeignNeedsBoth ==
  ByToken /\ ask.path = "foreign" =>
    /\ ruling.witness.kind = "Slip"
    /\ \E x \in Keys :
         /\ GrantsUnder(ask.cap, ask.cap.root, ask.service, x, past.start)
         /\ GrantsMember(ask.badge, x, ask.peer, past.start)

\* No peer is told it has no authority because this host ran out of time, and
\* none is told to retry when every question was answered.
UndecidedIsNoAnswer ==
  /\ ruling.answer = "NotGranted" => ~past.starved
  /\ ruling.answer = "Undecided" => past.starved

\* A key revoked when the ruling began is not witnessed as proven, nor is the one
\* its holder can prove instead by negating it.
TwinRefused ==
  Admitted /\ ruling.witness.origin = "Proven" =>
    {ask.peer, TwinOf[ask.peer]} \cap past.revoked = {}
=============================================================================
