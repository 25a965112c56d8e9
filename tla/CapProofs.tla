------------------------------ MODULE CapProofs ------------------------------
(* What holds of every capability, whatever its keys, services and blocks.   *)
EXTENDS Cap, TLAPS

(* Truncation to seconds keeps the order of instants. *)
LEMMA DateType == ASSUME NEW t \in Nat PROVE Date(t) \in Nat
  BY CapAssumption DEF Date

LEMMA DateMonotone ==
  ASSUME NEW t \in Nat, NEW u \in Nat, t <= u
  PROVE  Date(t) <= Date(u)
<1> DEFINE m == t \div Second
           n == u \div Second
<1>1. /\ m \in Nat /\ n \in Nat /\ Second \in Nat /\ Second > 0
      /\ Second * m <= t /\ t < Second * m + Second
      /\ Second * n <= u /\ u < Second * n + Second
  BY CapAssumption
<1>2. Date(t) = m /\ Date(u) = n
  BY DEF Date
<1> HIDE DEF m, n
<1>3. ASSUME m >= n + 1 PROVE FALSE
  <2>1. Second * m >= Second * (n + 1)
    BY <1>1, <1>3
  <2>2. Second * (n + 1) = Second * n + Second
    BY <1>1
  <2> QED
    BY <1>1, <2>1, <2>2
<1> QED
  BY <1>1, <1>2, <1>3

(* A capability has an authority block, and it is one of its blocks. *)
LEMMA AuthorityOf ==
  ASSUME NEW cap \in Caps
  PROVE  /\ Authority(cap) \in Blocks /\ Authority(cap) \in BlocksOf(cap)
         /\ BlocksOf(cap) \subseteq Blocks /\ RevocationIds(cap) \subseteq Nat
<1>1. cap.blocks \in Seq(Blocks) /\ cap.blocks # <<>>
  BY DEF Caps
<1>2. 1 \in DOMAIN cap.blocks /\ \A n \in DOMAIN cap.blocks : cap.blocks[n] \in Blocks
  BY <1>1
<1> QED
  BY <1>2 DEF Authority, BlocksOf, RevocationIds, Blocks

(* What a check let through at an instant it let through before it. *)
LEMMA HeldEarlier ==
  ASSUME NEW cap \in Caps, NEW t \in Nat, NEW u \in Nat, t <= u,
         NEW service, NEW device, NEW foreign,
         ChecksHold(cap, Program(u, service, device, foreign))
  PROVE  ChecksHold(cap, Program(t, service, device, foreign))
<1> DEFINE before == Program(t, service, device, foreign)
           after == Program(u, service, device, foreign)
<1>1. Date(t) \in Nat /\ Date(u) \in Nat /\ Date(t) <= Date(u)
  BY DateType, DateMonotone
<1>2. SUFFICES ASSUME NEW b \in BlocksOf(cap) PROVE Holds(b, cap, before)
  BY DEF ChecksHold
<1>3. b.dates \subseteq Nat
  BY AuthorityOf DEF Blocks
<1>4. Holds(b, cap, after)
  BY DEF ChecksHold
<1>5. \A date \in b.dates : before.time <= date
  BY <1>1, <1>3, <1>4 DEF Holds, Program
<1> QED
  BY <1>4, <1>5 DEF Holds, Program

LEMMA GrantedEarlier ==
  ASSUME NEW cap \in Caps, NEW t \in Nat, NEW u \in Nat, t <= u, NEW root, NEW who
  PROVE  /\ \A s : Grants(cap, root, s, who, u) => Grants(cap, root, s, who, t)
         /\ GrantsMember(cap, root, who, u) => GrantsMember(cap, root, who, t)
         /\ \A s : GrantsUnder(cap, root, s, who, u) => GrantsUnder(cap, root, s, who, t)
  BY HeldEarlier DEF Grants, GrantsMember, GrantsUnder

(* An authority slip grants nothing on its own: its check asks for a foreign   *)
(* authority that only the two-token verification supplies.                    *)
LEMMA AuthoritySlipInert ==
  ASSUME NEW cap \in WrittenCaps, Authority(cap).bound # {},
         NEW root, NEW service, NEW peer, NEW t
  PROVE  ~Grants(cap, root, service, peer, t) /\ ~GrantsMember(cap, root, peer, t)
<1>1. cap \in Caps /\ Authority(cap).foreign
  BY DEF WrittenCaps, Authority
<1>2. Authority(cap) \in BlocksOf(cap)
  BY <1>1, AuthorityOf
<1> QED
  BY <1>1, <1>2 DEF Grants, GrantsMember, ChecksHold, Holds, Program
=============================================================================
