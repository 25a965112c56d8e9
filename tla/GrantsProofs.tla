----------------------------- MODULE GrantsProofs -----------------------------
(* What holds of capabilities and of their datalog for every number of keys,   *)
(* services, instants and blocks.                                              *)
EXTENDS Grants, CapProofs, FiniteSetTheorems, NaturalsInduction

(* Capabilities.                                                               *)

RightsSets == [use : SUBSET (Services \X Keys \X Instants),
               belong : SUBSET (Keys \X Instants),
               lend : SUBSET (Services \X Keys \X Instants)]

\* What a capability verifies for, said of each request.
Exact(cap, rights) ==
  /\ \A s \in Services, peer \in Keys, t \in Instants :
       <<s, peer, t>> \in rights.use <=> Grants(cap, cap.root, s, peer, t)
  /\ \A peer \in Keys, t \in Instants :
       <<peer, t>> \in rights.belong <=> GrantsMember(cap, cap.root, peer, t)
  /\ \A s \in Services, x \in Keys, t \in Instants :
       <<s, x, t>> \in rights.lend <=> GrantsUnder(cap, cap.root, s, x, t)

\* The blocks of a chain have ids of their own, all of them given out.
OwnIds(cap, next) ==
  /\ \A n \in DOMAIN cap.blocks : cap.blocks[n].id < next
  /\ \A m, n \in DOMAIN cap.blocks : cap.blocks[m].id = cap.blocks[n].id => m = n

\* The date a mint advises is one that it checks.
Dated(cap) == Authority(cap).dates # {} /\ Expiry(cap) \subseteq Authority(cap).dates

HeldCap(c, next) ==
  /\ c \in [cap : Caps, rights : RightsSets] /\ c.cap.root \in Issuers
  /\ OwnIds(c.cap, next) /\ Dated(c.cap) /\ Exact(c.cap, c.rights)

GrantsInv == ids \in 0 .. MaxIds /\ \A c \in caps : HeldCap(c, ids)
-----------------------------------------------------------------------------
\* One more block is one more block, and nothing else.
LEMMA OneMoreBlock ==
  ASSUME NEW cap \in Caps, NEW b \in Blocks,
         NEW d, d = [cap EXCEPT !.blocks = Append(@, b)]
  PROVE  /\ d \in Caps /\ d.root = cap.root /\ d.sealed = cap.sealed
         /\ Len(d.blocks) = Len(cap.blocks) + 1
         /\ d.blocks[Len(cap.blocks) + 1] = b
         /\ \A n \in 1 .. Len(cap.blocks) : d.blocks[n] = cap.blocks[n]
         /\ Authority(d) = Authority(cap)
         /\ BlocksOf(d) = BlocksOf(cap) \cup {b}
<1>1. cap.blocks \in Seq(Blocks) /\ cap.blocks # <<>> /\ d.blocks = Append(cap.blocks, b)
  BY DEF Caps
<1>2. /\ d.blocks \in Seq(Blocks) /\ Len(d.blocks) = Len(cap.blocks) + 1
      /\ \A n \in 1 .. Len(cap.blocks) : d.blocks[n] = cap.blocks[n]
      /\ d.blocks[Len(cap.blocks) + 1] = b
      /\ Len(cap.blocks) \in Nat /\ Len(cap.blocks) > 0
      /\ DOMAIN d.blocks = 1 .. Len(cap.blocks) + 1
      /\ DOMAIN cap.blocks = 1 .. Len(cap.blocks)
  BY <1>1
<1>3. d.blocks # <<>>
  BY <1>2
<1>4. d \in Caps /\ d.root = cap.root /\ d.sealed = cap.sealed
  BY <1>1, <1>2, <1>3 DEF Caps
<1>5. Authority(d) = Authority(cap)
  BY <1>2 DEF Authority
<1>6. BlocksOf(d) = BlocksOf(cap) \cup {b}
  <2>1. ASSUME NEW n \in DOMAIN d.blocks PROVE d.blocks[n] \in BlocksOf(cap) \cup {b}
    BY <1>2 DEF BlocksOf
  <2>2. ASSUME NEW n \in DOMAIN cap.blocks
        PROVE  n \in DOMAIN d.blocks /\ d.blocks[n] = cap.blocks[n]
    BY <1>2
  <2>3. Len(cap.blocks) + 1 \in DOMAIN d.blocks
    BY <1>2
  <2> QED
    BY <1>2, <2>1, <2>2, <2>3 DEF BlocksOf
<1> QED
  BY <1>2, <1>4, <1>5, <1>6

\* A chain of one block is what its block is.
LEMMA OneBlock ==
  ASSUME NEW root \in Keys, NEW b \in Blocks
  PROVE  LET cap == Minted(root, b) IN
         /\ cap \in Caps /\ cap.root = root /\ Authority(cap) = b
         /\ BlocksOf(cap) = {b} /\ DOMAIN cap.blocks = {1} /\ cap.blocks[1] = b
<1> DEFINE cap == Minted(root, b)
<1>1. cap.root = root /\ cap.blocks = <<b>> /\ cap.sealed = FALSE
  BY DEF Minted
<1>2. <<b>> \in Seq(Blocks) /\ <<b>> # <<>> /\ <<b>>[1] = b /\ DOMAIN <<b>> = {1}
  OBVIOUS
<1>3. cap \in Caps
  BY <1>2 DEF Caps, Minted
<1> QED
  BY <1>1, <1>2, <1>3 DEF Authority, BlocksOf

LEMMA ExpiringBlock ==
  ASSUME NEW id \in Nat, NEW expiry \in Nat,
         NEW b, b = Expiring(id, expiry)
  PROVE  /\ b \in Blocks /\ b.id = id
         /\ b.expires = {Date(expiry)} /\ b.dates = {Date(expiry)}
         /\ b.bound = {} /\ b.services = {} /\ b.devices = {}
         /\ ~b.member /\ ~b.foreign
<1>1. {Date(expiry)} \in SUBSET Nat
  BY DateType
<1> QED
  BY <1>1 DEF Expiring, Plain, Blocks
-----------------------------------------------------------------------------
\* Narrowing.
LEMMA OptionIs == ASSUME NEW S, NEW o \in Options(S) PROVE o \in SUBSET S
  BY DEF Options

DatesIn(shorten) == {Date(e) : e \in shorten}
Numbers(times) == times \subseteq Nat
LEMMA InstantsAreNumbers == Numbers(Instants)
  BY DelegationAssumption DEF Numbers

LEMMA NarrowingBlock ==
  ASSUME NEW service \in Options(Services), NEW times, Numbers(times),
         NEW shorten \in Options(times), NEW id \in Nat
  PROVE  LET b == Narrowing(service, shorten, id) IN
         /\ b \in Blocks /\ b.id = id /\ b.services = service /\ b.devices = {}
         /\ b.dates = DatesIn(shorten) /\ ~b.foreign
         /\ ~b.member /\ b.bound = {} /\ b.expires = {}
<1>1. service \in SUBSET Services /\ shorten \in SUBSET Nat
  BY OptionIs DEF Numbers
<1>2. DatesIn(shorten) \in SUBSET Nat
  BY <1>1, DateType DEF DatesIn
<1>3. Narrowing(service, shorten, id) =
        [Plain(id) EXCEPT !.services = service, !.dates = DatesIn(shorten)]
  BY DEF Narrowing, DatesIn
<1> QED
  BY <1>1, <1>2, <1>3 DEF Plain, Blocks

LEMMA NarrowedHolds ==
  ASSUME NEW cap \in Caps, NEW service \in Options(Services),
         NEW shorten \in Options(Instants), NEW id \in Nat,
         NEW d, d = Attenuate(cap, service, shorten, id),
         NEW t \in Instants, NEW svc, NEW dev, NEW lent
  PROVE  ChecksHold(d, Program(t, svc, dev, lent)) <=>
           /\ ChecksHold(cap, Program(t, svc, dev, lent))
           /\ service \subseteq svc /\ \A e \in shorten : t \in Until(e)
<1> DEFINE program == Program(t, svc, dev, lent)
           b == Narrowing(service, shorten, id)
<1>1. /\ b \in Blocks /\ b.services = service /\ b.devices = {}
      /\ b.dates = DatesIn(shorten) /\ ~b.foreign
  BY InstantsAreNumbers, NarrowingBlock
<1>2. Authority(d) = Authority(cap) /\ BlocksOf(d) = BlocksOf(cap) \cup {b}
  <2>1. d = [cap EXCEPT !.blocks = Append(@, b)]
    BY DEF Attenuate
  <2> HIDE DEF b
  <2> QED
    BY <1>1, <2>1, OneMoreBlock
<1>3. program.service = svc /\ program.device = dev /\ program.foreign = lent
      /\ program.time = Date(t)
  BY DEF Program
<1> HIDE DEF b, program
<1>4. ChecksHold(d, program) <=> ChecksHold(cap, program) /\ Holds(b, cap, program)
  BY <1>2 DEF ChecksHold, Holds
<1>5. Holds(b, cap, program) <=>
        service \subseteq svc /\ \A e \in shorten : Date(t) <= Date(e)
  BY <1>1, <1>3 DEF Holds, DatesIn
<1>6. \A e \in shorten : Date(t) <= Date(e) <=> t \in Until(e)
  BY DEF Until
<1> QED
  BY <1>4, <1>5, <1>6 DEF program

LEMMA NarrowedExact ==
  ASSUME NEW cap \in Caps, NEW rights \in RightsSets, Exact(cap, rights),
         NEW service \in Options(Services), NEW shorten \in Options(Instants),
         NEW id \in Nat, NEW d, d = Attenuate(cap, service, shorten, id)
  PROVE  /\ Narrowed(rights, service, shorten) \in RightsSets
         /\ Exact(d, Narrowed(rights, service, shorten))
<1> DEFINE cut == Narrowed(rights, service, shorten)
           InTime(t) == \A e \in shorten : t \in Until(e)
<1>1. /\ cut.use = {r \in rights.use : (service = {} \/ r[1] \in service) /\ InTime(r[3])}
      /\ cut.belong = {r \in rights.belong : service = {} /\ InTime(r[2])}
      /\ cut.lend = {r \in rights.lend : (service = {} \/ r[1] \in service) /\ InTime(r[3])}
  BY DEF Narrowed
<1>2. cut \in RightsSets
  BY DEF Narrowed, RightsSets
<1>3. service = {} \/ \E s \in Services : service = {s}
  BY DEF Options
<1>4. d.root = cap.root /\ Authority(d) = Authority(cap)
  <2> DEFINE b == Narrowing(service, shorten, id)
  <2>1. b \in Blocks /\ d = [cap EXCEPT !.blocks = Append(@, b)]
    BY NarrowingBlock, InstantsAreNumbers DEF Attenuate
  <2> HIDE DEF b
  <2> QED
    BY <2>1, OneMoreBlock
<1>5. \A t \in Instants : \A svc, dev, lent :
        ChecksHold(d, Program(t, svc, dev, lent)) <=>
          ChecksHold(cap, Program(t, svc, dev, lent)) /\ service \subseteq svc /\ InTime(t)
  BY NarrowedHolds
<1> HIDE DEF cut, InTime
<1>6. ASSUME NEW s \in Services, NEW k \in Keys, NEW t \in Instants
      PROVE  /\ <<s, k, t>> \in cut.use <=> Grants(d, d.root, s, k, t)
             /\ <<s, k, t>> \in cut.lend <=> GrantsUnder(d, d.root, s, k, t)
  <2>1. service \subseteq {s} <=> (service = {} \/ s \in service)
    BY <1>3
  <2>2. /\ <<s, k, t>> \in cut.use <=>
             <<s, k, t>> \in rights.use /\ service \subseteq {s} /\ InTime(t)
        /\ <<s, k, t>> \in cut.lend <=>
             <<s, k, t>> \in rights.lend /\ service \subseteq {s} /\ InTime(t)
    BY <1>1, <2>1
  <2>3. Grants(d, d.root, s, k, t) <=>
          Grants(cap, cap.root, s, k, t) /\ service \subseteq {s} /\ InTime(t)
    BY <1>4, <1>5 DEF Grants
  <2>4. GrantsUnder(d, d.root, s, k, t) <=>
          GrantsUnder(cap, cap.root, s, k, t) /\ service \subseteq {s} /\ InTime(t)
    BY <1>4, <1>5 DEF GrantsUnder
  <2> QED
    BY <2>2, <2>3, <2>4 DEF Exact
<1>7. ASSUME NEW k \in Keys, NEW t \in Instants
      PROVE  <<k, t>> \in cut.belong <=> GrantsMember(d, d.root, k, t)
  <2>1. <<k, t>> \in cut.belong <=>
          <<k, t>> \in rights.belong /\ service \subseteq {} /\ InTime(t)
    BY <1>1
  <2>2. GrantsMember(d, d.root, k, t) <=>
          GrantsMember(cap, cap.root, k, t) /\ service \subseteq {} /\ InTime(t)
    BY <1>4, <1>5 DEF GrantsMember
  <2> QED
    BY <2>1, <2>2 DEF Exact
<1>8. Exact(d, cut)
  BY <1>6, <1>7 DEF Exact
<1> QED
  BY <1>2, <1>8 DEF cut
-----------------------------------------------------------------------------
\* Minting: what each block a mint signs verifies for.
LEMMA MintedHolds ==
  ASSUME NEW root \in Keys, NEW b \in Blocks, NEW expiry \in Instants,
         b.expires = {Date(expiry)}, b.dates = {Date(expiry)},
         NEW cap, cap = Minted(root, b)
  PROVE  /\ cap \in Caps /\ cap.root = root /\ Authority(cap) = b /\ Dated(cap)
         /\ \A next \in Nat : next = b.id + 1 => OwnIds(cap, next)
         /\ \A t \in Instants : \A svc, dev, lent :
              ChecksHold(cap, Program(t, svc, dev, lent)) <=>
                /\ b.services \subseteq svc /\ b.devices \subseteq dev
                /\ t \in Until(expiry)
                /\ (b.foreign => b.bound \cap lent # {})
<1>1. /\ cap \in Caps /\ cap.root = root /\ Authority(cap) = b
      /\ BlocksOf(cap) = {b} /\ DOMAIN cap.blocks = {1} /\ cap.blocks[1] = b
  BY OneBlock
<1>2. Dated(cap)
  BY <1>1 DEF Dated, Expiry
<1>3. ASSUME NEW next \in Nat, next = b.id + 1 PROVE OwnIds(cap, next)
  <2>1. b.id \in Nat
    BY DEF Blocks
  <2> QED
    BY <1>1, <1>3, <2>1 DEF OwnIds
<1>4. ASSUME NEW t \in Instants, NEW svc, NEW dev, NEW lent
      PROVE  ChecksHold(cap, Program(t, svc, dev, lent)) <=>
               /\ b.services \subseteq svc /\ b.devices \subseteq dev
               /\ t \in Until(expiry)
               /\ (b.foreign => b.bound \cap lent # {})
  <2> DEFINE program == Program(t, svc, dev, lent)
  <2>1. program.service = svc /\ program.device = dev /\ program.foreign = lent
        /\ program.time = Date(t)
    BY DEF Program
  <2> HIDE DEF program
  <2>2. ChecksHold(cap, program) <=> Holds(b, cap, program)
    BY <1>1 DEF ChecksHold
  <2>3. (\A date \in b.dates : program.time <= date) <=> t \in Until(expiry)
    BY <2>1 DEF Until
  <2> QED
    BY <1>1, <2>1, <2>2, <2>3 DEF Holds, program
<1> QED
  BY <1>1, <1>2, <1>3, <1>4

LEMMA MintedExact ==
  ASSUME NEW root \in Keys, NEW b \in Blocks, NEW expiry \in Instants,
         b.expires = {Date(expiry)}, b.dates = {Date(expiry)},
         NEW rights \in RightsSets,
         \A s \in Services, k \in Keys, t \in Instants :
           <<s, k, t>> \in rights.use <=>
             /\ b.services \subseteq {s} /\ b.devices \subseteq {k}
             /\ t \in Until(expiry) /\ ~b.foreign,
         \A k \in Keys, t \in Instants :
           <<k, t>> \in rights.belong <=>
             /\ b.services = {} /\ b.devices \subseteq {k}
             /\ t \in Until(expiry) /\ ~b.foreign /\ b.member,
         \A s \in Services, k \in Keys, t \in Instants :
           <<s, k, t>> \in rights.lend <=>
             /\ b.services \subseteq {s} /\ b.devices = {}
             /\ t \in Until(expiry) /\ k \in b.bound,
         NEW cap, cap = Minted(root, b)
  PROVE  Exact(cap, rights)
<1>1. /\ cap.root = root /\ Authority(cap) = b
      /\ \A t \in Instants : \A svc, dev, lent :
           ChecksHold(cap, Program(t, svc, dev, lent)) <=>
             /\ b.services \subseteq svc /\ b.devices \subseteq dev
             /\ t \in Until(expiry)
             /\ (b.foreign => b.bound \cap lent # {})
  BY MintedHolds
<1>2. ASSUME NEW s \in Services, NEW k \in Keys, NEW t \in Instants
      PROVE  /\ <<s, k, t>> \in rights.use <=> Grants(cap, cap.root, s, k, t)
             /\ <<s, k, t>> \in rights.lend <=> GrantsUnder(cap, cap.root, s, k, t)
  <2>1. ChecksHold(cap, Program(t, {s}, {k}, {})) <=>
          /\ b.services \subseteq {s} /\ b.devices \subseteq {k}
          /\ t \in Until(expiry) /\ ~b.foreign
    BY <1>1
  <2>2. ChecksHold(cap, Program(t, {s}, {}, {k})) <=>
          /\ b.services \subseteq {s} /\ b.devices \subseteq {}
          /\ t \in Until(expiry) /\ (b.foreign => b.bound \cap {k} # {})
    BY <1>1
  <2>3. k \in b.bound => b.bound \cap {k} # {}
    OBVIOUS
  <2>4. <<s, k, t>> \in rights.use <=> Grants(cap, cap.root, s, k, t)
    BY <1>1, <2>1 DEF Grants
  <2>5. <<s, k, t>> \in rights.lend <=> GrantsUnder(cap, cap.root, s, k, t)
    BY <1>1, <2>2, <2>3 DEF GrantsUnder
  <2> QED
    BY <2>4, <2>5
<1>3. ASSUME NEW k \in Keys, NEW t \in Instants
      PROVE  <<k, t>> \in rights.belong <=> GrantsMember(cap, cap.root, k, t)
  <2>1. ChecksHold(cap, Program(t, {}, {k}, {})) <=>
          /\ b.services \subseteq {} /\ b.devices \subseteq {k}
          /\ t \in Until(expiry) /\ ~b.foreign
    BY <1>1
  <2> QED
    BY <1>1, <2>1 DEF GrantsMember
<1> QED
  BY <1>2, <1>3 DEF Exact

\* Each mint, with the rights it names.
LEMMA MintExact ==
  ASSUME NEW root \in Issuers, NEW expiry \in Instants, NEW id \in Nat,
         NEW service \in Services
  PROVE  LET cap == Mint(root, service, expiry, id)
             rights == SlipRights({service}, Keys, expiry) IN
         /\ cap \in Caps /\ cap.root = root /\ Dated(cap) /\ OwnIds(cap, id + 1)
         /\ rights \in RightsSets /\ Exact(cap, rights)
<1> DEFINE e == Expiring(id, expiry)
           b == [e EXCEPT !.services = {service}]
           rights == SlipRights({service}, Keys, expiry)
<1>0. /\ e \in Blocks /\ e.id = id /\ e.expires = {Date(expiry)} /\ e.dates = {Date(expiry)}
      /\ e.bound = {} /\ e.services = {} /\ e.devices = {} /\ ~e.member /\ ~e.foreign
  BY ExpiringBlock, DelegationAssumption
<1> HIDE DEF e
<1>1. /\ b \in Blocks /\ b.id = id /\ b.expires = {Date(expiry)} /\ b.dates = {Date(expiry)}
      /\ b.bound = {} /\ b.services = {service} /\ b.devices = {}
      /\ ~b.member /\ ~b.foreign
  BY <1>0 DEF Blocks
<1>2. rights \in RightsSets
  BY DEF SlipRights, RightsSets, Until
<1>3. /\ rights.use = {service} \X Keys \X Until(expiry)
      /\ rights.belong = {} /\ rights.lend = {}
  BY DEF SlipRights
<1>4. Mint(root, service, expiry, id) = Minted(root, b) /\ root \in Keys
  BY DelegationAssumption DEF Mint, e
<1> HIDE DEF b, rights
<1>5. Exact(Minted(root, b), rights)
  BY <1>1, <1>2, <1>3, <1>4, MintedExact
<1> QED
  BY <1>1, <1>2, <1>4, <1>5, MintedHolds DEF rights

LEMMA MintMemberExact ==
  ASSUME NEW root \in Issuers, NEW expiry \in Instants, NEW id \in Nat,
         NEW device \in Keys
  PROVE  LET cap == MintMember(root, device, expiry, id)
             rights == BadgeRights(device, expiry) IN
         /\ cap \in Caps /\ cap.root = root /\ Dated(cap) /\ OwnIds(cap, id + 1)
         /\ rights \in RightsSets /\ Exact(cap, rights)
<1> DEFINE e == Expiring(id, expiry)
           b == [e EXCEPT !.member = TRUE, !.devices = {device}]
           rights == BadgeRights(device, expiry)
<1>0. /\ e \in Blocks /\ e.id = id /\ e.expires = {Date(expiry)} /\ e.dates = {Date(expiry)}
      /\ e.bound = {} /\ e.services = {} /\ e.devices = {} /\ ~e.member /\ ~e.foreign
  BY ExpiringBlock, DelegationAssumption
<1> HIDE DEF e
<1>1. /\ b \in Blocks /\ b.id = id /\ b.expires = {Date(expiry)} /\ b.dates = {Date(expiry)}
      /\ b.bound = {} /\ b.services = {} /\ b.devices = {device}
      /\ b.member /\ ~b.foreign
  BY <1>0 DEF Blocks
<1>2. /\ rights.use = Services \X {device} \X Until(expiry)
      /\ rights.belong = {device} \X Until(expiry) /\ rights.lend = {}
  BY DEF BadgeRights, SlipRights
<1>3. rights \in RightsSets
  BY DEF BadgeRights, SlipRights, RightsSets, Until
<1>4. MintMember(root, device, expiry, id) = Minted(root, b) /\ root \in Keys
  BY DelegationAssumption DEF MintMember, e
<1> HIDE DEF b, rights
<1>5. Exact(Minted(root, b), rights)
  BY <1>1, <1>2, <1>3, <1>4, MintedExact
<1> QED
  BY <1>1, <1>3, <1>4, <1>5, MintedHolds DEF rights

LEMMA MintBoundExact ==
  ASSUME NEW root \in Issuers, NEW expiry \in Instants, NEW id \in Nat,
         NEW service \in Services, NEW device \in Keys
  PROVE  LET cap == MintBound(root, service, device, expiry, id)
             rights == SlipRights({service}, {device}, expiry) IN
         /\ cap \in Caps /\ cap.root = root /\ Dated(cap) /\ OwnIds(cap, id + 1)
         /\ rights \in RightsSets /\ Exact(cap, rights)
<1> DEFINE e == Expiring(id, expiry)
           b == [e EXCEPT !.services = {service}, !.devices = {device}]
           rights == SlipRights({service}, {device}, expiry)
<1>0. /\ e \in Blocks /\ e.id = id /\ e.expires = {Date(expiry)} /\ e.dates = {Date(expiry)}
      /\ e.bound = {} /\ e.services = {} /\ e.devices = {} /\ ~e.member /\ ~e.foreign
  BY ExpiringBlock, DelegationAssumption
<1> HIDE DEF e
<1>1. /\ b \in Blocks /\ b.id = id /\ b.expires = {Date(expiry)} /\ b.dates = {Date(expiry)}
      /\ b.bound = {} /\ b.services = {service} /\ b.devices = {device}
      /\ ~b.member /\ ~b.foreign
  BY <1>0 DEF Blocks
<1>2. rights \in RightsSets
  BY DEF SlipRights, RightsSets, Until
<1>3. /\ rights.use = {service} \X {device} \X Until(expiry)
      /\ rights.belong = {} /\ rights.lend = {}
  BY DEF SlipRights
<1>4. MintBound(root, service, device, expiry, id) = Minted(root, b) /\ root \in Keys
  BY DelegationAssumption DEF MintBound, e
<1> HIDE DEF b, rights
<1>5. Exact(Minted(root, b), rights)
  BY <1>1, <1>2, <1>3, <1>4, MintedExact
<1> QED
  BY <1>1, <1>2, <1>4, <1>5, MintedHolds DEF rights

LEMMA MintAuthoritySlipExact ==
  ASSUME NEW root \in Issuers, NEW expiry \in Instants, NEW id \in Nat,
         NEW service \in Services, NEW x \in Keys
  PROVE  LET cap == MintAuthoritySlip(root, service, x, expiry, id)
             rights == AuthorityRights(service, x, expiry) IN
         /\ cap \in Caps /\ cap.root = root /\ Dated(cap) /\ OwnIds(cap, id + 1)
         /\ rights \in RightsSets /\ Exact(cap, rights)
<1> DEFINE e == Expiring(id, expiry)
           b == [e EXCEPT !.services = {service}, !.bound = {x},
                            !.foreign = TRUE]
           rights == AuthorityRights(service, x, expiry)
<1>0. /\ e \in Blocks /\ e.id = id /\ e.expires = {Date(expiry)} /\ e.dates = {Date(expiry)}
      /\ e.bound = {} /\ e.services = {} /\ e.devices = {} /\ ~e.member /\ ~e.foreign
  BY ExpiringBlock, DelegationAssumption
<1> HIDE DEF e
<1>1. /\ b \in Blocks /\ b.id = id /\ b.expires = {Date(expiry)} /\ b.dates = {Date(expiry)}
      /\ b.bound = {x} /\ b.services = {service} /\ b.devices = {}
      /\ ~b.member /\ b.foreign
  BY <1>0 DEF Blocks
<1>2. rights \in RightsSets
  BY DEF AuthorityRights, RightsSets, Until
<1>3. /\ rights.lend = {service} \X {x} \X Until(expiry)
      /\ rights.belong = {} /\ rights.use = {}
  BY DEF AuthorityRights
<1>4. MintAuthoritySlip(root, service, x, expiry, id) = Minted(root, b) /\ root \in Keys
  BY DelegationAssumption DEF MintAuthoritySlip, e
<1> HIDE DEF b, rights
<1>5. Exact(Minted(root, b), rights)
  BY <1>1, <1>2, <1>3, <1>4, MintedExact
<1> QED
  BY <1>1, <1>2, <1>4, <1>5, MintedHolds DEF rights

\* The state after an issue of a capability that is exact.
LEMMA IssueKeeps ==
  ASSUME NEW cap \in Caps, NEW rights \in RightsSets, GrantsInv, cap.root \in Issuers,
         Issue(cap, rights), OwnIds(cap, ids + 1), Dated(cap), Exact(cap, rights)
  PROVE  GrantsInv'
<1>1. ids' = ids + 1 /\ ids' \in 0 .. MaxIds /\ ids \in Nat
  BY DelegationAssumption DEF Issue, GrantsInv
<1> DEFINE c == [cap |-> cap, rights |-> rights]
<1>2. caps' = caps \cup {c}
  BY DEF Issue
<1>3. HeldCap(c, ids')
  BY <1>1 DEF HeldCap
<1>4. ASSUME NEW e \in caps PROVE HeldCap(e, ids')
  <2>1. HeldCap(e, ids) /\ e.cap \in Caps
    BY DEF GrantsInv, HeldCap
  <2>2. \A n \in DOMAIN e.cap.blocks : e.cap.blocks[n] \in Blocks
    BY <2>1 DEF Caps
  <2>3. \A n \in DOMAIN e.cap.blocks : e.cap.blocks[n].id \in Nat
    BY <2>2 DEF Blocks
  <2>4. OwnIds(e.cap, ids')
    BY <1>1, <2>1, <2>3 DEF HeldCap, OwnIds
  <2> QED
    BY <2>1, <2>4 DEF HeldCap
<1> HIDE DEF c
<1> QED
  BY <1>1, <1>2, <1>3, <1>4 DEF GrantsInv
-----------------------------------------------------------------------------
LEMMA MintingKeeps ==
  ASSUME GrantsInv, Minting PROVE GrantsInv'
<1>1. ids \in Nat
  BY DelegationAssumption DEF GrantsInv
<1> SUFFICES ASSUME NEW root \in Issuers, NEW expiry \in Instants,
                    \/ \E service \in Services : MintSlip(root, service, expiry)
                    \/ \E device \in Keys : MintBadge(root, device, expiry)
                    \/ \E service \in Services, device \in Keys :
                         MintBoundSlip(root, service, device, expiry)
                    \/ \E service \in Services, x \in Keys :
                         MintAuthorityBound(root, service, x, expiry)
             PROVE  GrantsInv'
  BY DEF Minting
<1>2. ASSUME NEW service \in Services, MintSlip(root, service, expiry) PROVE GrantsInv'
  <2> DEFINE cap == Mint(root, service, expiry, ids)
             rights == SlipRights({service}, Keys, expiry)
  <2>1. /\ cap \in Caps /\ cap.root = root /\ Dated(cap) /\ OwnIds(cap, ids + 1)
        /\ rights \in RightsSets /\ Exact(cap, rights)
    BY <1>1, MintExact
  <2>2. Issue(cap, rights)
    BY <1>2 DEF MintSlip
  <2> HIDE DEF cap, rights
  <2> QED
    BY <2>1, <2>2, IssueKeeps
<1>3. ASSUME NEW device \in Keys, MintBadge(root, device, expiry) PROVE GrantsInv'
  <2> DEFINE cap == MintMember(root, device, expiry, ids)
             rights == BadgeRights(device, expiry)
  <2>1. /\ cap \in Caps /\ cap.root = root /\ Dated(cap) /\ OwnIds(cap, ids + 1)
        /\ rights \in RightsSets /\ Exact(cap, rights)
    BY <1>1, MintMemberExact
  <2>2. Issue(cap, rights)
    BY <1>3 DEF MintBadge
  <2> HIDE DEF cap, rights
  <2> QED
    BY <2>1, <2>2, IssueKeeps
<1>4. ASSUME NEW service \in Services, NEW device \in Keys,
             MintBoundSlip(root, service, device, expiry)
      PROVE  GrantsInv'
  <2> DEFINE cap == MintBound(root, service, device, expiry, ids)
             rights == SlipRights({service}, {device}, expiry)
  <2>1. /\ cap \in Caps /\ cap.root = root /\ Dated(cap) /\ OwnIds(cap, ids + 1)
        /\ rights \in RightsSets /\ Exact(cap, rights)
    BY <1>1, MintBoundExact
  <2>2. Issue(cap, rights)
    BY <1>4 DEF MintBoundSlip
  <2> HIDE DEF cap, rights
  <2> QED
    BY <2>1, <2>2, IssueKeeps
<1>5. ASSUME NEW service \in Services, NEW x \in Keys,
             MintAuthorityBound(root, service, x, expiry)
      PROVE  GrantsInv'
  <2> DEFINE cap == MintAuthoritySlip(root, service, x, expiry, ids)
             rights == AuthorityRights(service, x, expiry)
  <2>1. /\ cap \in Caps /\ cap.root = root /\ Dated(cap) /\ OwnIds(cap, ids + 1)
        /\ rights \in RightsSets /\ Exact(cap, rights)
    BY <1>1, MintAuthoritySlipExact
  <2>2. Issue(cap, rights)
    BY <1>5 DEF MintAuthorityBound
  <2> HIDE DEF cap, rights
  <2> QED
    BY <2>1, <2>2, IssueKeeps
<1> QED
  BY <1>2, <1>3, <1>4, <1>5

LEMMA NarrowKeeps ==
  ASSUME GrantsInv, NEW c \in caps,
         NEW service \in Options(Services), NEW shorten \in Options(Instants),
         Narrow(c, service, shorten)
  PROVE  GrantsInv'
<1> DEFINE d == Attenuate(c.cap, service, shorten, ids)
           b == Narrowing(service, shorten, ids)
           rights == Narrowed(c.rights, service, shorten)
<1>1. /\ ids \in Nat /\ HeldCap(c, ids)
      /\ c.cap \in Caps /\ c.cap.root \in Issuers /\ c.rights \in RightsSets
      /\ OwnIds(c.cap, ids) /\ Dated(c.cap) /\ Exact(c.cap, c.rights)
  BY DelegationAssumption DEF GrantsInv, HeldCap
<1>2. rights \in RightsSets /\ Exact(d, rights)
  BY <1>1, NarrowedExact
<1>3. b \in Blocks /\ b.id = ids /\ d = [c.cap EXCEPT !.blocks = Append(@, b)]
  BY <1>1, NarrowingBlock, InstantsAreNumbers DEF Attenuate
<1>4. Issue(d, rights)
  BY DEF Narrow
<1> HIDE DEF d, b, rights
<1>5. /\ d \in Caps /\ d.root = c.cap.root
      /\ Len(d.blocks) = Len(c.cap.blocks) + 1
      /\ d.blocks[Len(c.cap.blocks) + 1] = b
      /\ \A n \in 1 .. Len(c.cap.blocks) : d.blocks[n] = c.cap.blocks[n]
      /\ Authority(d) = Authority(c.cap)
  BY <1>1, <1>3, OneMoreBlock
<1>6. Dated(d)
  BY <1>1, <1>5 DEF Dated, Expiry
<1>7. OwnIds(d, ids + 1)
  <2>1. /\ DOMAIN c.cap.blocks = 1 .. Len(c.cap.blocks) /\ Len(c.cap.blocks) \in Nat
        /\ DOMAIN d.blocks = 1 .. Len(c.cap.blocks) + 1
        /\ \A n \in DOMAIN c.cap.blocks : c.cap.blocks[n].id \in Nat
    <3>1. c.cap.blocks \in Seq(Blocks) /\ d.blocks \in Seq(Blocks)
      BY <1>1, <1>5 DEF Caps
    <3>2. \A n \in DOMAIN c.cap.blocks : c.cap.blocks[n] \in Blocks
      BY <3>1
    <3> QED
      BY <1>5, <3>1, <3>2 DEF Blocks
  <2>2. ASSUME NEW n \in DOMAIN d.blocks
        PROVE  \/ n = Len(c.cap.blocks) + 1 /\ d.blocks[n].id = ids
               \/ /\ n \in DOMAIN c.cap.blocks /\ d.blocks[n].id = c.cap.blocks[n].id
                  /\ d.blocks[n].id < ids
    BY <1>1, <1>3, <1>5, <2>1 DEF OwnIds
  <2>3. \A n \in DOMAIN d.blocks : d.blocks[n].id < ids + 1
    BY <1>1, <2>1, <2>2
  <2>4. ASSUME NEW m \in DOMAIN d.blocks, NEW n \in DOMAIN d.blocks,
               d.blocks[m].id = d.blocks[n].id
        PROVE  m = n
    BY <1>1, <2>1, <2>2, <2>4 DEF OwnIds
  <2> QED
    BY <2>3, <2>4 DEF OwnIds
<1> QED
  BY <1>1, <1>2, <1>4, <1>5, <1>6, <1>7, IssueKeeps

LEMMA SealKeeps ==
  ASSUME GrantsInv, NEW c \in caps, SealLink(c)
  PROVE  GrantsInv'
<1> DEFINE d == [c EXCEPT !.cap = Seal(c.cap)]
<1>1. HeldCap(c, ids)
  BY DEF GrantsInv
<1>2. /\ Seal(c.cap) \in Caps /\ Seal(c.cap).root = c.cap.root
      /\ Seal(c.cap).blocks = c.cap.blocks
  BY <1>1 DEF HeldCap, Seal, Caps
<1>3. /\ d \in [cap : Caps, rights : RightsSets] /\ d.cap.root = c.cap.root
      /\ d.cap.blocks = c.cap.blocks /\ d.rights = c.rights
  BY <1>1, <1>2 DEF HeldCap
<1>4. caps' = caps \cup {d} /\ ids' = ids
  BY DEF SealLink
<1> HIDE DEF d
<1>5. /\ Authority(d.cap) = Authority(c.cap) /\ BlocksOf(d.cap) = BlocksOf(c.cap)
      /\ Expiry(d.cap) = Expiry(c.cap)
  BY <1>3 DEF Authority, BlocksOf, Expiry
<1>6. \A program : ChecksHold(d.cap, program) <=> ChecksHold(c.cap, program)
  BY <1>5 DEF ChecksHold, Holds
<1>7. Exact(d.cap, d.rights)
  BY <1>1, <1>3, <1>5, <1>6 DEF HeldCap, Exact, Grants, GrantsMember, GrantsUnder
<1>8. HeldCap(d, ids)
  BY <1>1, <1>3, <1>5, <1>7 DEF HeldCap, OwnIds, Dated
<1> QED
  BY <1>4, <1>8 DEF GrantsInv

THEOREM GrantsCorrect == GrantsSpec => []GrantsInv
<1>1. GrantsInit => GrantsInv
  BY DelegationAssumption DEF GrantsInit, Init, GrantsInv
<1>2. ASSUME GrantsInv, [GrantsNext]_<<vars, tokenVars>>
      PROVE  GrantsInv'
  <2>1. CASE Next
    BY <1>2, <2>1, MintingKeeps, NarrowKeeps, SealKeeps DEF Next
  <2>2. CASE UNCHANGED vars
    BY <1>2, <2>2 DEF vars, GrantsInv
  <2> QED
    BY <1>2, <2>1, <2>2 DEF GrantsNext
<1> QED
  BY <1>1, <1>2, PTL DEF GrantsSpec

\* A chain whose ids are its blocks' own has as many ids as blocks.
LEMMA IdsCounted ==
  ASSUME NEW cap \in Caps, NEW next, OwnIds(cap, next)
  PROVE  Cardinality(RevocationIds(cap)) = Len(cap.blocks)
<1> DEFINE f == [n \in 1 .. Len(cap.blocks) |-> cap.blocks[n].id]
           S == RevocationIds(cap)
<1>1. /\ Len(cap.blocks) \in Nat /\ DOMAIN cap.blocks = 1 .. Len(cap.blocks)
  BY DEF Caps
<1>2. S = {cap.blocks[n].id : n \in 1 .. Len(cap.blocks)}
  BY <1>1 DEF RevocationIds, BlocksOf
<1>3. f \in [1 .. Len(cap.blocks) -> S]
  BY <1>2
<1>4. \A m, n \in 1 .. Len(cap.blocks) : f[m] = f[n] => m = n
  BY <1>1 DEF OwnIds
<1>5. \A e \in S : \E n \in 1 .. Len(cap.blocks) : f[n] = e
  BY <1>2
<1> HIDE DEF f, S
<1>6. f \in Bijection(1 .. Len(cap.blocks), S)
  BY <1>3, <1>4, <1>5 DEF Bijection, Injection, Surjection, IsInjective
<1>7. ExistsBijection(1 .. Len(cap.blocks), S)
  BY <1>6 DEF ExistsBijection
<1> QED
  BY <1>1, <1>7, FS_CountingElements DEF S

(* Every capability in circulation is a chain of signed blocks with ids of      *)
(* their own.                                                                   *)
THEOREM TypeCorrect == GrantsSpec => []TypeOK
<1>1. ASSUME GrantsInv PROVE TypeOK
  <2> SUFFICES ASSUME NEW c \in caps
               PROVE  /\ c.cap.root \in Issuers /\ c.cap.sealed \in BOOLEAN
                      /\ c.cap.blocks # <<>> /\ BlocksOf(c.cap) \subseteq Blocks
                      /\ Cardinality(RevocationIds(c.cap)) = Len(c.cap.blocks)
                      /\ c.rights \in RightsSets
    BY <1>1 DEF TypeOK, GrantsInv, RightsSets
  <2>1. HeldCap(c, ids) /\ c.cap \in Caps
    BY <1>1 DEF GrantsInv, HeldCap
  <2>2. BlocksOf(c.cap) \subseteq Blocks
    BY <2>1, AuthorityOf
  <2>3. Cardinality(RevocationIds(c.cap)) = Len(c.cap.blocks)
    BY <2>1, IdsCounted DEF HeldCap
  <2> QED
    BY <2>1, <2>2, <2>3 DEF HeldCap, Caps
<1> QED
  BY <1>1, GrantsCorrect, PTL

(* A capability verifies for exactly what its mint named and no narrowing took  *)
(* away: no chain of narrowings broadens anything, a slip is never a badge, and *)
(* an authority slip is inert on its own.                                       *)
THEOREM RightsKept == GrantsSpec => []RightsExact
<1>1. ASSUME GrantsInv PROVE RightsExact
  <2> SUFFICES ASSUME NEW c \in caps
               PROVE  LET root == c.cap.root IN
                      /\ c.rights.use = {r \in Services \X Keys \X Instants :
                                           Grants(c.cap, root, r[1], r[2], r[3])}
                      /\ c.rights.belong = {r \in Keys \X Instants :
                                              GrantsMember(c.cap, root, r[1], r[2])}
                      /\ c.rights.lend = {r \in Services \X Keys \X Instants :
                                            GrantsUnder(c.cap, root, r[1], r[2], r[3])}
    BY DEF RightsExact
  <2>1. c.rights \in RightsSets /\ Exact(c.cap, c.rights)
    BY <1>1 DEF GrantsInv, HeldCap
  <2>2. /\ c.rights.use \subseteq Services \X Keys \X Instants
        /\ c.rights.belong \subseteq Keys \X Instants
        /\ c.rights.lend \subseteq Services \X Keys \X Instants
    BY <2>1 DEF RightsSets
  <2>3. c.rights.use = {r \in Services \X Keys \X Instants :
                          Grants(c.cap, c.cap.root, r[1], r[2], r[3])}
    BY <2>1, <2>2 DEF Exact
  <2>4. c.rights.belong = {r \in Keys \X Instants :
                             GrantsMember(c.cap, c.cap.root, r[1], r[2])}
    BY <2>1, <2>2 DEF Exact
  <2>5. c.rights.lend = {r \in Services \X Keys \X Instants :
                           GrantsUnder(c.cap, c.cap.root, r[1], r[2], r[3])}
    BY <2>1, <2>2 DEF Exact
  <2> QED
    BY <2>3, <2>4, <2>5
<1> QED
  BY <1>1, GrantsCorrect, PTL
-----------------------------------------------------------------------------
(* The expiry of a capability.                                               *)

\* The date of an instant is at most d exactly up to the last instant of d.
LEMMA WithinLastInstant ==
  ASSUME NEW t \in Nat, NEW date \in Nat
  PROVE  /\ Date(t) <= date <=> t <= LastInstant(date)
         /\ LastInstant(date) \in Nat
         /\ \A e \in Nat : date <= e => LastInstant(date) <= LastInstant(e)
<1> DEFINE m == t \div Second
<1>1. /\ m \in Nat /\ Second \in Nat /\ Second > 0
      /\ Second * m <= t /\ t < Second * m + Second
  BY CapAssumption
<1>2. Date(t) = m
  BY DEF Date
<1>3. \A e \in Nat : LastInstant(e) = Second * e + Second - 1 /\ Second * e \in Nat
  BY <1>1 DEF LastInstant
<1> HIDE DEF m
<1>4. \A d, e \in Nat : d <= e => Second * d <= Second * e
  BY <1>1
<1>5. \A d, e \in Nat : d + 1 <= e => Second * d + Second <= Second * e
  <2>1. \A d \in Nat : Second * (d + 1) = Second * d + Second
    BY <1>1
  <2> QED
    BY <1>4, <2>1
<1>6. m <= date => t <= LastInstant(date)
  <2>1. m <= date => Second * m <= Second * date
    BY <1>1, <1>4
  <2> QED
    BY <1>1, <1>3, <2>1
<1>7. ~(m <= date) => ~(t <= LastInstant(date))
  <2>1. ~(m <= date) => date + 1 <= m
    BY <1>1
  <2>2. ~(m <= date) => Second * date + Second <= Second * m
    BY <1>1, <1>5, <2>1
  <2> QED
    BY <1>1, <1>3, <2>2
<1>8. \A e \in Nat : date <= e => LastInstant(date) <= LastInstant(e)
  BY <1>1, <1>3, <1>4
<1> QED
  BY <1>1, <1>2, <1>3, <1>6, <1>7, <1>8

\* Each set of dates has an earliest.
LEMMA EarliestOf ==
  ASSUME NEW S \in SUBSET Nat, S # {}
  PROVE  \E x \in S : \A y \in S : x <= y
<1> DEFINE R == {ss \in Nat \X Nat : ss[1] < ss[2]}
<1>1. PICK x \in S : \A y \in S : <<y, x>> \notin R
  <2>1. IsWellFoundedOn(R, Nat)
    BY NatLessThanWellFounded DEF OpToRel
  <2> HIDE DEF R
  <2> QED
    BY <2>1, WFMin
<1>2. ASSUME NEW y \in S PROVE x <= y
  <2>1. x \in Nat /\ y \in Nat /\ <<y, x>> \notin R
    BY <1>1
  <2>2. <<y, x>> \in Nat \X Nat /\ <<y, x>>[1] = y /\ <<y, x>>[2] = x
    BY <2>1
  <2>3. ~(y < x)
    BY <2>1, <2>2
  <2> QED
    BY <2>1, <2>3
<1> QED
  BY <1>1, <1>2

DatesOf(cap) == UNION {b.dates : b \in BlocksOf(cap)}

\* Checks hold in time exactly up to the last instant of the earliest date.
LEMMA ValidUntilIs ==
  ASSUME NEW cap \in Caps, DatesOf(cap) # {}
  PROVE  /\ \A t \in Nat : t <= ValidUntil(cap) <=>
              \A b \in BlocksOf(cap) : \A date \in b.dates : Date(t) <= date
         /\ \A date \in DatesOf(cap) : ValidUntil(cap) <= LastInstant(date)
<1> DEFINE dates == DatesOf(cap)
           first == CHOOSE d \in dates : \A e \in dates : d <= e
<1>1. dates \in SUBSET Nat /\ dates # {}
  BY AuthorityOf DEF Blocks, DatesOf
<1>2. ValidUntil(cap) = LastInstant(first)
  BY DEF ValidUntil, DatesOf
<1> HIDE DEF dates
<1>3. \E d \in dates : \A e \in dates : d <= e
  BY <1>1, EarliestOf
<1>4. first \in dates /\ first \in Nat /\ \A e \in dates : first <= e
  BY <1>1, <1>3
<1> HIDE DEF first
<1>5. ASSUME NEW t \in Nat
      PROVE  t <= LastInstant(first) <=> \A date \in dates : Date(t) <= date
  <2>1. Date(t) <= first <=> t <= LastInstant(first)
    BY <1>4, WithinLastInstant
  <2>2. Date(t) \in Nat
    BY DateType
  <2>3. Date(t) <= first => \A date \in dates : Date(t) <= date
    BY <1>1, <1>4, <2>2
  <2> QED
    BY <1>4, <2>1, <2>3
<1>6. ASSUME NEW t \in Nat
      PROVE  (\A date \in dates : Date(t) <= date) <=>
               \A b \in BlocksOf(cap) : \A date \in b.dates : Date(t) <= date
  BY DEF dates, DatesOf
<1>7. \A date \in dates : LastInstant(first) <= LastInstant(date)
  BY <1>1, <1>4, WithinLastInstant
<1> QED
  BY <1>2, <1>5, <1>6, <1>7 DEF dates

\* What holds at some instant holds, at any, exactly when the dates do.
LEMMA HeldByDates ==
  ASSUME NEW cap \in Caps, DatesOf(cap) # {}, NEW t \in Nat, NEW u \in Nat,
         NEW svc, NEW dev, NEW lent, ChecksHold(cap, Program(t, svc, dev, lent))
  PROVE  ChecksHold(cap, Program(u, svc, dev, lent)) <=> u <= ValidUntil(cap)
<1> DEFINE at(v) == Program(v, svc, dev, lent)
<1>1. \A v : /\ at(v).service = svc /\ at(v).device = dev /\ at(v).foreign = lent
             /\ at(v).time = Date(v)
  BY DEF Program
<1> HIDE DEF at
<1>2. ASSUME NEW b \in BlocksOf(cap)
      PROVE  Holds(b, cap, at(u)) <=> \A date \in b.dates : Date(u) <= date
  <2>1. Holds(b, cap, at(t))
    BY DEF ChecksHold, at
  <2> QED
    BY <1>1, <2>1 DEF Holds
<1>3. ChecksHold(cap, at(u)) <=>
        \A b \in BlocksOf(cap) : \A date \in b.dates : Date(u) <= date
  BY <1>2 DEF ChecksHold
<1> QED
  BY <1>3, ValidUntilIs DEF at

(* valid_until is the boundary of every grant, to the tick: what a capability   *)
(* grants at all it grants up to that instant, and nothing after; and the       *)
(* advisory date a holder reads is never before it.                             *)
THEOREM ValidUntilHolds == GrantsSpec => []ValidUntilExact
<1>1. ASSUME GrantsInv PROVE ValidUntilExact
  <2> SUFFICES ASSUME NEW c \in caps
               PROVE  LET rights == c.rights.use \cup c.rights.lend
                          before == {t \in Instants : t <= ValidUntil(c.cap)} IN
                      /\ \A r \in rights :
                           {u \in Instants : <<r[1], r[2], u>> \in rights} = before
                      /\ \A date \in Expiry(c.cap) : ValidUntil(c.cap) <= LastInstant(date)
    BY DEF ValidUntilExact
  <2> DEFINE rights == c.rights.use \cup c.rights.lend
  <2>1. /\ c.cap \in Caps /\ c.rights \in RightsSets
        /\ Exact(c.cap, c.rights) /\ Dated(c.cap)
    BY <1>1 DEF GrantsInv, HeldCap
  <2>2. Authority(c.cap).dates \subseteq DatesOf(c.cap) /\ DatesOf(c.cap) # {}
    BY <2>1, AuthorityOf DEF Dated, DatesOf
  <2>3. \A date \in Expiry(c.cap) : ValidUntil(c.cap) <= LastInstant(date)
    BY <2>1, <2>2, ValidUntilIs DEF Dated
  <2>4. ASSUME NEW s \in Services, NEW k \in Keys, NEW t \in Instants, NEW u \in Instants,
               <<s, k, t>> \in rights
        PROVE  <<s, k, u>> \in rights <=> u <= ValidUntil(c.cap)
    <3>1. t \in Nat /\ u \in Nat
      BY DelegationAssumption
    <3> DEFINE Used(v) == ChecksHold(c.cap, Program(v, {s}, {k}, {}))
               Lent(v) == ChecksHold(c.cap, Program(v, {s}, {}, {k}))
               until == ValidUntil(c.cap)
    <3>2. ASSUME NEW v \in Instants
          PROVE  /\ <<s, k, v>> \in c.rights.use <=> Used(v)
                 /\ <<s, k, v>> \in c.rights.lend <=>
                      k \in Authority(c.cap).bound /\ Lent(v)
      BY <2>1 DEF Exact, Grants, GrantsUnder
    <3>3. ASSUME NEW v \in Nat, NEW w \in Nat
          PROVE  /\ Used(v) => (Used(w) <=> w <= until)
                 /\ Lent(v) => (Lent(w) <=> w <= until)
      BY <2>1, <2>2, HeldByDates
    <3> HIDE DEF Used, Lent, until
    <3> QED
      BY <2>4, <3>1, <3>2, <3>3 DEF until
  <2>5. rights \subseteq Services \X Keys \X Instants
    BY <2>1 DEF RightsSets
  <2> HIDE DEF rights
  <2>6. ASSUME NEW r \in rights
        PROVE  {u \in Instants : <<r[1], r[2], u>> \in rights} =
                 {t \in Instants : t <= ValidUntil(c.cap)}
    <3>1. /\ r[1] \in Services /\ r[2] \in Keys /\ r[3] \in Instants
          /\ <<r[1], r[2], r[3]>> \in rights
      BY <2>5
    <3> QED
      BY <2>4, <3>1
  <2> QED
    BY <2>3, <2>6 DEF rights
<1> QED
  BY <1>1, GrantsCorrect, PTL
-----------------------------------------------------------------------------
(* Tokens.                                                                   *)

\* The blocks a token is built of.
WrittenBlocks == {b \in Blocks : IsFiniteSet(b.bound) /\ IsFiniteSet(b.expires)}
TokenBlocks == ByHand \cup {Written(b) : b \in WrittenBlocks}

LEMMA PairsFinite ==
  ASSUME NEW S, IsFiniteSet(S), NEW name
  PROVE  IsFiniteSet({<<name, e>> : e \in S})
<1> DEFINE T == {<<name, e>> : e \in S}
           f == [e \in S |-> <<name, e>>]
<1>1. f \in [S -> T] /\ \A x \in T : \E e \in S : f[e] = x
  OBVIOUS
<1>2. f \in Surjection(S, T)
  BY <1>1 DEF Surjection
<1> HIDE DEF f, T
<1>3. IsFiniteSet(T)
  BY <1>2, FS_Surjection
<1> QED
  BY <1>3 DEF T

LEMMA WrittenFactsFinite ==
  ASSUME NEW b \in WrittenBlocks PROVE IsFiniteSet(WrittenFacts(b))
<1> DEFINE named == IF b.member THEN {<<"member", "true">>} ELSE {}
           bound == {<<"authority_bound", x>> : x \in b.bound}
           expires == {<<"expires_at", date>> : date \in b.expires}
<1>1. IsFiniteSet(named)
  BY FS_EmptySet, FS_Singleton
<1>2. IsFiniteSet(bound) /\ IsFiniteSet(expires)
  BY PairsFinite DEF WrittenBlocks
<1>3. WrittenFacts(b) = (named \cup bound) \cup expires
  BY DEF WrittenFacts
<1> HIDE DEF named, bound, expires
<1> QED
  BY <1>1, <1>2, <1>3, FS_Union

\* The checks nauthy writes.
WrittenChecks(b) ==
  {CheckIf(ServiceIs(s)) : s \in b.services}
    \cup {CheckIf(TimeAtMost(date)) : date \in b.dates}
    \cup {CheckIf(DeviceIs(d)) : d \in b.devices}
    \cup (IF b.foreign THEN {CheckIf(ForeignIsBound)} ELSE {})
LEMMA WrittenIs ==
  ASSUME NEW b
  PROVE  /\ Written(b).facts = WrittenFacts(b) /\ ~Written(b).rules
         /\ Written(b).checks = WrittenChecks(b)
  BY DEF Written, DatalogBlock, WrittenChecks

LEMMA QueryIs ==
  ASSUME NEW body, NEW comparisons
  PROVE  /\ Query(body, comparisons).body = body
         /\ Query(body, comparisons).comparisons = comparisons
         /\ ~Query(body, comparisons).closure
  BY DEF Query

\* Queries as biscuit reads them, within the grammar.
Fine(query) ==
  /\ ~query.closure
  /\ Len(query.body) \in 0 .. 2 /\ DOMAIN query.body = 1 .. Len(query.body)
  /\ IsFiniteSet(query.comparisons)
  /\ \A c \in query.comparisons : c[2] \in {"<=", ">="} => c[3] \in Nat

\* A query of one predicate and one comparison.
Compared(name, variable, op, literal) ==
  Query(<< <<name, variable>> >>, {<<variable, op, literal>>})
LEMMA OneComparison ==
  ASSUME NEW name, NEW variable, NEW op, NEW literal,
         op \in {"<=", ">="} => literal \in Nat,
         NEW query, query = Compared(name, variable, op, literal)
  PROVE  /\ Fine(query) /\ DOMAIN query.body = {1} /\ Len(query.body) = 1
         /\ query.body[1][1] = name /\ query.body[1][2] = variable
         /\ query.comparisons = {<<variable, op, literal>>}
<1> DEFINE body == << <<name, variable>> >>
           comparisons == {<<variable, op, literal>>}
<1>2. Len(body) = 1 /\ DOMAIN body = {1} /\ body[1] = <<name, variable>>
  OBVIOUS
<1>3. IsFiniteSet(comparisons)
  BY FS_Singleton
<1>4. \A c \in comparisons : c[2] = op /\ c[3] = literal
  OBVIOUS
<1>5. query.body = body /\ query.comparisons = comparisons /\ ~query.closure
  BY QueryIs DEF Compared
<1>6. body[1][1] = name /\ body[1][2] = variable
  BY <1>2
<1> HIDE DEF body, comparisons
<1>7. Len(query.body) \in 0 .. 2 /\ DOMAIN query.body = 1 .. Len(query.body)
  <2>1. {1} = 1 .. 1 /\ 1 \in 0 .. 2
    OBVIOUS
  <2> QED
    BY <1>2, <1>5, <2>1
<1>8. \A c \in query.comparisons : c[2] \in {"<=", ">="} => c[3] \in Nat
  BY <1>4, <1>5
<1>9. Fine(query)
  BY <1>3, <1>5, <1>7, <1>8 DEF Fine
<1> QED
  BY <1>2, <1>5, <1>6, <1>9 DEF comparisons

LEMMA WrittenCompare ==
  /\ \A s : ServiceIs(s) = Compared("service", "s", "==", s)
  /\ \A date : TimeAtMost(date) = Compared("time", "t", "<=", date)
  /\ \A d : DeviceIs(d) = Compared("bound_device", "d", "==", d)
  BY DEF ServiceIs, TimeAtMost, DeviceIs, Compared
LEMMA ServiceIsFine == ASSUME NEW s PROVE Fine(ServiceIs(s))
  BY OneComparison, WrittenCompare, "==" \notin {"<=", ">="}
LEMMA TimeAtMostFine == ASSUME NEW date \in Nat PROVE Fine(TimeAtMost(date))
  BY OneComparison, WrittenCompare
LEMMA DeviceIsFine == ASSUME NEW d PROVE Fine(DeviceIs(d))
  BY OneComparison, WrittenCompare, "==" \notin {"<=", ">="}
LEMMA ForeignIsBoundFine ==
  /\ Fine(ForeignIsBound) /\ DOMAIN ForeignIsBound.body = {1, 2}
  /\ ForeignIsBound.body[1] = <<"authority_bound", "x">>
  /\ ForeignIsBound.body[2] = <<"foreign_member", "x">>
  /\ ForeignIsBound.comparisons = {}
<1> DEFINE body == << <<"authority_bound", "x">>, <<"foreign_member", "x">> >>
<1>2. /\ Len(body) = 2 /\ DOMAIN body = {1, 2}
      /\ body[1] = <<"authority_bound", "x">> /\ body[2] = <<"foreign_member", "x">>
  OBVIOUS
<1>3. /\ ForeignIsBound.body = body /\ ForeignIsBound.comparisons = {}
      /\ ~ForeignIsBound.closure
  BY QueryIs DEF ForeignIsBound
<1> HIDE DEF body
<1>4. Len(body) \in 0 .. 2 /\ DOMAIN body = 1 .. Len(body)
  BY <1>2
<1> QED
  BY <1>2, <1>3, <1>4, FS_EmptySet DEF Fine

LEMMA WrittenQueries ==
  ASSUME NEW b \in Blocks, NEW check \in WrittenChecks(b)
  PROVE  \E query : check = CheckIf(query) /\ Fine(query)
<1>1. b.dates \subseteq Nat
  BY DEF Blocks
<1> QED
  BY <1>1, ServiceIsFine, TimeAtMostFine, DeviceIsFine, ForeignIsBoundFine DEF WrittenChecks

LEMMA BlocksWellFormed ==
  ASSUME NEW block \in TokenBlocks PROVE WellFormed(block)
<1>1. CASE block \in ByHand
  BY <1>1, DatalogAssumption
<1>2. ASSUME NEW b \in WrittenBlocks, block = Written(b) PROVE WellFormed(block)
  <2>1. /\ IsFiniteSet(block.facts) /\ block.checks = WrittenChecks(b) /\ b \in Blocks
    BY <1>2, WrittenFactsFinite, WrittenIs DEF WrittenBlocks
  <2>2. ASSUME NEW check \in WrittenChecks(b)
        PROVE  /\ check.kind = "one"
               /\ \A query \in check.queries :
                    /\ Len(query.body) \in Nat /\ DOMAIN query.body = 1 .. Len(query.body)
                    /\ IsFiniteSet(query.comparisons)
                    /\ \A c \in query.comparisons : c[2] \in {"<=", ">="} => c[3] \in Nat
    BY <2>1, WrittenQueries DEF CheckIf, Check, Fine
  <2> QED
    BY <2>1, <2>2 DEF WellFormed
<1> QED
  BY <1>1, <1>2 DEF TokenBlocks

\* What a mint signs, and what a narrowing appends.
AuthorityShape(b) ==
  /\ b \in Blocks /\ \E t \in Clock : b.expires = {Date(t)} /\ b.dates = {Date(t)}
  /\ \/ ~b.foreign /\ b.bound = {}
     \/ b.foreign /\ ~b.member /\ \E x \in Keys : b.bound = {x}
LaterShape(b) ==
  /\ b \in Blocks /\ ~b.member /\ b.bound = {} /\ b.expires = {} /\ b.devices = {}
  /\ ~b.foreign /\ b.dates \subseteq {Date(t) : t \in Clock}

\* A token nauthy built is the datalog of a capability's blocks.
MintedAs(c, written) ==
  /\ c \in Caps /\ Len(written) = Len(c.blocks) /\ AuthorityShape(c.blocks[1])
  /\ \A n \in 2 .. Len(c.blocks) : LaterShape(c.blocks[n])
  /\ \A n \in 1 .. Len(c.blocks) : written[n] = Written(c.blocks[n])

TokenInv == token \in Seq(TokenBlocks) /\ \A c \in minted : MintedAs(c, token)

LEMMA ShapesWritten ==
  ASSUME NEW b, AuthorityShape(b) \/ LaterShape(b) PROVE Written(b) \in TokenBlocks
<1>1. b \in Blocks /\ IsFiniteSet(b.bound) /\ IsFiniteSet(b.expires)
  <2>1. b.bound = {} \/ \E x : b.bound = {x}
    BY DEF AuthorityShape, LaterShape
  <2>2. b.expires = {} \/ \E date : b.expires = {date}
    BY DEF AuthorityShape, LaterShape
  <2>3. b \in Blocks
    BY DEF AuthorityShape, LaterShape
  <2>4. IsFiniteSet({}) /\ \A x : IsFiniteSet({x})
    BY FS_EmptySet, FS_Singleton
  <2> QED
    BY <2>1, <2>2, <2>3, <2>4
<1> QED
  BY <1>1 DEF TokenBlocks, WrittenBlocks

LEMMA MintShape ==
  ASSUME NEW cap \in Mints
  PROVE  /\ cap \in Caps /\ Len(cap.blocks) = 1 /\ cap.blocks[1] = Authority(cap)
         /\ AuthorityShape(Authority(cap))
<1>1. PICK root \in Keys, s \in Services, d \in Keys, t \in Clock :
        \/ cap = Mint(root, s, t, 0) \/ cap = MintMember(root, d, t, 0)
        \/ cap = MintBound(root, s, d, t, 0) \/ cap = MintAuthoritySlip(root, s, d, t, 0)
  BY DEF Mints
<1> DEFINE e == Expiring(0, t)
<1>2. t \in Nat
  BY DatalogAssumption DEF Clock
<1>3. /\ e \in Blocks /\ e.id = 0 /\ e.expires = {Date(t)} /\ e.dates = {Date(t)}
      /\ e.bound = {} /\ e.services = {} /\ e.devices = {} /\ ~e.member /\ ~e.foreign
  BY <1>2, ExpiringBlock
<1>4. ASSUME NEW b, AuthorityShape(b), cap = Minted(root, b)
      PROVE  /\ cap \in Caps /\ Len(cap.blocks) = 1 /\ cap.blocks[1] = Authority(cap)
             /\ AuthorityShape(Authority(cap))
  <2>1. Len(cap.blocks) = 1
    BY <1>4 DEF Minted
  <2> QED
    BY <1>4, <2>1, OneBlock DEF AuthorityShape, Authority
<1>5. CASE cap = Mint(root, s, t, 0)
  <2> DEFINE b == [e EXCEPT !.services = {s}]
  <2>1. cap = Minted(root, b)
    BY <1>5 DEF Mint
  <2> HIDE DEF e
  <2>2. AuthorityShape(b)
    BY <1>3 DEF AuthorityShape, Blocks
  <2> QED
    BY <1>4, <2>1, <2>2
<1>6. CASE cap = MintMember(root, d, t, 0)
  <2> DEFINE b == [e EXCEPT !.member = TRUE, !.devices = {d}]
  <2>1. cap = Minted(root, b)
    BY <1>6 DEF MintMember
  <2> HIDE DEF e
  <2>2. AuthorityShape(b)
    BY <1>3 DEF AuthorityShape, Blocks
  <2> QED
    BY <1>4, <2>1, <2>2
<1>7. CASE cap = MintBound(root, s, d, t, 0)
  <2> DEFINE b == [e EXCEPT !.services = {s}, !.devices = {d}]
  <2>1. cap = Minted(root, b)
    BY <1>7 DEF MintBound
  <2> HIDE DEF e
  <2>2. AuthorityShape(b)
    BY <1>3 DEF AuthorityShape, Blocks
  <2> QED
    BY <1>4, <2>1, <2>2
<1>8. CASE cap = MintAuthoritySlip(root, s, d, t, 0)
  <2> DEFINE b == [e EXCEPT !.services = {s}, !.bound = {d}, !.foreign = TRUE]
  <2>1. cap = Minted(root, b)
    BY <1>8 DEF MintAuthoritySlip
  <2> HIDE DEF e
  <2>2. AuthorityShape(b)
    BY <1>3 DEF AuthorityShape, Blocks
  <2> QED
    BY <1>4, <2>1, <2>2
<1> QED
  BY <1>1, <1>5, <1>6, <1>7, <1>8

LEMMA MintTokenKeeps ==
  ASSUME NEW cap \in Mints, MintToken(cap) PROVE TokenInv'
<1>1. token' = <<Written(Authority(cap))>> /\ minted' = {cap}
  BY DEF MintToken
<1>2. /\ cap \in Caps /\ Len(cap.blocks) = 1 /\ cap.blocks[1] = Authority(cap)
      /\ AuthorityShape(Authority(cap))
  BY MintShape
<1>3. Written(Authority(cap)) \in TokenBlocks
  BY <1>2, ShapesWritten
<1>4. token' \in Seq(TokenBlocks) /\ Len(token') = 1 /\ token'[1] = Written(Authority(cap))
  BY <1>1, <1>3
<1>5. MintedAs(cap, token')
  BY <1>2, <1>4 DEF MintedAs
<1> QED
  BY <1>1, <1>4, <1>5 DEF TokenInv

LEMMA NarrowTokenKeeps ==
  ASSUME TokenInv, NEW service \in Options(Services), NEW shorten \in Options(Clock),
         NarrowToken(service, shorten)
  PROVE  TokenInv'
<1> DEFINE b == Narrowing(service, shorten, Len(token))
<1>1. /\ token \in Seq(TokenBlocks) /\ Len(token) \in Nat
      /\ token' = Append(token, Written(b))
      /\ minted' = {Attenuate(c, service, shorten, Len(token)) : c \in minted}
  BY DEF NarrowToken, TokenInv
<1>2. b \in Blocks /\ LaterShape(b)
  <2>1. Numbers(Clock) /\ shorten \subseteq Clock /\ Clock \subseteq Nat
    BY OptionIs, DatalogAssumption DEF Numbers, Clock
  <2>2. /\ b \in Blocks /\ b.devices = {} /\ b.dates = DatesIn(shorten)
        /\ ~b.foreign /\ ~b.member /\ b.bound = {} /\ b.expires = {}
    BY <1>1, <2>1, NarrowingBlock
  <2> HIDE DEF b
  <2> QED
    BY <2>1, <2>2 DEF LaterShape, DatesIn
<1>3. ASSUME NEW c \in Caps
      PROVE  Attenuate(c, service, shorten, Len(token)) = [c EXCEPT !.blocks = Append(@, b)]
  BY DEF Attenuate
<1> HIDE DEF b
<1>4. Written(b) \in TokenBlocks
  BY <1>2, ShapesWritten
<1>5. /\ token' \in Seq(TokenBlocks) /\ Len(token') = Len(token) + 1
      /\ token'[Len(token) + 1] = Written(b)
      /\ \A n \in 1 .. Len(token) : token'[n] = token[n]
  BY <1>1, <1>4
<1>6. ASSUME NEW c \in minted
      PROVE  MintedAs(Attenuate(c, service, shorten, Len(token)), token')
  <2> DEFINE d == Attenuate(c, service, shorten, Len(token))
  <2>1. /\ c \in Caps /\ Len(token) = Len(c.blocks) /\ AuthorityShape(c.blocks[1])
        /\ \A n \in 2 .. Len(c.blocks) : LaterShape(c.blocks[n])
        /\ \A n \in 1 .. Len(c.blocks) : token[n] = Written(c.blocks[n])
    BY DEF TokenInv, MintedAs
  <2>2. d = [c EXCEPT !.blocks = Append(@, b)] /\ Len(c.blocks) \in Nat \ {0}
    BY <1>3, <2>1 DEF Caps
  <2> HIDE DEF d
  <2>3. /\ d \in Caps /\ Len(d.blocks) = Len(c.blocks) + 1
        /\ d.blocks[Len(c.blocks) + 1] = b
        /\ \A n \in 1 .. Len(c.blocks) : d.blocks[n] = c.blocks[n]
    BY <1>2, <2>1, <2>2, OneMoreBlock
  <2>4. AuthorityShape(d.blocks[1])
    BY <2>1, <2>2, <2>3
  <2>5. ASSUME NEW n \in 1 .. Len(d.blocks)
        PROVE  /\ n > 1 => LaterShape(d.blocks[n])
               /\ token'[n] = Written(d.blocks[n])
    <3>1. CASE n = Len(c.blocks) + 1
      BY <1>2, <1>5, <2>1, <2>3, <3>1
    <3>2. CASE n \in 1 .. Len(c.blocks)
      BY <1>5, <2>1, <2>3, <3>2
    <3> QED
      BY <2>2, <2>3, <3>1, <3>2
  <2> QED
    BY <1>5, <2>1, <2>2, <2>3, <2>4, <2>5 DEF MintedAs, d
<1> QED
  BY <1>1, <1>5, <1>6 DEF TokenInv

THEOREM TokensCorrect == GrantsSpec => []TokenInv
<1>1. GrantsInit => TokenInv
  BY DEF GrantsInit, TokenInit, TokenInv
<1>2. ASSUME TokenInv, [GrantsNext]_<<vars, tokenVars>>
      PROVE  TokenInv'
  <2>1. CASE UNCHANGED tokenVars
    BY <1>2, <2>1 DEF tokenVars, TokenInv
  <2>2. ASSUME NEW block \in ByHand, AppendByHand(block) PROVE TokenInv'
    <3>1. token \in Seq(TokenBlocks) /\ block \in TokenBlocks
      BY <1>2 DEF TokenInv, TokenBlocks
    <3>2. token' = Append(token, block) /\ minted' = {}
      BY <2>2 DEF AppendByHand
    <3> QED
      BY <3>1, <3>2 DEF TokenInv
  <2>3. CASE TokenNext
    BY <1>2, <2>2, <2>3, MintTokenKeeps, NarrowTokenKeeps DEF TokenNext
  <2> QED
    BY <1>2, <2>1, <2>3 DEF GrantsNext
<1> QED
  BY <1>1, <1>2, PTL DEF GrantsSpec
-----------------------------------------------------------------------------
(* What an evaluation reads.                                                 *)

\* The facts of a request but the time.
Asking(program) ==
  {<<"service", s>> : s \in program.service}
    \cup {<<"bound_device", d>> : d \in program.device}
    \cup {<<"foreign_member", x>> : x \in program.foreign}
LEMMA SuppliedIs ==
  ASSUME NEW program PROVE Supplied(program) = Asking(program) \cup {<<"time", program.time>>}
  BY DEF Supplied, Asking

\* A question is of one request at one time, and a policy.
LEMMA QuestionIs ==
  ASSUME NEW t, NEW q \in Questions(t)
  PROVE  \E svc \in Options(Services), dev \in Options(Keys), lent \in Options(Keys) :
         \E policy \in {"always", "member"} :
           q = Question(Program(t, svc, dev, lent), policy)
<1>1. \/ \E s \in Services, dialer \in Options(Keys) : q = ToUse(t, s, dialer)
      \/ \E d \in Keys : q = ToBelong(t, d)
      \/ \E s \in Services, x \in Keys : q = ToUseUnder(t, s, x)
  BY DEF Questions
<1> DEFINE Asked == \E svc \in Options(Services), dev \in Options(Keys), lent \in Options(Keys) :
                    \E policy \in {"always", "member"} :
                      q = Question(Program(t, svc, dev, lent), policy)
<1>2. \A S : {} \in Options(S) /\ \A e \in S : {e} \in Options(S)
  BY DEF Options
<1>3. ASSUME NEW s \in Services, NEW dialer \in Options(Keys), q = ToUse(t, s, dialer)
      PROVE  Asked
  BY <1>2, <1>3 DEF ToUse
<1>4. ASSUME NEW d \in Keys, q = ToBelong(t, d) PROVE Asked
  BY <1>2, <1>4 DEF ToBelong
<1>5. ASSUME NEW s \in Services, NEW x \in Keys, q = ToUseUnder(t, s, x) PROVE Asked
  BY <1>2, <1>5 DEF ToUseUnder
<1> HIDE DEF Asked
<1>6. Asked
  BY <1>1, <1>3, <1>4, <1>5
<1> QED
  BY <1>6 DEF Asked

LEMMA OptionFinite == ASSUME NEW S, NEW o \in Options(S) PROVE IsFiniteSet(o)
  BY FS_EmptySet, FS_Singleton DEF Options

LEMMA AskingFinite ==
  ASSUME NEW program, IsFiniteSet(program.service), IsFiniteSet(program.device),
         IsFiniteSet(program.foreign)
  PROVE  IsFiniteSet(Asking(program)) /\ IsFiniteSet(Supplied(program))
<1> DEFINE service == {<<"service", s>> : s \in program.service}
           device == {<<"bound_device", d>> : d \in program.device}
           lent == {<<"foreign_member", x>> : x \in program.foreign}
           asking == Asking(program)
<1>1. IsFiniteSet(service) /\ IsFiniteSet(device) /\ IsFiniteSet(lent)
  BY PairsFinite
<1>2. asking = (service \cup device) \cup lent
  BY DEF Asking
<1> HIDE DEF service, device, lent
<1>3. IsFiniteSet(asking)
  BY <1>1, <1>2, FS_Union
<1> HIDE DEF asking
<1>4. IsFiniteSet(asking \cup {<<"time", program.time>>})
  BY <1>3, FS_Singleton, FS_Union
<1> QED
  BY <1>3, <1>4, SuppliedIs DEF asking

\* What a question supplies is finitely many facts, the same at each time but the time.
LEMMA QuestionFacts ==
  ASSUME NEW t, NEW q \in Questions(t)
  PROVE  /\ q.program.time = Date(t)
         /\ IsFiniteSet(Asking(q.program)) /\ IsFiniteSet(Supplied(q.program))
         /\ Supplied(q.program) = Asking(q.program) \cup {<<"time", Date(t)>>}
         /\ \A date :
              Supplied([q EXCEPT !.program.time = date].program)
                = Asking(q.program) \cup {<<"time", date>>}
<1>1. PICK svc \in Options(Services), dev \in Options(Keys), lent \in Options(Keys) :
         \E policy \in {"always", "member"} :
           q = Question(Program(t, svc, dev, lent), policy)
  BY QuestionIs
<1>2. /\ q.program = [time |-> Date(t), service |-> svc, device |-> dev, foreign |-> lent]
      /\ q = [program |-> q.program, policy |-> q.policy]
  BY <1>1 DEF Question, Program
<1>3. IsFiniteSet(svc) /\ IsFiniteSet(dev) /\ IsFiniteSet(lent)
  BY OptionFinite
<1>4. IsFiniteSet(Asking(q.program)) /\ IsFiniteSet(Supplied(q.program))
  BY <1>2, <1>3, AskingFinite
<1>5. ASSUME NEW date
      PROVE  Supplied([q EXCEPT !.program.time = date].program)
               = Asking(q.program) \cup {<<"time", date>>}
  <2> DEFINE program == [q EXCEPT !.program.time = date].program
  <2>1. /\ program.time = date /\ program.service = svc
        /\ program.device = dev /\ program.foreign = lent
    BY <1>2
  <2> HIDE DEF program
  <2>2. Asking(program) = Asking(q.program)
    BY <1>2, <2>1 DEF Asking
  <2> QED
    BY <2>1, <2>2, SuppliedIs DEF program
<1> QED
  BY <1>2, <1>4, <1>5, SuppliedIs

\* The facts of finitely many blocks are finitely many.
LEMMA AllFactsFinite ==
  ASSUME NEW blocks \in Seq(TokenBlocks), NEW supplied, IsFiniteSet(supplied)
  PROVE  IsFiniteSet(AllFacts(blocks, supplied))
<1> DEFINE Own(n) == {<<n, f>> : f \in blocks[n].facts}
           places == DOMAIN blocks
           owns == {Own(n) : n \in places}
           Given == {<<0, f>> : f \in supplied}
           f == [n \in places |-> Own(n)]
<1>1. IsFiniteSet(Given)
  BY PairsFinite
<1>2. places = 1 .. Len(blocks) /\ IsFiniteSet(places)
  BY FS_Interval
<1>3. ASSUME NEW n \in places PROVE IsFiniteSet(Own(n))
  <2>1. IsFiniteSet(blocks[n].facts)
    BY BlocksWellFormed DEF WellFormed
  <2> QED
    BY <2>1, PairsFinite
<1> HIDE DEF Own, places
<1>4. f \in Surjection(places, owns)
  BY DEF Surjection
<1> HIDE DEF f
<1>5. IsFiniteSet(owns)
  BY <1>2, <1>4, FS_Surjection
<1>6. \A T \in owns : IsFiniteSet(T)
  BY <1>3
<1> HIDE DEF owns, Given
<1>7. IsFiniteSet(UNION owns)
  BY <1>5, <1>6, FS_UNION
<1>8. IsFiniteSet(Given \cup UNION owns)
  BY <1>1, <1>7, FS_Union
<1> QED
  BY <1>8 DEF AllFacts, owns, Given, Own, places

\* A token's first blocks: what evaluation reads of them.
LEMMA Shorter ==
  ASSUME NEW blocks \in Seq(TokenBlocks), Len(blocks) > 1,
         NEW before, before = SubSeq(blocks, 1, Len(blocks) - 1)
  PROVE  /\ before \in Seq(TokenBlocks) /\ 1 \in DOMAIN before /\ 1 \in DOMAIN blocks
         /\ DOMAIN before \subseteq DOMAIN blocks
         /\ \A n \in DOMAIN before : before[n] = blocks[n]
  OBVIOUS

\* A refusal of the budget stays one when blocks are added.
LEMMA BudgetMonotone ==
  ASSUME NEW blocks \in Seq(TokenBlocks), NEW before \in Seq(TokenBlocks),
         DOMAIN before \subseteq DOMAIN blocks,
         \A n \in DOMAIN before : before[n] = blocks[n],
         NEW supplied, IsFiniteSet(supplied), BeyondTheGrammar(before, supplied)
  PROVE  BeyondTheGrammar(blocks, supplied)
<1> DEFINE facts == AllFacts(blocks, supplied)
           earlier == AllFacts(before, supplied)
<1>1. IsFiniteSet(facts) /\ IsFiniteSet(earlier)
  BY AllFactsFinite
<1>2. earlier \in SUBSET facts
  BY DEF AllFacts
<1> HIDE DEF facts, earlier
<1>3. Cardinality(earlier) <= Cardinality(facts)
  BY <1>1, <1>2, FS_Subset
<1>4. Cardinality(earlier) \in Nat /\ Cardinality(facts) \in Nat /\ MaxTokenFacts \in Nat
  BY <1>1, FS_CardinalityType, DatalogAssumption
<1>5. Cardinality(earlier) > MaxTokenFacts => Cardinality(facts) > MaxTokenFacts
  BY <1>3, <1>4
<1>6. ChecksOf(before) \subseteq ChecksOf(blocks)
  BY DEF ChecksOf
<1> QED
  BY <1>5, <1>6 DEF BeyondTheGrammar, facts, earlier

(* No block broadens what a token grants, whoever wrote it and however many     *)
(* blocks, facts and checks there are: the crate's reads see only the           *)
(* authority's facts, each block's checks only their own beside them, and the   *)
(* budget's refusals are kept.                                                  *)
THEOREM NothingBroadens == GrantsSpec => []NoBlockBroadens
<1>1. ASSUME TokenInv PROVE NoBlockBroadens
  <2> SUFFICES ASSUME Len(token) > 1,
                      NEW before, before = SubSeq(token, 1, Len(token) - 1)
               PROVE  /\ \A t \in Clock : \A q \in Questions(t) :
                           Granted(token, q) => Granted(before, q)
                      /\ \A name \in {"member", "authority_bound", "expires_at"} :
                           AuthorityReads(token, name) = AuthorityReads(before, name)
    BY DEF NoBlockBroadens
  <2>1. /\ token \in Seq(TokenBlocks) /\ before \in Seq(TokenBlocks)
        /\ 1 \in DOMAIN before /\ DOMAIN before \subseteq DOMAIN token
        /\ \A n \in DOMAIN before : before[n] = token[n]
    BY <1>1, Shorter DEF TokenInv
  <2>2. \A n \in DOMAIN before : \A supplied :
          Visible(before, n, supplied) = Visible(token, n, supplied)
    BY <2>1 DEF Visible
  <2>3. ASSUME NEW t \in Clock, NEW q \in Questions(t), Granted(token, q)
        PROVE  Granted(before, q)
    <3> DEFINE supplied == Supplied(q.program)
    <3>1. IsFiniteSet(supplied)
      BY QuestionFacts
    <3> HIDE DEF supplied
    <3>2. ~BeyondTheGrammar(token, supplied)
      BY <2>3 DEF Granted, Authorize, supplied
    <3>3. ~BeyondTheGrammar(before, supplied)
      BY <2>1, <3>1, <3>2, BudgetMonotone
    <3>4. /\ \A n \in DOMAIN token : \A c \in token[n].checks :
               Passes(c, Visible(token, n, supplied))
          /\ q.policy \subseteq Visible(token, 1, supplied)
      BY <2>3, <3>2 DEF Granted, Authorize, supplied
    <3>5. /\ \A n \in DOMAIN before : \A c \in before[n].checks :
               Passes(c, Visible(before, n, supplied))
          /\ q.policy \subseteq Visible(before, 1, supplied)
      BY <2>1, <2>2, <3>4
    <3> QED
      BY <3>3, <3>5 DEF Granted, Authorize, supplied
  <2>4. ASSUME NEW name PROVE AuthorityReads(token, name) = AuthorityReads(before, name)
    BY <2>1, <2>2 DEF AuthorityReads
  <2> QED
    BY <2>3, <2>4
<1> QED
  BY <1>1, TokensCorrect, PTL
-----------------------------------------------------------------------------
(* Time.  A fact of the time matters to the queries that read one.           *)

Timeless(facts) == \A f \in facts : f[1] # "time"
WithTime(facts, now) == facts \cup {<<"time", now>>}

LEMMA JoinsApart ==
  ASSUME NEW query, NEW facts, NEW now, ~ReadsTheClock(query)
  PROVE  Joins(query, WithTime(facts, now)) = Joins(query, facts)
<1> DEFINE positions == DOMAIN query.body
           Meets(join) ==
             \A m, n \in positions :
               /\ join[n][1] = query.body[n][1]
               /\ query.body[m][2] = query.body[n][2] => join[m][2] = join[n][2]
<1>1. \A F : Joins(query, F) = {join \in [positions -> F] : Meets(join)}
  BY DEF Joins
<1>2. facts \subseteq WithTime(facts, now)
  BY DEF WithTime
<1>3. ASSUME NEW join \in [positions -> WithTime(facts, now)], Meets(join)
      PROVE  join \in [positions -> facts]
  <2>1. ASSUME NEW n \in positions PROVE join[n] \in facts
    <3>1. join[n][1] = query.body[n][1] /\ query.body[n][1] # "time"
      BY <1>3 DEF ReadsTheClock
    <3>2. join[n] \in facts \/ join[n] = <<"time", now>>
      BY <1>3 DEF WithTime
    <3>3. <<"time", now>>[1] = "time"
      OBVIOUS
    <3> QED
      BY <3>1, <3>2, <3>3
  <2> QED
    BY <1>3, <2>1
<1>4. \A join \in [positions -> facts] : join \in [positions -> WithTime(facts, now)]
  BY <1>2
<1> HIDE DEF positions, Meets
<1> QED
  BY <1>1, <1>3, <1>4

\* A check none of whose queries reads the time passes at any time or at none.
LEMMA PassesApart ==
  ASSUME NEW check, check.kind \in {"one", "all", "reject"},
         \A query \in check.queries : ~ReadsTheClock(query),
         NEW facts, NEW now, NEW then
  PROVE  Passes(check, WithTime(facts, now)) <=> Passes(check, WithTime(facts, then))
<1>1. ASSUME NEW query \in check.queries
      PROVE  /\ Joins(query, WithTime(facts, now)) = Joins(query, WithTime(facts, then))
             /\ Matches(query, WithTime(facts, now)) <=> Matches(query, WithTime(facts, then))
  BY JoinsApart DEF Matches
<1>2. CASE check.kind = "one"
  BY <1>1, <1>2 DEF Passes
<1>3. CASE check.kind = "all"
  BY <1>1, <1>3 DEF Passes
<1>4. CASE check.kind = "reject"
  BY <1>1, <1>4 DEF Passes
<1> QED
  BY <1>2, <1>3, <1>4

\* A query of one predicate and one comparison matches where a fact compares.
LEMMA SingleMatch ==
  ASSUME NEW query, DOMAIN query.body = {1}, NEW c, query.comparisons = {c},
         c[1] = query.body[1][2], NEW facts
  PROVE  Matches(query, facts) <=>
           \E f \in facts : f[1] = query.body[1][1] /\ Compares(f[2], c[2], c[3])
<1> DEFINE name == query.body[1][1]
           op == c[2]
           literal == c[3]
<1>1. \A join : Satisfies(join, query) <=> Compares(join[1][2], op, literal)
  BY DEF Satisfies
<1>2. \A join : join \in Joins(query, facts) <=>
                  join \in [{1} -> facts] /\ join[1][1] = name
  BY DEF Joins
<1> HIDE DEF name, op, literal
<1>3. ASSUME NEW f \in facts, f[1] = name, Compares(f[2], op, literal)
      PROVE  Matches(query, facts)
  <2> DEFINE join == [n \in {1} |-> f]
  <2>1. join \in [{1} -> facts] /\ join[1] = f
    OBVIOUS
  <2> HIDE DEF join
  <2> QED
    BY <1>1, <1>2, <1>3, <2>1 DEF Matches
<1>4. ASSUME Matches(query, facts)
      PROVE  \E f \in facts : f[1] = name /\ Compares(f[2], op, literal)
  BY <1>1, <1>2, <1>4 DEF Matches
<1> QED
  BY <1>3, <1>4 DEF name, op, literal

LEMMA ComparesIs ==
  ASSUME NEW value, NEW literal
  PROVE  /\ Compares(value, "<=", literal) <=> value <= literal
         /\ Compares(value, "==", literal) <=> value = literal
  BY DEF Compares

\* The queries of a check that valid_until reads, which ask for the time.
ClockQuery(query) ==
  /\ DOMAIN query.body = 1 .. Len(query.body) /\ IsFiniteSet(query.comparisons)
  /\ \A c \in query.comparisons : c[2] \in {"<=", ">="} => c[3] \in Nat
  /\ ReadsTheClock(query) /\ AtMost(query) # {}

LEMMA ClockQueryIs ==
  ASSUME NEW query, ClockQuery(query)
  PROVE  \E date \in Nat :
           /\ AtMost(query) = {date} /\ EndHeld(date)
           /\ \A facts, now : Timeless(facts) =>
                (Matches(query, WithTime(facts, now)) <=> now <= date)
<1>1. /\ Len(query.body) = 1 /\ Cardinality(query.comparisons) = 1 /\ ~query.closure
      /\ \E c \in query.comparisons : TRUE
  BY DEF ClockQuery, AtMost
<1>2. DOMAIN query.body = {1} /\ query.body[1][1] = "time"
  BY <1>1 DEF ClockQuery, ReadsTheClock
<1>3. PICK c : query.comparisons = {c}
  BY <1>1, FS_Singleton DEF ClockQuery
<1>4. c[1] = query.body[1][2] /\ c[2] = "<=" /\ EndHeld(c[3]) /\ AtMost(query) = {c[3]}
  BY <1>1, <1>3 DEF ClockQuery, AtMost
<1>5. c[3] \in Nat
  BY <1>3, <1>4 DEF ClockQuery
<1>6. ASSUME NEW facts, NEW now, Timeless(facts)
      PROVE  Matches(query, WithTime(facts, now)) <=> now <= c[3]
  <2>1. \A f \in WithTime(facts, now) : f[1] = "time" <=> f = <<"time", now>>
    BY <1>6 DEF WithTime, Timeless
  <2>2. <<"time", now>> \in WithTime(facts, now)
    BY DEF WithTime
  <2>3. Matches(query, WithTime(facts, now)) <=>
          \E f \in WithTime(facts, now) : f[1] = "time" /\ Compares(f[2], c[2], c[3])
    BY <1>2, <1>3, <1>4, SingleMatch
  <2>4. <<"time", now>>[2] = now
    OBVIOUS
  <2> QED
    BY <1>4, <2>1, <2>2, <2>3, <2>4, ComparesIs
<1> QED
  BY <1>4, <1>5, <1>6

\* A bounded set of numbers has a greatest, and Max and Min are what they say.
LEMMA MinIs ==
  ASSUME NEW S \in SUBSET Nat, S # {}
  PROVE  Min(S) \in S /\ \A y \in S : Min(S) <= y
  BY EarliestOf DEF Min

LEMMA MaxIs ==
  ASSUME NEW S \in SUBSET Nat, S # {}, NEW bound \in Nat, \A x \in S : x <= bound
  PROVE  Max(S) \in S /\ \A y \in S : y <= Max(S)
<1> DEFINE below == {bound - x : x \in S}
<1>1. below \in SUBSET Nat /\ below # {}
  OBVIOUS
<1>2. PICK least \in below : \A y \in below : least <= y
  BY <1>1, EarliestOf
<1>3. PICK x \in S : least = bound - x
  BY <1>2
<1>4. \A y \in S : x >= y
  <2>1. \A y \in S : bound - x <= bound - y
    BY <1>2, <1>3
  <2> QED
    BY <2>1
<1>5. \E z \in S : \A y \in S : z >= y
  BY <1>4
<1> HIDE DEF below
<1>6. Max(S) \in S /\ \A y \in S : Max(S) >= y
  BY <1>5 DEF Max
<1> QED
  BY <1>6

LEMMA DateBeforeItsEnd == ASSUME NEW date \in Nat PROVE date <= LastInstant(date)
<1> DEFINE more == Second - 1
<1>1. more \in Nat /\ Second = more + 1
  BY CapAssumption
<1> HIDE DEF more
<1>2. date * more \in Nat /\ date * (more + 1) = date * more + date
  BY <1>1
<1>3. LastInstant(date) = date * (more + 1) + more
  BY <1>1 DEF LastInstant
<1> QED
  BY <1>1, <1>2, <1>3

\* A check whose queries are all such passes up to its clock_bound, and no clock
\* goes past one.
ClockCheck(check) ==
  check.kind = "one" /\ check.queries # {} /\ \A query \in check.queries : ClockQuery(query)
LEMMA ClockCheckIs ==
  ASSUME NEW check, ClockCheck(check)
  PROVE  /\ ClockBound(check) \in Nat /\ ClockBound(check) <= LastTick
         /\ \A facts : \A u \in Nat : Timeless(facts) =>
              (Passes(check, WithTime(facts, Date(u))) <=> u <= ClockBound(check))
<1> DEFINE dates == UNION {AtMost(query) : query \in check.queries}
<1>1. ASSUME NEW query \in check.queries
      PROVE  \E date \in Nat :
               /\ AtMost(query) = {date} /\ EndHeld(date)
               /\ \A facts, now : Timeless(facts) =>
                    (Matches(query, WithTime(facts, now)) <=> now <= date)
  BY ClockQueryIs DEF ClockCheck
<1>2. dates \in SUBSET Nat /\ dates # {} /\ \A date \in dates : EndHeld(date)
  BY <1>1 DEF ClockCheck
<1>3. \A date \in dates : date <= LastTick
  <2> SUFFICES ASSUME NEW date \in dates PROVE date <= LastTick
    OBVIOUS
  <2>1. date \in Nat /\ LastInstant(date) <= LastTick
    BY <1>2 DEF EndHeld
  <2>2. LastInstant(date) \in Nat /\ date <= LastInstant(date)
    BY <2>1, WithinLastInstant, DateBeforeItsEnd
  <2> QED
    BY <2>1, <2>2, DatalogAssumption
<1>4. dates \in SUBSET Nat /\ LastTick \in Nat
  BY <1>2, DatalogAssumption
<1> DEFINE latest == Max(dates)
<1> HIDE DEF dates
<1>5. latest \in dates /\ latest \in Nat /\ \A date \in dates : date <= latest
  BY <1>2, <1>3, <1>4, MaxIs
<1>6. ClockBound(check) = LastInstant(latest)
  BY DEF ClockBound, dates
<1> HIDE DEF latest
<1>7. ClockBound(check) \in Nat /\ ClockBound(check) <= LastTick
  BY <1>2, <1>5, <1>6, WithinLastInstant DEF EndHeld
<1>8. ASSUME NEW facts, NEW u \in Nat, Timeless(facts)
      PROVE  Passes(check, WithTime(facts, Date(u))) <=> u <= ClockBound(check)
  <2>1. Passes(check, WithTime(facts, Date(u))) <=>
          \E query \in check.queries : Matches(query, WithTime(facts, Date(u)))
    BY DEF ClockCheck, Passes
  <2>2. Passes(check, WithTime(facts, Date(u))) <=> \E date \in dates : Date(u) <= date
    BY <1>1, <1>8, <2>1 DEF dates
  <2>3. (\E date \in dates : Date(u) <= date) <=> Date(u) <= latest
    <3>1. Date(u) \in Nat
      BY DateType
    <3> QED
      BY <1>4, <1>5, <3>1
  <2>4. Date(u) <= latest <=> u <= LastInstant(latest)
    BY <1>5, WithinLastInstant
  <2> QED
    BY <1>6, <2>2, <2>3, <2>4
<1> QED
  BY <1>7, <1>8

LEMMA AskingTimeless == ASSUME NEW program PROVE Timeless(Asking(program))
  BY DEF Timeless, Asking

\* The budget counts a time as one fact, whatever it is.
LEMMA BudgetAtAnyTime ==
  ASSUME NEW blocks \in Seq(TokenBlocks), NEW asking, IsFiniteSet(asking), Timeless(asking),
         NEW now, NEW then, ~BeyondTheGrammar(blocks, WithTime(asking, now))
  PROVE  ~BeyondTheGrammar(blocks, WithTime(asking, then))
<1> DEFINE facts == AllFacts(blocks, asking)
           At(date) == <<0, <<"time", date>>>>
<1>1. IsFiniteSet(facts)
  BY AllFactsFinite
<1>2. ASSUME NEW date
      PROVE  /\ AllFacts(blocks, WithTime(asking, date)) = facts \cup {At(date)}
             /\ At(date) \notin facts
  <2>1. <<"time", date>> \notin asking
    <3>1. <<"time", date>>[1] = "time"
      OBVIOUS
    <3> QED
      BY <3>1 DEF Timeless
  <2>2. 0 \notin DOMAIN blocks
    OBVIOUS
  <2>3. At(date) \notin facts
    BY <2>1, <2>2 DEF AllFacts
  <2>4. AllFacts(blocks, WithTime(asking, date)) = facts \cup {At(date)}
    BY DEF AllFacts, WithTime
  <2> QED
    BY <2>3, <2>4
<1> HIDE DEF facts, At
<1>3. ASSUME NEW date
      PROVE  Cardinality(AllFacts(blocks, WithTime(asking, date))) = Cardinality(facts) + 1
  BY <1>1, <1>2, FS_AddElement
<1> QED
  BY <1>3 DEF BeyondTheGrammar

LEMMA ValidUntilAnswers ==
  ASSUME NEW blocks
  PROVE  LET until == TokenValidUntil(blocks)
             clock == ClockChecks(blocks) IN
         /\ until.kind = "None" => clock = {}
         /\ until.kind = "Some" =>
              /\ clock # {} /\ \A c \in clock : Readable(c)
              /\ until.at = Min({ClockBound(c) : c \in clock})
<1>1. \A kind, at : Answer(kind, at).kind = kind /\ Answer(kind, at).at = at
  BY DEF Answer
<1> QED
  BY <1>1 DEF TokenValidUntil

\* Where a question is granted at some time, time decides by the checks alone.
LEMMA GrantedAt ==
  ASSUME TokenInv, token # <<>>, ~OwnTimeIn(token),
         NEW t \in Clock, NEW q \in Questions(t), Granted(token, q)
  PROVE  LET Rest(n) == Asking(q.program) \cup token[1].facts \cup token[n].facts
             Pass(u) == \A n \in DOMAIN token : \A c \in token[n].checks :
                          Passes(c, WithTime(Rest(n), Date(u)))
         IN /\ \A n \in DOMAIN token : Timeless(Rest(n))
            /\ Pass(t)
            /\ \A u : Granted(token, [q EXCEPT !.program.time = Date(u)]) <=> Pass(u)
<1> DEFINE A == Asking(q.program)
           Rest(n) == A \cup token[1].facts \cup token[n].facts
           Pass(u) == \A n \in DOMAIN token : \A c \in token[n].checks :
                        Passes(c, WithTime(Rest(n), Date(u)))
           Then(u) == [q EXCEPT !.program.time = Date(u)]
<1>1. token \in Seq(TokenBlocks) /\ 1 \in DOMAIN token
  BY DEF TokenInv
<1>2. IsFiniteSet(A) /\ Timeless(A)
  BY QuestionFacts, AskingTimeless
<1>3. /\ Supplied(q.program) = WithTime(A, Date(t))
      /\ \A u : Supplied(Then(u).program) = WithTime(A, Date(u))
  BY QuestionFacts DEF WithTime
<1>4. /\ q.policy = {} \/ q.policy = {<<"member", "true">>}
      /\ \A u : Then(u).policy = q.policy
  BY QuestionIs DEF Question, Policies
<1> HIDE DEF A, Then
<1>5. \A n \in DOMAIN token : Timeless(Rest(n))
  BY <1>1, <1>2 DEF OwnTimeIn, Timeless
<1>6. \A n, d : Visible(token, n, WithTime(A, d)) = WithTime(Rest(n), d)
  BY DEF Visible, WithTime
<1> HIDE DEF Rest
<1>7. ASSUME NEW p, NEW d, Supplied(p.program) = WithTime(A, d)
      PROVE  Granted(token, p) <=>
               /\ ~BeyondTheGrammar(token, WithTime(A, d))
               /\ \A n \in DOMAIN token : \A c \in token[n].checks :
                    Passes(c, WithTime(Rest(n), d))
               /\ p.policy \subseteq WithTime(Rest(1), d)
  BY <1>6, <1>7 DEF Granted, Authorize
<1>8. /\ ~BeyondTheGrammar(token, WithTime(A, Date(t))) /\ Pass(t)
      /\ q.policy \subseteq WithTime(Rest(1), Date(t))
  BY <1>3, <1>7
<1>9. ASSUME NEW u
      PROVE  /\ ~BeyondTheGrammar(token, WithTime(A, Date(u)))
             /\ q.policy \subseteq WithTime(Rest(1), Date(u))
  <2>1. ~BeyondTheGrammar(token, WithTime(A, Date(u)))
    BY <1>1, <1>2, <1>8, BudgetAtAnyTime
  <2>2. <<"member", "true">> # <<"time", Date(t)>>
    <3>1. <<"member", "true">>[1] = "member" /\ <<"time", Date(t)>>[1] = "time"
      OBVIOUS
    <3> QED
      BY <3>1
  <2>3. q.policy \subseteq WithTime(Rest(1), Date(u))
    BY <1>4, <1>8, <2>2 DEF WithTime
  <2> QED
    BY <2>1, <2>3
<1>10. \A u : Granted(token, Then(u)) <=> Pass(u)
  BY <1>3, <1>4, <1>7, <1>9
<1> QED
  BY <1>5, <1>8, <1>10 DEF A, Rest, Then

\* A clock check that valid_until reads is one whose queries ask for the time alone,
\* unless an alternative of it asks for another date.
LEMMA ReadableClockCheck ==
  ASSUME TokenInv, ~OtherDateIn(token),
         NEW check \in ClockChecks(token), Readable(check)
  PROVE  ClockCheck(check)
<1>1. PICK n \in DOMAIN token : check \in token[n].checks
  BY DEF ClockChecks, ChecksOf
<1>2. token[n] \in TokenBlocks
  BY DEF TokenInv
<1>3. WellFormed(token[n])
  BY <1>2, BlocksWellFormed
<1>4. check.kind = "one" /\ check.queries # {}
  BY DEF Readable, ClockChecks
<1>5. ASSUME NEW query \in check.queries PROVE ClockQuery(query)
  <2>1. AtMost(query) # {} /\ ReadsTheClock(query)
    BY DEF Readable, OtherDateIn
  <2>2. /\ DOMAIN query.body = 1 .. Len(query.body) /\ IsFiniteSet(query.comparisons)
        /\ \A c \in query.comparisons : c[2] \in {"<=", ">="} => c[3] \in Nat
    BY <1>1, <1>3 DEF WellFormed
  <2> QED
    BY <2>1, <2>2 DEF ClockQuery
<1> QED
  BY <1>4, <1>5 DEF ClockCheck

(* valid_until answers only what is true, of any token however it was made: up to  *)
(* the instant it gives whatever is granted at all is granted, after it nothing    *)
(* is, and with no instant time changes no answer.  The exceptions are those of    *)
(* the property: a time asserted by a block, another date as an alternative.       *)
THEOREM CutoffHolds == GrantsSpec => []CutoffTrue
<1>1. ASSUME TokenInv PROVE CutoffTrue
  <2> SUFFICES ASSUME NEW t \in Clock, NEW q \in Questions(t), token # <<>>,
                      Granted(token, q), ~OwnTimeIn(token), ~OtherDateIn(token)
               PROVE  LET until == TokenValidUntil(token)
                          At(u) == Granted(token, [q EXCEPT !.program.time = Date(u)]) IN
                      /\ until.kind = "Some" => {u \in Clock : At(u)} = 0 .. until.at
                      /\ until.kind = "None" => {u \in Clock : At(u)} = Clock
    BY DEF CutoffTrue
  <2> DEFINE until == TokenValidUntil(token)
             At(u) == Granted(token, [q EXCEPT !.program.time = Date(u)])
             Rest(n) == Asking(q.program) \cup token[1].facts \cup token[n].facts
             Passed(c, n, u) == Passes(c, WithTime(Rest(n), Date(u)))
             clock == ClockChecks(token)
             bounds == {ClockBound(c) : c \in clock}
  <2>1. /\ \A n \in DOMAIN token : Timeless(Rest(n))
        /\ \A n \in DOMAIN token : \A c \in token[n].checks : Passed(c, n, t)
        /\ \A u : At(u) <=> \A n \in DOMAIN token : \A c \in token[n].checks : Passed(c, n, u)
    BY <1>1, GrantedAt
  <2>2. Clock = 0 .. LastTick /\ LastTick \in Nat
    BY DatalogAssumption DEF Clock
  <2>3. ASSUME NEW n \in DOMAIN token, NEW c \in token[n].checks, c \notin clock, NEW u
        PROVE  Passed(c, n, u)
    <3>1. \A query \in c.queries : ~ReadsTheClock(query)
      BY <2>3 DEF ClockChecks, ChecksOf
    <3>2. token[n] \in TokenBlocks
      BY <1>1 DEF TokenInv
    <3>3. c.kind \in {"one", "all", "reject"}
      BY <3>2, BlocksWellFormed DEF WellFormed
    <3>4. Passed(c, n, t)
      BY <2>1
    <3> HIDE DEF Rest
    <3> QED
      BY <3>1, <3>3, <3>4, PassesApart
  <2>4. ASSUME NEW n \in DOMAIN token, NEW c \in token[n].checks, c \in clock,
               Readable(c), NEW u \in Nat
        PROVE  Passed(c, n, u) <=> u <= ClockBound(c)
    BY <1>1, <2>1, <2>4, ReadableClockCheck, ClockCheckIs
  <2>5. until.kind = "None" => clock = {}
    BY ValidUntilAnswers
  <2>6. until.kind = "Some" =>
          clock # {} /\ (\A c \in clock : Readable(c)) /\ until.at = Min(bounds)
    BY ValidUntilAnswers
  <2>7. clock \subseteq ChecksOf(token)
    BY DEF ClockChecks
  <2> HIDE DEF until, At, Rest, Passed, clock
  <2>8. ASSUME until.kind = "None" PROVE {u \in Clock : At(u)} = Clock
    BY <2>1, <2>3, <2>5, <2>8
  <2>9. ASSUME until.kind = "Some" PROVE {u \in Clock : At(u)} = 0 .. until.at
    <3>1. \A c \in clock : ClockBound(c) \in Nat /\ ClockBound(c) <= LastTick
      BY <1>1, <2>6, <2>9, ReadableClockCheck, ClockCheckIs DEF clock
    <3>2. bounds \in SUBSET Nat /\ bounds # {}
      BY <2>6, <2>9, <3>1
    <3>3. Min(bounds) \in bounds /\ \A b \in bounds : Min(bounds) <= b
      BY <3>2, MinIs
    <3>4. /\ until.at \in Nat /\ until.at <= LastTick
          /\ \A u \in Nat : u <= until.at <=> \A c \in clock : u <= ClockBound(c)
      <4>1. until.at = Min(bounds)
        BY <2>6, <2>9
      <4>2. PICK c \in clock : until.at = ClockBound(c)
        BY <3>3, <4>1
      <4>3. \A d \in clock : until.at <= ClockBound(d)
        BY <3>3, <4>1
      <4> HIDE DEF bounds
      <4> QED
        BY <3>1, <4>2, <4>3
    <3>5. ASSUME NEW u \in Clock PROVE At(u) <=> u <= until.at
      <4>1. u \in Nat
        BY <2>2
      <4>2. ASSUME u <= until.at PROVE At(u)
        <5>1. ASSUME NEW n \in DOMAIN token, NEW c \in token[n].checks
              PROVE  Passed(c, n, u)
          <6>1. CASE c \in clock
            BY <2>4, <2>6, <2>9, <3>4, <4>1, <4>2, <6>1
          <6>2. CASE c \notin clock
            BY <2>3, <6>2
          <6> QED
            BY <6>1, <6>2
        <5> QED
          BY <2>1, <5>1
      <4>3. ASSUME At(u) PROVE u <= until.at
        <5>1. ASSUME NEW c \in clock PROVE u <= ClockBound(c)
          <6>1. PICK n \in DOMAIN token : c \in token[n].checks
            BY <2>7 DEF ChecksOf
          <6> QED
            BY <2>1, <2>4, <2>6, <2>9, <4>1, <4>3, <6>1
        <5> QED
          BY <3>4, <4>1, <5>1
      <4> QED
        BY <4>2, <4>3
    <3> QED
      BY <2>2, <3>4, <3>5
  <2> QED
    BY <2>8, <2>9 DEF until, At
<1> QED
  BY <1>1, TokensCorrect, PTL
-----------------------------------------------------------------------------
(* The datalog nauthy writes means what module Cap says.                     *)

Pairs(facts) == \A f \in facts : f = <<f[1], f[2]>>

\* What the facts of a request and of two blocks say.
LEMMA FactsSay ==
  ASSUME NEW program, NEW a, NEW b, NEW facts,
         facts = Supplied(program) \cup WrittenFacts(a) \cup WrittenFacts(b)
  PROVE  /\ Pairs(facts)
         /\ \A v : /\ <<"time", v>> \in facts <=> v = program.time
                   /\ <<"service", v>> \in facts <=> v \in program.service
                   /\ <<"bound_device", v>> \in facts <=> v \in program.device
                   /\ <<"foreign_member", v>> \in facts <=> v \in program.foreign
                   /\ <<"authority_bound", v>> \in facts <=> v \in a.bound \cup b.bound
<1>1. Pairs(Supplied(program))
  BY DEF Pairs, Supplied
<1>2. \A x : Pairs(WrittenFacts(x))
  BY DEF Pairs, WrittenFacts
<1>3. ASSUME NEW v
      PROVE  /\ <<"time", v>> \in Supplied(program) <=> v = program.time
             /\ <<"service", v>> \in Supplied(program) <=> v \in program.service
             /\ <<"bound_device", v>> \in Supplied(program) <=> v \in program.device
             /\ <<"foreign_member", v>> \in Supplied(program) <=> v \in program.foreign
             /\ <<"authority_bound", v>> \notin Supplied(program)
  BY DEF Supplied
<1>4. ASSUME NEW v, NEW x
      PROVE  /\ <<"time", v>> \notin WrittenFacts(x) /\ <<"service", v>> \notin WrittenFacts(x)
             /\ <<"bound_device", v>> \notin WrittenFacts(x)
             /\ <<"foreign_member", v>> \notin WrittenFacts(x)
             /\ <<"authority_bound", v>> \in WrittenFacts(x) <=> v \in x.bound
  BY DEF WrittenFacts
<1> QED
  BY <1>1, <1>2, <1>3, <1>4 DEF Pairs

LEMMA CheckIfPasses ==
  ASSUME NEW query, NEW facts
  PROVE  Passes(CheckIf(query), facts) <=> Matches(query, facts)
  BY DEF CheckIf, Check, Passes

LEMMA ComparedPasses ==
  ASSUME NEW name, NEW variable, NEW op, NEW literal,
         op \in {"<=", ">="} => literal \in Nat,
         NEW facts, Pairs(facts)
  PROVE  Passes(CheckIf(Compared(name, variable, op, literal)), facts) <=>
           \E v : <<name, v>> \in facts /\ Compares(v, op, literal)
<1> DEFINE query == Compared(name, variable, op, literal)
           c == <<variable, op, literal>>
<1>1. /\ DOMAIN query.body = {1}
      /\ query.body[1][1] = name /\ query.body[1][2] = variable /\ query.comparisons = {c}
  BY OneComparison
<1>2. c[1] = variable /\ c[2] = op /\ c[3] = literal
  OBVIOUS
<1> HIDE DEF query, c
<1>3. Matches(query, facts) <=> \E f \in facts : f[1] = name /\ Compares(f[2], op, literal)
  BY <1>1, <1>2, SingleMatch
<1>4. \A v : <<name, v>>[1] = name /\ <<name, v>>[2] = v
  OBVIOUS
<1>5. (\E f \in facts : f[1] = name /\ Compares(f[2], op, literal)) <=>
        \E v : <<name, v>> \in facts /\ Compares(v, op, literal)
  BY <1>4 DEF Pairs
<1> QED
  BY <1>3, <1>5, CheckIfPasses DEF query

LEMMA EqualsPasses ==
  ASSUME NEW name, NEW variable, NEW literal, NEW facts, Pairs(facts)
  PROVE  Passes(CheckIf(Compared(name, variable, "==", literal)), facts) <=>
           <<name, literal>> \in facts
<1>1. "==" \notin {"<=", ">="}
  OBVIOUS
<1>2. Passes(CheckIf(Compared(name, variable, "==", literal)), facts) <=>
        \E v : <<name, v>> \in facts /\ Compares(v, "==", literal)
  BY <1>1, ComparedPasses
<1>3. \A v : Compares(v, "==", literal) <=> v = literal
  BY DEF Compares
<1> QED
  BY <1>2, <1>3

LEMMA AtMostPasses ==
  ASSUME NEW name, NEW variable, NEW literal \in Nat, NEW facts, Pairs(facts)
  PROVE  Passes(CheckIf(Compared(name, variable, "<=", literal)), facts) <=>
           \E v : <<name, v>> \in facts /\ v <= literal
<1>1. Passes(CheckIf(Compared(name, variable, "<=", literal)), facts) <=>
        \E v : <<name, v>> \in facts /\ Compares(v, "<=", literal)
  BY ComparedPasses
<1> QED
  BY <1>1, ComparesIs

\* The join of a foreign check: some authority is both named and supplied.
LEMMA ForeignPasses ==
  ASSUME NEW facts, Pairs(facts)
  PROVE  Passes(CheckIf(ForeignIsBound), facts) <=>
           \E v : <<"authority_bound", v>> \in facts /\ <<"foreign_member", v>> \in facts
<1> DEFINE query == ForeignIsBound
<1>1. /\ DOMAIN query.body = {1, 2} /\ query.comparisons = {}
      /\ query.body[1][1] = "authority_bound" /\ query.body[1][2] = "x"
      /\ query.body[2][1] = "foreign_member" /\ query.body[2][2] = "x"
  BY ForeignIsBoundFine
<1> HIDE DEF query
<1>2. \A join : Satisfies(join, query)
  BY <1>1 DEF Satisfies
<1>3. ASSUME NEW join
      PROVE  join \in Joins(query, facts) <=>
               /\ join \in [{1, 2} -> facts] /\ join[1][1] = "authority_bound"
               /\ join[2][1] = "foreign_member" /\ join[1][2] = join[2][2]
  BY <1>1 DEF Joins
<1>4. ASSUME Matches(query, facts)
      PROVE  \E v : <<"authority_bound", v>> \in facts /\ <<"foreign_member", v>> \in facts
  <2>1. PICK join : join \in Joins(query, facts)
    BY <1>4 DEF Matches
  <2>2. /\ join[1] \in facts /\ join[1][1] = "authority_bound"
        /\ join[2] \in facts /\ join[2][1] = "foreign_member" /\ join[1][2] = join[2][2]
    BY <1>3, <2>1
  <2>3. /\ join[1] = <<"authority_bound", join[1][2]>>
        /\ join[2] = <<"foreign_member", join[1][2]>>
    BY <2>2 DEF Pairs
  <2> QED
    BY <2>2, <2>3
<1>5. ASSUME NEW v, <<"authority_bound", v>> \in facts, <<"foreign_member", v>> \in facts
      PROVE  Matches(query, facts)
  <2> DEFINE named == <<"authority_bound", v>>
             given == <<"foreign_member", v>>
             join == [n \in {1, 2} |-> IF n = 1 THEN named ELSE given]
  <2>1. /\ named[1] = "authority_bound" /\ given[1] = "foreign_member"
        /\ named[2] = v /\ given[2] = v
    OBVIOUS
  <2>2. named \in facts /\ given \in facts
    BY <1>5
  <2> HIDE DEF named, given
  <2>3. join \in [{1, 2} -> facts] /\ join[1] = named /\ join[2] = given
    BY <2>2
  <2> HIDE DEF join
  <2>4. join \in Joins(query, facts)
    BY <1>3, <2>1, <2>3
  <2> QED
    BY <1>2, <2>4 DEF Matches
<1> QED
  BY <1>4, <1>5, CheckIfPasses DEF query

\* The checks of a block pass exactly when the block holds.
LEMMA WrittenPasses ==
  ASSUME NEW cap \in Caps, NEW b \in Blocks, b = Authority(cap) \/ ~b.foreign, NEW program,
         NEW facts, facts = Supplied(program) \cup WrittenFacts(Authority(cap)) \cup WrittenFacts(b)
  PROVE  (\A check \in WrittenChecks(b) : Passes(check, facts)) <=> Holds(b, cap, program)
<1> DEFINE a == Authority(cap)
           Pass(query) == Passes(CheckIf(query), facts)
<1>1. /\ Pairs(facts)
      /\ \A v : /\ <<"time", v>> \in facts <=> v = program.time
                /\ <<"service", v>> \in facts <=> v \in program.service
                /\ <<"bound_device", v>> \in facts <=> v \in program.device
                /\ <<"foreign_member", v>> \in facts <=> v \in program.foreign
                /\ <<"authority_bound", v>> \in facts <=> v \in a.bound \cup b.bound
  BY FactsSay
<1>2. ASSUME NEW s PROVE Pass(ServiceIs(s)) <=> s \in program.service
  <2>1. Passes(CheckIf(Compared("service", "s", "==", s)), facts) <=> <<"service", s>> \in facts
    BY <1>1, EqualsPasses
  <2> QED
    BY <1>1, <2>1, WrittenCompare
<1>3. ASSUME NEW d PROVE Pass(DeviceIs(d)) <=> d \in program.device
  <2>1. Passes(CheckIf(Compared("bound_device", "d", "==", d)), facts) <=> <<"bound_device", d>> \in facts
    BY <1>1, EqualsPasses
  <2> QED
    BY <1>1, <2>1, WrittenCompare
<1>4. ASSUME NEW date \in Nat PROVE Pass(TimeAtMost(date)) <=> program.time <= date
  <2>1. Passes(CheckIf(Compared("time", "t", "<=", date)), facts) <=>
          \E v : <<"time", v>> \in facts /\ v <= date
    BY <1>1, AtMostPasses
  <2>2. (\E v : <<"time", v>> \in facts /\ v <= date) <=> program.time <= date
    <3>1. \A v : <<"time", v>> \in facts <=> v = program.time
      BY <1>1
    <3> QED
      BY <3>1, Zenon
  <2> QED
    BY <2>1, <2>2, WrittenCompare
<1>5. Pass(ForeignIsBound) <=> \E v : v \in a.bound \cup b.bound /\ v \in program.foreign
  BY <1>1, ForeignPasses
<1>6. b.dates \subseteq Nat /\ b.foreign \in BOOLEAN
  BY DEF Blocks
<1> HIDE DEF a, Pass
<1>7. (\A check \in WrittenChecks(b) : Passes(check, facts)) <=>
        /\ \A s \in b.services : Pass(ServiceIs(s))
        /\ \A date \in b.dates : Pass(TimeAtMost(date))
        /\ \A d \in b.devices : Pass(DeviceIs(d))
        /\ b.foreign => Pass(ForeignIsBound)
  BY DEF WrittenChecks, Pass
<1>8. b.foreign => (Pass(ForeignIsBound) <=> Authority(cap).bound \cap program.foreign # {})
  BY <1>5 DEF a
<1> QED
  BY <1>2, <1>3, <1>4, <1>6, <1>7, <1>8 DEF Holds

Few(S, n) == IsFiniteSet(S) /\ Cardinality(S) \in 0 .. n
And(S, x) == S \cup {x}
LEMMA OneMoreFact ==
  ASSUME NEW S, NEW n \in Nat, Few(S, n), NEW x
  PROVE  Few(And(S, x), n + 1)
<1>1. /\ IsFiniteSet(S \cup {x})
      /\ Cardinality(S \cup {x}) = IF x \in S THEN Cardinality(S) ELSE Cardinality(S) + 1
  BY FS_AddElement DEF Few
<1>2. Cardinality(S) \in 0 .. n
  BY DEF Few
<1>3. Cardinality(S \cup {x}) \in 0 .. n + 1
  BY <1>1, <1>2
<1> QED
  BY <1>1, <1>3 DEF Few, And

\* The crate's own blocks and any question are five facts at the most.
LEMMA FiveFacts ==
  ASSUME NEW a, NEW b, NEW c, NEW d, NEW e, NEW S, S \subseteq {a, b, c, d, e}
  PROVE  ~(Cardinality(S) > MaxTokenFacts)
<1> DEFINE five == And(And(And(And({a}, b), c), d), e)
<1>1. S \in SUBSET five
  BY DEF And
<1>2. Few({a}, 1)
  BY FS_Singleton DEF Few
<1>3. Few(And({a}, b), 2)
  BY <1>2, OneMoreFact
<1>4. Few(And(And({a}, b), c), 3)
  BY <1>3, OneMoreFact
<1>5. Few(And(And(And({a}, b), c), d), 4)
  BY <1>4, OneMoreFact
<1>6. Few(five, 5)
  BY <1>5, OneMoreFact
<1>7. IsFiniteSet(five) /\ Cardinality(five) \in 0 .. 5
  BY <1>6 DEF Few
<1> HIDE DEF five
<1>8. IsFiniteSet(S) /\ Cardinality(S) <= Cardinality(five)
  BY <1>1, <1>7, FS_Subset
<1>9. Cardinality(S) \in Nat
  BY <1>8, FS_CardinalityType
<1> QED
  BY <1>7, <1>8, <1>9, DatalogAssumption

LEMMA QuestionSupplies ==
  ASSUME NEW t, NEW q \in Questions(t)
  PROVE  \E x, y : Supplied(q.program) \subseteq {<<"time", Date(t)>>, x, y}
<1>1. \/ \E s \in Services, dialer \in Options(Keys) : q = ToUse(t, s, dialer)
      \/ \E d \in Keys : q = ToBelong(t, d)
      \/ \E s \in Services, x \in Keys : q = ToUseUnder(t, s, x)
  BY DEF Questions
<1>2. ASSUME NEW svc, NEW dev, NEW lent, q.program = Program(t, svc, dev, lent)
      PROVE  Supplied(q.program) =
               {<<"time", Date(t)>>} \cup {<<"service", s>> : s \in svc}
                 \cup {<<"bound_device", d>> : d \in dev}
                 \cup {<<"foreign_member", x>> : x \in lent}
  BY <1>2 DEF Supplied, Program
<1>3. ASSUME NEW s, NEW dialer \in Options(Keys), q = ToUse(t, s, dialer)
      PROVE  \E x, y : Supplied(q.program) \subseteq {<<"time", Date(t)>>, x, y}
  <2>1. q.program = Program(t, {s}, dialer, {})
    BY <1>3 DEF ToUse, Question
  <2>2. PICK d : dialer \subseteq {d}
    BY DEF Options
  <2>3. Supplied(q.program) \subseteq
          {<<"time", Date(t)>>, <<"service", s>>, <<"bound_device", d>>}
    BY <1>2, <2>1, <2>2
  <2> QED
    BY <2>3
<1>4. ASSUME NEW d, q = ToBelong(t, d)
      PROVE  \E x, y : Supplied(q.program) \subseteq {<<"time", Date(t)>>, x, y}
  <2>1. q.program = Program(t, {}, {d}, {})
    BY <1>4 DEF ToBelong, Question
  <2>2. Supplied(q.program) \subseteq
          {<<"time", Date(t)>>, <<"bound_device", d>>, <<"bound_device", d>>}
    BY <1>2, <2>1
  <2> QED
    BY <2>2
<1>5. ASSUME NEW s, NEW x, q = ToUseUnder(t, s, x)
      PROVE  \E u, y : Supplied(q.program) \subseteq {<<"time", Date(t)>>, u, y}
  <2>1. q.program = Program(t, {s}, {}, {x})
    BY <1>5 DEF ToUseUnder, Question
  <2>2. Supplied(q.program) \subseteq
          {<<"time", Date(t)>>, <<"service", s>>, <<"foreign_member", x>>}
    <3>1. Supplied(q.program) =
            {<<"time", Date(t)>>} \cup {<<"service", v>> : v \in {s}}
              \cup {<<"bound_device", d>> : d \in {}}
              \cup {<<"foreign_member", v>> : v \in {x}}
      BY <1>2, <2>1
    <3> QED
      BY <3>1
  <2> QED
    BY <2>2
<1> HIDE DEF Supplied
<1> QED
  BY <1>1, <1>3, <1>4, <1>5

LEMMA ShapeFacts ==
  ASSUME NEW b
  PROVE  /\ AuthorityShape(b) => \E x, y : WrittenFacts(b) \subseteq {x, y}
         /\ LaterShape(b) => WrittenFacts(b) = {} /\ ~b.foreign
<1>1. ASSUME AuthorityShape(b) PROVE \E x, y : WrittenFacts(b) \subseteq {x, y}
  <2>1. PICK t \in Clock : b.expires = {Date(t)}
    BY <1>1 DEF AuthorityShape
  <2>2. \/ b.bound = {}
        \/ ~b.member /\ \E x \in Keys : b.bound = {x}
    BY <1>1 DEF AuthorityShape
  <2>3. CASE b.bound = {}
    <3>1. WrittenFacts(b) \subseteq {<<"member", "true">>, <<"expires_at", Date(t)>>}
      BY <2>1, <2>3 DEF WrittenFacts
    <3> QED
      BY <3>1
  <2>4. ASSUME ~b.member, NEW x, b.bound = {x}
        PROVE  \E u, y : WrittenFacts(b) \subseteq {u, y}
    <3>1. WrittenFacts(b) \subseteq {<<"authority_bound", x>>, <<"expires_at", Date(t)>>}
      BY <2>1, <2>4 DEF WrittenFacts
    <3> QED
      BY <3>1
  <2> QED
    BY <2>2, <2>3, <2>4
<1>2. LaterShape(b) => WrittenFacts(b) = {} /\ ~b.foreign
  BY DEF LaterShape, WrittenFacts
<1> QED
  BY <1>1, <1>2

\* A token nauthy built, block by block.
LEMMA MintedIs ==
  ASSUME NEW c, NEW written \in Seq(TokenBlocks), MintedAs(c, written)
  PROVE  /\ c \in Caps /\ Authority(c) = c.blocks[1] /\ AuthorityShape(Authority(c))
         /\ DOMAIN written = DOMAIN c.blocks /\ 1 \in DOMAIN written
         /\ \A n \in DOMAIN written :
              /\ n \in Nat /\ c.blocks[n] \in Blocks
              /\ written[n].facts = WrittenFacts(c.blocks[n]) /\ ~written[n].rules
              /\ written[n].checks = WrittenChecks(c.blocks[n])
              /\ n # 1 => WrittenFacts(c.blocks[n]) = {} /\ ~c.blocks[n].foreign
<1>1. c \in Caps /\ Len(written) = Len(c.blocks) /\ AuthorityShape(c.blocks[1])
  BY DEF MintedAs
<1>2. c.blocks \in Seq(Blocks) /\ c.blocks # <<>>
  BY <1>1 DEF Caps
<1>3. DOMAIN written = 1 .. Len(c.blocks) /\ DOMAIN c.blocks = 1 .. Len(c.blocks)
  BY <1>1, <1>2
<1>4. 1 \in DOMAIN written
  BY <1>2, <1>3
<1>5. ASSUME NEW n \in DOMAIN written
      PROVE  /\ n \in Nat /\ c.blocks[n] \in Blocks /\ written[n] = Written(c.blocks[n])
             /\ n # 1 => LaterShape(c.blocks[n])
  BY <1>2, <1>3 DEF MintedAs
<1> QED
  BY <1>1, <1>3, <1>4, <1>5, ShapeFacts, WrittenIs DEF Authority

LEMMA MintedWithinBudget ==
  ASSUME NEW c, NEW written \in Seq(TokenBlocks), MintedAs(c, written),
         NEW supplied, NEW x, NEW y, NEW z, supplied \subseteq {x, y, z}
  PROVE  ~BeyondTheGrammar(written, supplied)
<1>1. /\ AuthorityShape(c.blocks[1]) /\ 1 \in DOMAIN written
      /\ \A n \in DOMAIN written :
           /\ c.blocks[n] \in Blocks
           /\ written[n].facts = WrittenFacts(c.blocks[n]) /\ ~written[n].rules
           /\ written[n].checks = WrittenChecks(c.blocks[n])
           /\ n # 1 => WrittenFacts(c.blocks[n]) = {}
  BY MintedIs
<1>2. PICK u, v : WrittenFacts(c.blocks[1]) \subseteq {u, v}
  BY <1>1, ShapeFacts
<1>3. AllFacts(written, supplied) \subseteq {<<0, x>>, <<0, y>>, <<0, z>>, <<1, u>>, <<1, v>>}
  <2>1. ASSUME NEW n \in DOMAIN written, NEW f \in written[n].facts
        PROVE  n = 1 /\ (f = u \/ f = v)
    BY <1>1, <1>2
  <2> QED
    BY <2>1 DEF AllFacts
<1>4. ~(Cardinality(AllFacts(written, supplied)) > MaxTokenFacts)
  BY <1>3, FiveFacts
<1>5. ASSUME NEW check \in ChecksOf(written), NEW query \in check.queries
      PROVE  ~QueryBeyondTheGrammar(query)
  <2>1. PICK n \in DOMAIN written : check \in WrittenChecks(c.blocks[n])
    BY <1>1 DEF ChecksOf
  <2>2. PICK own : check = CheckIf(own) /\ Fine(own)
    BY <1>1, <2>1, WrittenQueries
  <2>3. query = own
    BY <2>2 DEF CheckIf, Check
  <2>4. MaxJoinArity \in Nat /\ MaxJoinArity >= 2
    BY DatalogAssumption
  <2>5. Len(query.body) \in 0 .. 2 /\ ~query.closure
    BY <2>2, <2>3 DEF Fine
  <2>6. ~(Len(query.body) > MaxJoinArity)
    <3> DEFINE arity == Len(query.body)
    <3>1. arity \in 0 .. 2
      BY <2>5
    <3> HIDE DEF arity
    <3>2. ~(arity > MaxJoinArity)
      BY <2>4, <3>1
    <3> QED
      BY <3>2 DEF arity
  <2> QED
    BY <2>5, <2>6, Zenon DEF QueryBeyondTheGrammar
<1> QED
  BY <1>1, <1>4, <1>5 DEF BeyondTheGrammar

LEMMA AuthorityReadsIs ==
  ASSUME NEW c, NEW written \in Seq(TokenBlocks), MintedAs(c, written)
  PROVE  /\ AuthorityReads(written, "authority_bound") = AuthorityBound(c)
         /\ AuthorityReads(written, "expires_at") = Expiry(c)
<1> DEFINE a == Authority(c)
           facts == WrittenFacts(a)
<1>1. written[1].facts = facts
  BY MintedIs
<1>2. Visible(written, 1, {}) = facts
  BY <1>1 DEF Visible
<1>3. /\ Pairs(facts)
      /\ \A v : <<"authority_bound", v>> \in facts <=> v \in a.bound
      /\ \A v : <<"expires_at", v>> \in facts <=> v \in a.expires
  BY DEF WrittenFacts, Pairs
<1> HIDE DEF a, facts
<1>4. ASSUME NEW name, NEW v
      PROVE  v \in AuthorityReads(written, name) <=> <<name, v>> \in facts
  <2>1. v \in AuthorityReads(written, name) <=> \E f \in facts : f[1] = name /\ f[2] = v
    BY <1>2 DEF AuthorityReads
  <2>2. <<name, v>>[1] = name /\ <<name, v>>[2] = v
    OBVIOUS
  <2> QED
    BY <1>3, <2>1, <2>2 DEF Pairs
<1>5. \A v : v \in AuthorityReads(written, "authority_bound") <=> v \in AuthorityBound(c)
  BY <1>3, <1>4 DEF AuthorityBound, a
<1>6. \A v : v \in AuthorityReads(written, "expires_at") <=> v \in Expiry(c)
  BY <1>3, <1>4 DEF Expiry, a
<1> QED
  BY <1>5, <1>6

LEMMA DateStarts == ASSUME NEW t \in Nat PROVE Date(t) * Second <= t
<1> DEFINE m == t \div Second
<1>1. m \in Nat /\ Second \in Nat /\ Second * m <= t
  BY CapAssumption
<1> HIDE DEF m
<1>2. m * Second = Second * m
  BY <1>1
<1>3. m * Second <= t
  BY <1>1, <1>2
<1> QED
  BY <1>3 DEF m, Date

LEMMA MintedExpiry ==
  ASSUME NEW c, NEW written \in Seq(TokenBlocks), MintedAs(c, written)
  PROVE  TokenExpiry(written) = Answer("Some", Max(Expiry(c)) * Second)
<1>1. PICK t \in Clock : Expiry(c) = {Date(t)}
  BY MintedIs DEF AuthorityShape, Expiry
<1>2. t \in Nat /\ LastTick \in Nat /\ t <= LastTick
  BY DatalogAssumption DEF Clock
<1> DEFINE date == Date(t)
<1>3. date \in Nat /\ date * Second <= t /\ date * Second \in Nat
  <2>1. date \in Nat /\ date * Second <= t
    BY <1>2, DateType, DateStarts
  <2> HIDE DEF date
  <2> QED
    BY <2>1, CapAssumption
<1>4. AuthorityReads(written, "expires_at") = {date}
  BY <1>1, AuthorityReadsIs
<1>5. ~BeyondTheGrammar(written, {})
  BY MintedWithinBudget
<1> HIDE DEF date
<1>6. DateHeld(date)
  BY <1>2, <1>3 DEF DateHeld
<1>7. (CHOOSE d \in {date} : TRUE) = date
  OBVIOUS
<1>8. Max({date}) = date
  <2>1. {date} \in SUBSET Nat /\ {date} # {} /\ \A x \in {date} : x <= date
    BY <1>3
  <2>2. Max({date}) \in {date}
    BY <1>3, <2>1, MaxIs
  <2> QED
    BY <2>2
<1>9. TokenExpiry(written) = Answer("Some", date * Second)
  BY <1>4, <1>5, <1>6, <1>7 DEF TokenExpiry
<1> QED
  BY <1>1, <1>8, <1>9 DEF date

\* The checks of a written block that read the clock.
LEMMA WrittenClock ==
  ASSUME NEW b \in Blocks, NEW check \in WrittenChecks(b)
  PROVE  (\E query \in check.queries : ReadsTheClock(query)) <=>
           \E date \in b.dates : check = CheckIf(TimeAtMost(date))
<1>1. ASSUME NEW name, NEW variable, NEW op, NEW literal,
             op \in {"<=", ">="} => literal \in Nat
      PROVE  ReadsTheClock(Compared(name, variable, op, literal)) <=> name = "time"
  <2> DEFINE query == Compared(name, variable, op, literal)
  <2>1. DOMAIN query.body = {1} /\ query.body[1][1] = name
    BY <1>1, OneComparison
  <2> HIDE DEF query
  <2>2. ReadsTheClock(query) <=> name = "time"
    BY <2>1 DEF ReadsTheClock
  <2> QED
    BY <2>2 DEF query
<1>2. "==" \notin {"<=", ">="} /\ "service" # "time" /\ "bound_device" # "time"
  OBVIOUS
<1>3. ASSUME NEW x PROVE ~ReadsTheClock(ServiceIs(x)) /\ ~ReadsTheClock(DeviceIs(x))
  <2>1. ~ReadsTheClock(Compared("service", "s", "==", x))
    BY <1>1, <1>2
  <2>2. ~ReadsTheClock(Compared("bound_device", "d", "==", x))
    BY <1>1, <1>2
  <2> QED
    BY <2>1, <2>2, WrittenCompare
<1>4. ASSUME NEW date \in Nat PROVE ReadsTheClock(TimeAtMost(date))
  <2>1. ReadsTheClock(Compared("time", "t", "<=", date))
    BY <1>1
  <2> QED
    BY <2>1, WrittenCompare
<1>5. ~ReadsTheClock(ForeignIsBound)
  BY ForeignIsBoundFine DEF ReadsTheClock
<1>6. \A query : CheckIf(query).queries = {query}
  BY DEF CheckIf, Check
<1>7. b.dates \subseteq Nat
  BY DEF Blocks
<1>8. \/ \E x : check = CheckIf(ServiceIs(x)) \/ check = CheckIf(DeviceIs(x))
      \/ \E date \in b.dates : check = CheckIf(TimeAtMost(date))
      \/ check = CheckIf(ForeignIsBound)
  BY DEF WrittenChecks
<1>9. ASSUME \E query \in check.queries : ReadsTheClock(query)
      PROVE  \E date \in b.dates : check = CheckIf(TimeAtMost(date))
  BY <1>3, <1>5, <1>6, <1>8, <1>9
<1> QED
  BY <1>4, <1>6, <1>7, <1>9

\* What valid_until reads of nauthy's own date check.
LEMMA TimeAtMostRead ==
  ASSUME NEW date \in Nat
  PROVE  LET check == CheckIf(TimeAtMost(date)) IN
         /\ Readable(check) <=> EndHeld(date)
         /\ EndHeld(date) => ClockBound(check) = LastInstant(date)
<1> DEFINE query == Compared("time", "t", "<=", date)
           c == <<"t", "<=", date>>
           check == CheckIf(query)
<1>1. /\ Len(query.body) = 1 /\ query.body[1][2] = "t" /\ query.comparisons = {c}
      /\ ~query.closure
  BY OneComparison DEF Fine
<1>2. c[1] = "t" /\ c[2] = "<=" /\ c[3] = date
  OBVIOUS
<1>3. check.kind = "one" /\ check.queries = {query}
  BY DEF CheckIf, Check
<1> HIDE DEF query, c, check
<1>4. Cardinality(query.comparisons) = 1
  BY <1>1, FS_Singleton
<1>5. AtMost(query) = IF EndHeld(date) THEN {date} ELSE {}
  BY <1>1, <1>2, <1>4 DEF AtMost
<1>6. Readable(check) <=> EndHeld(date)
  BY <1>3, <1>5 DEF Readable
<1>7. ASSUME EndHeld(date) PROVE ClockBound(check) = LastInstant(date)
  <2>1. UNION {AtMost(q) : q \in check.queries} = {date}
    BY <1>3, <1>5, <1>7
  <2>2. {date} \in SUBSET Nat /\ {date} # {} /\ \A x \in {date} : x <= date
    OBVIOUS
  <2>3. Max({date}) \in {date}
    BY <2>2, MaxIs
  <2>4. Max({date}) = date
    BY <2>3
  <2> QED
    BY <2>1, <2>4 DEF ClockBound
<1> QED
  BY <1>6, <1>7, WrittenCompare DEF check, query

LEMMA MintedValidUntil ==
  ASSUME NEW c, NEW written \in Seq(TokenBlocks), MintedAs(c, written)
  PROVE  TokenValidUntil(written) =
           IF \A b \in BlocksOf(c) : \A date \in b.dates : EndHeld(date)
           THEN Answer("Some", ValidUntil(c)) ELSE Answer("UnreadableExpiry", 0)
<1> DEFINE dates == DatesOf(c)
           clock == ClockChecks(written)
           bounds == {ClockBound(check) : check \in clock}
           Bound(date) == CheckIf(TimeAtMost(date))
<1>1. /\ c \in Caps /\ Authority(c) = c.blocks[1] /\ AuthorityShape(Authority(c))
      /\ DOMAIN written = DOMAIN c.blocks /\ 1 \in DOMAIN written
      /\ \A n \in DOMAIN written :
           c.blocks[n] \in Blocks /\ written[n].checks = WrittenChecks(c.blocks[n])
  BY MintedIs
<1>2. BlocksOf(c) = {c.blocks[n] : n \in DOMAIN written}
  BY <1>1 DEF BlocksOf
<1>3. \A date : date \in dates <=> \E n \in DOMAIN written : date \in c.blocks[n].dates
  BY <1>2 DEF DatesOf
<1>4. dates \in SUBSET Nat /\ dates # {}
  <2>1. \A n \in DOMAIN written : c.blocks[n].dates \subseteq Nat
    BY <1>1 DEF Blocks
  <2>2. \E date : date \in c.blocks[1].dates
    BY <1>1 DEF AuthorityShape
  <2> QED
    BY <1>1, <1>3, <2>1, <2>2
<1>5. (\A b \in BlocksOf(c) : \A date \in b.dates : EndHeld(date)) <=>
        \A date \in dates : EndHeld(date)
  BY DEF DatesOf
<1>6. \A check : check \in clock <=> \E date \in dates : check = Bound(date)
  <2>1. \A check : check \in ChecksOf(written) <=>
          \E n \in DOMAIN written : check \in WrittenChecks(c.blocks[n])
    BY <1>1 DEF ChecksOf
  <2>2. ASSUME NEW check \in clock PROVE \E date \in dates : check = Bound(date)
    <3>1. /\ check \in ChecksOf(written)
          /\ \E query \in check.queries : ReadsTheClock(query)
      BY DEF ClockChecks
    <3>2. PICK n \in DOMAIN written : check \in WrittenChecks(c.blocks[n])
      BY <2>1, <3>1
    <3> QED
      BY <1>1, <1>3, <3>1, <3>2, WrittenClock
  <2>3. ASSUME NEW date \in dates PROVE Bound(date) \in clock
    <3>1. PICK n \in DOMAIN written : date \in c.blocks[n].dates
      BY <1>3
    <3>2. Bound(date) \in WrittenChecks(c.blocks[n])
      BY <3>1 DEF WrittenChecks
    <3>3. \E query \in Bound(date).queries : ReadsTheClock(query)
      BY <1>1, <3>1, <3>2, WrittenClock
    <3>4. Bound(date) \in ChecksOf(written)
      BY <2>1, <3>2
    <3> HIDE DEF Bound
    <3> QED
      BY <3>3, <3>4 DEF ClockChecks
  <2> QED
    BY <2>2, <2>3
<1>7. \A date \in dates :
        /\ Readable(Bound(date)) <=> EndHeld(date)
        /\ EndHeld(date) => ClockBound(Bound(date)) = LastInstant(date)
  BY <1>4, TimeAtMostRead
<1>8. ~BeyondTheGrammar(written, {})
  BY MintedWithinBudget
<1>9. PICK first \in dates : ValidUntil(c) = LastInstant(first)
  <2>1. ValidUntil(c) = LastInstant(CHOOSE d \in dates : \A e \in dates : d <= e)
    BY DEF ValidUntil, DatesOf
  <2> HIDE DEF dates
  <2>2. \E d \in dates : \A e \in dates : d <= e
    BY <1>4, EarliestOf
  <2>3. (CHOOSE d \in dates : \A e \in dates : d <= e) \in dates
    BY <2>2
  <2> QED
    BY <2>1, <2>3
<1>10. \A date \in dates : ValidUntil(c) <= LastInstant(date)
  BY <1>1, <1>4, ValidUntilIs
<1>11. clock # {}
  BY <1>4, <1>6
<1> HIDE DEF dates, clock, Bound
<1>12. CASE ~(\A date \in dates : EndHeld(date))
  <2>1. \E check \in clock : ~Readable(check)
    BY <1>6, <1>7, <1>12
  <2> QED
    BY <1>5, <1>8, <1>12, <2>1 DEF TokenValidUntil, clock
<1>13. CASE \A date \in dates : EndHeld(date)
  <2>1. \A check \in clock : Readable(check)
    BY <1>6, <1>7, <1>13
  <2>2. TokenValidUntil(written) = Answer("Some", Min(bounds))
    BY <1>8, <1>11, <2>1 DEF TokenValidUntil, clock
  <2>3. \A x : x \in bounds <=> \E date \in dates : x = LastInstant(date)
    BY <1>6, <1>7, <1>13
  <2> HIDE DEF bounds
  <2>4. \A date \in dates : LastInstant(date) \in Nat
    BY <1>4, WithinLastInstant
  <2>5. bounds \in SUBSET Nat /\ ValidUntil(c) \in bounds
    BY <1>9, <2>3, <2>4
  <2>6. Min(bounds) \in bounds /\ \A y \in bounds : Min(bounds) <= y
    BY <2>5, MinIs
  <2>7. Min(bounds) <= ValidUntil(c) /\ ValidUntil(c) <= Min(bounds)
    BY <1>10, <2>3, <2>5, <2>6
  <2>8. Min(bounds) = ValidUntil(c)
    <3>1. \A m, n \in Nat : m <= n /\ n <= m => m = n
      OBVIOUS
    <3>2. Min(bounds) \in Nat /\ ValidUntil(c) \in Nat
      BY <2>5, <2>6
    <3> QED
      BY <2>7, <3>1, <3>2
  <2> QED
    BY <1>5, <1>13, <2>2, <2>8
<1> QED
  BY <1>12, <1>13

\* What a token nauthy built answers a question is what its capability does.
LEMMA MintedAuthorize ==
  ASSUME NEW c, NEW written \in Seq(TokenBlocks), MintedAs(c, written),
         NEW t, NEW q \in Questions(t)
  PROVE  Authorize(written, Supplied(q.program), q.policy) =
           IF ChecksHold(c, q.program) /\ (q.policy # {} => IsMemberBadge(c))
           THEN "Ok" ELSE "Denied"
<1> DEFINE supplied == Supplied(q.program)
           a == Authority(c)
           Sees(n) == Visible(written, n, supplied)
<1>1. /\ c \in Caps /\ a = c.blocks[1] /\ a \in Blocks
      /\ DOMAIN written = DOMAIN c.blocks /\ 1 \in DOMAIN written
      /\ \A n \in DOMAIN written :
           /\ c.blocks[n] \in Blocks
           /\ written[n].facts = WrittenFacts(c.blocks[n])
           /\ written[n].checks = WrittenChecks(c.blocks[n])
           /\ n # 1 => ~c.blocks[n].foreign
  BY MintedIs
<1>2. PICK x, y : supplied \subseteq {<<"time", Date(t)>>, x, y}
  BY QuestionSupplies
<1>3. ~BeyondTheGrammar(written, supplied)
  BY <1>2, MintedWithinBudget
<1>4. ASSUME NEW n \in DOMAIN written
      PROVE  (\A check \in written[n].checks : Passes(check, Sees(n))) <=>
               Holds(c.blocks[n], c, q.program)
  <2>1. Sees(n) = supplied \cup WrittenFacts(a) \cup WrittenFacts(c.blocks[n])
    BY <1>1 DEF Visible
  <2>2. c.blocks[n] = Authority(c) \/ ~c.blocks[n].foreign
    BY <1>1
  <2> HIDE DEF Sees
  <2> QED
    BY <1>1, <2>1, <2>2, WrittenPasses
<1>5. (\A n \in DOMAIN written : Holds(c.blocks[n], c, q.program)) <=>
        ChecksHold(c, q.program)
  BY <1>1 DEF ChecksHold, BlocksOf
<1>6. q.policy = {} \/ q.policy = {<<"member", "true">>}
  BY QuestionIs DEF Question, Policies
<1>7. <<"member", "true">> \in Sees(1) <=> a.member
  <2>1. Sees(1) = supplied \cup WrittenFacts(a)
    BY <1>1 DEF Visible
  <2>2. <<"member", "true">> \notin supplied
    BY DEF Supplied
  <2>3. <<"member", "true">> \in WrittenFacts(a) <=> a.member
    BY <1>1 DEF WrittenFacts, Blocks
  <2> QED
    BY <2>1, <2>2, <2>3
<1>8. q.policy \subseteq Sees(1) <=> (q.policy # {} => IsMemberBadge(c))
  BY <1>6, <1>7 DEF IsMemberBadge
<1> QED
  BY <1>3, <1>4, <1>5, <1>8 DEF Authorize

(* The datalog nauthy writes means what module Cap says: every answer, on every    *)
(* path, at every instant, of a token that only nauthy wrote is the capability's.  *)
(* So the theorems about capabilities are about the tokens that a verifier reads.  *)
THEOREM MeansCap == GrantsSpec => []DatalogMeansCap
<1>1. ASSUME TokenInv PROVE DatalogMeansCap
  <2>1. ASSUME NEW c \in minted PROVE token \in Seq(TokenBlocks) /\ MintedAs(c, token)
    BY <1>1 DEF TokenInv
  <2>2. ASSUME NEW c \in minted, NEW t \in Clock, NEW q \in Questions(t)
        PROVE  Authorize(token, Supplied(q.program), q.policy) =
                 IF ChecksHold(c, q.program) /\ (q.policy # {} => IsMemberBadge(c))
                 THEN "Ok" ELSE "Denied"
    BY <2>1, MintedAuthorize
  <2>3. ASSUME NEW c \in minted
        PROVE  /\ AuthorityReads(token, "authority_bound") = AuthorityBound(c)
               /\ TokenExpiry(token) = Answer("Some", Max(Expiry(c)) * Second)
    BY <2>1, AuthorityReadsIs, MintedExpiry
  <2>4. ASSUME NEW c \in minted
        PROVE  TokenValidUntil(token) =
                 IF \A b \in BlocksOf(c) : \A date \in b.dates : EndHeld(date)
                 THEN Answer("Some", ValidUntil(c)) ELSE Answer("UnreadableExpiry", 0)
    BY <2>1, MintedValidUntil
  <2> QED
    BY <2>2, <2>3, <2>4 DEF DatalogMeansCap
<1> QED
  BY <1>1, TokensCorrect, PTL
=============================================================================
