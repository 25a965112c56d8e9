----------------------------- MODULE Delegation -----------------------------
(***************************************************************************)
(* Capabilities in circulation: issuers mint them, and holders narrow and  *)
(* seal them (src/link.rs over src/cap.rs).  Module Links recalls them.    *)
(*                                                                         *)
(* Each capability carries, as history, the rights it was meant to have:   *)
(* what its mint named, cut down by each narrowing.  The properties compare*)
(* them with what the verifications of module Cap answer.                  *)
(***************************************************************************)
EXTENDS Cap

CONSTANTS
  Issuers,      \* keys whose secret somebody mints with
  Instants,     \* instants expiries are chosen from and requests are made at
  MaxIds        \* bound: how many blocks are ever signed

ASSUME DelegationAssumption ==
  /\ Issuers \subseteq Keys
  /\ Instants \subseteq Nat
  /\ MaxIds \in Nat

VARIABLES
  caps,         \* the capabilities in circulation, each with its rights
  ids           \* how many blocks have been signed: the next block's id

vars == <<caps, ids>>
-----------------------------------------------------------------------------
(* Rights.  `use` is which dialer may reach which service and when, `belong` *)
(* who is a member and when, `lend` under which foreign authority a service  *)
(* may be reached and when.                                                  *)

\* An expiry is good to the end of the second it falls in.
Until(expiry) == {t \in Instants : Date(t) <= Date(expiry)}

SlipRights(services, peers, expiry) ==
  [use |-> services \X peers \X Until(expiry), belong |-> {}, lend |-> {}]
BadgeRights(device, expiry) ==
  [SlipRights(Services, {device}, expiry) EXCEPT !.belong = {device} \X Until(expiry)]
AuthorityRights(service, x, expiry) ==
  [use |-> {}, belong |-> {}, lend |-> {service} \X {x} \X Until(expiry)]

\* Narrowing to a service keeps no membership: that question names no service.
Narrowed(rights, service, shorten) ==
  LET AnyService(s) == service = {} \/ s \in service
      InTime(t) == \A expiry \in shorten : t \in Until(expiry) IN
  [use |-> {r \in rights.use : AnyService(r[1]) /\ InTime(r[3])},
   belong |-> {r \in rights.belong : service = {} /\ InTime(r[2])},
   lend |-> {r \in rights.lend : AnyService(r[1]) /\ InTime(r[3])}]
-----------------------------------------------------------------------------
Issue(cap, rights) ==
  /\ ids < MaxIds
  /\ ids' = ids + 1
  /\ caps' = caps \cup {[cap |-> cap, rights |-> rights]}

\* Link::mint, Identity::mint_member, Identity::mint_bound, and the authority
\* slip a bound link is made from.
MintSlip(root, service, expiry) ==
  Issue(Mint(root, service, expiry, ids), SlipRights({service}, Keys, expiry))
MintBadge(root, device, expiry) ==
  Issue(MintMember(root, device, expiry, ids), BadgeRights(device, expiry))
MintBoundSlip(root, service, device, expiry) ==
  Issue(MintBound(root, service, device, expiry, ids),
        SlipRights({service}, {device}, expiry))
MintAuthorityBound(root, service, x, expiry) ==
  Issue(MintAuthoritySlip(root, service, x, expiry, ids),
        AuthorityRights(service, x, expiry))

\* Link::narrow, by whoever holds the link.
Narrow(c, service, shorten) ==
  /\ Attenuable(c.cap, service, shorten)
  /\ Issue(Attenuate(c.cap, service, shorten, ids),
           Narrowed(c.rights, service, shorten))

\* Link::seal: the same blocks.
SealLink(c) ==
  /\ caps' = caps \cup {[c EXCEPT !.cap = Seal(c.cap)]}
  /\ UNCHANGED ids

Init == caps = {} /\ ids = 0

Minting ==
  \E root \in Issuers, expiry \in Instants :
    \/ \E service \in Services : MintSlip(root, service, expiry)
    \/ \E device \in Keys : MintBadge(root, device, expiry)
    \/ \E service \in Services, device \in Keys :
         MintBoundSlip(root, service, device, expiry)
    \/ \E service \in Services, x \in Keys :
         MintAuthorityBound(root, service, x, expiry)

Next ==
  \/ Minting
  \/ \E c \in caps :
       \/ \E service \in Options(Services), shorten \in Options(Instants) :
            Narrow(c, service, shorten)
       \/ SealLink(c)

Spec == Init /\ [][Next]_vars
-----------------------------------------------------------------------------
(* Properties.                                                             *)

\* Every capability is a chain of signed blocks with ids of their own.
TypeOK ==
  /\ ids \in 0 .. MaxIds
  /\ \A c \in caps :
       /\ c.cap.root \in Issuers /\ c.cap.sealed \in BOOLEAN
       /\ c.cap.blocks # <<>> /\ BlocksOf(c.cap) \subseteq Blocks
       /\ Cardinality(RevocationIds(c.cap)) = Len(c.cap.blocks)
       /\ c.rights \in [use : SUBSET (Services \X Keys \X Instants),
                        belong : SUBSET (Keys \X Instants),
                        lend : SUBSET (Services \X Keys \X Instants)]

\* A capability verifies for exactly what its mint named and no narrowing took
\* away, at every instant: as a service grant, as a membership, and under a
\* foreign authority.  So no chain of narrowings broadens anything, a slip never
\* becomes a badge, and an authority-bound slip is inert on its own.
RightsExact ==
  \A c \in caps :
    LET root == c.cap.root IN
    /\ c.rights.use = {r \in Services \X Keys \X Instants :
                         Grants(c.cap, root, r[1], r[2], r[3])}
    /\ c.rights.belong = {r \in Keys \X Instants :
                            GrantsMember(c.cap, root, r[1], r[2])}
    /\ c.rights.lend = {r \in Services \X Keys \X Instants :
                          GrantsUnder(c.cap, root, r[1], r[2], r[3])}

\* valid_until is the boundary of every grant, to the tick: what a capability
\* grants at all it grants up to that instant, and nothing after.  (The whole
\* expiry second is good, and any block may shorten it.)  The advisory date a
\* holder reads, Cap::expiry, is never before it.
ValidUntilExact ==
  \A c \in caps :
    LET rights == c.rights.use \cup c.rights.lend
        before == {t \in Instants : t <= ValidUntil(c.cap)} IN
    /\ \A r \in rights : {u \in Instants : <<r[1], r[2], u>> \in rights} = before
    /\ \A date \in Expiry(c.cap) : ValidUntil(c.cap) <= LastInstant(date)
=============================================================================
