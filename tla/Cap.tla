--------------------------------- MODULE Cap ---------------------------------
(***************************************************************************)
(* Capabilities, src/cap.rs: what a mint signs, what a holder may append,  *)
(* and what each verification asks of the result.                          *)
(*                                                                         *)
(* A capability is a root key and a chain of signed blocks.  A block holds *)
(* the facts and the checks this crate writes, by predicate; signatures    *)
(* are not modelled: a chain is only ever built by the operators below.    *)
(* Instants count ticks, and Second ticks make one second.                 *)
(*                                                                         *)
(* As in Denylist, an operator nothing uses is a wrong version of the one  *)
(* after it.                                                               *)
(***************************************************************************)
EXTENDS Naturals, Sequences, FiniteSets

CONSTANTS
  Keys,         \* ed25519 verify keys
  Services,     \* service names
  Second        \* ticks in a second

ASSUME CapAssumption == Second \in Nat \ {0}

\* A date in a token is a Unix second, and so is the clock a check reads: both
\* are truncated.
Date(t) == t \div Second

\* The last instant of a second: the inclusive endpoint of a date check.
LastInstantExact(date) == date * Second
LastInstant(date) == date * Second + (Second - 1)
-----------------------------------------------------------------------------
(* Blocks and chains.  `id` is the block's revocation identifier, `member`, *)
(* `bound` and `expires` are facts, the rest are the constants its checks   *)
(* compare with.                                                            *)

Blocks == [id : Nat, member : BOOLEAN, bound : SUBSET Keys, expires : SUBSET Nat,
           services : SUBSET Services, dates : SUBSET Nat, devices : SUBSET Keys,
           foreign : BOOLEAN]
Caps == [root : Keys, blocks : Seq(Blocks) \ {<<>>}, sealed : BOOLEAN]

\* The chains this crate writes.  Only an authority slip names a foreign authority,
\* one of them, and it asks for it with a check.
WrittenCaps ==
  {cap \in Caps :
     LET authority == cap.blocks[1] IN
     IF authority.foreign THEN \E x \in Keys : authority.bound = {x}
                          ELSE authority.bound = {}}

Plain(id) == [id |-> id, member |-> FALSE, bound |-> {}, expires |-> {},
              services |-> {}, dates |-> {}, devices |-> {}, foreign |-> FALSE]
Minted(root, block) == [root |-> root, blocks |-> <<block>>, sealed |-> FALSE]
Expiring(id, expiry) == [Plain(id) EXCEPT !.expires = {Date(expiry)},
                                          !.dates = {Date(expiry)}]

\* Identity::mint, mint_member, mint_bound, mint_authority_slip.
Mint(root, service, expiry, id) ==
  Minted(root, [Expiring(id, expiry) EXCEPT !.services = {service}])
MintMember(root, device, expiry, id) ==
  Minted(root, [Expiring(id, expiry) EXCEPT !.member = TRUE, !.devices = {device}])
MintBound(root, service, device, expiry, id) ==
  Minted(root, [Expiring(id, expiry) EXCEPT !.services = {service},
                                            !.devices = {device}])
MintAuthoritySlip(root, service, foreignRoot, expiry, id) ==
  Minted(root, [Expiring(id, expiry) EXCEPT !.services = {service},
                                            !.bound = {foreignRoot},
                                            !.foreign = TRUE])

\* Cap::attenuate: one more block, of checks only.  Each argument is an Option: a
\* set of at most one element.
Options(S) == {{}} \cup {{e} : e \in S}
Narrowing(service, shorten, id) ==
  [Plain(id) EXCEPT !.services = service, !.dates = {Date(t) : t \in shorten}]
AttenuateUnsigned(cap, service, shorten, id) ==
  [cap EXCEPT !.blocks = Append(@, Narrowing(service, shorten, cap.blocks[1].id))]
Attenuate(cap, service, shorten, id) ==
  [cap EXCEPT !.blocks = Append(@, Narrowing(service, shorten, id))]
Attenuable(cap, service, shorten) == ~cap.sealed /\ (service # {} \/ shorten # {})

Seal(cap) == [cap EXCEPT !.sealed = TRUE]

Authority(cap) == cap.blocks[1]
BlocksOf(cap) == {cap.blocks[n] : n \in DOMAIN cap.blocks}
RevocationIds(cap) == {b.id : b \in BlocksOf(cap)}
RootRevocationId(cap) == Authority(cap).id

\* Denylist::is_revoked of a cap, in a store that holds these ids and keys.
Recalled(cap, ids, keys) == cap.root \in keys \/ RevocationIds(cap) \cap ids # {}
-----------------------------------------------------------------------------
(* Evaluation.  A program is the facts a verification supplies.  Every check *)
(* of every block must hold; the policy then reads the authority block's     *)
(* facts alone.                                                              *)

Program(t, service, device, foreign) ==
  [time |-> Date(t), service |-> service, device |-> device, foreign |-> foreign]

\* What evaluating a block's checks against a program gives.  A foreign check
\* joins the authority's own authority_bound fact with the program's.
Holds(block, cap, program) ==
  /\ block.services \subseteq program.service
  /\ \A date \in block.dates : program.time <= date
  /\ block.devices \subseteq program.device
  /\ block.foreign => Authority(cap).bound \cap program.foreign # {}

ChecksHoldAtRoot(cap, program) == Holds(Authority(cap), cap, program)
ChecksHold(cap, program) == \A b \in BlocksOf(cap) : Holds(b, cap, program)

\* verify_at_root_without_revocation for a proven dialer.
Grants(cap, root, service, peer, t) ==
  /\ cap.root = root
  /\ ChecksHold(cap, Program(t, {service}, {peer}, {}))

\* verify_member_at_root_without_revocation: no service fact is supplied.
GrantsMember(cap, root, peer, t) ==
  /\ cap.root = root
  /\ ChecksHold(cap, Program(t, {}, {peer}, {}))
  /\ Authority(cap).member

\* verify_authority_bound_at_root_without_revocation: the foreign authority the
\* slip names, when it grants; no device fact is supplied.
GrantsUnder(cap, root, service, x, t) ==
  /\ cap.root = root
  /\ x \in Authority(cap).bound
  /\ ChecksHold(cap, Program(t, {service}, {}, {x}))

\* is_member_badge and authority_bound_text read the authority block alone, and
\* supply nothing.
IsMemberBadge(cap) == Authority(cap).member
AuthorityBound(cap) == Authority(cap).bound

\* Cap::expiry: the authority's advisory date.
Expiry(cap) == Authority(cap).expires

\* Cap::valid_until: the earliest date check of any block, as its last instant.
\* Every cap minted here has one.
ValidUntilOfAuthority(cap) ==
  LastInstant(CHOOSE d \in Authority(cap).dates :
                \A e \in Authority(cap).dates : d <= e)
ValidUntil(cap) ==
  LET dates == UNION {b.dates : b \in BlocksOf(cap)} IN
  LastInstant(CHOOSE d \in dates : \A e \in dates : d <= e)
=============================================================================
