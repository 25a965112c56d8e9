-------------------------------- MODULE MCGate --------------------------------
(* Small instances of Gate: an owner r, this machine's own key o, a foreign      *)
(* authority x, a device d and its sign twin t.  One tick is a second, and a     *)
(* token that expires at 0 is expired after one tick.                            *)
EXTENDS Gate, TLC

CONSTANTS r, o, x, d, t, s, s2

FiveKeys == {r, o, x, d, t}
Devices == {d, t}
Twins == (d :> t @@ t :> d)
ThreePins == {r, o, None}

Badge == MintMember(r, d, 0, 1)
NarrowedBadge == Attenuate(MintMember(o, d, 1, 2), {s}, {}, 3)
OwnSlip == Mint(o, s, 1, 4)
ShortSlip == Mint(r, s, 0, 5)
NarrowedSlip == Attenuate(Mint(r, s2, 1, 6), {s}, {}, 7)
BoundSlip == MintBound(r, s, d, 1, 8)
Lent == MintAuthoritySlip(r, s, x, 0, 9)
OwnLent == MintAuthoritySlip(o, s, x, 1, 10)
OwnLentToOwn == MintAuthoritySlip(o, s, o, 1, 11)
ForeignBadge == MintMember(x, d, 1, 12)
OwnBadge == MintMember(o, d, 1, 13)

\* What a peer presents alone, and in pairs; the pairs are for one service.
Alone == {Badge, NarrowedBadge, OwnSlip, ShortSlip, NarrowedSlip, BoundSlip, Lent,
          OwnBadge}
Pairs == {Lent, OwnLent, OwnLentToOwn, ForeignBadge, OwnBadge}
Presented == Alone \cup Pairs
SomeRequests ==
  {q \in Asked :
     \/ q.path # "foreign" /\ q.cap \in Alone \cup {None}
     \/ q.path = "foreign" /\ {q.cap, q.badge} \subseteq Pairs /\ q.service = s}
=============================================================================
