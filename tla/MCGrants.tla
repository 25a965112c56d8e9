------------------------------- MODULE MCGrants -------------------------------
(* Two ticks a second and a clock that ends inside one: of the dates 0 .. 3, it  *)
(* cannot hold the end of 2, nor 3 at all.  An expiry may fall inside a second   *)
(* that a request is made in.                                                    *)
EXTENDS Grants, TLC

CONSTANTS k, x, s, r

OneIssuer == {k}
TwoKeys == {k, x}
SomeInstants == {1, 2, 3}
ServiceSymmetry == Permutations(Services)

Time(comparisons) == Query(<< <<"time", "t">> >>, comparisons)
Advised(date) == Query(<< <<"expires_at", "d">> >>, {<<"d", "<=", date>>})
Service == Query(<< <<"service", "s">> >>, {})
Queries ==
  {TimeAtMost(0), TimeAtMost(1), TimeAtMost(2), TimeAtMost(3)}
  \cup {Time({}), Time({<<"t", ">=", 1>>}), Time({<<"u", "<=", 0>>}),
        Time({<<"t", "<=", 1>>, <<"t", ">=", 1>>}),
        [Time({<<"t", "<=", 0>>}) EXCEPT !.closure = TRUE]}
  \cup {Advised(1), Service, ForeignIsBound, Query(<< <<"absent", "a">> >>, {})}
  \cup {Query(<< <<"time", "t">>, <<"service", "s">> >>, {<<"t", "<=", 0>>}),
        Query(<< <<"time", "t">>, <<"service", "s">>, <<"service", "r">> >>, {})}

Checks ==
  {Check(kind, {q}) : kind \in {"one", "all", "reject"}, q \in Queries}
  \cup {Check("one", {q, o}) : q, o \in Queries}
Forged ==
  {<<"member", "true">>, <<"authority_bound", x>>, <<"foreign_member", x>>,
   <<"bound_device", k>>, <<"expires_at", 3>>} \cup {<<"service", e>> : e \in Services}
CheckBlocks == {DatalogBlock({}, {c}) : c \in Checks}
OddBlocks ==
  {DatalogBlock({f}, {}) : f \in Forged} \cup {DatalogBlock(Forged, {})}
  \cup {DatalogBlock({f}, {CheckIf(ForeignIsBound)}) : f \in Forged}
  \cup {[DatalogBlock({}, {}) EXCEPT !.rules = TRUE]}
OwnTime == {DatalogBlock({<<"time", 0>>}, {CheckIf(TimeAtMost(0))})}
\* One check, of two dates of which one is another fact's.
EitherDate == {DatalogBlock({}, {Check("one", {TimeAtMost(0), Advised(1)})})}
AnyBlocks == CheckBlocks \cup OddBlocks \cup OwnTime
=============================================================================
