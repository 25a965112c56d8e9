------------------------- MODULE DenylistRefinement -------------------------
(* Denylist implements RevocationStore: an instance serves once load has   *)
(* let it start, and a repair instance never does.                         *)
EXTENDS Denylist

Serving == {i \in Instances : live[i] = "up"}

Store == INSTANCE RevocationStore WITH
  promised <- acked,
  serving <- Serving,
  refuses <- [i \in Instances |-> IF i \in Serving THEN held[i] ELSE {}]

\* Every step of the store, its half-done writes, crashes and failed calls
\* included, is a step of the contract or changes nothing the contract sees:
\* an Ok promises, a serving instance only learns, and a start knows it all.
ImplementsStore == Store!Spec
=============================================================================
