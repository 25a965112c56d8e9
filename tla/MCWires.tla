------------------------------- MODULE MCWires -------------------------------
(* Links of at most three blocks, over one issuer and a key nobody mints with.  *)
(* A curve of forty points and so four keys, two of which sign documents; wires *)
(* name these, a third, one with torsion, and a key in another encoding.  Two   *)
(* bytes of tag, and payloads that are a block, the tag, or end alike.          *)
EXTENDS Wires

CONSTANTS k, x

OneIssuer == {k}
TwoRoots == {k, x}
SomeSpellings == {{"case"}, {"separator", "long"}, {"key"}, {"base32"}, {"frame"}}

TwoSigners == {8, 16}
ThreeOthers == {24, 13, Curve + 8}
TwoByteTag == <<"n", "t">>
SomeBlocks == {<<"v">>, <<"v", "t">>}
SomePayloads ==
  SomeBlocks \cup {<<>>, <<"t">>, <<"n", "t">>, <<"n", "t", "v">>, <<"t", "v">>}
=============================================================================
