-------------------------------- MODULE Grants --------------------------------
(***************************************************************************)
(* The two views of a capability together: module Delegation, in which     *)
(* capabilities are minted, narrowed and sealed, and module Datalog,       *)
(* which says what their blocks are.                                       *)
(*                                                                         *)
(* A token that other tools had a hand in is no Cap, so the two machines   *)
(* share no state and nothing one does is seen by the other: a behaviour   *)
(* is one of either.                                                       *)
(***************************************************************************)
EXTENDS Delegation, Datalog

GrantsInit == Init /\ TokenInit
GrantsNext ==
  \/ token = <<>> /\ Next /\ UNCHANGED tokenVars
  \/ caps = {} /\ TokenNext /\ UNCHANGED vars

GrantsSpec == GrantsInit /\ [][GrantsNext]_<<vars, tokenVars>>
=============================================================================
