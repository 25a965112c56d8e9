-------------------------------- MODULE Wires --------------------------------
(***************************************************************************)
(* What arrives from outside as text or bytes: links (module Links), the   *)
(* text of a key (VerifyKey), and documents, which name their signer by its*)
(* bytes (Documents).  Reading one keeps nothing that another reads, so a  *)
(* behaviour is of one kind alone.                                         *)
(***************************************************************************)
EXTENDS Documents, Links

wireVars == <<linkVars, documentVars, keyVars>>

WiresInit == LinksInit /\ DocumentsInit /\ KeyInit
WiresNext ==
  \/ /\ signatures = {} /\ text = {}
     /\ LinksNext
     /\ UNCHANGED <<documentVars, keyVars>>
  \/ /\ signed = 0 /\ text = {}
     /\ DocumentsNext
     /\ UNCHANGED <<linkVars, keyVars>>
  \/ /\ signed = 0 /\ signatures = {} /\ text = {}
     /\ \E t \in KeyTexts : ReadKey(t)
     /\ UNCHANGED <<linkVars, documentVars>>

WiresSpec == WiresInit /\ [][WiresNext]_wireVars
=============================================================================
