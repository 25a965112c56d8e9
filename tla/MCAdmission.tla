----------------------------- MODULE MCAdmission -----------------------------
(* A gate in one process, a writer in another and one beside the gate.       *)
EXTENDS Admission, TLC

CONSTANTS peer, token, p, q, ip, iq, t1, u, r1, r2

MCInstances == {ip, iq}
MCProcessOf == ip :> p @@ iq :> q
MCThreads == {t1, u}
MCInstanceOf == t1 :> ip @@ u :> iq
OneEach == {{e} : e \in Entries}
=============================================================================
