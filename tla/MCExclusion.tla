---------------------------- MODULE MCExclusion ----------------------------
(* Two processes over one file, one thread each, whose locks may be of two  *)
(* kinds or replaced.                                                        *)
EXTENDS Exclusion, TLC

CONSTANTS a, b, p, q, ip, iq, t1, u

MCInstances == {ip, iq}
MCThreads == {t1, u}
MCProcessOf == ip :> p @@ iq :> q
MCInstanceOf == t1 :> ip @@ u :> iq
OneEach == {{e} : e \in Entries}

EntrySymmetry == Permutations(Entries)
=============================================================================
