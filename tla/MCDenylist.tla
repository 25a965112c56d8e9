----------------------------- MODULE MCDenylist -----------------------------
(* Small instances of Denylist: two processes over one file, the first with *)
(* two threads that share one instance.                                     *)
EXTENDS DenylistRefinement, DenylistInvariant, TLC

CONSTANTS a, b, c, p, q, ip, iq, t1, t2, u

MCInstances == {ip, iq}
MCThreads == {t1, t2, u}
MCProcessOf == ip :> p @@ iq :> q
MCInstanceOf == t1 :> ip @@ t2 :> ip @@ u :> iq

\* One process, two threads.
OneInstance == {ip}
OneProcessOf == ip :> p
PairThreads == {t1, t2}
PairInstanceOf == t1 :> ip @@ t2 :> ip

OneThread == {t1}
OneInstanceOf == t1 :> ip

\* One thread a process.
TwoThreads == {t1, u}
TwoInstanceOf == t1 :> ip @@ u :> iq

OneEach == {{e} : e \in Entries}
AnyAsk == SUBSET Entries \ {{}}

EntrySymmetry == Permutations(Entries)

\* t1 and t2 run the same code on the same instance.
WriterSymmetry == Permutations(Entries) \cup Permutations(PairThreads)
=============================================================================
