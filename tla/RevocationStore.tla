--------------------------- MODULE RevocationStore ---------------------------
(***************************************************************************)
(* What the shipped revocation store promises the gates that ask it, with  *)
(* no file, lock or thread in sight: the contract of trait Revocations as  *)
(* Denylist keeps it.  A revocation answered Ok is promised; what an       *)
(* instance refuses only grows while it serves; and one that starts        *)
(* refuses everything promised by then.                                    *)
(***************************************************************************)
CONSTANTS Entries, Instances

VARIABLES
  promised,   \* entries a revoke has answered Ok for
  serving,    \* the instances gates ask
  refuses     \* what each of those refuses

svars == <<promised, serving, refuses>>

Init ==
  /\ promised = {}
  /\ serving = {}
  /\ refuses = [i \in Instances |-> {}]

\* A revoke answers Ok.
Promise ==
  /\ \E new \in SUBSET Entries : promised' = promised \cup new
  /\ UNCHANGED <<serving, refuses>>

\* An instance comes to refuse more: told by its own process, or by the file.
Learn(i) ==
  /\ i \in serving
  /\ \E new \in SUBSET Entries :
       refuses' = [refuses EXCEPT ![i] = @ \cup new]
  /\ UNCHANGED <<promised, serving>>

\* An instance starts to serve, knowing all that was promised before.
Start(i) ==
  /\ i \notin serving
  /\ serving' = serving \cup {i}
  /\ \E known \in SUBSET Entries :
       /\ promised \subseteq known
       /\ refuses' = [refuses EXCEPT ![i] = known]
  /\ UNCHANGED promised

\* Instances stop, one or a process's worth of them.
Stop(gone) ==
  /\ gone \subseteq serving
  /\ serving' = serving \ gone
  /\ refuses' = [i \in Instances |-> IF i \in gone THEN {} ELSE refuses[i]]
  /\ UNCHANGED promised

Next ==
  \/ Promise
  \/ \E i \in Instances : Learn(i) \/ Start(i)
  \/ \E gone \in SUBSET serving : Stop(gone)

Spec == Init /\ [][Next]_svars
=============================================================================
