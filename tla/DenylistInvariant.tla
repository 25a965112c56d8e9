-------------------------- MODULE DenylistInvariant --------------------------
(* Why the properties of Denylist hold: what is true at every step of a    *)
(* revoke or a refresh and, unlike the properties, is kept by each step on *)
(* its own.                                                                *)
EXTENDS Denylist

\* Nobody but nauthy touches the directory.
NoEdits == Faults \cap EditKinds = {}
NoPowerCut == "cut" \notin Faults

\* Once the body is in place, and once it is durable.
Renaming == {"sync", "witness", "mark", "marksync", "done"}
Durable == Renaming \ {"sync"}

\* One flock and one slot a process: one writer in all.
LockInv ==
  /\ \A p \in Processes : guard[p] \in {0, lockFile}
  /\ \A p \in Processes : locked[p] => guard[p] = lockFile
  /\ \A p1, p2 \in Processes : locked[p1] /\ locked[p2] => p1 = p2
  /\ \A t \in Threads :
       pc[t] # "idle" => locked[Home(t)] /\ Running(InstanceOf[t])
  /\ \A t1, t2 \in Threads :
       pc[t1] \in Writing /\ pc[t2] \in Writing => t1 = t2

\* What a writer read is still what the file holds, and what it writes covers
\* that and what it was asked.
WriterOk(t) ==
  /\ pc[t] \in {"read", "merge"} =>
       ~call[t].wrote /\ call[t].ask \subseteq held[InstanceOf[t]]
  /\ pc[t] = "merge" => call[t].entries = dir.file.entries
  /\ pc[t] = "write" => dir.file.entries \subseteq call[t].entries
  /\ pc[t] \in Renaming => call[t].entries = dir.file.entries
  /\ pc[t] \in {"write"} \cup Renaming => call[t].ask \subseteq call[t].entries
  /\ pc[t] \in Durable /\ call[t].wrote =>
       \A d \in dirs : call[t].entries \subseteq d.file.entries
WriterInv == \A t \in Threads : WriterOk(t)

\* Every directory a power cut could leave is an earlier one, no older than the
\* last write that answered Ok, with a witness that was true of it.
DiskInv ==
  /\ dir \in dirs
  /\ \A d \in dirs :
       /\ d.file.entries \subseteq dir.file.entries
       /\ written \subseteq d.file.entries
       /\ d.mark <= Cardinality(d.file.entries)

\* Holds when only crashes, failures and power cuts happen.
FaultInv == LockInv /\ WriterInv /\ DiskInv

\* No stamp is of a version yet to come.
VersionInv ==
  /\ \A d \in dirs \cup {dir} : d.file.id <= gen
  /\ \A i \in Instances : stamp[i] <= gen /\ look[i] <= gen
  /\ \A t \in Threads : call[t].stamp <= gen

\* Whoever has the stamp of the file, or is about to adopt it, has its entries
\* and knows whether it has a bad line.
Has(entries, bad) == dir.file.entries \subseteq entries /\ bad = dir.file.bad
Is(s) == s = dir.file.id /\ s # NoStamp

StampOk(i) ==
  /\ look[i] # NoStamp => Running(i)
  /\ ~Running(i) => ~malformed[i]
  /\ live[i] \in {"loading", "up", "repair"} /\ Is(stamp[i]) =>
       Has(held[i], malformed[i])
  /\ live[i] \in {"down", "lost"} => stamp[i] = NoStamp
CallOk(t) ==
  /\ pc[t] # "idle" => Running(InstanceOf[t])
  /\ pc[t] = "merge" /\ Is(call[t].stamp) => Has(call[t].entries, call[t].bad)
  /\ pc[t] = "write" => call[t].entries \subseteq held[InstanceOf[t]]
  /\ pc[t] \in Renaming /\ call[t].wrote /\ Is(call[t].stamp) =>
       Has(call[t].entries \cap held[InstanceOf[t]], call[t].bad)
StampInv ==
  /\ \A i \in Instances : StampOk(i)
  /\ \A t \in Threads : CallOk(t)

\* Holds whatever happens to the directory.
CurrentInv == VersionInv /\ StampInv

\* A file with no stamp is no file.
FileInv == \A d \in dirs \cup {dir} : d.file.id = NoStamp => d.file = NoFile

\* A body about to be written fits, and covers the file if that is still the one
\* it was merged from.
BodyOk(t) ==
  /\ pc[t] = "write" => Fits(call[t].entries, call[t].bad)
  /\ pc[t] \in {"merge", "write"} /\ call[t].stamp = dir.file.id =>
       /\ dir.file.entries \subseteq call[t].entries
       /\ dir.file.bad => call[t].bad
BodyInv == FileInv /\ \A t \in Threads : BodyOk(t)

\* A load that has read the file either has every entry answered Ok, or will find
\* the witness above its count; for the witness is raised before the Ok.
MarkOk(t) ==
  /\ pc[t] = "mark" => dir.mark < Count(call[t])
  /\ pc[t] \in {"marksync", "done"} => Count(call[t]) <= dir.mark
LoadOk(i) ==
  live[i] = "loading" =>
    /\ held[i] \subseteq dir.file.entries
    /\ acked \subseteq held[i] \/ Cardinality(held[i]) < dir.mark
LoadInv == (\A t \in Threads : MarkOk(t)) /\ (\A i \in Instances : LoadOk(i))
=============================================================================
