------------------------------ MODULE Denylist ------------------------------
(***************************************************************************)
(* The file-backed revocation store of src/revocations.rs.                 *)
(*                                                                         *)
(* Several processes share one denylist file, its `.written` witness and   *)
(* its `.lock` sibling.  A process holds Denylist values (instances); its  *)
(* threads call `revoke` on one of them while other threads ask it         *)
(* questions, each of which may first refresh the instance from the file.  *)
(* A step of this module is one system call on the shared directory, or    *)
(* one critical section of an instance's state mutex.                      *)
(*                                                                         *)
(* An entry (an id or a key) is an opaque value.  The lines of a file that *)
(* are not entries are the one bit `bad`: they are carried verbatim and    *)
(* never counted, so what matters is whether the file has any.             *)
(*                                                                         *)
(* An operator that no other one uses (FitsButForCarried, LostNever, ...)  *)
(* is a wrong version of the definition after it: put in its place, it     *)
(* breaks a property, which shows that the property depends on it.         *)
(***************************************************************************)
EXTENDS Naturals, FiniteSets

CONSTANTS
  Entries,      \* revocation ids and verify keys that may be revoked
  Processes,    \* operating-system processes over the one file
  Instances,    \* Denylist values
  Threads,      \* threads that call revoke
  ProcessOf,    \* the process an instance lives in
  InstanceOf,   \* the instance a thread calls revoke on
  Asks,         \* the sets of entries one call of revoke may be given
  MaxLines,     \* MAX_LEN, in lines
  Faults,       \* the kinds of fault the environment may inject
  MaxFaults,    \* bound: how many faults one behaviour has
  MaxFiles      \* bound: how many versions of the file one behaviour has

\* What the environment can do to a node, and the part of it that no crash
\* of nauthy causes: somebody else changing the directory.
EditKinds == {"remove", "edit", "unwitness", "relock"}
FaultKinds == {"crash", "cut", "io"} \cup EditKinds

ASSUME EntriesAssumption == IsFiniteSet(Entries)
ASSUME PlacesAssumption ==
  /\ ProcessOf \in [Instances -> Processes]
  /\ InstanceOf \in [Threads -> Instances]
ASSUME BoundsAssumption ==
  /\ Asks \subseteq SUBSET Entries
  /\ MaxLines \in Nat
  /\ Faults \subseteq FaultKinds
  /\ MaxFaults \in Nat
  /\ MaxFiles \in Nat

VARIABLES
  dir,          \* the directory as every process sees it: the file, the witness
  dirs,         \* the directories a power cut now could leave behind
  gen,          \* the stamp the next version of the file gets, less one
  lockFile,     \* the inode at `<path>.lock`
  guard,        \* the lock inode a process has opened, 0 for none
  locked,       \* whether a process holds the flock on it: a DenylistLock
  live,         \* the stage of life of an instance
  held,         \* State.held
  stamp,        \* State.stamp
  malformed,    \* State.malformed, as whether there is such a line
  fresh,        \* whether State.last_stat is within STAT_DEBOUNCE
  look,         \* the stamp a refresh in progress took, 0 for none in progress
  pc,           \* where a thread is in revoke
  call,         \* the locals of a thread's revoke
  acked,        \* history: entries some revoke answered Ok for
  written,      \* history: those answered Ok by a revoke that wrote them itself
  faults        \* how many faults have happened

fileVars == <<dir, dirs, gen>>
lockVars == <<lockFile, guard, locked>>
instVars == <<live, held, stamp, malformed, fresh, look>>
callVars == <<pc, call, acked, written>>
vars == <<fileVars, lockVars, instVars, callVars, faults>>
-----------------------------------------------------------------------------
(* Data.  A stamp stands for one version of the file: FileStamp carries    *)
(* inode and ctime, so no two versions share one.  NoStamp is Option::None,*)
(* and any stamp that matches no version of the file.                      *)

NoStamp == 0
Files == [entries : SUBSET Entries, bad : BOOLEAN, id : Nat]
NoFile == [entries |-> {}, bad |-> FALSE, id |-> NoStamp]
Directories == [file : Files, mark : 0 .. Cardinality(Entries)]
Calls == [ask : SUBSET Entries, entries : SUBSET Entries, bad : BOOLEAN,
          stamp : Nat, wrote : BOOLEAN]
NoCall == [ask |-> {}, entries |-> {}, bad |-> FALSE, stamp |-> NoStamp,
           wrote |-> FALSE]

\* Where a thread holds its process's write slot for the directory.
Writing == {"merge", "write", "sync", "witness", "mark", "marksync", "done"}
Stages == {"down", "loading", "up", "repair", "lost"}

Home(t) == ProcessOf[InstanceOf[t]]
Running(i) == live[i] \in {"up", "repair"}
Busy(p) == \E t \in Threads : Home(t) = p /\ pc[t] # "idle"

Size(entries, bad) == Cardinality(entries) + (IF bad THEN 1 ELSE 0)

\* read_capped, and the check of a body before it is written.
FitsButForCarried(entries, bad) == Size(entries, FALSE) <= MaxLines
Fits(entries, bad) == Size(entries, bad) <= MaxLines

\* FileStamp::unchanged: only two stamps that are both there can be equal.
UnchangedIfNone(before, now) == before = NoStamp \/ before = now
Unchanged(before, now) == before # NoStamp /\ before = now

\* Entries::union into the held set: a refresh adds and never assigns.
JoinedAssigns(i, entries) == entries
Joined(i, entries) == held[i] \cup entries

\* check_witness.
LostNever(found) == FALSE
Lost(found) == found < dir.mark

\* The count raise_witness is given: entries only, carried lines uncounted.
CountNextLine(c) == Cardinality(c.entries) + 1
Count(c) == Cardinality(c.entries)

\* The body a write renames in: the sorted entries, then the lines carried over.
BodyOfEntries(c) == [entries |-> c.entries, bad |-> FALSE, id |-> gen + 1]
Body(c) == [entries |-> c.entries, bad |-> c.bad, id |-> gen + 1]

\* A rename into the directory is visible at once and durable only later; the
\* fsync of the directory leaves what is visible as the only survivor.
Renamed(d) == dirs \cup {d}
SyncedNothing == dirs
Synced == {dir}

\* The flock is exclusive per lock-file inode.
LockShared(p) == TRUE
LockFree(p) == \A q \in Processes \ {p} : ~(locked[q] /\ guard[q] = guard[p])

\* DenylistLock::guards: the lock held is still the one at `<path>.lock`.
GuardsAlways(p) == TRUE
Guards(p) == guard[p] = lockFile

\* writers_of: one write at a time per directory in a process.
SlotAlwaysFree(t) == TRUE
SlotFree(t) == \A u \in Threads : Home(u) = Home(t) => pc[u] \notin Writing

Fault(kind) == kind \in Faults /\ faults < MaxFaults /\ faults' = faults + 1
-----------------------------------------------------------------------------
(* Starting and stopping an instance.                                      *)

\* load, first half: read, decode and stamp the file from one handle.  A file
\* with a bad line (Parse) or over the cap (TooLarge) is refused.
LoadRead(i) ==
  /\ live[i] \in {"down", "lost"}
  /\ ~dir.file.bad
  /\ Fits(dir.file.entries, FALSE)
  /\ live' = [live EXCEPT ![i] = "loading"]
  /\ held' = [held EXCEPT ![i] = dir.file.entries]
  /\ stamp' = [stamp EXCEPT ![i] = dir.file.id]
  /\ UNCHANGED <<fileVars, lockVars, malformed, fresh, look, callVars, faults>>

\* load, second half: the witness is read on its own, after the file and under
\* no lock.
LoadCheck(i) ==
  /\ live[i] = "loading"
  /\ IF Lost(Cardinality(held[i]))
     THEN /\ live' = [live EXCEPT ![i] = "lost"]
          /\ held' = [held EXCEPT ![i] = {}]
          /\ stamp' = [stamp EXCEPT ![i] = NoStamp]
     ELSE live' = [live EXCEPT ![i] = "up"] /\ UNCHANGED <<held, stamp>>
  /\ UNCHANGED <<fileVars, lockVars, malformed, fresh, look, callVars, faults>>

\* for_repair: holds nothing and reads nothing.
ForRepair(i) ==
  /\ live[i] \in {"down", "lost"}
  /\ live' = [live EXCEPT ![i] = "repair"]
  /\ UNCHANGED <<fileVars, lockVars, held, stamp, malformed, fresh, look,
                 callVars, faults>>

\* The instances in gone cease to exist, and what they held with them.
Forget(gone) ==
  /\ live' = [i \in Instances |-> IF i \in gone THEN "down" ELSE live[i]]
  /\ held' = [i \in Instances |-> IF i \in gone THEN {} ELSE held[i]]
  /\ stamp' = [i \in Instances |-> IF i \in gone THEN NoStamp ELSE stamp[i]]
  /\ malformed' = [i \in Instances |-> i \notin gone /\ malformed[i]]
  /\ fresh' = [i \in Instances |-> i \notin gone /\ fresh[i]]
  /\ look' = [i \in Instances |-> IF i \in gone THEN NoStamp ELSE look[i]]

\* The process drops an instance it is not using.
Drop(i) ==
  /\ Running(i)
  /\ look[i] = NoStamp
  /\ \A t \in Threads : InstanceOf[t] = i => pc[t] = "idle"
  /\ Forget({i})
  /\ UNCHANGED <<fileVars, lockVars, callVars, faults>>
-----------------------------------------------------------------------------
(* DenylistLock: an flock on the lock file's inode.                        *)

\* WriteLock::acquire opens whatever is at `<path>.lock` now ...
OpenLock(p) ==
  /\ guard[p] = 0
  /\ guard' = [guard EXCEPT ![p] = lockFile]
  /\ UNCHANGED <<fileVars, lockFile, locked, instVars, callVars, faults>>

\* ... and then waits for the lock on that inode.
TakeLock(p) ==
  /\ guard[p] # 0
  /\ ~locked[p]
  /\ LockFree(p)
  /\ locked' = [locked EXCEPT ![p] = TRUE]
  /\ UNCHANGED <<fileVars, lockFile, guard, instVars, callVars, faults>>

\* The guard is dropped; a revoke borrows it, so none is running.
Unlock(p) ==
  /\ locked[p]
  /\ ~Busy(p)
  /\ guard' = [guard EXCEPT ![p] = 0]
  /\ locked' = [locked EXCEPT ![p] = FALSE]
  /\ UNCHANGED <<fileVars, lockFile, instVars, callVars, faults>>
-----------------------------------------------------------------------------
(* revoke.  Threads of one process may share its guard, and an instance.   *)

Goto(t, label) == pc' = [pc EXCEPT ![t] = label]

\* The call is over; answer is whether it was Ok.
Return(t, answer) ==
  /\ Goto(t, "idle")
  /\ call' = [call EXCEPT ![t] = NoCall]
  /\ acked' = IF answer THEN acked \cup call[t].ask ELSE acked
  /\ written' = IF answer /\ call[t].wrote THEN written \cup call[t].ask
                                           ELSE written

\* The entries join the held set before anything else can fail.
Extend(t, ask) ==
  LET i == InstanceOf[t] IN
  /\ pc[t] = "idle"
  /\ Running(i)
  /\ locked[Home(t)]
  /\ look[i] = NoStamp
  /\ held' = [held EXCEPT ![i] = Joined(i, ask)]

\* A guard that is not this file's: WrongLock, with the file untouched.
RevokeWrongLock(t, ask) ==
  /\ Extend(t, ask)
  /\ ~Guards(Home(t))
  /\ UNCHANGED <<fileVars, lockVars, live, stamp, malformed, fresh, look,
                 callVars, faults>>

Revoke(t, ask) ==
  /\ Extend(t, ask)
  /\ Guards(Home(t))
  /\ Goto(t, "read")
  /\ call' = [call EXCEPT ![t] = [NoCall EXCEPT !.ask = ask]]
  /\ UNCHANGED <<fileVars, lockVars, live, stamp, malformed, fresh, look, acked,
                 written, faults>>

\* Take the write slot and read the file; an oversized one is an error.
ReadFile(t) ==
  /\ pc[t] = "read"
  /\ SlotFree(t)
  /\ IF Fits(dir.file.entries, dir.file.bad)
     THEN /\ Goto(t, "merge")
          /\ call' = [call EXCEPT ![t] = [@ EXCEPT !.entries = dir.file.entries,
                                                   !.bad = dir.file.bad,
                                                   !.stamp = dir.file.id]]
          /\ UNCHANGED <<acked, written>>
     ELSE Return(t, FALSE)
  /\ UNCHANGED <<fileVars, lockVars, instVars, faults>>

\* Under the state mutex: union the file into the held set.  Nothing to add to
\* the file: this instance is current, and only the witness may need raising.
MergeRepeat(t) ==
  LET i == InstanceOf[t]
      all == Joined(i, call[t].entries) IN
  /\ pc[t] = "merge"
  /\ look[i] = NoStamp
  /\ all \subseteq call[t].entries
  /\ held' = [held EXCEPT ![i] = all]
  /\ stamp' = [stamp EXCEPT ![i] = call[t].stamp]
  /\ malformed' = [malformed EXCEPT ![i] = call[t].bad]
  /\ Goto(t, "witness")
  /\ UNCHANGED <<fileVars, lockVars, live, fresh, look, call, acked, written,
                 faults>>

\* Otherwise the body is the whole held set and the carried lines; one over the
\* cap is not written.
MergeWriteAsked(t) ==
  LET i == InstanceOf[t]
      body == call[t].entries \cup call[t].ask IN
  /\ pc[t] = "merge"
  /\ look[i] = NoStamp
  /\ ~(Joined(i, body) \subseteq call[t].entries)
  /\ held' = [held EXCEPT ![i] = Joined(i, body)]
  /\ Goto(t, "write")
  /\ call' = [call EXCEPT ![t] = [@ EXCEPT !.entries = body, !.wrote = TRUE]]
  /\ UNCHANGED <<fileVars, lockVars, live, stamp, malformed, fresh, look, acked,
                 written, faults>>
MergeWrite(t) ==
  LET i == InstanceOf[t]
      all == Joined(i, call[t].entries) IN
  /\ pc[t] = "merge"
  /\ look[i] = NoStamp
  /\ ~(all \subseteq call[t].entries)
  /\ held' = [held EXCEPT ![i] = all]
  /\ IF Fits(all, call[t].bad)
     THEN /\ Goto(t, "write")
          /\ call' = [call EXCEPT ![t] = [@ EXCEPT !.entries = all,
                                                   !.wrote = TRUE]]
          /\ UNCHANGED <<acked, written>>
     ELSE Return(t, FALSE)
  /\ UNCHANGED <<fileVars, lockVars, live, stamp, malformed, fresh, look, faults>>

\* replace_durably up to its rename: a temp file nobody else names is written,
\* fsynced, stamped and renamed over the target.  Where a rename moves ctime the
\* stamp taken before it matches nothing, which costs a refresh one more read.
WriteBody(t) ==
  /\ pc[t] = "write"
  /\ gen < MaxFiles
  /\ dir' = [dir EXCEPT !.file = Body(call[t])]
  /\ dirs' = Renamed(dir')
  /\ gen' = gen + 1
  /\ \E s \in {NoStamp, gen'} :
       call' = [call EXCEPT ![t] = [@ EXCEPT !.stamp = s]]
  /\ Goto(t, "sync")
  /\ UNCHANGED <<lockVars, instVars, acked, written, faults>>

\* sync_parent, after the body's rename.
SyncBody(t) ==
  /\ pc[t] = "sync"
  /\ dirs' = Synced
  /\ Goto(t, "witness")
  /\ UNCHANGED <<dir, gen, lockVars, instVars, call, acked, written, faults>>

\* raise_witness reads the mark, and only ever raises it.
ReadWitness(t) ==
  /\ pc[t] = "witness"
  /\ Goto(t, IF dir.mark >= Count(call[t]) THEN "done" ELSE "mark")
  /\ UNCHANGED <<fileVars, lockVars, instVars, call, acked, written, faults>>

WriteWitness(t) ==
  /\ pc[t] = "mark"
  /\ dir' = [dir EXCEPT !.mark = Count(call[t])]
  /\ dirs' = Renamed(dir')
  /\ Goto(t, "marksync")
  /\ UNCHANGED <<gen, lockVars, instVars, call, acked, written, faults>>

SyncWitness(t) ==
  /\ pc[t] = "marksync"
  /\ dirs' = Synced
  /\ Goto(t, "done")
  /\ UNCHANGED <<dir, gen, lockVars, instVars, call, acked, written, faults>>

\* Ok for a revoke that wrote: adopt the stamp of the bytes written, under the
\* state mutex.
Adopt(t) ==
  LET i == InstanceOf[t] IN
  /\ pc[t] = "done"
  /\ call[t].wrote
  /\ look[i] = NoStamp
  /\ stamp' = [stamp EXCEPT ![i] = call[t].stamp]
  /\ malformed' = [malformed EXCEPT ![i] = call[t].bad]
  /\ Return(t, TRUE)
  /\ UNCHANGED <<fileVars, lockVars, live, held, fresh, look, faults>>

\* Ok for a revoke that found every entry on disk already.
ReturnRepeat(t) ==
  /\ pc[t] = "done"
  /\ ~call[t].wrote
  /\ Return(t, TRUE)
  /\ UNCHANGED <<fileVars, lockVars, instVars, faults>>
-----------------------------------------------------------------------------
(* A question to an instance.  It is answered from `held` under the state  *)
(* mutex, after a refresh unless one was tried within STAT_DEBOUNCE.       *)

Debounced(i) ==
  /\ fresh[i]
  /\ fresh' = [fresh EXCEPT ![i] = FALSE]
  /\ UNCHANGED <<fileVars, lockVars, live, held, stamp, malformed, look, callVars,
                 faults>>

DueBehindWriters(i) ==
  /\ Running(i)
  /\ look[i] = NoStamp /\ \A t \in Threads : InstanceOf[t] = i => pc[t] \notin Writing
  /\ ~fresh[i]
  /\ fresh' = [fresh EXCEPT ![i] = TRUE]
RefreshDue(i) ==
  /\ Running(i)
  /\ look[i] = NoStamp
  /\ ~fresh[i]
  /\ fresh' = [fresh EXCEPT ![i] = TRUE]

\* An absent file or an unchanged stamp: keep what is held.
RefreshSkip(i) ==
  /\ RefreshDue(i)
  /\ dir.file.id = NoStamp \/ Unchanged(stamp[i], dir.file.id)
  /\ UNCHANGED <<fileVars, lockVars, live, held, stamp, malformed, look, callVars,
                 faults>>

\* The stamp is taken by a stat ...
RefreshStat(i) ==
  /\ RefreshDue(i)
  /\ dir.file.id # NoStamp
  /\ ~Unchanged(stamp[i], dir.file.id)
  /\ look' = [look EXCEPT ![i] = dir.file.id]
  /\ UNCHANGED <<fileVars, lockVars, live, held, stamp, malformed, callVars, faults>>

\* ... and the file read after it, by which time it may have been replaced: the
\* stamp adopted is then the older one.  A bad line does not hide the entries.
RefreshUnlessBad(i) ==
  /\ held' = [held EXCEPT ![i] =
                IF dir.file.bad THEN @ ELSE Joined(i, dir.file.entries)]
  /\ malformed' = [malformed EXCEPT ![i] = dir.file.bad]
  /\ stamp' = [stamp EXCEPT ![i] = look[i]]
RefreshUnion(i) ==
  /\ held' = [held EXCEPT ![i] = Joined(i, dir.file.entries)]
  /\ malformed' = [malformed EXCEPT ![i] = dir.file.bad]
  /\ stamp' = [stamp EXCEPT ![i] = look[i]]

\* A file gone or over the cap by now changes nothing.  The mutex is released.
Kept(i) == look[i]
Released(i) == NoStamp
RefreshRead(i) ==
  /\ look[i] # NoStamp
  /\ look' = [look EXCEPT ![i] = Released(i)]
  /\ IF dir.file.id # NoStamp /\ Fits(dir.file.entries, dir.file.bad)
     THEN RefreshUnion(i)
     ELSE UNCHANGED <<held, malformed, stamp>>
  /\ UNCHANGED <<fileVars, lockVars, live, fresh, callVars, faults>>
-----------------------------------------------------------------------------
(* Faults.                                                                 *)

\* A read, write, rename or fsync fails inside revoke, which returns Err.  The
\* temp file is removed; a rename that had already landed stays.
IoError(t) ==
  /\ Fault("io")
  /\ pc[t] \in {"read", "write", "sync", "witness", "mark", "marksync"}
  /\ Return(t, FALSE)
  /\ UNCHANGED <<fileVars, lockVars, instVars>>

\* The processes in died are gone: their instances, calls and locks with them.
Die(died) ==
  /\ Forget({i \in Instances : ProcessOf[i] \in died})
  /\ pc' = [t \in Threads |-> IF Home(t) \in died THEN "idle" ELSE pc[t]]
  /\ call' = [t \in Threads |-> IF Home(t) \in died THEN NoCall ELSE call[t]]
  /\ guard' = [p \in Processes |-> IF p \in died THEN 0 ELSE guard[p]]
  /\ locked' = [p \in Processes |-> p \notin died /\ locked[p]]
  /\ UNCHANGED <<gen, lockFile, acked, written>>

\* A process that is doing something is killed; the directory stays as it is.
Crash(p) ==
  /\ Fault("crash")
  /\ Busy(p)
  /\ Die({p})
  /\ UNCHANGED <<dir, dirs>>

\* The power is cut: every process dies, and the directory comes back as some
\* version since its last fsync.  A directory's renames reach the disk in order.
PowerCut ==
  /\ Fault("cut")
  /\ Die(Processes)
  /\ \E d \in dirs : dir' = d /\ dirs' = {d}

\* Somebody else removes the file ...
RemoveFile ==
  /\ Fault("remove")
  /\ dir' = [dir EXCEPT !.file = NoFile]
  /\ dirs' = Renamed(dir')
  /\ UNCHANGED <<gen, lockVars, instVars, callVars>>

\* ... or puts another in its place.
EditFile ==
  /\ Fault("edit")
  /\ gen < MaxFiles
  /\ gen' = gen + 1
  /\ \E entries \in SUBSET Entries, bad \in BOOLEAN :
       dir' = [dir EXCEPT !.file =
                 [entries |-> entries, bad |-> bad, id |-> gen + 1]]
  /\ dirs' = Renamed(dir')
  /\ UNCHANGED <<lockVars, instVars, callVars>>

\* An operator accepts a loss by removing the witness.
RemoveWitness ==
  /\ Fault("unwitness")
  /\ dir' = [dir EXCEPT !.mark = 0]
  /\ dirs' = Renamed(dir')
  /\ UNCHANGED <<gen, lockVars, instVars, callVars>>

\* Somebody removes the lock file; the next writer creates a new one.
ReplaceLock ==
  /\ Fault("relock")
  /\ lockFile' = lockFile + 1
  /\ UNCHANGED <<fileVars, guard, locked, instVars, callVars>>
-----------------------------------------------------------------------------
Init ==
  /\ dir = [file |-> NoFile, mark |-> 0]
  /\ dirs = {dir}
  /\ gen = 0
  /\ lockFile = 1
  /\ guard = [p \in Processes |-> 0]
  /\ locked = [p \in Processes |-> FALSE]
  /\ live = [i \in Instances |-> "down"]
  /\ held = [i \in Instances |-> {}]
  /\ stamp = [i \in Instances |-> NoStamp]
  /\ malformed = [i \in Instances |-> FALSE]
  /\ fresh = [i \in Instances |-> FALSE]
  /\ look = [i \in Instances |-> NoStamp]
  /\ pc = [t \in Threads |-> "idle"]
  /\ call = [t \in Threads |-> NoCall]
  /\ acked = {}
  /\ written = {}
  /\ faults = 0

Lifecycle(i) == LoadRead(i) \/ LoadCheck(i) \/ ForRepair(i) \/ Drop(i)
Locking(p) == OpenLock(p) \/ TakeLock(p) \/ Unlock(p)
Calling(t) == \E ask \in Asks : RevokeWrongLock(t, ask) \/ Revoke(t, ask)

\* The steps of a revoke that has been called.
Progress(t) ==
  \/ ReadFile(t) \/ MergeRepeat(t) \/ MergeWrite(t)
  \/ WriteBody(t) \/ SyncBody(t)
  \/ ReadWitness(t) \/ WriteWitness(t) \/ SyncWitness(t)
  \/ Adopt(t) \/ ReturnRepeat(t)

Asking(i) == Debounced(i) \/ RefreshSkip(i) \/ RefreshStat(i) \/ RefreshRead(i)

Environment ==
  \/ \E t \in Threads : IoError(t)
  \/ \E p \in Processes : Crash(p)
  \/ PowerCut \/ RemoveFile \/ EditFile \/ RemoveWitness \/ ReplaceLock

Next ==
  \/ \E i \in Instances : Lifecycle(i) \/ Asking(i)
  \/ \E p \in Processes : Locking(p)
  \/ \E t \in Threads : Calling(t) \/ Progress(t)
  \/ Environment

Spec == Init /\ [][Next]_vars

\* A thread inside revoke is scheduled, and an instance keeps being asked: each
\* admission asks it.  Nothing makes a caller revoke, lock or restart.
FairSpec ==
  /\ Spec
  /\ \A t \in Threads : WF_vars(Progress(t))
  /\ \A i \in Instances : WF_vars(Asking(i))
-----------------------------------------------------------------------------
(* Properties.                                                             *)

\* Every variable stays in its type; no witness is above the number of entries
\* there can be, and no guard is of a lock file yet to come.
TypeOK ==
  /\ gen \in Nat
  /\ dir \in Directories
  /\ dirs \subseteq Directories
  /\ lockFile \in Nat \ {0}
  /\ guard \in [Processes -> 0 .. lockFile]
  /\ locked \in [Processes -> BOOLEAN]
  /\ live \in [Instances -> Stages]
  /\ held \in [Instances -> SUBSET Entries]
  /\ stamp \in [Instances -> Nat]
  /\ malformed \in [Instances -> BOOLEAN]
  /\ fresh \in [Instances -> BOOLEAN]
  /\ look \in [Instances -> Nat]
  /\ pc \in [Threads -> {"idle", "read"} \cup Writing]
  /\ call \in [Threads -> Calls]
  /\ acked \in SUBSET Entries
  /\ written \in SUBSET Entries
  /\ faults \in Nat

\* An entry some revoke answered Ok for is in the file for good: no other
\* writer, in this process or another, lands a body without it, whatever crashes
\* or fails half way.  (revoke under the flock and the process's write slot.)
AckedInFile == acked \subseteq dir.file.entries

\* However far the directory is set back by a power cut, it holds every entry a
\* revoke wrote and answered Ok for.  (The fsyncs of replace_durably.)
WrittenSurvivesPowerCut == \A d \in dirs : written \subseteq d.file.entries

\* As above for every Ok, the repeats that wrote nothing included.
AckedSurvivesPowerCut == \A d \in dirs : acked \subseteq d.file.entries

\* No order of crashes, failures and power cuts leaves a file shorter than its
\* witness when no entry was lost.  (write_atomically raises it last.)
WitnessNeverAhead ==
  \A d \in dirs : d.mark <= Cardinality(d.file.entries)

\* An instance whose stamp is the file's, which a refresh will therefore not
\* read, already holds every entry of the file and reports its bad line.  (The
\* stamp always belongs to the bytes that were read or written.)
CurrentMeansHeld ==
  \A i \in Instances :
    Running(i) /\ dir.file.id # NoStamp /\ stamp[i] = dir.file.id =>
      dir.file.entries \subseteq held[i] /\ malformed[i] = dir.file.bad

\* No write leaves a file that the next load refuses as too large.  (revoke
\* measures the body, carried lines included, before it writes.)
NoOversizeWrite ==
  [][\A t \in Threads :
       pc[t] = "write" /\ pc'[t] = "sync" =>
         Size(dir'.file.entries, dir'.file.bad) <= MaxLines]_vars

\* A running instance never stops refusing an entry, whatever happens to the
\* file: deletion, a shorter file, a bad line.  (Union only.)
HeldNeverShrinks ==
  [][\A i \in Instances :
       Running(i) /\ Running(i)' => held[i] \subseteq held'[i]]_vars

\* A write drops no line of the file it replaces, entry or not, unless somebody
\* changed that file since the write read it.  (The body is the union of the
\* held set and the file, and the bad lines are carried.)
NoLineDropped ==
  [][\A t \in Threads :
       pc[t] = "write" /\ pc'[t] = "sync" /\ call[t].stamp = dir.file.id =>
         /\ dir.file.entries \subseteq dir'.file.entries
         /\ dir.file.bad => dir'.file.bad]_vars

\* A load that succeeds holds every entry answered Ok before it returned, though
\* the file and the witness are read at two moments with no lock.
StartHoldsEveryAck ==
  [][\A i \in Instances :
       live[i] = "loading" /\ live'[i] = "up" => acked \subseteq held'[i]]_vars

\* A load refuses a file as Lost only when it lost an entry.
LostMeansLoss == \A i \in Instances : live[i] # "lost"

\* A revoke that has its process's write slot gives it up, Ok or not: the slot,
\* the state mutex and the flock are never waited for in a circle.
RevokeFinishes == \A t \in Threads : pc[t] \in Writing ~> pc[t] = "idle"

\* An entry answered Ok reaches every running instance of every process, with no
\* message and no restart, as long as each is asked now and then.
AckedSpreads ==
  \A e \in Entries, i \in Instances :
    e \in acked /\ Running(i) ~> e \in held[i] \/ ~Running(i)
=============================================================================
