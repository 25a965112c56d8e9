# nauthy in TLA+

nauthy is a Rust crate that mints, narrows, verifies and revokes capabilities and
rules on the connections that present them. This directory holds TLA+ models of
it, the TLC configurations that check them on small instances, and proofs, checked
by TLAPS, of the properties that must hold on every instance.

Paths below are in `src/` of the crate (`revocations.rs` is `src/src/revocations.rs`
in `PROJECT.json`). `PROJECT.json` maps every definition to the lines it models.

## The system

| component | state | operations | what makes it hard |
|---|---|---|---|
| **Denylist** (`revocations.rs`) | on disk: the file, its `.written` witness, its `.lock`; in a process: held entries, stamp, first bad line, last stat | `load`, `for_repair`, `lock`, `revoke`, `is_revoked*` (with its refresh), drop | processes and threads over one file, crashes and failures between system calls, power cuts, other hands in the directory |
| **FileStamp** (`stamp.rs`) | none | `of`, `unchanged`, `STAT_DEBOUNCE` | a stamp and the bytes it is kept with are read at two moments |
| **Cap, Identity, Request** (`cap.rs`) | a chain of signed blocks, immutable | four mints, `attenuate`, `seal`, three verifications, `expiry`, `valid_until`, `revocation_ids`, `parse` | narrowings compose; what a fact or a check means depends on the block it is in; whole-second dates |
| **Link** (`link.rs`) | a cap and its text | `mint`, `mint_bound`, `mint_authority_bound`, `narrow`, `seal`, `revoke` | which block's id a revocation names |
| **Gate** (`gate.rs`) | none of its own: it reads a root or a live pin, an own key, a store and a record | `admit`, `admit_foreign`, both witnessed, `proven` | each read is of a different moment, and an evaluation may run out of time |
| **Admitted** (`gate.rs`) | peer, kind, origin | `kind`, `origin`, `peer_verified`, `revocable_peer`, `is_member` | what a handler may conclude from it |
| **Signed** (`signed.rs`) | payload, signer, signature | `sign_document`, `encode`, `decode`, `verify` | a wire names its own signer; the key that signs documents signs tokens too |
| **VerifyKey** (`key.rs`) | 32 bytes | `try_new`, `Display`, `FromStr` | one holder can have several points, encodings and texts |
| **Service** (`service.rs`) | a name | `FromStr` | nothing: two comparisons |

A gate asks `Revocations`, which `Denylist` implements, before and after each
evaluation of a `Cap`; `Link::revoke` and its callers write the `Denylist`. Nothing
is sent: instances in different processes learn of each other's revocations
through the file alone, when a question to an instance refreshes it.

What each must guarantee:

* **Denylist**: an entry whose revoke answered Ok is never lost to another writer, a
  crash, a failed call or a power cut; every later start knows it; every running
  instance comes to know it and then never forgets; a line nobody could read is not
  thrown away; a loss is noticed and a sound file is not called lost.
* **Cap and Link**: a capability grants what its mint named minus what each narrowing
  took, at every instant; revoking recalls a capability and its descendants, exactly.
* **Tokens and texts from outside**: what a token's datalog means is what the mints
  meant; no block anyone appends broadens it; the work a stranger's link causes is
  bounded; a document verifies only if the trusted key signed it as one.
* **Gate**: nobody is admitted by a recalled token, by a mix of answers that no moment
  would give, or by what a copy of the own key can sign; only the owner's badge makes a
  member; running out of time is never reported as a lack of authority.

`PROJECT.json` lists under "hazards" where each of these could fail in the code.

## Modules

### Denylist: the store, system call by system call

A step is one system call on the shared directory or one critical section of an
instance's state mutex. Entries (ids and keys) are opaque; the lines of a file that
are not entries are one bit, `bad`, because they are carried verbatim and never
counted.

| module | code |
|---|---|
| `dir` = `[file, mark]` | the denylist (entries, bad lines, version) and the count in the witness, 0 for an absent one |
| `dirs` | the directories a power cut now could leave: all since the last fsync of the directory |
| `guard`, `locked`, `lockFile` | `WriteLock`: the inode a process opened, whether it holds the flock, the inode at `<path>.lock` |
| `live` | `down`; `loading` between the two reads of `load`; `up`; `repair` (`for_repair`); `lost` (refused) |
| `held`, `stamp`, `malformed`, `fresh` | `State`; `fresh` is "last stat within `STAT_DEBOUNCE`" |
| `look` | a refresh between its stat and its read, the state mutex held throughout |
| `pc`, `call` | where a thread is in `revoke`, and its locals |
| `acked`, `written` | history: what a revoke answered Ok for, and what one wrote and answered Ok for |

`Revoke`, `ReadFile`, `MergeRepeat`/`MergeWrite`, `WriteBody`, `SyncBody`,
`ReadWitness`, `WriteWitness`, `SyncWitness`, `Adopt`/`ReturnRepeat` are `revoke` in
order; an `IoError` can end it at each system call. `LoadRead`, `LoadCheck` are
`load`. `Debounced`, `RefreshSkip`, `RefreshStat`, `RefreshRead` are the refresh
under every question.

Assumptions, each of the environment and none of nauthy:

* Renames into one directory reach the disk in the order they were made (a
  journaling file system), and `fsync` of the directory makes all of them durable.
* No two versions of the file share a stamp (inode and ctime). The stamp `revoke`
  adopts was taken before the rename; where a rename moves ctime it matches no
  version, which the model allows at every write (`NoStamp`).
* `flock` is per inode and released by the death of its process.
* Files are replaced, not edited in place between a read and its stat.

`RevocationStore` is the contract a gate relies on, with no file in it: an Ok
promises, a serving instance only learns, a start knows all that is promised.
`DenylistRefinement` maps `Denylist` to it (`promised` is `acked`, an instance serves
while `up`, and refuses what it holds). `DenylistInvariant` holds the inductive
invariants and `DenylistProofs`, `DenylistStoreProofs` the proofs.

### Cap: what a capability says

Pure operators: a capability is a root key and a sequence of blocks, a block the
facts and the constants of the checks that this crate writes. The mints, `Attenuate`
and `Seal` build chains; `Grants`, `GrantsMember`, `GrantsUnder` are the three
`verify_*_without_revocation`; `IsMemberBadge`, `AuthorityBound`, `Expiry` read the
authority block; `ValidUntil` is `valid_until`. A signature is not modelled: chains
are only built by these operators, and a block's revocation id is the number of
the signing it came from. `Second` ticks make a second, so truncation is visible.
What biscuit-auth does is modelled as the code relies on it: every check of every
block must hold, and a policy sees only the facts of the authority block and of the
verifier.

### Delegation: capabilities in circulation

Issuers mint, anybody narrows or seals any capability there is. Each capability
carries, as history, the rights it was meant to have, computed from what its mint and
its narrowings named and never from its blocks. `Link::mint_bound` and
`Link::mint_authority_bound` seal at once; the model also keeps the unsealed ones
`Identity` returns, which anybody may narrow.

### Datalog: what the blocks are

Cap knows a block by the constants of its checks. Datalog writes the same blocks as
facts and queries (`Written`), evaluates them as biscuit does (scopes, joins, `check
if`, `check all`, `reject if`), and models what nauthy makes of *any* token:
`bound_evaluation_cost` (`BeyondTheGrammar`), `authorize_under_budget`, the reads of the
authority block, `clock_bound` and `time_at_most`, `expiry`, with a clock that ends, so
that some dates, or only the end of their second, cannot be held. `token` is built
block by block, by nauthy or from a set of blocks by hand (forged facts, odd checks,
rules, closures, other orders of comparison). A block by hand is any block that biscuit
itself would read (`WellFormed`). `DatalogMeansCap` ties the two models
together. `Grants` runs Delegation and Datalog; they share no state, so a
behaviour is of one alone.

### Links: a link on its way

What happens to a text between two holders, and what `Cap::parse` does with it: the
text is split, its grammar checked block by block (`refuse_unminted_grammar`), and only
then is the chain verified. What a block says is left out; kept is what parse tells
apart (external signature, P-256 next key, unreadable, names a trusted key) and its
revocation id, which for a P-256 signature is not unique. Other tools copy,
respell, reroot and damage texts, append blocks, seal and mint their own. `Crypto` is the set
of verifications a parse may run: one for each block, by the key the block before names,
and one for a seal, by the key the last block names. An open token ends in a secret
instead, which biscuit compares with that key.

### VerifyKey and Documents

VerifyKey is `check_ed25519_identity` and the text of a key, over the group itself at a
small order: a prime-order subgroup, eight points of small order, every sum of the two,
and non-canonical encodings. Documents signs, encodes and reads wires put together from
any header and payload there is, beside the blocks the same key signs for its tokens;
callers' payloads may be a block's very bytes. `Wires` runs Links, Documents and
VerifyKey, each alone.

### Gate: a ruling, read by read

A step of a ruling is one read of what it shares with the world: the store, the pin,
the record, or the clock an evaluation runs at. Between any two, time passes, a token,
a root or a peer is revoked, the pin is written and removed, a slip is recorded. An
evaluation may always end undecided. Rulings share nothing else and write nothing, so
one, started at any moment, is every one; and what no read of it looks up may be left
out (`LookedUpIds`, `LookedUpKeys`). `ask.path` chooses `admit_witnessed`,
`admit_foreign_witnessed` or `proven`; `trust` is the `Authority` that
`Anchor::authority_of` returned; `first` is the membership answer `or_else` keeps;
`past` is history.

The order of reads is the code's: the peer's own key, the pin, the token, the
evaluations, the token again, the record, and for a plain admission the kind, by a
second membership evaluation at a later clock. The peer's key is read once, first, so
a peer revoked *during* a ruling may be admitted by it; the property is stated
accordingly. Where the second membership evaluation does not say yes, a member is
witnessed as a slip.

### Admission: gates over a denylist, in time

Rulings of a gate ask a `Denylist` instance of the peer, the token, and after the
evaluation of the token again, while threads of two processes revoke. The debounce,
one bit in Denylist, runs by a clock here: `lastStat` is taken before the stat, and a
question within `STAT_DEBOUNCE` of it is answered from the held set. `STAT_DEBOUNCE` is at
least a tick: at none, a question could not be debounced at all. A ruling is of a
plain token; the other paths ask the same questions in the same order.

### Exclusion: when the lock does not exclude

Denylist with a process whose guard may be of the caller's own making (`trait
Exclusive`, whose provided `guards` answers true), and with the lock file replaced in
use. History says whether two writers met between their read and their rename
(`met`), whether a caller's guard was trusted, whether a lock file was swapped under a
revoke, and what each instance has answered Ok for since it started.

## Runs

| run | instance | shows | states, time |
|---|---|---|---|
| `denylist_writers` | 2 processes, 3 threads (two share an instance), 2 entries, 1 crash | types, no Ok lost, durability, the witness, every start, the refinement of `RevocationStore` | 1.0M, 85 s |
| `denylist_edits` | 1 process, 2 threads, 3 versions of the file, any 2 of crash, failed call, power cut, removal, edit, lock replaced, witness removed | stamps, the held set, bad lines, the size cap | 2.7M, 100 s |
| `denylist_live` | 2 processes, 3 threads, 1 failed call, 1 entry | a revoke ends; an Ok reaches every instance | 105 s |
| `exclusion` | 2 processes, one of which may bring its own lock, 1 lock file replaced, 3 revokes | what is lost without exclusion, and what never is | 2M, 80 s |
| `admission` | 2 rulings, 2 processes writing, debounce of 2 of 4 instants, 1 revoke | an Ok is live within one interval; every ruling ends | 1.2M, 110 s |
| `gate` | 11 tokens, one of each shape that matters, 25 pairs, 5 keys, 3 pins, 2 recalls, 1 tick | every path on every gate | 2.5M, 50 s |
| `grants` | 1 issuer, 2 keys, 2 services, 3 blocks; tokens of 3 blocks by nauthy or 2 by anyone, of 150 shapes | exact rights, `valid_until` to the tick, datalog and scopes | 0.16M, 70 s |
| `wires` | links of 3 signings over a limit of 2 blocks, 2 touches by other tools, 1 recall; 4 keys of 40 points; 3 signatures | parse, recall, documents, keys | 0.38M, 105 s |
| `denylist_repeat` | 2 threads of one instance, 3 faults | finding 1 | seconds |
| `denylist_load_race` | 2 processes, no fault | finding 2 | seconds |
| `denylist_repair` | 1 file removed | finding 3 | seconds |
| `grants_either` | one mint by hand, one check of two queries | finding 4 | seconds |

Times are of two workers.

Why the bounds are enough to see the interesting cases: two writers in two processes
and two in one are all the ways writers can exclude one another; two entries make
"what the other wrote" and "what I write" differ; a file cap of two lines is
reached by two entries and a bad line; two faults make one hit the recovery from
the other (a failed call in a second process is in
`denylist_live` only, and in the proofs); three versions of the file are one before a write, the write
and one after it; three faults are what the repeat finding needs (two failed calls and a power
cut). Three blocks give a mint and two narrowings, in line or as siblings, and one more
than a limit of two; two ticks a second put an expiry inside a second, and a clock of
five instants ends inside one. In the gate, one tick expires every short token, and
two recalls hit a ruling between different reads. In `admission` a debounce of two
ticks lets a question fall inside it, at its end and after it. In `wires` two touches by
other tools seal a chain whose last block names a P-256 key; a text
re-encoded never parses, for the P-256 key before its last block; that one would parse
without that check is seen in the mutant of `RecallReachesEveryCopy`, within two touches
(the theorem is of any number). Order 5 is the least with
two pairs of twins, and every class of point is there. `MaxFiles`, `MaxFaults`,
`MaxCalls`, `MaxIds`, `MaxSigned`, `MaxOthers`, `MaxRevoked`, `MaxDepth`, `MaxByHand`,
`MaxSignatures`, `MaxRecalls` and `MaxTime` are the bounds; each is in a guard.

Entries are symmetric in the safety runs of Denylist and Exclusion, the two threads of
one instance are in `denylist_writers` and `denylist_edits`, and services are in
`grants`; the runs with a liveness property declare none. Deadlock is checked in the
Denylist runs and `exclusion`. It is not in `gate`, which ends with the ruling, in
`admission`, where writers may hang and the clock ends, and in `grants` and `wires`,
which end when every block or signature has been made.

Every property is broken by an operator that stands for a plausible bug (listed
under "mutants"; such operators sit before the definition they are a wrong version
of, and nothing uses them).

### Fairness

`FairSpec` assumes of a thread inside `revoke` that it is scheduled, and of an instance
that it keeps being asked, since every admission asks it. It assumes nothing of callers: nobody has to
revoke, lock, unlock, load or restart.

`FairAdmissionSpec` assumes that a ruling's own thread is scheduled, and nothing of
writers: `RulingEnds` holds with a writer stopped at any of its system calls, in the
gate's own instance too, because `revoke` holds the state mutex across none of them.

### Findings

1. **A repeat's Ok may not survive a power cut** (`denylist_repeat`,
   `revocations.rs:438`). A revoke that finds its entries on disk raises the witness and
   returns; if an earlier call renamed the body and failed before the directory
   was fsynced, and a second one did the same with the witness, nothing in the third
   makes either durable. The doc of `revoke` says an Ok survives. `written` is the
   part of the promise that does hold, and is proved.
2. **A sound store can be refused as lost** (`denylist_load_race`, `revocations.rs:330`).
   `load` reads the file, then the witness, under no lock.
3. **A loss can be hidden by later writes** (`denylist_repair`, `revocations.rs:1118`). The
   witness is a count.
4. **Another fact's date passes for the clock's** (`grants_either`, `cap.rs:1422`).
   `time_at_most` does not look at the name of the predicate it reads, and `clock_bound`
   asks it of every query of a check as soon as one of them is of the clock. So
   `check if time($t), $t <= D1 or expires_at($d), $d <= D2` has a cutoff, the later of
   the two dates, where the doc says that such a check is unreadable. No mint or
   narrowing writes one. It came up in the proof of `CutoffTrue`, which needed the
   case the runs had no block for.

`CutoffTrue` leaves such tokens out (`OtherDateIn`), and those whose own blocks assert a
`time` fact (`OwnTimeIn`): such a block passes its own `time($t), $t <= <date>` at any later
instant, while `valid_until` still names the date. No mint and no narrowing writes one.

`MadeLinksParse` is of links of at most `MAX_BLOCKS` blocks. `attenuate` counts no blocks
(`cap.rs:809`), so a link narrowed more often than that is refused as too large wherever
it is presented, its maker's process included.

`ParseWorkBounded` allows a sealed text one verification more than `MAX_BLOCKS`, because a
sealed link of that many blocks, which nauthy makes and parses
(`every_minted_shape_parses`), takes it: the seal is verified too. The doc of `MAX_BLOCKS`
(`cap.rs:71-74`) says it "caps the pre-trust chain verify at this many signatures", which is
one too few. That all of them are ed25519 rests on `refuse_unminted_grammar` looking at the
next key of the last block too, which no block uses and a seal does (`FirstRefusedFollowed`
is the check without it).

## Proofs

Every safety property of the passing runs is a theorem: all invariants and all action
properties, and the refinement of `RevocationStore`. A theorem is of every set of
processes, instances, threads, entries, keys, services and tokens, every prime order of
the group, every assignment of instances to processes, and every bound. It assumes what the
module declares of its constants, and the hypotheses named here.

| module | theorem | property | hypotheses |
|---|---|---|---|
| `DenylistProofs` | `TypeCorrect` | `TypeOK` | |
| | `HeldStays` | `HeldNeverShrinks` | |
| | `StampsTrue` | `CurrentMeansHeld` | |
| | `WrittenSurvives` | `WrittenSurvivesPowerCut` | `NoEdits` |
| | `WitnessTrue` | `WitnessNeverAhead` | `NoEdits` |
| | `AckedStays` | `AckedInFile` | `NoEdits`, `NoPowerCut` |
| `DenylistStoreProofs` | `WritesFit` | `NoOversizeWrite` | |
| | `LinesKept` | `NoLineDropped` | |
| | `StartHolds` | `StartHoldsEveryAck` | `NoEdits`, `NoPowerCut` |
| | `StoreKeepsItsPromise` | `ImplementsStore` | `NoEdits`, `NoPowerCut` |
| `AdmissionProofs` | `RevokedWithinOneInterval` | `LiveWithinOneInterval` | `NoEdits`, `NoPowerCut` |
| `ExclusionProofs` | `WritersMeetAcrossSwap` | `MeetOnlyAcrossSwap` | |
| | `LoserRefuses` | `LoserStillRefuses` | |
| | `WriteRestores` | `NextWriteRestores` | |
| | `LostWhereWritersMet` | `LostOnlyWhereWritersMet` | `FileKept` |
| `GateProofs` | `TypeCorrect` | `TypeOK` | |
| | `NeverRecalled` | `RecalledNeverAdmitted` | |
| | `WasGranted` | `AdmittedWasGranted` | |
| | `OwnersMember` | `MemberIsTheOwners` | |
| | `OwnKeyIssued` | `OwnKeyAdmitsWhatItIssued` | |
| | `ForeignBoth` | `ForeignNeedsBoth` | |
| | `UndecidedSaid` | `UndecidedIsNoAnswer` | |
| | `TwinsRefused` | `TwinRefused` | |
| `GrantsProofs` | `TypeCorrect` | `TypeOK` | |
| | `RightsKept` | `RightsExact` | |
| | `ValidUntilHolds` | `ValidUntilExact` | |
| | `NothingBroadens` | `NoBlockBroadens` | |
| | `CutoffHolds` | `CutoffTrue` | |
| | `MeansCap` | `DatalogMeansCap` | |
| `WiresProofs` | `MadeParse` | `MadeLinksParse` | |
| | `WorkBounded` | `ParseWorkBounded` | |
| | `LinkItsRoots` | `LinkIsItsRoots` | |
| | `RecallReaches` | `RecallReachesEveryCopy` | |
| | `VerifiedSigned` | `VerifiedWasSigned` | |
| | `DocumentNoBlock` | `NoDocumentIsABlock` | |
| | `KeysHeld` | `KeysAreHeld` | |
| | `HolderTwoKeys` | `OneHolderTwoKeys` | |

`NoEdits` says that nobody but nauthy changes the directory, `NoPowerCut` that the power
stays on, `FileKept` that the denylist is not removed, edited or set back; all else that can
happen still may. Without them these properties are false: `denylist_repair` is a start
without an entry after a removal, and `denylist_repeat` an Ok that a power cut takes back.

The constants are assumed to be what the code's are. `CapAssumption` has a second of at
least one tick. `GateAssumption` has a gate shown tokens that this crate could have written
(`WrittenCaps`: a foreign check comes with exactly one foreign authority); what other
tokens may be is the matter of Datalog. `DatalogAssumption` has limits that hold the
crate's own blocks (five facts, two predicates) and blocks by hand that biscuit can
read: finitely many facts, checks of the three kinds, orderings only against dates.
`DocumentsAssumption` has no authority block begin with the tag, `VerifyKeyAssumption` a
prime order above two.

*Durability and agreement* (`FaultInv`). None of these properties is inductive: a write keeps
an entry only because what it read is still what the file holds. `LockInv` says one thread
in all is between reading the file and the end of its revoke: the flock keeps processes
apart, the slot keeps threads apart. `WriterInv` says, per program counter, how that thread's
locals relate to the file. `DiskInv` bounds every directory a power cut could leave between
what was durably written and what is visible, with a witness that is true of it. Power cuts
keep all three, because they leave one of those directories and no thread.

*Stamps* (`CurrentInv`). A skip of a refresh is sound when an instance with the file's stamp
holds the file's entries. That must survive a file replaced between the stat and the read,
a write overtaken by another, and an adopted stamp, with no lock to rely on. `VersionInv` says
no stamp is of a version still to come, so a new version is nobody's; `StampInv` says of each
stamp, in an instance or in the locals of a revoke, that *if* it is the file's then what
goes with it is the file's.

*Bodies* (`BodyInv`). What a thread is about to rename fits, and covers the file if that is
still the one it read; a file with no stamp is no file. No lock is used, so it holds
with every lock file replaced.

*Starts and the contract* (`LoadInv`). A load between its two reads either has every entry
answered Ok or will find the witness above its count, because a revoke raises the witness
before it answers, and a mark above the count of a smaller set stays above it. With it
every step of Denylist is, under the mapping, a promise, a lesson, a start, a stop or a stutter of
RevocationStore: a step of a thread promises only what is in the file, and what an
instance serves with it only adds to.

*The bound in time* (`AdmissionInv`). `KnownInv`: between two refreshes, the gate's instance holds
whatever was answered Ok for before its last stat. A refresh makes it so, by
`AckedInFile` where it reads (the file always fits, `FileFits`) and by `CurrentInv` where it
skips; revokes elsewhere leave it so, as their Ok is no earlier than that stat. `ClockInv` says
a debounced question is within `STAT_DEBOUNCE` of it. So an entry that a question does
not find was answered Ok for within the interval, or never; and a later Ok is later than
every instant that a ruling wrote down.

*Without exclusion* (`SwapInv`, `MergedInv`, `MineInv`). Where no guard of a caller was trusted and
no lock file swapped under a revoke, all running revokes hold the one lock; where no two
writers met, each renames over the file it read. What an instance answered Ok for it holds,
and so writes, whoever met.

*Rulings* (`GateInv`). One conjunct for each thing a ruling establishes by the time of a read:
the path, the authority it trusts and the pins seen, the answers of the store and when they were
had, what the evaluations granted. What was true at the last evaluation is carried to the
admission in `past`, which only grows. That an evaluation at a later clock says what one at the start
would have is `GrantedEarlier` of `CapProofs`: no answer of a token turns from no to yes
with time.

*Capabilities* (`GrantsInv`). A capability in circulation is a mint and narrowings, each block
with an id of its own; its rights, computed from what was named, are what its blocks grant, by induction over
the steps that built it, as `OneMoreBlock` adds one conjunction of checks.

*Tokens* (`TokenInv`). Every block of a token is well formed, and a minted token is the datalog of
its capability. A query that passes in a token passes in a shorter one, because a block
sees the same facts of the authority and the verifier (`NothingBroadens`), and the budget, a
count of finite sets of facts, only grows with a block. For `CutoffHolds`, each check that reads
the clock passes exactly up to the last instant of the latest of its dates, each other check
says the same at every instant, and the cutoff is the least of the former. For `MeansCap`,
each of the four forms of check nauthy writes joins one supplied fact, whatever the other
blocks say.

*Links* (`LinksInv`). A link is a whole chain of plain blocks from the root it names, its text
spelled as nauthy writes or reads it, and a block whose id is not its own comes after a P-256
key, which the grammar refuses before any id is looked up. For `WorkBounded`, the position of
each verification is a block's or the one after the last, so the key that checks it is the
root's or was named by a block that the grammar found plain.

*Documents* (`DocumentsInv`). There is no signature but on a document's message or a block's
bytes, and no message is a block's bytes, by the tag; a wire has one reading.

*Keys.* Nothing moves here: the properties are of arithmetic modulo eight times a prime. `KeyIs` says
which texts are keys, and the points that share a secret's multiple are a point
and its negation because the order is prime and odd.

What proving changed in the models: `Gate`'s tuple of variables lacked one, so that a
stuttering step was freer than meant; `mine` in Exclusion outlived its instance; the assumption
of Gate on its tokens was missing and is `WrittenCaps`; `CutoffTrue` was false of a
check with another fact's date, which is finding 4.

Only model-checked: the liveness properties `RevokeFinishes`, `AckedSpreads` and `RulingEnds`,
whose proofs need ENABLED. Admission and Exclusion extend Denylist and change none
of its actions; their theorems are of their own specifications, and reuse the lemmas of
`DenylistProofs` because each of their steps is one of Denylist's or leaves it alone.

## Not modelled

* `Service`: a length and a class of characters, compared once in a constructor. No
  state and nothing that interleaves; services are values elsewhere.
* Signatures are symbolic and the curve is its group: that ed25519 is unforgeable and the
  encodings unique is assumed of the libraries, as the code assumes it.
* `AUTHORIZER_LIMITS`: how long an evaluation takes. Its outcome is in Gate, where any
  evaluation may end undecided.
* Sizes in bytes. A link nauthy made of at most `MAX_BLOCKS` blocks is well below
  `MAX_ENCODED_LEN`, and a text over it is one of the ways a text is refused.
* Datalog the crate can meet and neither writes nor reads a clock by: values other than
  those of its own facts, and expressions other than a comparison with a literal or a
  closure. A comparison of a variable no predicate binds is taken to hold.
* A failed stat or read in a refresh. It keeps the held set and the stamp, so the next
  question past the debounce tries again; while a file cannot be read, no instance
  learns of what others wrote to it, and `LiveWithinOneInterval` is of reads that succeed.
* A wall clock set back. `now` only moves forward in Gate and Admission. The debounce
  reads an `Instant`, which does too; the evaluations read `SystemTime`, and the rulings'
  theorems (that what was granted later was granted at the start) are of a clock that
  nobody sets back during a ruling.
* A `trusting previous` scope in a block by hand. It shows a block the facts of those
  before it; no policy, no read and no earlier block sees more, so it broadens nothing, and
  a `time` fact it could reach is already one that `CutoffTrue` leaves out.
* Platforms with no flock, files that are not regular, and an empty `revoke`, which is
  a repeat of nothing.
* `is_member_badge` failing for another reason than time: it needs a token this crate
  did not write.

## Plan

1. The foreign path in `Admission`, whose four questions may each be debounced by another
   ruling's stat, and its bound as a theorem beside the plain one.
2. That the gate's questions of `Gate` and of `Admission` are the same: a mapping of the one
   store's answers to the other's.
3. `RevocationStore` under `NoEdits` alone: what of the contract a power cut leaves, with
   `written` for `acked`.
