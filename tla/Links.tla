-------------------------------- MODULE Links --------------------------------
(***************************************************************************)
(* Links on their way: src/link.rs over Cap::parse of src/cap.rs.          *)
(*                                                                         *)
(* Holders make links with nauthy, copy their text about, receive texts and*)
(* revoke links; other tools handle the texts too, and may append blocks   *)
(* nauthy never writes.  What blocks say is Cap's matter: here a block is  *)
(* its frame.  Signatures are symbolic: a block remembers the signing it   *)
(* came from, and `id` is the revocation id, a function of its signature.  *)
(***************************************************************************)
EXTENDS Naturals, FiniteSets, SequencesExt

CONSTANTS
  Roots,        \* verify keys a link may name as its root
  Issuers,      \* those somebody mints with
  Spellings,    \* the ways other tools spell a text: sets of Flaws
  MaxBlocks,    \* MAX_BLOCKS
  MaxSigned,    \* bound: how many signatures are ever made
  MaxOthers,    \* bound: how often another tool touches a text
  MaxRevoked    \* bound: how many links are revoked

\* `case` is a spelling nauthy does not write but reads; the rest break a link.
Flaws == {"case", "separator", "long", "key", "base32", "frame"}

ASSUME LinksAssumption ==
  /\ Issuers \subseteq Roots
  /\ Spellings \subseteq SUBSET Flaws
  /\ MaxBlocks \in Nat \ {0}
  /\ {MaxSigned, MaxOthers, MaxRevoked} \subseteq Nat

VARIABLES
  links,        \* the typed Links there are: a cap and its text
  copies,       \* the texts another tool made of a link's text
  signed,       \* how many signatures have been made: the next one's id
  recalled,     \* the revocation ids in the issuers' denylists
  revoked,      \* history: the signings those were meant for
  others        \* how often another tool touched a text

linkVars == <<links, copies, signed, recalled, revoked, others>>
-----------------------------------------------------------------------------
(* Frames.  A plain block is any that nauthy writes.  The others name a     *)
(* P-256 next key, carry an external signature, hold datalog that does not  *)
(* decode, or name a key to trust.                                          *)
Kinds == {"plain", "external", "p256", "unreadable", "trusting"}
Block(kind, id) == [kind |-> kind, id |-> id, signing |-> id]

\* The key the previous block names signs a block, and the last block's the seal,
\* here as if it were a block more; the root's is ed25519.
Algorithm(blocks, n) ==
  IF n > 1 /\ blocks[n - 1].kind = "p256" THEN "p256" ELSE "ed25519"

Ids(chain) == {chain.blocks[n].id : n \in DOMAIN chain.blocks}
Signings(chain) == {chain.blocks[n].signing : n \in DOMAIN chain.blocks}

\* Biscuit::from: the chain is whole, and it starts at the root the link names.
Chains(text) == text.chain.sound /\ text.root = text.chain.signer
-----------------------------------------------------------------------------
(* Cap::parse: the checks in the order they run, "Ok" for one that passes.  *)

SplitLink(text) ==
  IF "separator" \in text.flaws THEN "Malformed"
  ELSE IF "long" \in text.flaws THEN "TooLarge"
  ELSE IF "key" \in text.flaws THEN "Malformed"
  ELSE IF "base32" \in text.flaws THEN "Encoding"
  ELSE "Ok"

BlockGrammarAnyKey(b) ==
  CASE b.kind \in {"plain", "p256"} -> "Ok"
    [] b.kind = "external"     -> "ExternalSignature"
    [] b.kind = "unreadable"   -> "Unverified"
    [] b.kind = "trusting"     -> "TrustedKey"
BlockGrammar(b) ==
  CASE b.kind = "plain"        -> "Ok"
    [] b.kind = "external"     -> "ExternalSignature"
    [] b.kind = "p256"         -> "NotEd25519"
    [] b.kind = "unreadable"   -> "Unverified"
    [] b.kind = "trusting"     -> "TrustedKey"

\* The first of these blocks that is refused speaks for all.
FirstRefusedFollowed(blocks) ==
  LET refused == {n \in DOMAIN blocks :
                    IF n = Len(blocks) THEN BlockGrammarAnyKey(blocks[n]) # "Ok"
                    ELSE BlockGrammar(blocks[n]) # "Ok"} IN
  IF refused = {} THEN "Ok" ELSE BlockGrammar(blocks[Min(refused)])
FirstRefused(blocks) ==
  LET refused == {n \in DOMAIN blocks : BlockGrammar(blocks[n]) # "Ok"} IN
  IF refused = {} THEN "Ok" ELSE BlockGrammar(blocks[Min(refused)])

\* refuse_unminted_grammar: the count, then each block, the authority first.
CountAtMost(blocks) == Len(blocks) + 1 > MaxBlocks
TooMany(blocks) == Len(blocks) > MaxBlocks
GrammarAppended(text) ==
  IF "frame" \in text.flaws THEN "Unverified"
  ELSE IF TooMany(text.chain.blocks) THEN "TooLarge"
  ELSE FirstRefused(Tail(text.chain.blocks))
Grammar(text) ==
  IF "frame" \in text.flaws THEN "Unverified"
  ELSE IF TooMany(text.chain.blocks) THEN "TooLarge"
  ELSE FirstRefused(text.chain.blocks)

Refused(text) == IF SplitLink(text) # "Ok" THEN SplitLink(text) ELSE Grammar(text)

\* The answer: an error, or Ok with the cap the text encodes.
ParseUnverified(text) == Refused(text)
Parse(text) ==
  IF Refused(text) # "Ok" THEN Refused(text)
  ELSE IF Chains(text) THEN "Ok" ELSE "Unverified"

\* How many signatures a chain has: one for each block, and a seal's.  (An open one
\* ends in a secret instead, which is compared with the last key named.)
Chained(chain) == Len(chain.blocks) + (IF chain.sealed THEN 1 ELSE 0)

\* The verifications a parse may run on its way to that answer, each the position of
\* a block or a seal and what checks it; a chain that breaks ends them early.
Crypto(text) ==
  LET blocks == text.chain.blocks IN
  IF Refused(text) # "Ok" THEN {}
  ELSE {<<n, Algorithm(blocks, n)>> : n \in 1 .. Chained(text.chain)} \cup
       {<<n, blocks[n].kind>> :
          n \in {m \in DOMAIN blocks : blocks[m].kind \in {"external", "trusting"}}}
-----------------------------------------------------------------------------
(* Holders.                                                                *)

\* Cap::link_text and Link::of: one text for each cap.
TextOf(root, chain) == [root |-> root, flaws |-> {}, chain |-> chain]
Of(root, chain) == [root |-> root, chain |-> chain, text |-> TextOf(root, chain)]

Chain(signer, blocks, sealed) ==
  [signer |-> signer, blocks |-> blocks, sealed |-> sealed, sound |-> TRUE]
Appended(chain, b) == [chain EXCEPT !.blocks = Append(@, b)]

Make(link) ==
  /\ links' = links \cup {link}
  /\ UNCHANGED <<copies, recalled, revoked, others>>
Sign == signed < MaxSigned /\ signed' = signed + 1

\* Link::mint leaves the link open; mint_bound and mint_authority_bound seal it.
Mint(issuer) ==
  /\ Sign
  /\ \E sealed \in BOOLEAN :
       Make(Of(issuer, Chain(issuer, <<Block("plain", signed)>>, sealed)))

\* Link::narrow: one block more, however many there are; a sealed cap takes none.
Narrow(l) ==
  /\ ~l.chain.sealed
  /\ Sign
  /\ Make(Of(l.root, Appended(l.chain, Block("plain", signed))))

\* Link::seal: of a sealed cap it is an error.
SealLink(l) ==
  /\ ~l.chain.sealed
  /\ Make(Of(l.root, [l.chain EXCEPT !.sealed = TRUE]))
  /\ UNCHANGED signed

\* Link::from_str keeps the text as it was read.
Receive(text) ==
  /\ Parse(text) = "Ok"
  /\ Make([root |-> text.root, chain |-> text.chain, text |-> text])
  /\ UNCHANGED signed

\* Link::revoke names the narrowest id.
RootOf(chain) == Head(chain.blocks)
NarrowestOf(chain) == Last(chain.blocks)
Revoke(l) ==
  /\ Cardinality(revoked) < MaxRevoked
  /\ recalled' = recalled \cup {NarrowestOf(l.chain).id}
  /\ revoked' = revoked \cup {Last(l.chain.blocks).signing}
  /\ UNCHANGED <<links, copies, signed, others>>
-----------------------------------------------------------------------------
(* Other tools, that write any text and any block.                         *)

Copy(text) ==
  /\ others < MaxOthers
  /\ others' = others + 1
  /\ copies' = copies \cup {text}
  /\ UNCHANGED <<links, recalled, revoked>>

Respell(text, flaws) == Copy([text EXCEPT !.flaws = flaws]) /\ UNCHANGED signed
Reroot(text, root) == Copy([text EXCEPT !.root = root]) /\ UNCHANGED signed

\* A byte flipped, a block cut off.
Damage(text) == Copy([text EXCEPT !.chain.sound = FALSE]) /\ UNCHANGED signed

\* The narrower token of any biscuit library, or a root's own by hand.
AppendOther(text, kind) ==
  /\ ~text.chain.sealed
  /\ Sign
  /\ Copy([text EXCEPT !.chain = Appended(@, Block(kind, signed))])
SealOther(text) ==
  /\ ~text.chain.sealed
  /\ Copy([text EXCEPT !.chain.sealed = TRUE])
  /\ UNCHANGED signed
MintOther(issuer, kind) ==
  /\ Sign
  /\ Copy(TextOf(issuer, Chain(issuer, <<Block(kind, signed)>>, FALSE)))

\* A P-256 signature has a second encoding, and with it another id.  Nothing after
\* the last block of an open token covers it.
Reencode(text) ==
  LET n == Len(text.chain.blocks) IN
  /\ ~text.chain.sealed
  /\ Algorithm(text.chain.blocks, n) = "p256"
  /\ Sign
  /\ Copy([text EXCEPT !.chain.blocks[n].id = signed])

Texts == copies \cup {l.text : l \in links}
LinksInit ==
  /\ links = {} /\ copies = {} /\ signed = 0
  /\ recalled = {} /\ revoked = {} /\ others = 0

LinksNext ==
  \/ \E issuer \in Issuers :
       Mint(issuer) \/ \E kind \in Kinds : MintOther(issuer, kind)
  \/ \E l \in links : Narrow(l) \/ SealLink(l) \/ Revoke(l)
  \/ \E text \in Texts :
       \/ Receive(text) \/ Damage(text) \/ SealOther(text) \/ Reencode(text)
       \/ \E flaws \in Spellings : Respell(text, flaws)
       \/ \E root \in Roots : Reroot(text, root)
       \/ \E kind \in Kinds : AppendOther(text, kind)
-----------------------------------------------------------------------------
(* Properties.                                                             *)

\* What nauthy makes, nauthy reads: every link of at most MAX_BLOCKS blocks, however
\* it was minted, narrowed, sealed and passed on, parses where it is presented, and
\* to the very cap its holder has beside it.
MadeLinksParse ==
  \A l \in links : Len(l.chain.blocks) <= MaxBlocks =>
    /\ Parse(l.text) = "Ok"
    /\ l.text.root = l.root /\ l.text.chain = l.chain

\* Whatever keys the blocks of a stranger's text name, for the next block or for the
\* seal, parsing it runs ed25519 alone, once for each of at most MAX_BLOCKS blocks and
\* once more only for a seal: a sealed chain of MAX_BLOCKS blocks takes one more than
\* the limit.  (refuse_unminted_grammar, before Biscuit::from.)
ParseWorkBounded ==
  \A text \in Texts :
    LET most == IF text.chain.sealed THEN MaxBlocks + 1 ELSE MaxBlocks IN
    Crypto(text) \subseteq (1 .. most) \X {"ed25519"}

\* Whoever holds a link holds what the root it names signed: no spelling, no root
\* put in place of another and no damage makes one.
LinkIsItsRoots == \A l \in links : l.root = l.chain.signer /\ l.chain.sound

\* Revoking a link recalls every text of it and of what was narrowed from it that
\* still parses, however it was copied, sealed, respelled or re-encoded, and no
\* other.  (A block's id must be the only one it can have.)
RecallReachesEveryCopy ==
  \A text \in Texts : Parse(text) = "Ok" =>
    (Ids(text.chain) \cap recalled # {} <=> Signings(text.chain) \cap revoked # {})
=============================================================================
