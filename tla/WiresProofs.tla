----------------------------- MODULE WiresProofs -----------------------------
(* What holds of links, documents and keys for every number of roots, blocks, *)
(* signatures and texts, and every curve.                                     *)
EXTENDS Wires, SequenceTheorems, WellFoundedInduction, TLAPS

(* Links.                                                                    *)

Frames == [kind : Kinds, id : Nat, signing : Nat]
FrameChains ==
  [signer : Roots, blocks : Seq(Frames) \ {<<>>}, sealed : BOOLEAN, sound : BOOLEAN]
LinkTexts == [root : Roots, flaws : SUBSET Flaws, chain : FrameChains]

\* Only a signature that a P-256 key made has another encoding.
OneIdEach(chain) ==
  \A n \in DOMAIN chain.blocks :
    chain.blocks[n].id # chain.blocks[n].signing =>
      n > 1 /\ chain.blocks[n - 1].kind = "p256"
TextOk(t) == t \in LinkTexts /\ OneIdEach(t.chain)

\* A link is a whole chain of plain blocks from the root it names, and so is its
\* text, which is spelled as nauthy writes or reads it.
AllPlain(chain) == \A n \in DOMAIN chain.blocks : chain.blocks[n].kind = "plain"
LinkOk(l) ==
  /\ TextOk(l.text)
  /\ l.text.root = l.root /\ l.text.chain = l.chain
  /\ l.root = l.chain.signer /\ l.chain.sound
  /\ AllPlain(l.chain)
  /\ l.text.flaws \subseteq {"case"}

LinksInv ==
  /\ signed \in Nat
  /\ \A l \in links : LinkOk(l)
  /\ \A t \in copies : TextOk(t)
  /\ recalled = revoked
-----------------------------------------------------------------------------
LEMMA LeastOf ==
  ASSUME NEW S \in SUBSET Nat, S # {}
  PROVE  Min(S) \in S
<1> DEFINE R == {ss \in Nat \X Nat : ss[1] < ss[2]}
<1>1. PICK x \in S : \A y \in S : <<y, x>> \notin R
  <2>1. IsWellFoundedOn(R, Nat)
    BY NatLessThanWellFounded DEF OpToRel
  <2> HIDE DEF R
  <2> QED
    BY <2>1, WFMin
<1>2. ASSUME NEW y \in S PROVE x <= y
  <2>1. x \in Nat /\ y \in Nat /\ <<y, x>> \notin R
    BY <1>1
  <2>2. <<y, x>> \in Nat \X Nat /\ <<y, x>>[1] = y /\ <<y, x>>[2] = x
    BY <2>1
  <2>3. ~(y < x)
    BY <2>1, <2>2
  <2> QED
    BY <2>1, <2>3
<1> QED
  BY <1>2 DEF Min

\* A grammar that accepts a chain finds it short and each of its blocks plain.
LEMMA AcceptedIsPlain ==
  ASSUME NEW frames \in Seq(Frames)
  PROVE  FirstRefused(frames) = "Ok" <=>
           \A n \in DOMAIN frames : frames[n].kind = "plain"
<1> DEFINE refused == {n \in DOMAIN frames : BlockGrammar(frames[n]) # "Ok"}
<1>1. \A n \in DOMAIN frames : frames[n].kind \in Kinds
  <2>1. \A n \in DOMAIN frames : frames[n] \in Frames
    OBVIOUS
  <2> QED
    BY <2>1 DEF Frames
<1>2. ASSUME NEW n \in DOMAIN frames
      PROVE  BlockGrammar(frames[n]) = "Ok" <=> frames[n].kind = "plain"
  <2>1. CASE frames[n].kind = "plain"
    BY <2>1 DEF BlockGrammar
  <2>2. CASE frames[n].kind = "external"
    BY <2>2 DEF BlockGrammar
  <2>3. CASE frames[n].kind = "p256"
    BY <2>3 DEF BlockGrammar
  <2>4. CASE frames[n].kind = "unreadable"
    BY <2>4 DEF BlockGrammar
  <2>5. CASE frames[n].kind = "trusting"
    BY <2>5 DEF BlockGrammar
  <2> QED
    BY <1>1, <2>1, <2>2, <2>3, <2>4, <2>5 DEF Kinds
<1>3. refused # {} => Min(refused) \in refused
  <2>1. refused \in SUBSET Nat
    OBVIOUS
  <2> HIDE DEF refused
  <2> QED
    BY <2>1, LeastOf
<1>4. FirstRefused(frames) = IF refused = {} THEN "Ok" ELSE BlockGrammar(frames[Min(refused)])
  BY DEF FirstRefused
<1> QED
  BY <1>2, <1>3, <1>4
\* The texts that parse are those of whole chains, at their root, of at most
\* MAX_BLOCKS plain blocks, however the letters' case is spelled.
LEMMA NotRefused ==
  ASSUME NEW t, TextOk(t)
  PROVE  Refused(t) = "Ok" <=>
           /\ t.flaws \subseteq {"case"} /\ AllPlain(t.chain)
           /\ Len(t.chain.blocks) <= MaxBlocks
<1>1. t.flaws \in SUBSET Flaws /\ t.chain.blocks \in Seq(Frames)
  BY DEF TextOk, LinkTexts, FrameChains
<1>2. FirstRefused(t.chain.blocks) = "Ok" <=> AllPlain(t.chain)
  BY <1>1, AcceptedIsPlain DEF AllPlain
<1>3. TooMany(t.chain.blocks) <=> ~(Len(t.chain.blocks) <= MaxBlocks)
  BY <1>1, LinksAssumption DEF TooMany
<1>4. Grammar(t) = "Ok" <=>
        "frame" \notin t.flaws /\ ~TooMany(t.chain.blocks) /\ FirstRefused(t.chain.blocks) = "Ok"
  BY DEF Grammar
<1>5. SplitLink(t) = "Ok" <=> t.flaws \cap {"separator", "long", "key", "base32"} = {}
  BY DEF SplitLink
<1>6. t.flaws \subseteq {"case"} <=>
        t.flaws \cap {"separator", "long", "key", "base32"} = {} /\ "frame" \notin t.flaws
  BY <1>1 DEF Flaws
<1> QED
  BY <1>2, <1>3, <1>4, <1>5, <1>6 DEF Refused

LEMMA ParseOk ==
  ASSUME NEW t PROVE Parse(t) = "Ok" <=> Refused(t) = "Ok" /\ Chains(t)
  BY DEF Parse

\* One block more.
LEMMA AppendedOk ==
  ASSUME NEW c \in FrameChains, OneIdEach(c),
         NEW b \in Frames, b.id = b.signing
  PROVE  LET d == Appended(c, b) IN
         /\ d \in FrameChains /\ OneIdEach(d)
         /\ d.signer = c.signer /\ d.sound = c.sound
         /\ AllPlain(c) /\ b.kind = "plain" => AllPlain(d)
<1> DEFINE d == Appended(c, b)
<1>0. d = [c EXCEPT !.blocks = Append(c.blocks, b)]
  BY DEF Appended
<1>1. /\ c.blocks \in Seq(Frames) /\ c.blocks # <<>>
      /\ d.blocks = Append(c.blocks, b) /\ d.signer = c.signer /\ d.sound = c.sound
  BY <1>0 DEF FrameChains
<1>2. /\ d.blocks \in Seq(Frames) /\ Len(d.blocks) = Len(c.blocks) + 1
      /\ \A n \in 1 .. Len(c.blocks) : d.blocks[n] = c.blocks[n]
      /\ d.blocks[Len(c.blocks) + 1] = b
  BY <1>1
<1>3. d \in FrameChains
  <2>1. d.blocks # <<>>
    BY <1>1, <1>2
  <2> QED
    BY <1>0, <1>1, <1>2, <2>1 DEF FrameChains
<1>4. ASSUME NEW n \in DOMAIN d.blocks
      PROVE  n \in DOMAIN c.blocks \/ (n = Len(c.blocks) + 1 /\ d.blocks[n] = b)
  BY <1>1, <1>2
<1>5. ASSUME NEW n \in DOMAIN d.blocks, d.blocks[n].id # d.blocks[n].signing
      PROVE  n > 1 /\ d.blocks[n - 1].kind = "p256"
  <2>1. n \in 1 .. Len(c.blocks) /\ d.blocks[n] = c.blocks[n]
    BY <1>1, <1>2, <1>4, <1>5
  <2>2. n > 1 /\ c.blocks[n - 1].kind = "p256"
    BY <1>1, <1>5, <2>1 DEF OneIdEach
  <2> QED
    BY <1>1, <1>2, <2>1, <2>2
<1>6. AllPlain(c) /\ b.kind = "plain" => AllPlain(d)
  BY <1>1, <1>2, <1>4 DEF AllPlain
<1> HIDE DEF d
<1>7. /\ d \in FrameChains /\ OneIdEach(d)
      /\ d.signer = c.signer /\ d.sound = c.sound
      /\ AllPlain(c) /\ b.kind = "plain" => AllPlain(d)
  BY <1>1, <1>3, <1>5, <1>6 DEF OneIdEach
<1> QED
  BY <1>7 DEF d

\* A chain of one block.
LEMMA FirstBlockOk ==
  ASSUME NEW signer \in Roots, NEW b \in Frames, b.id = b.signing, NEW sealed \in BOOLEAN
  PROVE  LET c == Chain(signer, <<b>>, sealed) IN
         /\ c \in FrameChains /\ OneIdEach(c) /\ c.signer = signer /\ c.sound
         /\ b.kind = "plain" => AllPlain(c)
  BY DEF Chain, FrameChains, OneIdEach, AllPlain

LEMMA BlockIs ==
  ASSUME NEW kind \in Kinds, signed \in Nat
  PROVE  /\ Block(kind, signed) \in Frames
         /\ Block(kind, signed).id = Block(kind, signed).signing
         /\ Block(kind, signed).kind = kind
  BY DEF Block, Frames

LEMMA OfOk ==
  ASSUME NEW root \in Roots, NEW c \in FrameChains, OneIdEach(c), c.signer = root,
         c.sound, AllPlain(c)
  PROVE  LinkOk(Of(root, c))
<1>1. Of(root, c) = [root |-> root, chain |-> c, text |-> TextOf(root, c)]
  BY DEF Of
<1>2. TextOf(root, c) = [root |-> root, flaws |-> {}, chain |-> c]
  BY DEF TextOf
<1>3. TextOf(root, c) \in LinkTexts
  BY <1>2 DEF LinkTexts
<1> QED
  BY <1>1, <1>2, <1>3 DEF LinkOk, TextOk
\* A re-encoded signature is a P-256 one's.
LEMMA ReencodedOk ==
  ASSUME NEW t, TextOk(t), signed \in Nat,
         Algorithm(t.chain.blocks, Len(t.chain.blocks)) = "p256"
  PROVE  TextOk([t EXCEPT !.chain.blocks[Len(t.chain.blocks)].id = signed])
<1> DEFINE c == t.chain
           last == Len(c.blocks)
           b == [c.blocks[last] EXCEPT !.id = signed]
           d == [c EXCEPT !.blocks = [c.blocks EXCEPT ![last] = b]]
           u == [t EXCEPT !.chain = d]
<1>1. u = [t EXCEPT !.chain.blocks[Len(t.chain.blocks)].id = signed]
  OBVIOUS
<1>2. /\ t \in LinkTexts /\ c \in FrameChains /\ OneIdEach(c)
      /\ c.blocks \in Seq(Frames) /\ c.blocks # <<>>
  BY DEF TextOk, LinkTexts, FrameChains
<1>3. last \in DOMAIN c.blocks /\ last > 1 /\ c.blocks[last - 1].kind = "p256"
  BY <1>2 DEF Algorithm
<1>4. b \in Frames
  <2>1. c.blocks[last] \in Frames
    BY <1>2, <1>3
  <2> QED
    BY <2>1 DEF Frames
<1>5. /\ [c.blocks EXCEPT ![last] = b] \in Seq(Frames)
      /\ Len([c.blocks EXCEPT ![last] = b]) = last
      /\ \A n \in 1 .. last - 1 : [c.blocks EXCEPT ![last] = b][n] = c.blocks[n]
  <2> HIDE DEF b, c
  <2> QED
    BY <1>2, <1>3, <1>4
<1>6. d \in FrameChains /\ d.blocks = [c.blocks EXCEPT ![last] = b]
  <2> HIDE DEF b
  <2>1. [c.blocks EXCEPT ![last] = b] # <<>>
    BY <1>3, <1>5
  <2> QED
    BY <1>2, <1>5, <2>1 DEF FrameChains
<1>7. OneIdEach(d)
  <2> HIDE DEF b, c, d, last
  <2>1. DOMAIN d.blocks = DOMAIN c.blocks /\ DOMAIN c.blocks = 1 .. last
    BY <1>2, <1>5, <1>6 DEF last
  <2> SUFFICES ASSUME NEW n \in DOMAIN d.blocks, d.blocks[n].id # d.blocks[n].signing
               PROVE  n > 1 /\ d.blocks[n - 1].kind = "p256"
    BY DEF OneIdEach
  <2>2. CASE n = last
    BY <1>3, <1>5, <1>6, <2>1, <2>2
  <2>3. CASE n # last
    <3>1. d.blocks[n] = c.blocks[n] /\ n \in 1 .. last - 1
      BY <1>5, <1>6, <2>1, <2>3
    <3>2. n > 1 /\ c.blocks[n - 1].kind = "p256"
      BY <1>2, <2>1, <3>1 DEF OneIdEach
    <3> QED
      BY <1>5, <1>6, <2>1, <3>1, <3>2
  <2> QED
    BY <2>2, <2>3
<1>8. u \in LinkTexts /\ u.chain = d
  <2> HIDE DEF d, c
  <2> QED
    BY <1>2, <1>6 DEF LinkTexts
<1> QED
  BY <1>1, <1>7, <1>8 DEF TextOk
-----------------------------------------------------------------------------
LEMMA PlainIds ==
  ASSUME NEW c \in FrameChains, OneIdEach(c), AllPlain(c), NEW n \in DOMAIN c.blocks
  PROVE  c.blocks[n].id = c.blocks[n].signing
<1>1. n > 1 => n - 1 \in DOMAIN c.blocks
  <2>1. c.blocks \in Seq(Frames)
    BY DEF FrameChains
  <2> QED
    BY <2>1
<1> QED
  BY <1>1 DEF OneIdEach, AllPlain

LEMMA EveryTextOk == LinksInv => \A t \in Texts : TextOk(t)
  BY DEF LinksInv, Texts, LinkOk

LEMMA MakeStep ==
  ASSUME LinksInv, NEW l, LinkOk(l), Make(l), signed' \in Nat
  PROVE  LinksInv'
  BY DEF LinksInv, Make

LEMMA CopyStep ==
  ASSUME LinksInv, NEW t, TextOk(t), Copy(t), signed' \in Nat
  PROVE  LinksInv'
  BY DEF LinksInv, Copy

LEMMA HolderStep ==
  ASSUME LinksInv, NEW l \in links, Narrow(l) \/ SealLink(l) \/ Revoke(l)
  PROVE  LinksInv'
<1>1. LinkOk(l)
  BY DEF LinksInv
<1>2. /\ l.chain \in FrameChains /\ OneIdEach(l.chain) /\ AllPlain(l.chain)
      /\ l.root \in Roots /\ l.root = l.chain.signer /\ l.chain.sound
  BY <1>1 DEF LinkOk, TextOk, LinkTexts
<1>3. signed \in Nat /\ "plain" \in Kinds
  BY DEF LinksInv, Kinds
<1>4. CASE Narrow(l)
  <2> DEFINE c == Appended(l.chain, Block("plain", signed))
  <2>1. /\ c \in FrameChains /\ OneIdEach(c) /\ AllPlain(c)
        /\ c.signer = l.root /\ c.sound
    BY <1>2, <1>3, BlockIs, AppendedOk
  <2>2. Make(Of(l.root, c)) /\ signed' \in Nat
    BY <1>3, <1>4 DEF Narrow, Sign
  <2> HIDE DEF c
  <2> QED
    BY <1>2, <2>1, <2>2, OfOk, MakeStep
<1>5. CASE SealLink(l)
  <2> DEFINE c == [l.chain EXCEPT !.sealed = TRUE]
  <2>1. /\ c \in FrameChains /\ c.blocks = l.chain.blocks
        /\ c.signer = l.root /\ c.sound
    BY <1>2 DEF FrameChains
  <2>2. OneIdEach(c) /\ AllPlain(c)
    BY <1>2, <2>1 DEF OneIdEach, AllPlain
  <2>3. Make(Of(l.root, c)) /\ signed' \in Nat
    BY <1>3, <1>5 DEF SealLink
  <2> HIDE DEF c
  <2> QED
    BY <1>2, <2>1, <2>2, <2>3, OfOk, MakeStep
<1>6. CASE Revoke(l)
  <2>1. Len(l.chain.blocks) \in DOMAIN l.chain.blocks
    BY <1>2 DEF FrameChains
  <2>2. Last(l.chain.blocks).id = Last(l.chain.blocks).signing
    BY <1>2, <2>1, PlainIds DEF Last
  <2> QED
    BY <1>6, <2>2 DEF Revoke, NarrowestOf, LinksInv
<1> QED
  BY <1>4, <1>5, <1>6

LEMMA TextStep ==
  ASSUME LinksInv, NEW t \in Texts,
         \/ Receive(t) \/ Damage(t) \/ SealOther(t) \/ Reencode(t)
         \/ \E flaws \in Spellings : Respell(t, flaws)
         \/ \E root \in Roots : Reroot(t, root)
         \/ \E kind \in Kinds : AppendOther(t, kind)
  PROVE  LinksInv'
<1>1. TextOk(t) /\ signed \in Nat
  BY EveryTextOk DEF LinksInv
<1>2. t \in LinkTexts /\ t.chain \in FrameChains /\ OneIdEach(t.chain)
  BY <1>1 DEF TextOk, LinkTexts
<1>3. CASE Receive(t)
  <2> DEFINE l == [root |-> t.root, chain |-> t.chain, text |-> t]
  <2>1. Parse(t) = "Ok" /\ Make(l) /\ signed' \in Nat
    BY <1>1, <1>3 DEF Receive
  <2>2. t.flaws \subseteq {"case"} /\ AllPlain(t.chain) /\ Chains(t)
    BY <1>1, <2>1, NotRefused, ParseOk
  <2>3. LinkOk(l)
    BY <1>1, <2>2 DEF LinkOk, Chains
  <2> HIDE DEF l
  <2> QED
    BY <2>1, <2>3, MakeStep
<1>4. CASE Damage(t)
  <2> DEFINE u == [t EXCEPT !.chain.sound = FALSE]
  <2>1. [t.chain EXCEPT !.sound = FALSE] \in FrameChains
    BY <1>2 DEF FrameChains
  <2>2. u \in LinkTexts /\ u.chain.blocks = t.chain.blocks
    BY <1>2, <2>1 DEF LinkTexts, FrameChains
  <2>3. TextOk(u)
    BY <1>2, <2>2 DEF TextOk, OneIdEach
  <2>4. Copy(u) /\ signed' \in Nat
    BY <1>1, <1>4 DEF Damage
  <2> HIDE DEF u
  <2> QED
    BY <2>3, <2>4, CopyStep
<1>5. CASE Reencode(t)
  <2> DEFINE u == [t EXCEPT !.chain.blocks[Len(t.chain.blocks)].id = signed]
  <2>1. /\ Algorithm(t.chain.blocks, Len(t.chain.blocks)) = "p256"
        /\ Copy(u) /\ signed' \in Nat
    BY <1>1, <1>5 DEF Reencode, Sign
  <2>2. TextOk(u)
    BY <1>1, <2>1, ReencodedOk
  <2> HIDE DEF u
  <2> QED
    BY <2>1, <2>2, CopyStep
<1>6. ASSUME NEW flaws \in Spellings, Respell(t, flaws) PROVE LinksInv'
  <2>1. Copy([t EXCEPT !.flaws = flaws]) /\ signed' \in Nat
    BY <1>1, <1>6 DEF Respell
  <2>2. TextOk([t EXCEPT !.flaws = flaws])
    BY <1>2, LinksAssumption DEF TextOk, LinkTexts
  <2> QED
    BY <2>1, <2>2, CopyStep
<1>7. ASSUME NEW root \in Roots, Reroot(t, root) PROVE LinksInv'
  <2>1. Copy([t EXCEPT !.root = root]) /\ signed' \in Nat
    BY <1>1, <1>7 DEF Reroot
  <2>2. TextOk([t EXCEPT !.root = root])
    BY <1>2 DEF TextOk, LinkTexts
  <2> QED
    BY <2>1, <2>2, CopyStep
<1>8. ASSUME NEW kind \in Kinds, AppendOther(t, kind) PROVE LinksInv'
  <2> DEFINE c == Appended(t.chain, Block(kind, signed))
  <2>1. c \in FrameChains /\ OneIdEach(c)
    BY <1>1, <1>2, BlockIs, AppendedOk
  <2>2. Copy([t EXCEPT !.chain = c]) /\ signed' \in Nat
    BY <1>1, <1>8 DEF AppendOther, Sign
  <2> HIDE DEF c
  <2>3. TextOk([t EXCEPT !.chain = c])
    BY <1>2, <2>1 DEF TextOk, LinkTexts
  <2> QED
    BY <2>2, <2>3, CopyStep
<1>9. CASE SealOther(t)
  <2> DEFINE u == [t EXCEPT !.chain.sealed = TRUE]
  <2>1. [t.chain EXCEPT !.sealed = TRUE] \in FrameChains
    BY <1>2 DEF FrameChains
  <2>2. u \in LinkTexts /\ u.chain.blocks = t.chain.blocks
    BY <1>2, <2>1 DEF LinkTexts, FrameChains
  <2>3. TextOk(u)
    BY <1>2, <2>2 DEF TextOk, OneIdEach
  <2>4. Copy(u) /\ signed' \in Nat
    BY <1>1, <1>9 DEF SealOther
  <2> HIDE DEF u
  <2> QED
    BY <2>3, <2>4, CopyStep
<1> QED
  BY <1>3, <1>4, <1>5, <1>6, <1>7, <1>8, <1>9

LEMMA MintStep ==
  ASSUME LinksInv, NEW issuer \in Issuers,
         Mint(issuer) \/ \E kind \in Kinds : MintOther(issuer, kind)
  PROVE  LinksInv'
<1>1. issuer \in Roots /\ signed \in Nat /\ "plain" \in Kinds
  BY LinksAssumption DEF LinksInv, Kinds
<1>2. CASE Mint(issuer)
  <2>1. PICK sealed \in BOOLEAN :
          Make(Of(issuer, Chain(issuer, <<Block("plain", signed)>>, sealed)))
    BY <1>2 DEF Mint
  <2> DEFINE c == Chain(issuer, <<Block("plain", signed)>>, sealed)
  <2>2. c \in FrameChains /\ OneIdEach(c) /\ c.signer = issuer /\ c.sound /\ AllPlain(c)
    BY <1>1, BlockIs, FirstBlockOk
  <2>3. Make(Of(issuer, c)) /\ signed' \in Nat
    BY <1>1, <1>2, <2>1 DEF Mint, Sign
  <2> HIDE DEF c
  <2> QED
    BY <1>1, <2>2, <2>3, OfOk, MakeStep
<1>3. ASSUME NEW kind \in Kinds, MintOther(issuer, kind) PROVE LinksInv'
  <2> DEFINE c == Chain(issuer, <<Block(kind, signed)>>, FALSE)
  <2>1. c \in FrameChains /\ OneIdEach(c)
    BY <1>1, BlockIs, FirstBlockOk
  <2>2. Copy(TextOf(issuer, c))
    BY <1>3 DEF MintOther
  <2>3. signed' \in Nat
    BY <1>1, <1>3 DEF MintOther, Sign
  <2> HIDE DEF c
  <2>4. TextOk(TextOf(issuer, c))
    BY <1>1, <2>1 DEF TextOf, TextOk, LinkTexts
  <2> QED
    BY <2>2, <2>3, <2>4, CopyStep
<1> QED
  BY <1>2, <1>3

LEMMA LinksStep == LinksInv /\ [WiresNext]_wireVars => LinksInv'
<1> SUFFICES ASSUME LinksInv, [WiresNext]_wireVars PROVE LinksInv'
  OBVIOUS
<1>1. CASE LinksNext
  BY <1>1, HolderStep, TextStep, MintStep DEF LinksNext
<1>2. CASE UNCHANGED linkVars
  BY <1>2 DEF linkVars, LinksInv
<1> QED
  BY <1>1, <1>2 DEF WiresNext, wireVars

LEMMA LinksCorrect == WiresSpec => []LinksInv
<1>1. WiresInit => LinksInv
  BY DEF WiresInit, LinksInit, LinksInv
<1> QED
  BY <1>1, LinksStep, PTL DEF WiresSpec
(* What nauthy makes or has read of at most MAX_BLOCKS blocks it reads again   *)
(* (MadeLinksParse), however many keys, holders and narrowings there are.      *)
THEOREM MadeParse == WiresSpec => []MadeLinksParse
<1>1. LinksInv => MadeLinksParse
  <2> SUFFICES ASSUME LinksInv, NEW l \in links, Len(l.chain.blocks) <= MaxBlocks
               PROVE  Parse(l.text) = "Ok" /\ l.text.root = l.root /\ l.text.chain = l.chain
    BY DEF MadeLinksParse
  <2>1. LinkOk(l)
    BY DEF LinksInv
  <2>2. Refused(l.text) = "Ok"
    BY <2>1, NotRefused DEF LinkOk
  <2> QED
    BY <2>1, <2>2, ParseOk DEF LinkOk, Chains
<1> QED
  BY <1>1, LinksCorrect, PTL

(* No text makes a parse run more than MAX_BLOCKS ed25519 verifications and one *)
(* for a seal, or any other kind (ParseWorkBounded).                            *)
THEOREM WorkBounded == WiresSpec => []ParseWorkBounded
<1>1. LinksInv => ParseWorkBounded
  <2> DEFINE most(t) == IF t.chain.sealed THEN MaxBlocks + 1 ELSE MaxBlocks
  <2> SUFFICES ASSUME LinksInv, NEW t \in Texts
               PROVE  Crypto(t) \subseteq (1 .. most(t)) \X {"ed25519"}
    BY DEF ParseWorkBounded
  <2>1. TextOk(t)
    BY EveryTextOk
  <2>2. CASE Refused(t) # "Ok"
    BY <2>2 DEF Crypto
  <2>3. CASE Refused(t) = "Ok"
    <3> DEFINE frames == t.chain.blocks
    <3>1. AllPlain(t.chain) /\ Len(frames) <= MaxBlocks /\ frames \in Seq(Frames)
      BY <2>1, <2>3, NotRefused DEF TextOk, LinkTexts, FrameChains
    <3>2. \A n \in DOMAIN frames : frames[n].kind = "plain"
      BY <3>1 DEF AllPlain
    <3>3. ASSUME NEW n \in 1 .. Chained(t.chain)
          PROVE  n \in 1 .. most(t) /\ Algorithm(frames, n) = "ed25519"
      <4>1. n \in 1 .. most(t) /\ n <= Len(frames) + 1
        <5>1. Chained(t.chain) = Len(frames) + (IF t.chain.sealed THEN 1 ELSE 0)
          BY DEF Chained
        <5>2. Len(frames) \in Nat /\ MaxBlocks \in Nat
          BY <3>1, LinksAssumption
        <5> HIDE DEF frames
        <5> QED
          BY <3>1, <5>1, <5>2
      <4>2. n > 1 => n - 1 \in DOMAIN frames
        BY <3>1, <4>1
      <4> QED
        BY <3>2, <4>1, <4>2 DEF Algorithm
    <3>4. Crypto(t) = {<<n, Algorithm(frames, n)>> : n \in 1 .. Chained(t.chain)} \cup
            {<<n, frames[n].kind>> :
               n \in {m \in DOMAIN frames : frames[m].kind \in {"external", "trusting"}}}
      BY <2>3 DEF Crypto
    <3> HIDE DEF frames, most
    <3> QED
      BY <3>2, <3>3, <3>4
  <2> QED
    BY <2>2, <2>3
<1> QED
  BY <1>1, LinksCorrect, PTL

(* Every link is a whole chain that the root it names began (LinkIsItsRoots).  *)
THEOREM LinkItsRoots == WiresSpec => []LinkIsItsRoots
<1>1. LinksInv => LinkIsItsRoots
  BY DEF LinksInv, LinkOk, LinkIsItsRoots
<1> QED
  BY <1>1, LinksCorrect, PTL

(* A recall reaches every text that parses and holds a block that was recalled *)
(* and no other (RecallReachesEveryCopy): in a text that parses, a block has   *)
(* the one id that its signing gave it.                                        *)
THEOREM RecallReaches == WiresSpec => []RecallReachesEveryCopy
<1>1. LinksInv => RecallReachesEveryCopy
  <2> SUFFICES ASSUME LinksInv, NEW t \in Texts, Parse(t) = "Ok"
               PROVE  Ids(t.chain) \cap recalled # {} <=> Signings(t.chain) \cap revoked # {}
    BY DEF RecallReachesEveryCopy
  <2>1. TextOk(t) /\ AllPlain(t.chain)
    BY EveryTextOk, NotRefused, ParseOk
  <2>2. \A n \in DOMAIN t.chain.blocks : t.chain.blocks[n].id = t.chain.blocks[n].signing
    BY <2>1, PlainIds DEF TextOk, LinkTexts
  <2>3. Ids(t.chain) = Signings(t.chain)
    BY <2>2 DEF Ids, Signings
  <2> QED
    BY <2>3 DEF LinksInv
<1> QED
  BY <1>1, LinksCorrect, PTL-----------------------------------------------------------------------------
(* Documents.                                                                *)

\* Every signature there is was made for a document or for a block.
DocumentsInv ==
  /\ documents \subseteq Signing \X Payloads
  /\ \A signature \in signatures :
       \/ \E d \in documents : signature = Signature(d[1], Message(d[2]))
       \/ \E b \in blocks : signature = Signature(b[1], b[2])
  /\ blocks \subseteq Signing \X BlockPayloads

\* A document's message is no block's, and no other document's.
LEMMA MessageApart ==
  ASSUME NEW bytes \in Payloads
  PROVE  /\ Message(bytes) \notin BlockPayloads
         /\ \A other \in Payloads : Message(bytes) = Message(other) => bytes = other
<1>1. Tag \in Seq(STRING) /\ Tag # <<>> /\ Payloads \subseteq Seq(STRING)
  BY DocumentsAssumption
<1>2. Message(bytes)[1] = Tag[1]
  BY <1>1 DEF Message
<1>3. Message(bytes) \notin BlockPayloads
  BY <1>2, DocumentsAssumption
<1>4. ASSUME NEW other \in Payloads, Message(bytes) = Message(other)
      PROVE  bytes = other
  <2>1. bytes \in Seq(STRING) /\ other \in Seq(STRING) /\ Tag \o bytes = Tag \o other
    BY <1>1, <1>4 DEF Message
  <2>2. Len(bytes) = Len(other)
    BY <1>1, <2>1
  <2>3. \A n \in 1 .. Len(bytes) :
          bytes[n] = (Tag \o bytes)[Len(Tag) + n] /\ other[n] = (Tag \o other)[Len(Tag) + n]
    BY <1>1, <2>1, <2>2
  <2> QED
    BY <2>1, <2>2, <2>3, SeqEqual
<1> QED
  BY <1>3, <1>4

\* What a wire of a header and a payload is taken apart into.
LEMMA WireParts ==
  ASSUME NEW h, NEW i, NEW payload \in Payloads
  PROVE  LET wire == Wire(h, i, payload) IN
         /\ Len(wire) >= Header
         /\ wire[1] = h /\ wire[2] = i /\ PayloadOf(wire) = payload
<1> DEFINE S == {h, i} \cup STRING
           wire == Wire(h, i, payload)
<1>1. payload \in Seq(STRING)
  BY DocumentsAssumption
<1>2. payload \in Seq(S) /\ <<h, i>> \in Seq(S)
  BY <1>1
<1> HIDE DEF S
<1>3. /\ wire \in Seq(S) /\ Len(wire) = Len(payload) + 2
      /\ wire[1] = h /\ wire[2] = i
      /\ \A n \in 1 .. Len(payload) : wire[n + 2] = payload[n]
  BY <1>2 DEF Wire
<1>4. PayloadOf(wire) = payload
  <2>1. /\ SubSeq(wire, 3, Len(wire)) \in Seq(S)
        /\ Len(SubSeq(wire, 3, Len(wire))) = Len(payload)
        /\ \A n \in 1 .. Len(payload) : SubSeq(wire, 3, Len(wire))[n] = payload[n]
    BY <1>2, <1>3
  <2> QED
    BY <1>2, <2>1, SeqEqual DEF PayloadOf, Header
<1> QED
  BY <1>3, <1>4, <1>2 DEF Header

LEMMA DocumentsStep == DocumentsInv /\ [WiresNext]_wireVars => DocumentsInv'
<1> SUFFICES ASSUME DocumentsInv, [WiresNext]_wireVars PROVE DocumentsInv'
  OBVIOUS
<1>1. ASSUME NEW key \in Signing, NEW bytes \in Payloads, SignDocument(key, bytes)
      PROVE  DocumentsInv'
  <2>1. /\ signatures' = signatures \cup {Signature(key, Message(bytes))}
        /\ documents' = documents \cup {<<key, bytes>>} /\ blocks' = blocks
    BY <1>1 DEF SignDocument, SignMessage
  <2>2. documents' \subseteq Signing \X Payloads /\ blocks' \subseteq blocks
    BY <2>1 DEF DocumentsInv
  <2>3. ASSUME NEW signature \in signatures'
        PROVE  \/ \E d \in documents' : signature = Signature(d[1], Message(d[2]))
               \/ \E b \in blocks' : signature = Signature(b[1], b[2])
    <3>1. CASE signature \in signatures
      BY <2>1, <3>1 DEF DocumentsInv
    <3>2. CASE signature = Signature(key, Message(bytes))
      <4>1. <<key, bytes>> \in documents' /\ <<key, bytes>>[1] = key /\ <<key, bytes>>[2] = bytes
        BY <2>1
      <4> QED
        BY <3>2, <4>1
    <3> QED
      BY <2>1, <2>3, <3>1, <3>2
  <2> QED
    BY <2>1, <2>2, <2>3 DEF DocumentsInv
<1>2. ASSUME NEW key \in Signing, NEW payload \in BlockPayloads, SignBlock(key, payload)
      PROVE  DocumentsInv'
  <2>1. /\ signatures' = signatures \cup {Signature(key, payload)}
        /\ blocks' = blocks \cup {<<key, payload>>} /\ documents' = documents
    BY <1>2 DEF SignBlock, SignMessage
  <2>2. blocks' \subseteq Signing \X BlockPayloads /\ documents' \subseteq documents
    BY <2>1 DEF DocumentsInv
  <2>3. ASSUME NEW signature \in signatures'
        PROVE  \/ \E d \in documents' : signature = Signature(d[1], Message(d[2]))
               \/ \E b \in blocks' : signature = Signature(b[1], b[2])
    <3>1. CASE signature \in signatures
      BY <2>1, <3>1 DEF DocumentsInv
    <3>2. CASE signature = Signature(key, payload)
      <4>1. <<key, payload>> \in blocks' /\ <<key, payload>>[1] = key /\ <<key, payload>>[2] = payload
        BY <2>1
      <4> QED
        BY <3>2, <4>1
    <3> QED
      BY <2>1, <2>3, <3>1, <3>2
  <2> QED
    BY <2>1, <2>2, <2>3 DEF DocumentsInv
<1>3. CASE UNCHANGED documentVars
  BY <1>3 DEF documentVars, DocumentsInv
<1> QED
  BY <1>1, <1>2, <1>3 DEF WiresNext, DocumentsNext, wireVars

LEMMA DocumentsCorrect == WiresSpec => []DocumentsInv
<1>1. WiresInit => DocumentsInv
  BY DEF WiresInit, DocumentsInit, DocumentsInv
<1> QED
  BY <1>1, DocumentsStep, PTL DEF WiresSpec

\* Receiving a wire that names a key as its signer.
LEMMA ReceivedIs ==
  ASSUME NEW h, NEW i, NEW payload \in Payloads, NEW authority \in Signing
  PROVE  LET wire == Wire(h, i, payload) IN
         /\ ReceiveWire(wire, authority).error = "Ok" =>
              /\ i = Signature(authority, Message(payload))
              /\ ReceiveWire(wire, authority).payload = payload
         /\ \A key \in Keys : h = Cell(key) =>
              ReceiveWire(wire, authority) = Verify(Signed(payload, key, i), authority)
<1> DEFINE wire == Wire(h, i, payload)
<1>1. ~(Len(wire) < Header) /\ wire[1] = h /\ wire[2] = i /\ PayloadOf(wire) = payload
  <2>1. Len(wire) >= Header /\ wire[1] = h /\ wire[2] = i /\ PayloadOf(wire) = payload
    BY WireParts
  <2>2. Len(wire) \in Nat
    <3>1. <<h, i>> \in Seq({h, i} \cup STRING) /\ payload \in Seq({h, i} \cup STRING)
      BY DocumentsAssumption
    <3> QED
      BY <3>1 DEF Wire
  <2> HIDE DEF wire
  <2> QED
    BY <2>1, <2>2 DEF Header
<1> HIDE DEF wire
<1>2. SignerOf(wire) = {key \in Keys : Cell(key) = h}
  BY <1>1 DEF SignerOf
<1>3. ASSUME NEW key \in Keys, h = Cell(key)
      PROVE  ReceiveWire(wire, authority) = Verify(Signed(payload, key, i), authority)
  <2>1. SignerOf(wire) = {key}
    BY <1>2, <1>3 DEF Cell
  <2> QED
    BY <1>1, <2>1 DEF ReceiveWire
<1>4. ASSUME ReceiveWire(wire, authority).error = "Ok"
      PROVE  /\ i = Signature(authority, Message(payload))
             /\ ReceiveWire(wire, authority).payload = payload
  <2>1. SignerOf(wire) # {}
    BY <1>1, <1>4 DEF ReceiveWire, Verdict
  <2>2. PICK key \in Keys : h = Cell(key)
    BY <1>2, <2>1
  <2> DEFINE signedDocument == Signed(payload, key, i)
  <2>3. Verify(signedDocument, authority).error = "Ok"
    BY <1>3, <1>4, <2>2
  <2>4. signedDocument.payload = payload /\ signedDocument.signature = i
    BY DEF Signed
  <2> HIDE DEF signedDocument
  <2>5. /\ Checks(i, authority, Message(payload))
        /\ Verify(signedDocument, authority) = Verdict("Ok", payload)
    BY <2>3, <2>4 DEF Verify, Verdict
  <2> QED
    BY <1>3, <2>2, <2>5 DEF Checks, Verdict, signedDocument
<1> QED
  BY <1>3, <1>4 DEF wire
(* A wire verifies under a key only if its owner signed that very payload as a *)
(* document, and every document verifies as it was encoded, under its signer   *)
(* alone (VerifiedWasSigned), for any keys, payloads and tag.                  *)
THEOREM VerifiedSigned == WiresSpec => []VerifiedWasSigned
<1>1. ASSUME DocumentsInv, NEW authority \in Signing, NEW wire \in Wires,
             ReceiveWire(wire, authority).error = "Ok"
      PROVE  <<authority, ReceiveWire(wire, authority).payload>> \in documents
  <2>1. PICK h \in Headers, i \in signatures \cup {NoSignature}, payload \in Payloads :
          wire = Wire(h, i, payload)
    <3>1. ASSUME NEW h, wire = <<h>> PROVE FALSE
      BY <1>1, <3>1 DEF ReceiveWire, Header, Verdict
    <3>2. wire # <<>>
      BY <1>1 DEF ReceiveWire, Header, Verdict
    <3> QED
      BY <1>1, <3>1, <3>2 DEF Wires
  <2>2. /\ i = Signature(authority, Message(payload))
        /\ ReceiveWire(wire, authority).payload = payload
    BY <1>1, <2>1, ReceivedIs
  <2>3. i \in signatures
    BY <2>1, <2>2 DEF Signature, NoSignature
  <2>4. ASSUME NEW b \in blocks, i = Signature(b[1], b[2]) PROVE FALSE
    <3>1. b[2] \in BlockPayloads /\ b[2] = Message(payload)
      BY <1>1, <2>2, <2>4 DEF DocumentsInv, Signature
    <3> QED
      BY <2>1, <3>1, MessageApart
  <2>5. PICK d \in documents : i = Signature(d[1], Message(d[2]))
    BY <1>1, <2>3, <2>4 DEF DocumentsInv
  <2>6. d = <<d[1], d[2]>> /\ d[1] \in Signing /\ d[2] \in Payloads
    BY <1>1, <2>5 DEF DocumentsInv
  <2>7. d[1] = authority /\ Message(d[2]) = Message(payload)
    BY <2>2, <2>5 DEF Signature
  <2> QED
    BY <2>1, <2>2, <2>5, <2>6, <2>7, MessageApart
<1>2. ASSUME DocumentsInv, NEW authority \in Signing, NEW d \in documents
      PROVE  ReceiveWire(Encode(DocumentOf(d[1], d[2])), authority) =
               IF authority = d[1] THEN Verdict("Ok", d[2]) ELSE Verdict("ForeignSigner", <<>>)
  <2>1. d[1] \in Keys /\ d[2] \in Payloads
    BY <1>2, DocumentsAssumption DEF DocumentsInv
  <2> DEFINE i == Signature(d[1], Message(d[2]))
             document == Signed(d[2], d[1], i)
  <2>2. document.payload = d[2] /\ document.signer = d[1] /\ document.signature = i
    BY DEF Signed
  <2>3. Encode(document) = Wire(Cell(d[1]), i, d[2])
    BY <2>2 DEF Encode
  <2>4. ReceiveWire(Encode(document), authority) = Verify(document, authority)
    BY <2>1, <2>3, ReceivedIs
  <2>5. document = DocumentOf(d[1], d[2])
    BY DEF DocumentOf
  <2> HIDE DEF document
  <2> QED
    BY <2>2, <2>4, <2>5 DEF Verify, Checks
<1>3. DocumentsInv => VerifiedWasSigned
  BY <1>1, <1>2 DEF VerifiedWasSigned
<1> QED
  BY <1>3, DocumentsCorrect, PTL

(* No signature made for a document checks for an authority block that was not *)
(* minted (NoDocumentIsABlock).                                                *)
THEOREM DocumentNoBlock == WiresSpec => []NoDocumentIsABlock
<1>1. DocumentsInv => NoDocumentIsABlock
  <2> SUFFICES ASSUME DocumentsInv, NEW signature \in signatures, NEW key \in Signing,
                      NEW payload \in BlockPayloads, Checks(signature, key, payload)
               PROVE  <<key, payload>> \in blocks
    BY DEF NoDocumentIsABlock
  <2>1. signature = <<key, payload>>
    BY DEF Checks, Signature
  <2>2. ASSUME NEW d \in documents, signature = Signature(d[1], Message(d[2])) PROVE FALSE
    <3>1. d[2] \in Payloads /\ Message(d[2]) = payload
      BY <2>1, <2>2 DEF DocumentsInv, Signature
    <3> QED
      BY <3>1, MessageApart
  <2>3. PICK b \in blocks : signature = Signature(b[1], b[2])
    BY <2>2 DEF DocumentsInv
  <2>4. b = <<b[1], b[2]>>
    BY <2>3 DEF DocumentsInv
  <2> QED
    BY <2>1, <2>3, <2>4 DEF Signature
<1> QED
  BY <1>1, DocumentsCorrect, PTL-----------------------------------------------------------------------------
(* Keys.                                                                     *)

LEMMA Remainder ==
  ASSUME NEW a \in Nat, NEW m \in Nat \ {0}, NEW q \in Nat, NEW r \in 0 .. m - 1,
         a = (m * q) + r
  PROVE  a % m = r
  OBVIOUS

LEMMA Quotient ==
  ASSUME NEW a \in Nat, NEW m \in Nat \ {0}
  PROVE  a % m \in Nat /\ \E q \in Nat : a = (m * q) + (a % m)
<1>1. a \div m \in Nat /\ a % m \in Nat /\ a = (m * (a \div m)) + (a % m)
  OBVIOUS
<1> QED
  BY <1>1

LEMMA OrderIsOdd == Order \in Nat /\ Order > 2 /\ Order % 2 = 1
  BY VerifyKeyAssumption

\* A power of two is invertible modulo the order.
LEMMA HalfCancels ==
  ASSUME NEW x \in Nat, NEW k \in Nat, 2 * x = Order * k
  PROVE  \E j \in Nat : x = Order * j
<1>1. ASSUME k % 2 = 1 PROVE FALSE
  <2>1. PICK i \in Nat : Order = 2 * i + 1
    BY OrderIsOdd
  <2>2. PICK j \in Nat : k = 2 * j + 1
    BY <1>1
  <2>3. Order * k = 2 * (2 * i * j + i + j) + 1
    BY <2>1, <2>2
  <2>4. 2 * i * j + i + j \in Nat
    OBVIOUS
  <2> QED
    BY <2>3, <2>4
<1>2. PICK j \in Nat : k = 2 * j
  BY <1>1
<1>3. 2 * x = 2 * (Order * j)
  BY <1>2, OrderIsOdd
<1>4. Order * j \in Nat
  BY OrderIsOdd
<1> QED
  BY <1>3, <1>4

LEMMA EightCancels ==
  ASSUME NEW x \in Nat, NEW k \in Nat, 8 * x = Order * k
  PROVE  \E j \in Nat : x = Order * j
<1>1. 2 * (4 * x) = Order * k
  OBVIOUS
<1>2. PICK i \in Nat : 4 * x = Order * i
  BY <1>1, HalfCancels
<1>3. 2 * (2 * x) = Order * i
  BY <1>2
<1>4. PICK j \in Nat : 2 * x = Order * j
  BY <1>3, HalfCancels
<1> QED
  BY <1>4, HalfCancels

\* Multiplying the points of two secrets by eight keeps them apart.
LEMMA SecretsApart ==
  ASSUME NEW a \in Nat, NEW b \in Nat, a <= b, b < Order,
         (8 * (8 * a)) % Curve = (8 * (8 * b)) % Curve
  PROVE  a = b
<1> DEFINE A == 8 * (8 * a)
           B == 8 * (8 * b)
<1>1. Curve \in Nat /\ Curve > 0 /\ Curve = 8 * Order
  BY OrderIsOdd DEF Curve
<1>2. A \in Nat /\ B \in Nat /\ A <= B
  OBVIOUS
<1> HIDE DEF A, B
<1>3. Curve \in Nat \ {0}
  BY <1>1
<1>4. A % Curve \in Nat /\ \E q \in Nat : A = (Curve * q) + (A % Curve)
  BY <1>2, <1>3, Quotient, Zenon
<1>5. \E p \in Nat : B = (Curve * p) + (B % Curve)
  BY <1>2, <1>3, Quotient, Zenon
<1>6. A % Curve = B % Curve
  BY DEF A, B
<1> DEFINE r == A % Curve
<1>7. r \in Nat /\ \E q \in Nat : A = (Curve * q) + r
  BY <1>4
<1>8. \E p \in Nat : B = (Curve * p) + r
  BY <1>5, <1>6
<1> HIDE DEF r
<1>9. PICK q \in Nat : A = (Curve * q) + r
  BY <1>7
<1>10. PICK p \in Nat : B = (Curve * p) + r
  BY <1>8
<1>11. p >= q
  <2>1. ASSUME q >= p + 1 PROVE FALSE
    <3>1. Curve * q >= (Curve * p) + Curve
      BY <1>1, <2>1
    <3> QED
      BY <1>1, <1>2, <1>7, <1>9, <1>10, <3>1
  <2> QED
    BY <2>1
<1>12. B - A = Curve * (p - q)
  BY <1>1, <1>2, <1>7, <1>9, <1>10
<1>13. 8 * (b - a) = Order * (p - q)
  <2>1. 8 * (8 * (b - a)) = 8 * (Order * (p - q))
    <3>1. Curve * (p - q) = 8 * (Order * (p - q))
      BY <1>1, OrderIsOdd
    <3>2. B - A = 8 * (8 * (b - a))
      BY DEF A, B
    <3> QED
      BY <1>12, <3>1, <3>2
  <2>2. 8 * (b - a) \in Int /\ Order * (p - q) \in Int
    BY OrderIsOdd
  <2> QED
    BY <2>1, <2>2
<1>14. b - a \in Nat /\ p - q \in Nat
  BY <1>11
<1>15. PICK j \in Nat : b - a = Order * j
  BY <1>13, <1>14, EightCancels
<1>16. j = 0
  <2>1. ASSUME j >= 1 PROVE FALSE
    <3>1. Order * j >= Order
      BY <2>1, OrderIsOdd
    <3> QED
      BY <1>15, <3>1, OrderIsOdd
  <2> QED
    BY <2>1
<1> QED
  BY <1>15, <1>16, OrderIsOdd

LEMMA PublicKeyIs ==
  ASSUME NEW secret \in Secrets
  PROVE  /\ PublicKey(secret) = 8 * secret /\ 8 * secret \in 1 .. Curve - 1
         /\ secret \in Nat /\ secret < Order /\ secret > 0
  BY OrderIsOdd DEF Secrets, PublicKey, Curve

\* The keys are the points of the secrets, in their canonical encoding.
LEMMA KeyIs ==
  ASSUME NEW bytes \in Bytes
  PROVE  CheckEd25519Identity(bytes) = "Ok" <=> \E secret \in Secrets : bytes = 8 * secret
<1>1. /\ Curve \in Nat /\ Curve > 0 /\ Curve = 8 * Order /\ Spare \in Nat /\ bytes \in Nat
  BY OrderIsOdd, VerifyKeyAssumption DEF Curve, Bytes
<1>2. CheckEd25519Identity(bytes) = "Ok" <=>
        /\ OnCurve(bytes) /\ bytes % Curve = bytes
        /\ ~SmallOrder(bytes % Curve) /\ TorsionFree(bytes % Curve)
  BY DEF CheckEd25519Identity, Compress, Point
<1>3. ASSUME NEW secret \in Secrets, bytes = 8 * secret
      PROVE  CheckEd25519Identity(bytes) = "Ok"
  <2>1. bytes < Curve /\ bytes % Curve = bytes
    BY <1>1, <1>3, PublicKeyIs
  <2>2. OnCurve(bytes)
    BY <1>1, <2>1 DEF OnCurve
  <2>3. TorsionFree(bytes)
    <3>1. Order * bytes = (Curve * secret) + 0
      BY <1>1, <1>3, PublicKeyIs, OrderIsOdd
    <3>2. Order * bytes \in Nat /\ secret \in Nat /\ 0 \in 0 .. Curve - 1
      BY <1>1, PublicKeyIs, OrderIsOdd
    <3>3. (Order * bytes) % Curve = 0
      BY <1>1, <3>1, <3>2, Remainder
    <3> QED
      BY <3>3 DEF TorsionFree
  <2>4. ~SmallOrder(bytes)
    <3>1. 0 <= secret /\ secret < Order /\ secret # 0 /\ secret \in Nat
      BY PublicKeyIs
    <3>2. (8 * (8 * 0)) % Curve = 0
      BY <1>1
    <3> QED
      BY <1>3, <3>1, <3>2, SecretsApart DEF SmallOrder
  <2> QED
    BY <1>2, <2>1, <2>2, <2>3, <2>4
<1>4. ASSUME CheckEd25519Identity(bytes) = "Ok"
      PROVE  \E secret \in Secrets : bytes = 8 * secret
  <2>1. bytes < Curve /\ ~SmallOrder(bytes) /\ (Order * bytes) % Curve = 0
    BY <1>1, <1>2, <1>4 DEF TorsionFree
  <2>2. PICK k \in Nat : Order * bytes = Curve * k
    BY <1>1, <2>1, OrderIsOdd
  <2>3. bytes = 8 * k
    <3>1. Order * bytes = Order * (8 * k)
      BY <1>1, <2>2, OrderIsOdd
    <3> QED
      BY <1>1, <3>1, OrderIsOdd
  <2>4. k < Order
    BY <1>1, <2>1, <2>3, OrderIsOdd
  <2>5. k # 0
    BY <1>1, <2>1, <2>3 DEF SmallOrder
  <2> QED
    BY <2>3, <2>4, <2>5, OrderIsOdd DEF Secrets
<1> QED
  BY <1>3, <1>4
\* Whose secret a signature under a key takes: its own, or its negation's.
LEMMA SignersAre ==
  ASSUME NEW s \in Secrets
  PROVE  /\ Order - s \in Secrets /\ Negated(8 * s) = 8 * (Order - s)
         /\ Signers(8 * s) = {s, Order - s}
<1> DEFINE R(u) == (8 * (8 * u)) % Curve
<1>1. s \in Nat /\ s > 0 /\ s < Order /\ Curve = 8 * Order /\ Order \in Nat
  BY PublicKeyIs, OrderIsOdd DEF Curve
<1>2. Order - s \in Secrets
  BY <1>1 DEF Secrets
<1>3. Negated(8 * s) = 8 * (Order - s)
  <2>1. Curve - 8 * s = 8 * (Order - s) /\ 8 * (Order - s) \in 0 .. Curve - 1
    BY <1>1
  <2> QED
    BY <1>1, <2>1 DEF Negated
<1>4. ASSUME NEW u \in Secrets, NEW v \in Secrets, R(u) = R(v) PROVE u = v
  <2>1. u \in Nat /\ v \in Nat /\ u < Order /\ v < Order
    BY PublicKeyIs
  <2>2. u <= v => u = v
    BY <1>4, <2>1, SecretsApart
  <2>3. v <= u => u = v
    BY <1>4, <2>1, SecretsApart
  <2> QED
    BY <2>1, <2>2, <2>3
<1>5. \A u \in Secrets : PublicKey(u) = 8 * u
  BY PublicKeyIs
<1>6. Signers(8 * s) = {u \in Secrets : R(u) \in {R(s), R(Order - s)}}
  BY <1>3, <1>5 DEF Signers
<1> HIDE DEF R
<1> QED
  BY <1>2, <1>3, <1>4, <1>6

\* The last text read, and what was said of it.
KeyInv == text = {} \/ \E t \in KeyTexts : text = {t} /\ answer = FromStr(t)

LEMMA KeyCorrect == WiresSpec => []KeyInv
<1>1. WiresInit => KeyInv
  BY DEF WiresInit, KeyInit, KeyInv
<1>2. KeyInv /\ [WiresNext]_wireVars => KeyInv'
  <2> SUFFICES ASSUME KeyInv, [WiresNext]_wireVars PROVE KeyInv'
    OBVIOUS
  <2>1. CASE UNCHANGED keyVars
    BY <2>1 DEF keyVars, KeyInv
  <2>2. ASSUME NEW t \in KeyTexts, ReadKey(t) PROVE KeyInv'
    BY <2>2 DEF ReadKey, KeyInv
  <2> QED
    BY <2>1, <2>2 DEF WiresNext, wireVars
<1> QED
  BY <1>1, <1>2, PTL DEF WiresSpec

LEMMA TextIsKey ==
  ASSUME NEW t \in KeyTexts
  PROVE  FromStr(t) = "Ok" <=>
           /\ t.tag \in {"ed01", "ED01"} /\ t.body \in {"lower", "upper"}
           /\ CheckEd25519Identity(t.bytes) = "Ok"
  BY DEF KeyTexts, FromStr, Decodes

(* The keys that text names are exactly those that a secret has, each with one *)
(* text but for case (KeysAreHeld), on the curve of any odd prime order.       *)
THEOREM KeysHeld == WiresSpec => []KeysAreHeld
<1>1. KeyInv => KeysAreHeld
  <2> SUFFICES ASSUME KeyInv, NEW t \in text
               PROVE  answer = "Ok" <=>
                 \E secret \in Secrets : SameText(t, Display(Compress(PublicKey(secret))))
    BY DEF KeysAreHeld
  <2>1. t \in KeyTexts /\ answer = FromStr(t)
    BY DEF KeyInv
  <2>2. t.bytes \in Bytes
    BY <2>1 DEF KeyTexts
  <2>3. \A secret \in Secrets :
          SameText(t, Display(Compress(PublicKey(secret)))) <=>
            /\ t.tag \in {"ed01", "ED01"} /\ t.body \in {"lower", "upper"}
            /\ t.bytes = 8 * secret
    BY PublicKeyIs DEF SameText, Display, Compress
  <2> QED
    BY <2>1, <2>2, <2>3, TextIsKey, KeyIs
<1> QED
  BY <1>1, KeyCorrect, PTL

(* Who can sign for a key can sign for its negation and for no third key       *)
(* (OneHolderTwoKeys): there is one twin to look up.                           *)
THEOREM HolderTwoKeys == WiresSpec => []OneHolderTwoKeys
<1>1. KeyInv => OneHolderTwoKeys
  <2> SUFFICES ASSUME KeyInv, NEW t \in text, answer = "Ok"
               PROVE  {key \in Keys : SharesAHolder(key, t.bytes)} =
                        {t.bytes, Negated(t.bytes)}
    BY DEF OneHolderTwoKeys
  <2>1. t \in KeyTexts /\ FromStr(t) = "Ok"
    BY DEF KeyInv
  <2>2. t.bytes \in Bytes
    BY <2>1 DEF KeyTexts
  <2>3. PICK s \in Secrets : t.bytes = 8 * s
    BY <2>1, <2>2, TextIsKey, KeyIs
  <2>4. \A key : key \in Keys <=> \E u \in Secrets : key = 8 * u
    <3>1. \A u \in Secrets : 8 * u \in Bytes
      BY PublicKeyIs, OrderIsOdd, VerifyKeyAssumption DEF Bytes, Curve
    <3> QED
      BY <3>1, KeyIs DEF Keys
  <2>5. \A u \in Secrets : Point(8 * u) = 8 * u
    BY PublicKeyIs, OrderIsOdd DEF Point, Curve
  <2>6. ASSUME NEW u \in Secrets
        PROVE  SharesAHolder(8 * u, 8 * s) <=> u = s \/ u = Order - s
    <3>1. Signers(Point(8 * u)) = {u, Order - u} /\ Signers(Point(8 * s)) = {s, Order - s}
      BY <2>5, SignersAre
    <3>2. u \in Nat /\ s \in Nat /\ Order \in Nat
      BY PublicKeyIs, OrderIsOdd
    <3> QED
      BY <3>1, <3>2 DEF SharesAHolder
  <2>7. Order - s \in Secrets /\ Negated(t.bytes) = 8 * (Order - s)
    BY <2>3, SignersAre
  <2>8. ASSUME NEW key PROVE key \in Keys /\ SharesAHolder(key, t.bytes) <=>
                              key = t.bytes \/ key = Negated(t.bytes)
    BY <2>3, <2>4, <2>6, <2>7
  <2> QED
    BY <2>8
<1> QED
  BY <1>1, KeyCorrect, PTL
=============================================================================
