------------------------------ MODULE Documents ------------------------------
(***************************************************************************)
(* Signed documents, src/signed.rs and Identity::sign_document: one key    *)
(* signs documents and the authority blocks of tokens, and anybody may hold*)
(* relay, cut up and put together again what it signed.                    *)
(*                                                                         *)
(* Signatures are symbolic: a key's signature on a message is made by its  *)
(* secret alone and checks for that key and that message.  A wire is a     *)
(* sequence of cells: the signer's bytes, which are a key's or not (module *)
(* VerifyKey), the signature, then the payload.                            *)
(***************************************************************************)
EXTENDS VerifyKey, Sequences

CONSTANTS
  Signing,        \* the keys somebody signs with
  OtherBytes,     \* other bytes that a wire may name as its signer
  Tag,            \* SIGNED_DOCUMENT_CONTEXT
  Payloads,       \* what callers ask to have signed
  BlockPayloads,  \* what biscuit signs for an authority block
  MaxSignatures   \* bound: how many signatures are made

\* Callers' bytes are opaque, and may be what biscuit would sign; but nothing that
\* biscuit signs begins as the tag does.
ASSUME DocumentsAssumption ==
  /\ Signing \subseteq Keys /\ OtherBytes \subseteq Bytes
  /\ Payloads \subseteq Seq(STRING)
  /\ BlockPayloads \subseteq Payloads \ {<<>>}
  /\ Tag \in Seq(STRING) \ {<<>>}
  /\ \A b \in BlockPayloads : b[1] # Tag[1]
  /\ MaxSignatures \in Nat

VARIABLES
  signatures,   \* every signature there is
  documents,    \* history: who signed which document
  blocks        \* history: who signed which authority block

documentVars == <<signatures, documents, blocks>>
-----------------------------------------------------------------------------
Signature(key, message) == <<key, message>>
Checks(signature, key, message) == signature = Signature(key, message)

\* The bytes signed for a document: never the caller's own.
MessageVerbatim(bytes) == bytes
Message(bytes) == Tag \o bytes

Signed(payload, signer, signature) ==
  [payload |-> payload, signer |-> signer, signature |-> signature]
DocumentOf(key, bytes) == Signed(bytes, key, Signature(key, Message(bytes)))

\* Signed::verify: the answer, and with Ok the payload.
Verdict(error, payload) == [error |-> error, payload |-> payload]
VerifySelf(signed, authority) ==
  IF ~Checks(signed.signature, signed.signer, Message(signed.payload))
    THEN Verdict("BadSignature", <<>>)
  ELSE Verdict("Ok", signed.payload)
Verify(signed, authority) ==
  IF signed.signer # authority THEN Verdict("ForeignSigner", <<>>)
  ELSE IF ~Checks(signed.signature, authority, Message(signed.payload))
    THEN Verdict("BadSignature", <<>>)
  ELSE Verdict("Ok", signed.payload)

Cell(bytes) == <<bytes>>
EncodeSignatureFirst(signed) == <<signed.signature, Cell(signed.signer)>> \o signed.payload
Wire(header, signature, payload) == <<header, signature>> \o payload
Encode(signed) == Wire(Cell(signed.signer), signed.signature, signed.payload)

\* Signed::decode and verify of a wire.  Its signature is whatever is there.
Header == 2
SignerOf(wire) == {key \in Keys : Cell(key) = wire[1]}
PayloadOf(wire) == SubSeq(wire, Header + 1, Len(wire))
ReceiveWire(wire, authority) ==
  IF Len(wire) < Header THEN Verdict("Truncated", <<>>)
  ELSE IF SignerOf(wire) = {} THEN Verdict("Signer", <<>>)
  ELSE Verify(Signed(PayloadOf(wire), CHOOSE key \in SignerOf(wire) : TRUE, wire[2]),
              authority)
-----------------------------------------------------------------------------
SignMessage(key, message) ==
  /\ Cardinality(signatures) < MaxSignatures
  /\ signatures' = signatures \cup {Signature(key, message)}

\* Identity::sign_document.
SignDocument(key, bytes) ==
  /\ SignMessage(key, Message(bytes))
  /\ documents' = documents \cup {<<key, bytes>>}
  /\ UNCHANGED blocks

\* Identity::mint and the rest, through biscuit.
SignBlock(key, payload) ==
  /\ SignMessage(key, payload)
  /\ blocks' = blocks \cup {<<key, payload>>}
  /\ UNCHANGED documents

DocumentsInit == signatures = {} /\ documents = {} /\ blocks = {}
DocumentsNext ==
  \E key \in Signing :
    \/ \E bytes \in Payloads : SignDocument(key, bytes)
    \/ \E payload \in BlockPayloads : SignBlock(key, payload)
-----------------------------------------------------------------------------
(* Properties.                                                             *)

\* The wires that can be made of the keys, payloads and signatures there are, with
\* a signature in the signer's place, or none in its own.
NoSignature == <<>>
Headers == {Cell(bytes) : bytes \in Signing \cup OtherBytes} \cup signatures
Wires ==
  {<<>>} \cup {<<h>> : h \in Headers}
    \cup {Wire(h, i, payload) :
            h \in Headers, i \in signatures \cup {NoSignature}, payload \in Payloads}

\* A wire verifies under a key only if that key's owner signed that very payload as
\* a document, whoever relayed it and whatever they changed, and whatever tokens
\* the key has signed; and every document does verify as it was encoded, under its
\* signer and under no other key, and gives back its payload.
VerifiedWasSigned ==
  \A authority \in Signing :
    /\ \A wire \in Wires : ReceiveWire(wire, authority).error = "Ok" =>
         <<authority, ReceiveWire(wire, authority).payload>> \in documents
    /\ \A d \in documents : ReceiveWire(Encode(DocumentOf(d[1], d[2])), authority) =
         IF authority = d[1] THEN Verdict("Ok", d[2]) ELSE Verdict("ForeignSigner", <<>>)

\* No signature on a document is one on an authority block, also of a document that
\* is a block's bytes: what a key's tokens are is what it minted.
NoDocumentIsABlock ==
  \A signature \in signatures, key \in Signing, payload \in BlockPayloads :
    Checks(signature, key, payload) => <<key, payload>> \in blocks
=============================================================================
