------------------------------ MODULE VerifyKey ------------------------------
(***************************************************************************)
(* Which 32 bytes are a verify key, and which text is one: src/key.rs.     *)
(*                                                                         *)
(* The curve is its group: the integers modulo 8 * Order, for an odd prime *)
(* Order.  The multiples of 8 are the prime-order subgroup, those of Order *)
(* the points of small order, and every point is one of each added.  Bytes *)
(* are numbers: below Curve the canonical encoding of a point, then other  *)
(* encodings of the first Spare points, then as many that are no point.    *)
(***************************************************************************)
EXTENDS Naturals, FiniteSets

CONSTANTS
  Order,        \* the order of the prime-order subgroup
  Spare         \* how many points have a second encoding

ASSUME VerifyKeyAssumption ==
  /\ Order \in Nat /\ Order > 2 /\ \A n \in 2 .. Order - 1 : Order % n # 0
  /\ Spare \in 1 .. 8 * Order

VARIABLES
  text,         \* the text of a key that was read last, in a set; {} for none
  answer        \* what from_str said of it

keyVars == <<text, answer>>
-----------------------------------------------------------------------------
(* The group, and what dalek's operations say of it.                       *)

Curve == 8 * Order
Bytes == 0 .. Curve + 2 * Spare - 1
OnCurve(bytes) == bytes < Curve + Spare
Point(bytes) == bytes % Curve
Compress(point) == point
SmallOrder(point) == (8 * point) % Curve = 0
TorsionFree(point) == (Order * point) % Curve = 0
Negated(point) == (Curve - point) % Curve

\* The public half of a secret, and whose secret a signature under a point takes:
\* the scalar of its prime-order part, up to sign.
Secrets == 1 .. Order - 1
PublicKey(secret) == (8 * secret) % Curve
Signers(point) ==
  {secret \in Secrets :
     (8 * PublicKey(secret)) % Curve \in {(8 * point) % Curve, (8 * Negated(point)) % Curve}}
-----------------------------------------------------------------------------
\* check_ed25519_identity: the first clause that fails, in this order.
CheckTorsionAllowed(bytes) ==
  IF ~OnCurve(bytes) THEN "NotOnCurve"
  ELSE IF Compress(Point(bytes)) # bytes THEN "NotCanonical"
  ELSE IF SmallOrder(Point(bytes)) THEN "SmallOrder"
  ELSE "Ok"
CheckAnyEncoding(bytes) ==
  IF ~OnCurve(bytes) THEN "NotOnCurve"
  ELSE IF SmallOrder(Point(bytes)) THEN "SmallOrder"
  ELSE IF ~TorsionFree(Point(bytes)) THEN "HasTorsion"
  ELSE "Ok"
CheckEd25519Identity(bytes) ==
  IF ~OnCurve(bytes) THEN "NotOnCurve"
  ELSE IF Compress(Point(bytes)) # bytes THEN "NotCanonical"
  ELSE IF SmallOrder(Point(bytes)) THEN "SmallOrder"
  ELSE IF ~TorsionFree(Point(bytes)) THEN "HasTorsion"
  ELSE "Ok"

(* Text is a tag and a body: how the body is spelled, and the bytes its letters *)
(* are the base32 of.  A "fold" spelling has a letter outside ASCII that Unicode*)
(* would fold onto one of base32's.                                             *)
KeyTexts ==
  [tag : {"ed01", "ED01", "other", "short"},
   body : {"lower", "upper", "fold", "garbled", "long"}, bytes : Bytes]
Display(bytes) == [tag |-> "ed01", body |-> "lower", bytes |-> bytes]

\* VerifyKey::from_str, with decode_base32.
DecodesFolded(t) == t.body # "garbled"
Decodes(t) == t.body \notin {"fold", "garbled"}
FromStr(t) ==
  IF t.tag = "short" THEN "TooShort"
  ELSE IF t.tag = "other" THEN "UnknownSuite"
  ELSE IF ~Decodes(t) THEN "BadEncoding"
  ELSE IF t.body = "long" THEN "WrongLength"
  ELSE CheckEd25519Identity(t.bytes)

\* What try_new makes a key of.
Keys == {bytes \in Bytes : CheckEd25519Identity(bytes) = "Ok"}

KeyInit == text = {} /\ answer = "unread"
ReadKey(t) == text' = {t} /\ answer' = FromStr(t)
-----------------------------------------------------------------------------
(* Properties.                                                             *)

\* The keys are exactly those that a secret has, and each has one text but for ASCII
\* case: text parses only if it is that of some secret's public half, and every such
\* text does.  A key compared, looked up or typed in again by its text is not two.
SameText(one, other) ==
  /\ one.tag \in {"ed01", "ED01"} /\ one.body \in {"lower", "upper"}
  /\ one.bytes = other.bytes
KeysAreHeld ==
  \A t \in text :
    answer = "Ok" <=>
      \E secret \in Secrets : SameText(t, Display(Compress(PublicKey(secret))))

\* Who can sign for a key can sign for its negation, which is another key, and for
\* no third one.  (No torsioned twin: Gate::sign_twin has one twin to look up.)
SharesAHolder(one, other) == Signers(Point(one)) \cap Signers(Point(other)) # {}
OneHolderTwoKeys ==
  \A t \in text : answer = "Ok" =>
    {key \in Keys : SharesAHolder(key, t.bytes)} = {t.bytes, Negated(t.bytes)}
=============================================================================
