------------------------------ MODULE Normalise ------------------------------
(***************************************************************************)
(* pipeline/normalize.py: a source-native RawProduct becomes a canonical   *)
(* product and a price observation, or is rejected.                        *)
(*                                                                         *)
(* A raw price is a whole number or one of two that are not prices; a      *)
(* currency or a title is a member of a small set, with the function that  *)
(* says what stripping and upper-casing make of it.                        *)
(***************************************************************************)
EXTENDS Integers

Unparsable == -2   \* Decimal() raises
NotFinite  == -3   \* "NaN", "Infinity"

NotStated == ""    \* None and the empty string: both false in Python
Rejected  == "rejected"
NoAmount  == -1    \* the amount of a price that is rejected

(* Mutant: whatever parses is a price.                                     *)
AnyPrice(raw) == IF raw = Unparsable THEN NoAmount ELSE raw

ParsePrice(raw) ==
    IF raw \in {Unparsable, NotFinite} \/ raw < 0 THEN NoAmount ELSE raw

(* What strip().upper() makes of the strings with three letters; all the   *)
(* others, a blank one among them, are no currency.                        *)
IsoOf == [USD |-> "USD", usd |-> "USD", EUR |-> "EUR"]

(* A blank currency counts as stated: the default does not replace it.     *)
ResolveCurrency(raw, default) ==
    LET candidate == IF raw # NotStated THEN raw ELSE default
    IN  IF candidate \in DOMAIN IsoOf THEN IsoOf[candidate] ELSE Rejected

(* Titles differ only in that some are blank.                              *)
NormalizeTitle(title) == IF title \in {"", " "} THEN Rejected ELSE title

(* A rejection of one part rejects the item.                               *)
Mappable(raw, default) ==
    /\ ParsePrice(raw.price) # NoAmount
    /\ ResolveCurrency(raw.currency, default) # Rejected
    /\ NormalizeTitle(raw.title) # Rejected

(* The observation of a mapped item; its product is the same but for the   *)
(* price, first and last seen when it was captured.                        *)
Normalize(raw, product, at, default) ==
    [product |-> product, at |-> at,
     amount |-> ParsePrice(raw.price),
     currency |-> ResolveCurrency(raw.currency, default)]

=============================================================================
