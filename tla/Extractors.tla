----------------------------- MODULE Extractors -----------------------------
(***************************************************************************)
(* acquisition/sources/: what the three kinds of extractor make of an      *)
(* answer that passed the ban gate - the entries they count, the entries   *)
(* they map to a RawProduct, and the next page they ask for.               *)
(*                                                                         *)
(* A content is what parse() can see of an answer: whether it is the       *)
(* expected envelope, its entries with the required fields each of them    *)
(* states, and the cursor it ends with.  Fields that only decorate a       *)
(* product (brand, stock, image, link) are left out.                       *)
(***************************************************************************)
EXTENDS Naturals, FiniteSets

CONSTANT Items  \* the products a shop may list, numbered in its order

ASSUME ItemsAssumption == IsFiniteSet(Items) /\ Items \subseteq Nat \ {0}

Kinds == {"rest", "graphql", "html"}

(* The cursor before the first product, and the one of a last page.        *)
NoCursor == 0

RequiredFields == {"id", "title", "price"}

Content == [envelope : BOOLEAN,
            entries  : SUBSET Items,
            stated   : [Items -> SUBSET RequiredFields],
            end      : Items \cup {NoCursor}]

(* _extract_product_list(), _extract_connection(), the card selector: an   *)
(* answer of another shape has no entries.                                 *)
Seen(content) == IF content.envelope THEN content.entries ELSE {}

(* _to_raw_product(), _card_to_raw(): an entry without a required field is *)
(* skipped, never completed.                                               *)
ToRawProduct(content, i) == RequiredFields \subseteq content.stated[i]

Mapped(content) == {i \in Seen(content) : ToRawProduct(content, i)}

(* Mutant: an empty page is followed too.                                  *)
FollowsAny(kind, content) ==
    /\ content.envelope
    /\ kind = "rest" \/ (kind = "graphql" /\ content.end # NoCursor)

(* Mutant: a page of which nothing maps is taken for the last one.         *)
FollowsWhileMapped(kind, content) ==
    /\ Mapped(content) # {}
    /\ kind = "rest" \/ (kind = "graphql" /\ content.end # NoCursor)

(* Whether parse() yields a request: a REST page that is not empty, a      *)
(* connection that says there is more and where; a listing never.          *)
Follows(kind, content) ==
    \/ kind = "rest" /\ Seen(content) # {}
    \/ kind = "graphql" /\ content.envelope /\ content.end # NoCursor

=============================================================================
