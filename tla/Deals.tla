-------------------------------- MODULE Deals --------------------------------
(***************************************************************************)
(* analytics/deals.py: which products cost less than they recently did,    *)
(* judged on each product's own points, and their ranking.                 *)
(*                                                                         *)
(* A point is a record with an amount and a time.  Amounts are whole       *)
(* numbers, percentages hundredths of one per cent, so that the rounding   *)
(* to two digits that comes before the threshold is kept; no two points of *)
(* a product have the same time.                                           *)
(***************************************************************************)
EXTENDS Integers, Sequences, FiniteSets, Functions

CONSTANT MinDrop   \* ACQUIRE_DEAL_MIN_DROP_PCT, in hundredths of a per cent

ASSUME DealsAssumption == MinDrop \in Nat

NoDeal == [product |-> 0]

Latest(points) == CHOOSE p \in points : \A q \in points : q.at <= p.at

(* Mutant: the price before the latest one is the reference.               *)
Preceding(points) ==
    IF Cardinality(points) = 1 THEN Latest(points)
    ELSE Latest(points \ {Latest(points)})

(* The recent high; the most recent point at that amount.                  *)
Reference(points) ==
    CHOOSE p \in points : \A q \in points :
        q.amount < p.amount \/ (q.amount = p.amount /\ q.at <= p.at)

(* Rounded to the nearest hundredth of a per cent.                         *)
DropPct(high, current) == (20000 * (high - current) + high) \div (2 * high)

ComputeDeal(product, points) ==
    LET current   == Latest(points)
        reference == Reference(points)
        drop      == DropPct(reference.amount, current.amount)
    IN  IF \/ points = {}
           \/ reference.amount <= 0 \/ current.amount >= reference.amount
           \/ drop < MinDrop
        THEN NoDeal
        ELSE [product |-> product, drop |-> drop, since |-> reference.at,
              previous |-> reference, current |-> current]

(* The largest drop first; product ids break the ties.                     *)
Before(d, e) ==
    d.drop > e.drop \/ (d.drop = e.drop /\ d.product < e.product)

(* sorted(): the elements of a finite set in an order that has no ties.    *)
Sorted(S, Precedes(_, _)) ==
    CHOOSE s \in [1..Cardinality(S) -> S] :
        \A i, j \in DOMAIN s : i < j => Precedes(s[i], s[j])

Take(s, n) == SubSeq(s, 1, IF n < Len(s) THEN n ELSE Len(s))

RankDeals(histories, limit) ==
    LET deals == {ComputeDeal(p, histories[p]) : p \in DOMAIN histories}
    IN  Take(Sorted(deals \ {NoDeal}, Before), limit)

=============================================================================
