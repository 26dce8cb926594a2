------------------------------- MODULE ReadApi -------------------------------
(***************************************************************************)
(* GET /products, GET /products/{id}/price-history (api/products.py) and   *)
(* GET /deals (api/deals.py) over the tables of Catalogue.                 *)
(*                                                                         *)
(* A request is a transaction of several statements under READ COMMITTED:  *)
(* each sees what was committed when it ran, so crawls may flush between   *)
(* two of them.  An action is a statement; the parameters of a request are *)
(* chosen by the first one that uses them.  Requests do not interact, so   *)
(* there is one thread, which answers one after the other.  The search for *)
(* a title and the wording of an answer are left out.                      *)
(***************************************************************************)
EXTENDS Catalogue, Deals

CONSTANTS
    StaleAfter,   \* sources.stale_after_seconds
    Windows,      \* the bounded windows of /price-history; that of /deals,
                  \* a setting, is any of them
    RawLimits,    \* what ?limit= may say
    MinLimit, MaxLimit   \* _MIN_LIMIT and _MAX_LIMIT

ASSUME ReadAssumption ==
    /\ StaleAfter \in [Sources -> Nat]
    /\ Windows \subseteq Nat /\ RawLimits \subseteq Int
    /\ MinLimit \in Nat /\ MaxLimit \in Nat

VARIABLES
    reader,   \* the request under way
    answer    \* what has just been answered

apiVars == <<tables, reader, answer>>

AnySource == "any"
NoSince == 0      \* the lower bound of the window "all"

NewReader == [pc |-> "idle", now |-> 0, rows |-> <<>>, deals |-> <<>>]

NoAnswer == [status |-> 0]
Problem(status) == [status |-> status]

ReadInit == Init /\ reader = NewReader /\ answer = NoAnswer

-----------------------------------------------------------------------------
ClampLimit(raw) ==
    IF raw < MinLimit THEN MinLimit ELSE IF raw > MaxLimit THEN MaxLimit ELSE raw

Selects(source, p) == source \in {AnySource, SourceOf[p]}

(* Mutant: the shortest budget of the sources decides.                     *)
StaleByShortest(asOf, thresholds, now) ==
    \E t \in thresholds : now - asOf > t

(* The freshness rule, over the longest budget of the sources in the       *)
(* answer; without any data nothing is stale.                              *)
IsStale(asOf, thresholds, now) ==
    thresholds # {} /\ \A t \in thresholds : now - asOf > t

(* max(..., default=now).                                                  *)
AsOf(times, default) ==
    IF times = {} THEN default ELSE Greatest(times)

Thresholds(ps) == {StaleAfter[SourceOf[p]] : p \in ps}

(* 200 with the entries, the time of the newest one and the stale flag;    *)
(* an entry has the product, the row and the observation it shows.         *)
Respond(kind, entries, asOf, thresholds) ==
    [status |-> 200, kind |-> kind, entries |-> entries, now |-> reader.now,
     stale |-> IsStale(asOf, thresholds, reader.now)]

(* The time of a request is read just before its first statement, with     *)
(* which it is one action; a limit or window that is not valid ends the    *)
(* request before it.                                                      *)
Begins(pc) == [NewReader EXCEPT !.pc = pc, !.now = clock]

BadRequest ==
    /\ reader.pc = "idle"
    /\ answer' = Problem(400)
    /\ UNCHANGED <<tables, reader>>

Reply(response) == reader' = NewReader /\ answer' = response

-----------------------------------------------------------------------------
(* GET /products: first the rows, the latest seen first ...                *)
SeenBefore(p, q) ==
    \/ products[p].lastSeen > products[q].lastSeen
    \/ products[p].lastSeen = products[q].lastSeen /\ p < q

RowOf(p) == [product |-> p, row |-> products[p]]

Rows(source, limit) ==
    LET found == {p \in Products : Listed(p) /\ Selects(source, p)}
        first == Take(Sorted(found, SeenBefore), limit)
    IN  [i \in DOMAIN first |-> RowOf(first[i])]

ListRows(source, raw) ==
    /\ reader.pc = "idle"
    /\ reader' = [Begins("joining") EXCEPT
                    !.rows = Rows(source, ClampLimit(raw))]
    /\ answer' = NoAnswer
    /\ UNCHANGED tables

(* ... then the newest observation of each (DISTINCT ON), if there is one. *)
NoPrice == [at |-> 0]

(* Mutant: the order of DISTINCT ON is not descending.                     *)
OldestForMany(p) == CHOOSE o \in Of(p) : \A q \in Of(p) : o.at <= q.at

LatestForMany(p) == IF Of(p) = {} THEN NoPrice ELSE Latest(Of(p))

ListProducts ==
    LET rows == Range(reader.rows)
        data == {[product |-> r.product, row |-> r.row,
                  shown |-> LatestForMany(r.product)] : r \in rows}
    IN  /\ reader.pc = "joining"
        /\ Reply(Respond("products", data,
                         AsOf({r.row.lastSeen : r \in rows}, reader.now),
                         Thresholds({r.product : r \in rows})))
        /\ UNCHANGED tables

(* GET /deals: the histories in the window, which are ranked at once ...   *)
HistorySince(source, since) ==
    LET found == {o \in observed : Selects(source, o.product)
                                    /\ o.at >= since}
    IN  [p \in {o.product : o \in found} |-> {o \in found : o.product = p}]

ReadHistories(source, window, raw) ==
    /\ reader.pc = "idle"
    /\ reader' = [Begins("fetching") EXCEPT
                    !.deals = RankDeals(HistorySince(source, clock - window),
                                        ClampLimit(raw))]
    /\ answer' = NoAnswer
    /\ UNCHANGED tables

(* ... then the rows of the products; a deal without a row is skipped.     *)
ListDeals ==
    LET deals == Range(reader.deals)
        found == {d \in deals : Listed(d.product)}
        data  == {[product |-> d.product, row |-> products[d.product],
                   shown |-> d.current] : d \in found}
    IN  /\ reader.pc = "fetching"
        /\ Reply(Respond("deals", data,
                         AsOf({d.current.at : d \in deals}, reader.now),
                         Thresholds({d.product : d \in found})))
        /\ UNCHANGED tables

(* GET /products/{id}/price-history: 404 without a row ...                 *)
GetProduct(p) ==
    /\ reader.pc = "idle"
    /\ IF Listed(p)
       THEN /\ reader' = [Begins("charting") EXCEPT !.rows = <<RowOf(p)>>]
            /\ answer' = NoAnswer
       ELSE Reply(Problem(404))
    /\ UNCHANGED tables

(* ... then the series in the window; last_seen_at dates an empty one.     *)
PriceHistory(since) ==
    LET r      == reader.rows[1]
        points == {o \in Of(r.product) : o.at >= since}
        data   == {[product |-> r.product, row |-> r.row, shown |-> o] : o \in points}
    IN  /\ reader.pc = "charting"
        /\ Reply(Respond("history", data,
                         AsOf({o.at : o \in points}, r.row.lastSeen),
                         Thresholds({r.product})))
        /\ UNCHANGED tables

Read ==
    \/ BadRequest
    \/ \E source \in Sources \cup {AnySource}, raw \in RawLimits :
        \/ ListRows(source, raw)
        \/ \E window \in Windows : ReadHistories(source, window, raw)
    \/ \E p \in Products : GetProduct(p)
    \/ \E window \in Windows : PriceHistory(reader.now - window)
    \/ PriceHistory(NoSince)
    \/ ListProducts \/ ListDeals

ReadNext == (Next /\ UNCHANGED reader /\ answer' = NoAnswer) \/ Read

ReadSpec == ReadInit /\ [][ReadNext]_apiVars

-----------------------------------------------------------------------------
(***************************************************************************)
(* What must hold.                                                         *)
(***************************************************************************)

(* A table and its reader, read at different moments, still fit: a product *)
(* in a list has a price, captured no earlier than the last_seen_at shown  *)
(* beside it; a deal finds its row, which is no older than its price; the  *)
(* whole history of a product that has a row is never empty and reaches    *)
(* its last_seen_at.  (FR-13: prices carry their freshness.)               *)
AnswerCoherent ==
    /\ reader.pc = "fetching" => \A d \in Range(reader.deals) : Listed(d.product)
    /\ answer.status = 200 /\ answer.kind = "products" =>
        \A e \in answer.entries : e.shown.at >= e.row.lastSeen
    /\ answer.status = 200 /\ answer.kind = "deals" =>
        \A e \in answer.entries : e.shown.at <= e.row.lastSeen
    /\ reader.pc = "charting" =>
        \E o \in Of(reader.rows[1].product) : o.at >= reader.rows[1].row.lastSeen

(* The stale flag of an answer (docs/07) never speaks against fresh data:  *)
(* under it every row of a list, deal or point was seen longer ago than    *)
(* the budget of its own source allows, even where the answer mixes        *)
(* sources with different budgets.  The flag may be missing: the newest    *)
(* row and the longest budget decide for all.                              *)
StaleIsAllStale ==
    answer.status = 200 /\ answer.stale =>
        \A e \in answer.entries :
            answer.now - (IF answer.kind = "products" THEN e.row.lastSeen
                          ELSE e.shown.at) > StaleAfter[SourceOf[e.product]]

(* The deal GET /deals finds for a product in a window, if any, and its    *)
(* drop.                                                                   *)
DealOf(p, window) ==
    ComputeDeal(p, {o \in Of(p) : o.at >= clock - window})

DropOf(deal) == IF deal = NoDeal THEN -1 ELSE deal.drop

(* Deals come and go for the causes ADR-0013 gives, in whatever order the  *)
(* observations of a product arrive.  A deal ends, or its drop shrinks,    *)
(* only when its high has left the window or a newer price has come: a     *)
(* price captured earlier and stored late does not end it.  A product      *)
(* becomes a deal, or its drop grows, only by an observation just stored   *)
(* that is the high or the current price, never by waiting.  So a price    *)
(* that rose briefly and returned is a deal until the rise leaves the      *)
(* window (ADR-0013:37), where deals.py:4-6 says it is none.               *)
DealsForCause ==
    [][\A p \in {o.product : o \in observed'}, window \in Windows :
        LET before == DealOf(p, window)
            after  == DealOf(p, window)'
            stored == {o \in observed' \ observed : o.product = p}
        IN  /\ DropOf(after) < DropOf(before) =>
                \/ before.previous.at < clock' - window
                \/ \E o \in stored : o.at > before.current.at
            /\ DropOf(after) > DropOf(before) =>
                stored \cap {after.previous, after.current} # {}]_<<observed, clock>>

=============================================================================
