------------------------------ MODULE Catalogue ------------------------------
(***************************************************************************)
(* The two tables a crawl fills and the API reads: products, an upserted   *)
(* projection, and price_observations, the append-only series              *)
(* (storage/repositories.py), and the crawl processes that capture items   *)
(* and later flush them, one transaction each (pipeline/persistence.py).   *)
(*                                                                         *)
(* The time of an item is that of its capture, while the transactions of   *)
(* two crawls of a source may commit in any order.  CrawlRuns has the      *)
(* gates, the baselines and the ledger; here a crawl may stop anywhere.    *)
(***************************************************************************)
EXTENDS Normalise, Sequences, FiniteSets

CONSTANTS
    Products,    \* canonical product ids, numbered in their order
    Sources,
    SourceOf,    \* the source of a product
    DefaultOf,   \* crawl_policy.default_currency of a source
    Writers,     \* bound: the crawls
    Earlier,     \* the series earlier crawls may have left
    RawItems,    \* what an extractor may yield for an entry
    MaxTime      \* bound: ticks of the clock

Observation == [product : Products, at : 1..MaxTime,
                amount : Nat, currency : {"USD", "EUR"}]

(* What an extractor states as a price is a number or one of the two that  *)
(* are no prices; an earlier series has what the pipeline stores, and a    *)
(* product no two prices at a time.                                        *)
ASSUME CatalogueAssumption ==
    /\ Products \subseteq Nat \ {0} /\ IsFiniteSet(Products)
    /\ SourceOf \in [Products -> Sources]
    /\ Earlier \subseteq SUBSET Observation
    /\ \A series \in Earlier :
        /\ IsFiniteSet(series)
        /\ \A o, q \in series : o.product = q.product /\ o.at = q.at => o = q
    /\ \A raw \in RawItems : raw.price \in Int
    /\ MaxTime \in Nat

VARIABLES
    products,    \* the projection; absent rows are NoRow
    observed,    \* price_observations
    writer,      \* the crawl processes
    clock,
    overlapped   \* sources two crawls of which overlapped (history)

tables == <<products, observed, writer, clock, overlapped>>

NoRow == [firstSeen |-> 0, lastSeen |-> 0, described |-> 0]

NoWriter == [pc |-> "none", source |-> "none", buffer |-> <<>>]

Gone == [NoWriter EXCEPT !.pc = "gone"]

Newest(s, t) == IF s < t THEN t ELSE s

(* Crawls that did not overlap have left a series, and the rows it implies.*)
TimesOf(series, p) == {o.at : o \in {q \in series : q.product = p}}

Greatest(times) == CHOOSE t \in times : \A u \in times : u <= t
Least(times)    == CHOOSE t \in times : \A u \in times : t <= u

RowFrom(times) ==
    IF times = {} THEN NoRow
    ELSE [firstSeen |-> Least(times), lastSeen |-> Greatest(times),
          described |-> Greatest(times)]

Init ==
    /\ observed \in Earlier
    /\ products   = [p \in Products |-> RowFrom(TimesOf(observed, p))]
    /\ writer     = [w \in Writers |-> NoWriter]
    /\ clock      = Greatest({0} \cup {o.at : o \in observed})
    /\ overlapped = {}

Listed(p) == products[p] # NoRow

Working(w) == writer[w].pc \in {"crawling", "flushing"}

-----------------------------------------------------------------------------
(* open_spider(): a run of a source begins.                                *)
OpenSpider(w, s) ==
    /\ writer[w].pc = "none"
    /\ writer' = [writer EXCEPT ![w] = [NoWriter EXCEPT !.pc = "crawling",
                                                         !.source = s]]
    /\ overlapped' =
        IF \E v \in Writers : Working(v) /\ writer[v].source = s
        THEN overlapped \cup {s} ELSE overlapped
    /\ UNCHANGED <<products, observed, clock>>

(* An item the normalising stage maps, and that is no duplicate of the run *)
(* (nor dropped by a gate), is stamped and buffered; one that is rejected  *)
(* leaves no trace here.                                                   *)
Buffered(w, p) == \E i \in DOMAIN writer[w].buffer :
                    writer[w].buffer[i].product = p

ProcessItem(w, p, raw) ==
    LET default == DefaultOf[SourceOf[p]] IN
    /\ writer[w].pc = "crawling"
    /\ writer[w].source = SourceOf[p]
    /\ clock < MaxTime
    /\ Mappable(raw, default)
    /\ ~Buffered(w, p)
    /\ clock' = clock + 1
    /\ writer' = [writer EXCEPT ![w].buffer =
                    Append(@, Normalize(raw, p, clock + 1, default))]
    /\ UNCHANGED <<products, observed, overlapped>>

(* close_spider(): the flush begins.                                       *)
CloseSpider(w) ==
    /\ writer[w].pc = "crawling"
    /\ writer[w].buffer # <<>>
    /\ writer' = [writer EXCEPT ![w].pc = "flushing"]
    /\ UNCHANGED <<products, observed, clock, overlapped>>

(* Mutants: the last writer sets last_seen_at; on conflict do nothing.     *)
UpsertLastWriter(row, at) ==
    [firstSeen |-> IF row = NoRow THEN at ELSE row.firstSeen,
     lastSeen |-> at, described |-> at]

UpsertNothing(row, at) ==
    IF row = NoRow THEN [firstSeen |-> at, lastSeen |-> at, described |-> at]
    ELSE [row EXCEPT !.lastSeen = Newest(@, at)]

(* ProductRepository.upsert(): "described" is the capture the title and    *)
(* the other descriptive fields come from, those of whoever writes last.   *)
Upserted(row, at) ==
    IF row = NoRow THEN [firstSeen |-> at, lastSeen |-> at, described |-> at]
    ELSE [row EXCEPT !.lastSeen = Newest(@, at), !.described = at]

(* The crawl once the first observation of its buffer is stored.           *)
Flushed(c) == IF Len(c.buffer) = 1 THEN Gone
              ELSE [c EXCEPT !.buffer = Tail(@)]

(* One transaction: upsert the product, append the observation.            *)
FlushItem(w) ==
    LET item == Head(writer[w].buffer) IN
    /\ writer[w].pc = "flushing"
    /\ products' = [products EXCEPT
                        ![item.product] = Upserted(@, item.at)]
    /\ observed' = observed \cup {item}
    /\ writer' = [writer EXCEPT ![w] = Flushed(@)]
    /\ UNCHANGED <<clock, overlapped>>

(* A quarantine, a failed transaction or the death of the process: what is *)
(* still in the buffer is never written.                                   *)
StopWriter(w) ==
    /\ Working(w)
    /\ writer' = [writer EXCEPT ![w] = Gone]
    /\ UNCHANGED <<products, observed, clock, overlapped>>

TimePasses ==
    /\ clock < MaxTime
    /\ clock' = clock + 1
    /\ UNCHANGED <<products, observed, writer, overlapped>>

Write(w) ==
    \/ \E s \in Sources : OpenSpider(w, s)
    \/ \E p \in Products, raw \in RawItems : ProcessItem(w, p, raw)
    \/ CloseSpider(w) \/ FlushItem(w) \/ StopWriter(w)

Next == TimePasses \/ \E w \in Writers : Write(w)

Spec == Init /\ [][Next]_tables

-----------------------------------------------------------------------------
(***************************************************************************)
(* What must hold.                                                         *)
(***************************************************************************)

Row == [firstSeen : 0..MaxTime, lastSeen : 0..MaxTime, described : 0..MaxTime]

Crawl == [pc : {"none", "crawling", "flushing", "gone"},
          source : Sources \cup {"none"}, buffer : Seq(Observation)]

(* Every variable keeps its type: no amount is negative or no number, no   *)
(* currency is anything but an ISO code (docs/03: "never silently stored").*)
TypeOK ==
    /\ products \in [Products -> Row]
    /\ observed \subseteq Observation
    /\ writer \in [Writers -> Crawl]
    /\ clock \in 0..MaxTime
    /\ overlapped \subseteq Sources

Of(p) == {o \in observed : o.product = p}

NewestOf(p, t) == (\E o \in Of(p) : o.at = t) /\ \A o \in Of(p) : o.at <= t
OldestOf(p, t) == (\E o \in Of(p) : o.at = t) /\ \A o \in Of(p) : o.at >= t

(* The projection can be rebuilt from the series (docs/03 2.2): a product  *)
(* has a row if and only if it has observations, and last_seen_at is the   *)
(* newest of them, in whatever order the crawls commit and wherever they   *)
(* stop.                                                                   *)
LastSeenIsNewest ==
    \A p \in Products : /\ Listed(p) <=> Of(p) # {}
                        /\ Listed(p) => NewestOf(p, products[p].lastSeen)

(* first_seen_at and the descriptive fields do not take the greater or the *)
(* smaller of two times: they are the oldest and the newest only where the *)
(* crawls of the source never overlapped.                                  *)
RowTrueAlone ==
    \A p \in Products : Listed(p) /\ SourceOf[p] \notin overlapped =>
        /\ OldestOf(p, products[p].firstSeen)
        /\ NewestOf(p, products[p].described)

=============================================================================
