--------------------------- MODULE ReadApiProofs ---------------------------
(***************************************************************************)
(* The two tables and the answers read from them, for every value of the   *)
(* constants: any set of products, sources and crawls, any series an       *)
(* earlier crawl may have left, and any length of time.                    *)
(***************************************************************************)
EXTENDS ReadApi, SetLemmas, SequenceTheorems

-----------------------------------------------------------------------------
(***************************************************************************)
(* The tables (Catalogue).                                                 *)
(***************************************************************************)

(* What the pipeline stores of a mapped item is an observation: an amount  *)
(* that is a number and not negative, an ISO currency.                     *)
LEMMA NormalizeType ==
    ASSUME NEW raw \in RawItems, NEW p \in Products, NEW at \in 1..MaxTime,
           NEW default, Mappable(raw, default)
    PROVE  /\ Normalize(raw, p, at, default) \in Observation
           /\ Normalize(raw, p, at, default).product = p
           /\ Normalize(raw, p, at, default).at = at
<1>1. ParsePrice(raw.price) \in Nat
  <2>1. raw.price \in Int
    BY CatalogueAssumption
  <2> QED BY <2>1 DEF Mappable, ParsePrice, NoAmount
<1>2. ResolveCurrency(raw.currency, default) \in {"USD", "EUR"}
  BY DEF Mappable, ResolveCurrency, IsoOf, Rejected
<1> QED BY <1>1, <1>2 DEF Normalize, Observation

(* The times of a series have a least and a greatest element.              *)
LEMMA Extremes ==
    ASSUME NEW times \in SUBSET Nat, times # {},
           \A t \in times : t <= MaxTime
    PROVE  /\ Greatest(times) \in times /\ \A t \in times : t <= Greatest(times)
           /\ Least(times) \in times /\ \A t \in times : Least(times) <= t
<1>1. \E m \in times : \A t \in times : t <= m
  BY GreatestElement, CatalogueAssumption
<1>2. \E m \in times : \A t \in times : m <= t
  BY LeastElement
<1> QED BY <1>1, <1>2 DEF Greatest, Least

(* A new row or an old one that is seen again is a row.                    *)
LEMMA UpsertedType ==
    ASSUME NEW row \in Row, NEW at \in 1..MaxTime
    PROVE  /\ Upserted(row, at) \in Row
           /\ Upserted(row, at) # NoRow
           /\ Upserted(row, at).described = at
           /\ Upserted(row, at).lastSeen =
                IF row = NoRow THEN at ELSE Newest(row.lastSeen, at)
           /\ Upserted(row, at).firstSeen =
                IF row = NoRow THEN at ELSE row.firstSeen
<1>1. /\ at \in 0..MaxTime /\ at # 0
      /\ row.firstSeen \in 0..MaxTime /\ row.lastSeen \in 0..MaxTime
  BY CatalogueAssumption DEF Row
<1>2. Newest(row.lastSeen, at) \in 0..MaxTime
  BY <1>1 DEF Newest
<1>3. row = [firstSeen |-> row.firstSeen, lastSeen |-> row.lastSeen,
             described |-> row.described]
  BY DEF Row
<1>4. Upserted(row, at) =
        [firstSeen |-> IF row = NoRow THEN at ELSE row.firstSeen,
         lastSeen |-> IF row = NoRow THEN at ELSE Newest(row.lastSeen, at),
         described |-> at]
  BY <1>3 DEF Upserted
<1> QED BY <1>1, <1>2, <1>4 DEF Row, NoRow

LEMMA InitTables ==
    ASSUME Init
    PROVE  /\ observed \subseteq Observation
           /\ clock \in 0..MaxTime /\ \A o \in observed : o.at <= clock
           /\ \A p \in Products :
                /\ Of(p) = {} => products[p] = NoRow
                /\ Of(p) # {} =>
                    /\ products[p] \in Row /\ products[p] # NoRow
                    /\ NewestOf(p, products[p].lastSeen)
                    /\ NewestOf(p, products[p].described)
                    /\ OldestOf(p, products[p].firstSeen)
<1>0. MaxTime \in Nat
  BY CatalogueAssumption
<1>1. observed \subseteq Observation
  BY CatalogueAssumption DEF Init
<1>2. \A o \in observed : o.at \in 1..MaxTime
  BY <1>1 DEF Observation
<1>3. clock \in 0..MaxTime /\ \A o \in observed : o.at <= clock
  <2> DEFINE times == {0} \cup {o.at : o \in observed}
  <2>1. times \in SUBSET Nat /\ times # {} /\ \A t \in times : t <= MaxTime
    BY <1>0, <1>2
  <2>2. clock = Greatest(times)
    BY DEF Init
  <2>3. \A o \in observed : o.at \in times
    OBVIOUS
  <2>4. clock \in times /\ \A t \in times : t <= clock
    <3> HIDE DEF times
    <3> QED BY <2>1, <2>2, Extremes
  <2> QED BY <1>0, <2>1, <2>3, <2>4
<1>4. ASSUME NEW p \in Products
      PROVE  /\ Of(p) = {} => products[p] = NoRow
             /\ Of(p) # {} =>
                    /\ products[p] \in Row /\ products[p] # NoRow
                    /\ NewestOf(p, products[p].lastSeen)
                    /\ NewestOf(p, products[p].described)
                    /\ OldestOf(p, products[p].firstSeen)
  <2> DEFINE times == TimesOf(observed, p)
  <2>1. products[p] = RowFrom(times)
    BY DEF Init
  <2>2. times = {o.at : o \in Of(p)}
    BY DEF TimesOf, Of
  <2>3. /\ \A o \in Of(p) : o.at \in times
        /\ \A t \in times : \E o \in Of(p) : o.at = t
    BY <2>2
  <2>4. times \in SUBSET Nat /\ \A t \in times : t \in 1..MaxTime
    BY <1>0, <1>2, <2>3 DEF Of
  <2>5. Of(p) = {} => products[p] = NoRow
    BY <2>1, <2>2 DEF RowFrom
  <2>6. ASSUME Of(p) # {}
        PROVE  /\ products[p] \in Row /\ products[p] # NoRow
               /\ NewestOf(p, products[p].lastSeen)
               /\ NewestOf(p, products[p].described)
               /\ OldestOf(p, products[p].firstSeen)
    <3>1. times # {}
      BY <2>3, <2>6
    <3>2. /\ Greatest(times) \in times
          /\ \A t \in times : t <= Greatest(times)
          /\ Least(times) \in times
          /\ \A t \in times : Least(times) <= t
      <4> HIDE DEF times
      <4> QED BY <3>1, <2>4, Extremes
    <3>3. products[p] = [firstSeen |-> Least(times),
                         lastSeen |-> Greatest(times),
                         described |-> Greatest(times)]
      BY <2>1, <3>1 DEF RowFrom
    <3> HIDE DEF times
    <3>4. products[p] \in Row /\ products[p] # NoRow
      <4>1. /\ Greatest(times) \in 1..MaxTime /\ Least(times) \in 1..MaxTime
        BY <1>0, <3>2, <2>4
      <4>2. /\ Greatest(times) \in 0..MaxTime /\ Least(times) \in 0..MaxTime
            /\ Least(times) # 0
        BY <1>0, <4>1
      <4> QED BY <4>2, <3>3 DEF Row, NoRow
    <3>5. NewestOf(p, Greatest(times)) /\ OldestOf(p, Least(times))
      <4>1. \A o \in Of(p) : o.at <= Greatest(times) /\ o.at >= Least(times)
        <5> TAKE o \in Of(p)
        <5>1. o.at \in Nat /\ Least(times) \in Nat
          BY <2>3, <2>4, <3>2
        <5> QED BY <5>1, <2>3, <3>2
      <4> QED BY <4>1, <3>2, <2>3 DEF NewestOf, OldestOf
    <3> QED BY <3>3, <3>4, <3>5
  <2> QED BY <2>5, <2>6
<1> QED BY <1>1, <1>3, <1>4

(* A flush always has something to write.                                  *)
FlushHasItems ==
    \A w \in Writers : writer[w].pc = "flushing" => writer[w].buffer # <<>>

TypeInv == TypeOK /\ FlushHasItems

(* What a flush leaves of a crawl.                                         *)
LEMMA FlushedCrawl ==
    ASSUME TypeInv, NEW w \in Writers, FlushItem(w)
    PROVE  /\ Head(writer[w].buffer) \in Observation
           /\ 1 \in DOMAIN writer[w].buffer
           /\ Head(writer[w].buffer) = writer[w].buffer[1]
           /\ writer' = [writer EXCEPT ![w] = writer'[w]]
           /\ \/ Len(writer[w].buffer) = 1 /\ writer'[w] = Gone
              \/ /\ writer'[w] \in Crawl /\ writer'[w].buffer # <<>>
                 /\ writer'[w].pc = "flushing"
                 /\ writer'[w].source = writer[w].source
                 /\ writer'[w].buffer = Tail(writer[w].buffer)
<1>1. /\ writer[w] \in Crawl /\ writer[w].buffer # <<>>
      /\ writer[w].buffer \in Seq(Observation)
      /\ writer[w].pc = "flushing"
  BY DEF FlushItem, TypeInv, TypeOK, FlushHasItems, Crawl
<1>2. /\ Head(writer[w].buffer) \in Observation
      /\ Len(writer[w].buffer) \in Nat \ {0}
      /\ DOMAIN writer[w].buffer = 1..Len(writer[w].buffer)
      /\ Tail(writer[w].buffer) \in Seq(Observation)
      /\ Len(Tail(writer[w].buffer)) = Len(writer[w].buffer) - 1
  BY <1>1, HeadTailProperties, EmptySeq, LenProperties
<1>3. writer' = [writer EXCEPT ![w] = Flushed(writer[w])]
  BY DEF FlushItem
<1>4. writer'[w] = Flushed(writer[w])
  BY <1>3 DEF TypeInv, TypeOK
<1>5. ASSUME Len(writer[w].buffer) # 1
      PROVE  /\ writer'[w] \in Crawl /\ writer'[w].buffer # <<>>
             /\ writer'[w].pc = "flushing"
             /\ writer'[w].source = writer[w].source
             /\ writer'[w].buffer = Tail(writer[w].buffer)
  <2>1. writer'[w] = [writer[w] EXCEPT !.buffer = Tail(writer[w].buffer)]
    BY <1>4, <1>5 DEF Flushed
  <2>2. Tail(writer[w].buffer) # <<>>
    <3>1. Len(Tail(writer[w].buffer)) # 0
      BY <1>2, <1>5
    <3> QED BY <3>1, EmptySeq
  <2> QED BY <1>1, <1>2, <2>1, <2>2 DEF Crawl
<1>6. writer' = [writer EXCEPT ![w] = writer'[w]]
  BY <1>3, <1>4
<1> QED BY <1>1, <1>2, <1>4, <1>5, <1>6 DEF Flushed

LEMMA TypeStep == TypeInv /\ [Next]_tables => TypeInv'
<1> SUFFICES ASSUME TypeInv, [Next]_tables PROVE TypeInv'
  OBVIOUS
<1> USE DEF TypeInv
<1>1. ASSUME NEW w \in Writers, NEW s \in Sources, OpenSpider(w, s)
      PROVE  TypeInv'
  <2> DEFINE new == [NoWriter EXCEPT !.pc = "crawling", !.source = s]
  <2>2. new \in Crawl /\ new.pc = "crawling"
    BY EmptySeq DEF NoWriter, Crawl
  <2>3. writer' = [writer EXCEPT ![w] = new]
    BY <1>1 DEF OpenSpider
  <2>4. writer' \in [Writers -> Crawl] /\ FlushHasItems'
    BY <2>2, <2>3 DEF TypeOK, FlushHasItems
  <2> QED BY <1>1, <2>4 DEF OpenSpider, TypeOK, Of
<1>2. ASSUME NEW w \in Writers, NEW p \in Products, NEW raw \in RawItems,
             ProcessItem(w, p, raw)
      PROVE  TypeInv'
  <2> DEFINE item == Normalize(raw, p, clock + 1, DefaultOf[SourceOf[p]])
  <2>1. clock + 1 \in 1..MaxTime /\ clock + 1 \in 0..MaxTime
    BY <1>2, CatalogueAssumption DEF ProcessItem, TypeOK
  <2>2. item \in Observation
    BY <1>2, <2>1, NormalizeType DEF ProcessItem
  <2>3. writer[w].buffer \in Seq(Observation) /\ writer[w] \in Crawl
    BY DEF TypeOK, Crawl
  <2>4. Append(writer[w].buffer, item) \in Seq(Observation)
    BY <2>2, <2>3, AppendProperties
  <2>5. writer' = [writer EXCEPT ![w] = [writer[w] EXCEPT
                        !.buffer = Append(writer[w].buffer, item)]]
    BY <1>2 DEF ProcessItem
  <2>6. [writer[w] EXCEPT !.buffer = Append(writer[w].buffer, item)] \in Crawl
    BY <2>3, <2>4 DEF Crawl
  <2>7. writer[w].pc = "crawling"
    BY <1>2 DEF ProcessItem
  <2>8. writer' \in [Writers -> Crawl] /\ FlushHasItems'
    BY <2>3, <2>5, <2>6, <2>7 DEF TypeOK, FlushHasItems, Crawl
  <2> QED BY <1>2, <2>1, <2>8 DEF ProcessItem, TypeOK
<1>3. ASSUME NEW w \in Writers, CloseSpider(w)
      PROVE  TypeInv'
  <2>1. writer[w] \in Crawl /\ writer[w].buffer # <<>>
    BY <1>3 DEF CloseSpider, TypeOK
  <2>2. writer' = [writer EXCEPT ![w] = [writer[w] EXCEPT !.pc = "flushing"]]
    BY <1>3 DEF CloseSpider
  <2>3. writer' \in [Writers -> Crawl] /\ FlushHasItems'
    BY <2>1, <2>2 DEF TypeOK, FlushHasItems, Crawl
  <2> QED BY <1>3, <2>3 DEF CloseSpider, TypeOK
<1>4. ASSUME NEW w \in Writers, FlushItem(w)
      PROVE  TypeInv'
  <2> DEFINE item == Head(writer[w].buffer)
  <2>1. /\ item \in Observation /\ item.product \in Products
        /\ item.at \in 1..MaxTime
    BY <1>4, FlushedCrawl DEF Observation
  <2>2. products' = [products EXCEPT ![item.product] =
                        Upserted(products[item.product], item.at)]
    BY <1>4 DEF FlushItem
  <2>3. products[item.product] \in Row
    BY <2>1 DEF TypeOK
  <2>4. Upserted(products[item.product], item.at) \in Row
    BY <2>1, <2>3, UpsertedType
  <2>5. products' \in [Products -> Row]
    BY <2>1, <2>2, <2>4 DEF TypeOK
  <2>6. writer'[w] \in Crawl
        /\ (writer'[w].pc = "flushing" => writer'[w].buffer # <<>>)
    <3>1. Gone \in Crawl /\ Gone.pc = "gone"
      BY EmptySeq DEF Gone, NoWriter, Crawl
    <3> QED BY <1>4, <3>1, FlushedCrawl
  <2>7. writer' \in [Writers -> Crawl] /\ FlushHasItems'
    <3>1. writer' = [writer EXCEPT ![w] = writer'[w]]
      BY <1>4, FlushedCrawl
    <3> QED BY <2>6, <3>1 DEF TypeOK, FlushHasItems
  <2>8. observed' \subseteq Observation
    BY <1>4, <2>1 DEF FlushItem, TypeOK
  <2> QED BY <1>4, <2>5, <2>7, <2>8 DEF FlushItem, TypeOK
<1>5. ASSUME NEW w \in Writers, StopWriter(w)
      PROVE  TypeInv'
  <2>1. Gone \in Crawl /\ Gone.pc = "gone"
    BY EmptySeq DEF Gone, NoWriter, Crawl
  <2>2. writer' \in [Writers -> Crawl] /\ FlushHasItems'
    BY <1>5, <2>1 DEF StopWriter, TypeOK, FlushHasItems
  <2> QED BY <1>5, <2>2 DEF StopWriter, TypeOK
<1>6. CASE TimePasses
  BY <1>6, CatalogueAssumption DEF TimePasses, TypeOK, FlushHasItems
<1>7. CASE UNCHANGED tables
  BY <1>7 DEF tables, TypeOK, FlushHasItems
<1> QED BY <1>1, <1>2, <1>3, <1>4, <1>5, <1>6, <1>7 DEF Next, Write

LEMMA TypeInit == Init => TypeInv
<1> SUFFICES ASSUME Init PROVE TypeInv
  OBVIOUS
<1>1. /\ observed \subseteq Observation /\ clock \in 0..MaxTime
      /\ \A p \in Products : products[p] = NoRow \/ products[p] \in Row
  BY InitTables
<1>2. NoRow \in Row
  BY CatalogueAssumption DEF NoRow, Row
<1>3. products \in [Products -> Row]
  BY <1>1, <1>2 DEF Init
<1>4. NoWriter \in Crawl /\ NoWriter.pc = "none"
  BY EmptySeq DEF NoWriter, Crawl
<1>5. writer = [w \in Writers |-> NoWriter] /\ overlapped = {}
  BY DEF Init
<1> QED BY <1>1, <1>3, <1>4, <1>5 DEF TypeInv, TypeOK, FlushHasItems

LEMMA TypeInvariant == Spec => []TypeInv
BY TypeInit, TypeStep, PTL DEF Spec

(* Every variable of the tables and of the crawls keeps its type, and no   *)
(* amount that is negative or no number is ever stored.                    *)
THEOREM TypeCorrect == Spec => []TypeOK
<1>1. TypeInv => TypeOK
  BY DEF TypeInv
<1> QED BY <1>1, TypeInvariant, PTL

-----------------------------------------------------------------------------
(***************************************************************************)
(* last_seen_at.                                                           *)
(***************************************************************************)

(* A flush adds one observation to one series and upserts one row.         *)
LEMMA FlushedTables ==
    ASSUME TypeInv, NEW w \in Writers, FlushItem(w)
    PROVE  \E item \in Observation :
            /\ item = Head(writer[w].buffer)
            /\ item.product \in Products /\ item.at \in 1..MaxTime
            /\ products[item.product] \in Row
            /\ products'[item.product] =
                    Upserted(products[item.product], item.at)
            /\ Of(item.product)' = Of(item.product) \cup {item}
            /\ \A p \in Products \ {item.product} :
                products'[p] = products[p] /\ Of(p)' = Of(p)
<1>1. PICK item \in Observation : item = Head(writer[w].buffer)
  BY FlushedCrawl
<1>2. item.product \in Products /\ item.at \in 1..MaxTime
  BY DEF Observation
<1>3. products[item.product] \in Row
  BY <1>2 DEF TypeInv, TypeOK
<1>4. /\ products' = [products EXCEPT ![item.product] =
                        Upserted(products[item.product], item.at)]
      /\ observed' = observed \cup {item}
  BY <1>1 DEF FlushItem
<1>5. /\ products'[item.product] = Upserted(products[item.product], item.at)
      /\ \A p \in Products \ {item.product} : products'[p] = products[p]
  BY <1>2, <1>4 DEF TypeInv, TypeOK
<1>6. /\ Of(item.product)' = Of(item.product) \cup {item}
      /\ \A p \in Products \ {item.product} : Of(p)' = Of(p)
  BY <1>4 DEF Of
<1> QED BY <1>1, <1>2, <1>3, <1>5, <1>6

(* The other steps write neither table.                                    *)
LEMMA OnlyFlushWrites ==
    ASSUME [Next]_tables, \A w \in Writers : ~FlushItem(w)
    PROVE  UNCHANGED <<products, observed>>
BY DEF Next, Write, tables, TimePasses, OpenSpider, ProcessItem, CloseSpider,
       StopWriter

LEMMA LastSeenStep ==
    TypeInv /\ LastSeenIsNewest /\ [Next]_tables => LastSeenIsNewest'
<1> SUFFICES ASSUME TypeInv, LastSeenIsNewest, [Next]_tables
             PROVE  LastSeenIsNewest'
  OBVIOUS
<1>1. CASE \A w \in Writers : ~FlushItem(w)
  BY <1>1, OnlyFlushWrites
     DEF LastSeenIsNewest, Listed, NewestOf, Of
<1>2. ASSUME NEW w \in Writers, FlushItem(w)
      PROVE  LastSeenIsNewest'
  <2>1. PICK item \in Observation :
            /\ item.product \in Products /\ item.at \in 1..MaxTime
            /\ products[item.product] \in Row
            /\ products'[item.product] =
                    Upserted(products[item.product], item.at)
            /\ Of(item.product)' = Of(item.product) \cup {item}
            /\ \A p \in Products \ {item.product} :
                products'[p] = products[p] /\ Of(p)' = Of(p)
    BY <1>2, FlushedTables
  <2>2. ASSUME NEW p \in Products, p # item.product
        PROVE  /\ (Listed(p) <=> Of(p) # {})'
               /\ (Listed(p) => NewestOf(p, products[p].lastSeen))'
    BY <2>1, <2>2 DEF LastSeenIsNewest, Listed, NewestOf
  <2>3. /\ Listed(item.product)'
        /\ NewestOf(item.product, products[item.product].lastSeen)'
    <3> DEFINE q == item.product
               row == products[q]
    <3>1. /\ products'[q] # NoRow
          /\ products'[q].lastSeen =
                IF row = NoRow THEN item.at ELSE Newest(row.lastSeen, item.at)
      BY <2>1, UpsertedType
    <3>2. /\ row = NoRow => Of(q) = {}
          /\ row # NoRow => NewestOf(q, row.lastSeen)
      BY <2>1 DEF LastSeenIsNewest, Listed
    <3>3. \A o \in Of(q) : o.at \in Nat
      BY DEF Of, TypeInv, TypeOK, Observation
    <3>4. row.lastSeen \in Nat /\ item.at \in Nat
      BY <2>1 DEF Row
    <3> HIDE DEF row, q
    <3>5. CASE row = NoRow
      <4>1. products'[q].lastSeen = item.at /\ Of(q)' = {item}
        BY <3>1, <3>2, <3>5, <2>1 DEF q
      <4>2. /\ \E o \in Of(q)' : o.at = item.at
            /\ \A o \in Of(q)' : o.at <= item.at
        BY <4>1, <3>4
      <4> QED BY <4>1, <4>2, <3>1 DEF Listed, NewestOf, q
    <3>6. CASE row # NoRow
      <4>1. /\ products'[q].lastSeen = Newest(row.lastSeen, item.at)
            /\ Of(q)' = Of(q) \cup {item}
        BY <3>1, <3>6, <2>1 DEF q
      <4>2. /\ \E o \in Of(q)' : o.at = Newest(row.lastSeen, item.at)
            /\ \A o \in Of(q)' : o.at <= Newest(row.lastSeen, item.at)
        BY <4>1, <3>2, <3>3, <3>4, <3>6 DEF NewestOf, Newest
      <4> QED BY <4>1, <4>2, <3>1 DEF Listed, NewestOf, q
    <3> QED BY <3>5, <3>6
  <2>4. Of(item.product)' # {}
    BY <2>1
  <2> QED BY <2>2, <2>3, <2>4 DEF LastSeenIsNewest
<1> QED BY <1>1, <1>2

(* A product has a row exactly when it has observations, and last_seen_at  *)
(* is the newest of them, in whatever order any number of crawls commit    *)
(* and wherever they stop.                                                 *)
THEOREM LastSeenCorrect == Spec => []LastSeenIsNewest
<1>1. Init => LastSeenIsNewest
  <2> SUFFICES ASSUME Init PROVE LastSeenIsNewest
    OBVIOUS
  <2> QED BY InitTables DEF LastSeenIsNewest, Listed
<1> QED BY <1>1, LastSeenStep, TypeInvariant, PTL DEF Spec

-----------------------------------------------------------------------------
(***************************************************************************)
(* first_seen_at and the descriptive fields, of sources whose crawls do    *)
(* not overlap.                                                            *)
(***************************************************************************)

(* Nothing is captured in the future, and a crawl captures its items one   *)
(* after the other.                                                        *)
PastOnly == \A o \in observed : o.at <= clock

BuffersOrdered ==
    \A w \in Writers : \A i \in DOMAIN writer[w].buffer :
        /\ writer[w].buffer[i].at <= clock
        /\ SourceOf[writer[w].buffer[i].product] = writer[w].source
        /\ \A j \in DOMAIN writer[w].buffer :
            i < j => writer[w].buffer[i].at < writer[w].buffer[j].at

(* Of a source that was never overlapped one crawl is at work ...          *)
OneCrawl ==
    \A v, w \in Writers :
        /\ Working(v) /\ Working(w) /\ v # w
        /\ writer[v].source = writer[w].source
        => writer[v].source \in overlapped

(* ... and what is stored of its products is older than what it holds.     *)
HoldsNewest(w) ==
    \A i \in DOMAIN writer[w].buffer :
        \A o \in Of(writer[w].buffer[i].product) :
            o.at < writer[w].buffer[i].at

NothingNewer ==
    \A w \in Writers :
        Working(w) /\ writer[w].source \notin overlapped => HoldsNewest(w)

OrderInv == PastOnly /\ BuffersOrdered /\ OneCrawl /\ NothingNewer

(* A new crawl: its buffer is empty.                                       *)
LEMMA OrderOpen ==
    ASSUME TypeInv, OrderInv, NEW w \in Writers, NEW s \in Sources,
           OpenSpider(w, s)
    PROVE  OrderInv'
<1> DEFINE new == [NoWriter EXCEPT !.pc = "crawling", !.source = s]
<1>1. /\ new.pc = "crawling" /\ new.source = s /\ new.buffer = <<>>
      /\ DOMAIN new.buffer = {}
  BY DEF NoWriter
<1>2. /\ writer[w].pc = "none" /\ writer' = [writer EXCEPT ![w] = new]
      /\ observed' = observed /\ clock' = clock
      /\ overlapped \subseteq overlapped'
      /\ (\E v \in Writers : Working(v) /\ writer[v].source = s)
            => s \in overlapped'
  BY DEF OpenSpider
<1> HIDE DEF new
<1>3. /\ writer'[w] = new
      /\ \A v \in Writers \ {w} : writer'[v] = writer[v]
  BY <1>2 DEF TypeInv, TypeOK
<1>4. PastOnly' /\ BuffersOrdered'
  BY <1>1, <1>2, <1>3 DEF OrderInv, PastOnly, BuffersOrdered
<1>5. OneCrawl'
  BY <1>1, <1>2, <1>3 DEF OrderInv, OneCrawl, Working
<1>6. NothingNewer'
  BY <1>1, <1>2, <1>3 DEF OrderInv, NothingNewer, HoldsNewest, Working, Of
<1> QED BY <1>4, <1>5, <1>6 DEF OrderInv

(* An item that is buffered is the newest thing captured.                  *)
LEMMA OrderProcess ==
    ASSUME TypeInv, OrderInv, NEW w \in Writers, NEW p \in Products,
           NEW raw \in RawItems, ProcessItem(w, p, raw)
    PROVE  OrderInv'
<1> DEFINE item == Normalize(raw, p, clock + 1, DefaultOf[SourceOf[p]])
           buf  == writer[w].buffer
<1>1. clock + 1 \in 1..MaxTime /\ clock \in Nat
  BY CatalogueAssumption DEF ProcessItem, TypeInv, TypeOK
<1>2. item \in Observation /\ item.product = p /\ item.at = clock + 1
  BY <1>1, NormalizeType DEF ProcessItem
<1>3. buf \in Seq(Observation)
  BY DEF TypeInv, TypeOK, Crawl
<1>4. /\ writer[w].pc = "crawling" /\ writer[w].source = SourceOf[p]
      /\ clock' = clock + 1 /\ observed' = observed
      /\ overlapped' = overlapped
  BY DEF ProcessItem
<1>5. /\ writer'[w].pc = "crawling" /\ writer'[w].source = SourceOf[p]
      /\ writer'[w].buffer = Append(buf, item)
      /\ \A v \in Writers \ {w} : writer'[v] = writer[v]
  BY <1>4 DEF ProcessItem, TypeInv, TypeOK, Crawl
<1> HIDE DEF item, buf
<1>6. /\ Len(buf) \in Nat /\ DOMAIN buf = 1..Len(buf)
      /\ DOMAIN Append(buf, item) = 1..(Len(buf) + 1)
      /\ \A i \in 1..Len(buf) : Append(buf, item)[i] = buf[i]
      /\ Append(buf, item)[Len(buf) + 1] = item
  BY <1>2, <1>3, AppendProperties, LenProperties
<1>7. /\ \A o \in observed : o.at \in Nat /\ o.at <= clock
      /\ \A i \in DOMAIN buf :
            /\ buf[i].at \in Nat /\ buf[i].at <= clock
            /\ SourceOf[buf[i].product] = SourceOf[p]
            /\ \A j \in DOMAIN buf : i < j => buf[i].at < buf[j].at
  <2>1. \A i \in DOMAIN buf : buf[i] \in Observation
    BY <1>3, <1>6, ElementOfSeq
  <2>2. \A o \in Observation : o.at \in Nat
    BY DEF Observation
  <2> QED BY <2>1, <2>2, <1>4
          DEF OrderInv, PastOnly, BuffersOrdered, TypeInv, TypeOK, buf
<1>8. PastOnly'
  BY <1>1, <1>4, <1>7 DEF PastOnly
<1>9. BuffersOrdered'
  <2>1. ASSUME NEW v \in Writers \ {w}, NEW i \in DOMAIN writer[v].buffer
        PROVE  writer[v].buffer[i].at <= clock + 1
    <3>1. writer[v].buffer \in Seq(Observation)
      BY DEF TypeInv, TypeOK, Crawl
    <3>2. writer[v].buffer[i] \in Observation
      BY <3>1, ElementOfSeq, LenProperties
    <3>3. writer[v].buffer[i].at \in Nat
      BY <3>2 DEF Observation
    <3> QED BY <3>3, <1>1 DEF OrderInv, BuffersOrdered
  <2>2. ASSUME NEW v \in Writers \ {w}, NEW i \in DOMAIN writer'[v].buffer
        PROVE  /\ writer'[v].buffer[i].at <= clock'
               /\ SourceOf[writer'[v].buffer[i].product] = writer'[v].source
               /\ \A j \in DOMAIN writer'[v].buffer :
                    i < j => writer'[v].buffer[i].at < writer'[v].buffer[j].at
    BY <2>1, <2>2, <1>4, <1>5 DEF OrderInv, BuffersOrdered
  <2>3. ASSUME NEW i \in DOMAIN Append(buf, item)
        PROVE  /\ Append(buf, item)[i].at <= clock + 1
               /\ SourceOf[Append(buf, item)[i].product] = SourceOf[p]
               /\ \A j \in DOMAIN Append(buf, item) :
                    i < j => Append(buf, item)[i].at < Append(buf, item)[j].at
    <3>1. CASE i \in 1..Len(buf)
      <4>1. Append(buf, item)[i] = buf[i] /\ i \in DOMAIN buf
        BY <1>6, <3>1
      <4>2. ASSUME NEW j \in DOMAIN Append(buf, item), i < j
            PROVE  buf[i].at < Append(buf, item)[j].at
        <5>1. CASE j = Len(buf) + 1
          BY <5>1, <4>1, <1>1, <1>2, <1>6, <1>7
        <5>2. CASE j \in 1..Len(buf)
          BY <5>2, <4>1, <4>2, <1>6, <1>7
        <5> QED BY <5>1, <5>2, <1>6
      <4> QED BY <4>1, <4>2, <1>1, <1>7
    <3>2. CASE i = Len(buf) + 1
      BY <3>2, <1>1, <1>2, <1>6
    <3> QED BY <3>1, <3>2, <1>6
  <2> QED BY <2>2, <2>3, <1>4, <1>5 DEF BuffersOrdered
<1>10. OneCrawl'
  BY <1>4, <1>5 DEF OrderInv, OneCrawl, Working
<1>11. NothingNewer'
  <2>1. \A q : Of(q)' = Of(q)
    BY <1>4 DEF Of
  <2>2. ASSUME NEW v \in Writers \ {w}, Working(v)',
               writer'[v].source \notin overlapped'
        PROVE  HoldsNewest(v)'
    BY <2>1, <2>2, <1>4, <1>5 DEF OrderInv, NothingNewer, HoldsNewest, Working
  <2>3. ASSUME writer'[w].source \notin overlapped'
        PROVE  HoldsNewest(w)'
    <3>1. HoldsNewest(w)
      BY <2>3, <1>4, <1>5 DEF OrderInv, NothingNewer, Working
    <3>2. ASSUME NEW i \in DOMAIN Append(buf, item),
                 NEW o \in Of(Append(buf, item)[i].product)
          PROVE  o.at < Append(buf, item)[i].at
      <4>1. CASE i \in 1..Len(buf)
        BY <4>1, <3>1, <1>6 DEF HoldsNewest, buf
      <4>2. CASE i = Len(buf) + 1
        <5>1. o \in observed
          BY DEF Of
        <5> QED BY <4>2, <5>1, <1>1, <1>2, <1>6, <1>7
      <4> QED BY <4>1, <4>2, <1>6
    <3> QED BY <3>2, <2>1, <1>5 DEF HoldsNewest
  <2> QED BY <2>2, <2>3 DEF NothingNewer
<1> QED BY <1>8, <1>9, <1>10, <1>11 DEF OrderInv

(* A flush takes the oldest item of its crawl.                             *)
LEMMA OrderFlush ==
    ASSUME TypeInv, OrderInv, NEW w \in Writers, FlushItem(w)
    PROVE  OrderInv'
<1> DEFINE buf == writer[w].buffer
<1>1. /\ buf \in Seq(Observation) /\ Len(buf) \in Nat
      /\ 1 \in DOMAIN buf /\ DOMAIN buf = 1..Len(buf) /\ buf # <<>>
      /\ \A i \in DOMAIN buf : buf[i] \in Observation
  <2>1. buf \in Seq(Observation) /\ 1 \in DOMAIN buf
    BY FlushedCrawl DEF TypeInv, TypeOK, Crawl
  <2>2. DOMAIN buf = 1..Len(buf) /\ Len(buf) \in Nat
    BY <2>1, LenProperties
  <2>3. buf # <<>>
    BY DEF FlushItem, TypeInv, FlushHasItems
  <2> QED BY <2>1, <2>2, <2>3, ElementOfSeq
<1>2. PICK item \in Observation :
        /\ item = buf[1] /\ item.product \in Products
        /\ Of(item.product)' = Of(item.product) \cup {item}
        /\ \A p \in Products \ {item.product} : Of(p)' = Of(p)
  BY FlushedTables, FlushedCrawl
<1>3. /\ clock' = clock /\ overlapped' = overlapped
      /\ observed' = observed \cup {item} /\ Working(w)
      /\ \A v \in Writers \ {w} : writer'[v] = writer[v]
  BY <1>2, FlushedCrawl DEF FlushItem, Working, TypeInv, TypeOK
<1>4. /\ DOMAIN writer'[w].buffer \subseteq Nat \ {0}
      /\ \A i \in DOMAIN writer'[w].buffer :
            /\ i + 1 \in DOMAIN buf /\ 1 < i + 1
            /\ writer'[w].buffer[i] = buf[i + 1]
            /\ writer'[w].source = writer[w].source
  <2>1. CASE writer'[w] = Gone
    <3>1. DOMAIN writer'[w].buffer = {}
      BY <2>1 DEF Gone, NoWriter
    <3> QED BY <3>1
  <2>2. CASE /\ writer'[w].source = writer[w].source
             /\ writer'[w].buffer = Tail(buf)
    <3>1. /\ Len(Tail(buf)) = Len(buf) - 1 /\ Tail(buf) \in Seq(Observation)
          /\ \A i \in 1..Len(Tail(buf)) : Tail(buf)[i] = buf[i + 1]
      BY <1>1, HeadTailProperties
    <3>2. DOMAIN Tail(buf) = 1..(Len(buf) - 1)
      BY <3>1, LenProperties
    <3> QED BY <3>1, <3>2, <2>2, <1>1
  <2> QED BY <2>1, <2>2, FlushedCrawl
<1>5. /\ \A i \in DOMAIN buf :
            /\ buf[i].at <= clock
            /\ SourceOf[buf[i].product] = writer[w].source
            /\ \A j \in DOMAIN buf : i < j => buf[i].at < buf[j].at
  BY DEF OrderInv, BuffersOrdered
<1> HIDE DEF buf
<1>6. PastOnly'
  BY <1>1, <1>2, <1>3, <1>5 DEF OrderInv, PastOnly
<1>7. BuffersOrdered'
  <2>1. ASSUME NEW v \in Writers \ {w}, NEW i \in DOMAIN writer'[v].buffer
        PROVE  /\ writer'[v].buffer[i].at <= clock'
               /\ SourceOf[writer'[v].buffer[i].product] = writer'[v].source
               /\ \A j \in DOMAIN writer'[v].buffer :
                    i < j => writer'[v].buffer[i].at < writer'[v].buffer[j].at
    BY <2>1, <1>3 DEF OrderInv, BuffersOrdered
  <2>2. ASSUME NEW i \in DOMAIN writer'[w].buffer
        PROVE  /\ writer'[w].buffer[i].at <= clock'
               /\ SourceOf[writer'[w].buffer[i].product] = writer'[w].source
               /\ \A j \in DOMAIN writer'[w].buffer :
                    i < j => writer'[w].buffer[i].at < writer'[w].buffer[j].at
    <3>1. ASSUME NEW j \in DOMAIN writer'[w].buffer, i < j
          PROVE  buf[i + 1].at < buf[j + 1].at
      <4>1. i + 1 < j + 1
        BY <3>1, <1>4
      <4> QED BY <4>1, <1>4, <1>5
    <3> QED BY <3>1, <1>3, <1>4, <1>5
  <2> QED BY <2>1, <2>2 DEF BuffersOrdered
<1>8. OneCrawl'
  <2>1. Working(w)' => writer'[w].source = writer[w].source
    BY FlushedCrawl DEF Working, Gone, NoWriter
  <2> QED BY <2>1, <1>3 DEF OrderInv, OneCrawl, Working
<1>9. NothingNewer'
  <2>1. ASSUME NEW v \in Writers \ {w}, Working(v)',
               writer'[v].source \notin overlapped',
               NEW i \in DOMAIN writer[v].buffer,
               NEW o \in observed', o.product = writer[v].buffer[i].product
        PROVE  o \in Of(writer[v].buffer[i].product)
    <3>1. writer'[v] = writer[v]
      BY <1>3
    <3>2. writer[v].source # writer[w].source
      BY <2>1, <1>3 DEF OrderInv, OneCrawl, Working
    <3>3. SourceOf[writer[v].buffer[i].product] # SourceOf[item.product]
      BY <3>1, <3>2, <1>1, <1>2, <1>5 DEF OrderInv, BuffersOrdered
    <3>4. writer[v].buffer[i].product \in Products
      <4>1. writer[v].buffer \in Seq(Observation)
        BY DEF TypeInv, TypeOK, Crawl
      <4>2. writer[v].buffer[i] \in Observation
        BY <4>1, <3>1, ElementOfSeq, LenProperties
      <4> QED BY <4>2 DEF Observation
    <3>5. o # item
      BY <2>1, <3>3
    <3> QED BY <3>5, <2>1, <1>3 DEF Of
  <2>2. ASSUME NEW v \in Writers \ {w}, Working(v)',
               writer'[v].source \notin overlapped'
        PROVE  HoldsNewest(v)'
    <3>1. HoldsNewest(v)
      BY <2>2, <1>3 DEF OrderInv, NothingNewer, Working
    <3>2. writer'[v] = writer[v]
      BY <1>3
    <3>3. ASSUME NEW i \in DOMAIN writer[v].buffer,
                 NEW o \in observed', o.product = writer[v].buffer[i].product
          PROVE  o.at < writer[v].buffer[i].at
      BY <3>1, <3>3, <2>1, <2>2 DEF HoldsNewest
    <3> QED BY <3>2, <3>3 DEF HoldsNewest, Of
  <2>3. ASSUME Working(w)', writer'[w].source \notin overlapped'
        PROVE  HoldsNewest(w)'
    <3> SUFFICES ASSUME NEW i \in DOMAIN writer'[w].buffer,
                        NEW o \in observed',
                        o.product = writer'[w].buffer[i].product
                 PROVE  o.at < writer'[w].buffer[i].at
      BY DEF HoldsNewest, Of
    <3>1. /\ i + 1 \in DOMAIN buf /\ 1 < i + 1
          /\ writer'[w].buffer[i] = buf[i + 1]
          /\ writer'[w].source = writer[w].source
      BY <1>4
    <3>2. HoldsNewest(w)
      BY <2>3, <3>1, <1>3 DEF OrderInv, NothingNewer
    <3>3. o \in Of(buf[i + 1].product) \/ o = item
      BY <3>1, <1>3 DEF Of
    <3>4. CASE o = item
      BY <3>4, <3>1, <1>1, <1>2, <1>5
    <3>5. CASE o \in Of(buf[i + 1].product)
      BY <3>5, <3>1, <3>2 DEF HoldsNewest, buf
    <3> QED BY <3>3, <3>4, <3>5
  <2> QED BY <2>2, <2>3 DEF NothingNewer
<1> QED BY <1>6, <1>7, <1>8, <1>9 DEF OrderInv

LEMMA OrderStep == TypeInv /\ OrderInv /\ [Next]_tables => OrderInv'
<1> SUFFICES ASSUME TypeInv, OrderInv, [Next]_tables PROVE OrderInv'
  OBVIOUS
<1>1. ASSUME NEW w \in Writers, StopWriter(w)
      PROVE  OrderInv'
  <2>1. /\ writer'[w] = Gone /\ clock' = clock /\ overlapped' = overlapped
        /\ observed' = observed
        /\ \A v \in Writers \ {w} : writer'[v] = writer[v]
    BY <1>1 DEF StopWriter, TypeInv, TypeOK
  <2>2. DOMAIN Gone.buffer = {} /\ Gone.pc = "gone"
    BY DEF Gone, NoWriter
  <2>3. ~Working(w)'
    BY <2>1, <2>2 DEF Working
  <2>4. PastOnly' /\ BuffersOrdered'
    BY <2>1, <2>2 DEF OrderInv, PastOnly, BuffersOrdered
  <2>5. OneCrawl'
    BY <2>1, <2>3 DEF OrderInv, OneCrawl, Working
  <2>6. NothingNewer'
    BY <2>1, <2>3 DEF OrderInv, NothingNewer, HoldsNewest, Working, Of
  <2> QED BY <2>4, <2>5, <2>6 DEF OrderInv
<1>2. ASSUME NEW w \in Writers, CloseSpider(w)
      PROVE  OrderInv'
  <2>1. /\ writer'[w].buffer = writer[w].buffer
        /\ writer'[w].source = writer[w].source
        /\ writer[w].pc = "crawling"
        /\ clock' = clock /\ overlapped' = overlapped
        /\ observed' = observed
        /\ \A v \in Writers \ {w} : writer'[v] = writer[v]
    BY <1>2 DEF CloseSpider, TypeInv, TypeOK, Crawl
  <2>2. Working(w)
    BY <2>1 DEF Working
  <2>3. PastOnly' /\ BuffersOrdered'
    BY <2>1 DEF OrderInv, PastOnly, BuffersOrdered
  <2>4. OneCrawl'
    BY <2>1, <2>2 DEF OrderInv, OneCrawl, Working
  <2>5. NothingNewer'
    BY <2>1, <2>2 DEF OrderInv, NothingNewer, HoldsNewest, Working, Of
  <2> QED BY <2>3, <2>4, <2>5 DEF OrderInv
<1>3. CASE TimePasses
  <2>1. /\ writer' = writer /\ clock' = clock + 1 /\ overlapped' = overlapped
        /\ observed' = observed /\ clock \in Nat
    BY <1>3, CatalogueAssumption DEF TimePasses, TypeInv, TypeOK
  <2>2. \A o \in observed : o.at \in Nat
    BY DEF TypeInv, TypeOK, Observation
  <2>3. ASSUME NEW w \in Writers, NEW i \in DOMAIN writer[w].buffer
        PROVE  writer[w].buffer[i].at \in Nat
    <3>1. writer[w].buffer \in Seq(Observation)
      BY DEF TypeInv, TypeOK, Crawl
    <3>2. writer[w].buffer[i] \in Observation
      BY <3>1, ElementOfSeq, LenProperties
    <3> QED BY <3>2 DEF Observation
  <2>4. PastOnly'
    BY <2>1, <2>2 DEF OrderInv, PastOnly
  <2>5. \A w \in Writers : \A i \in DOMAIN writer[w].buffer :
            writer[w].buffer[i].at <= clock + 1
    BY <2>1, <2>3 DEF OrderInv, BuffersOrdered
  <2>6. BuffersOrdered'
    BY <2>1, <2>5 DEF OrderInv, BuffersOrdered
  <2>7. OneCrawl' /\ NothingNewer'
    BY <2>1 DEF OrderInv, OneCrawl, NothingNewer, HoldsNewest, Working, Of
  <2> QED BY <2>4, <2>6, <2>7 DEF OrderInv
<1>4. CASE UNCHANGED tables
  BY <1>4 DEF tables, OrderInv, PastOnly, BuffersOrdered, OneCrawl,
        NothingNewer, HoldsNewest, Working, Of
<1> QED BY <1>1, <1>2, <1>3, <1>4, OrderOpen, OrderProcess, OrderFlush
        DEF Next, Write

LEMMA RowTrueStep ==
    TypeInv /\ OrderInv /\ LastSeenIsNewest /\ RowTrueAlone /\ [Next]_tables
        => RowTrueAlone'
<1> SUFFICES ASSUME TypeInv, OrderInv, LastSeenIsNewest, RowTrueAlone,
                    [Next]_tables
             PROVE  RowTrueAlone'
  OBVIOUS
<1>1. overlapped \subseteq overlapped'
  BY DEF Next, Write, tables, TimePasses, OpenSpider, ProcessItem, CloseSpider,
         FlushItem, StopWriter
<1>2. CASE \A w \in Writers : ~FlushItem(w)
  BY <1>1, <1>2, OnlyFlushWrites
     DEF RowTrueAlone, Listed, NewestOf, OldestOf, Of
<1>3. ASSUME NEW w \in Writers, FlushItem(w)
      PROVE  RowTrueAlone'
  <2>1. PICK item \in Observation :
            /\ item = Head(writer[w].buffer)
            /\ item.product \in Products /\ item.at \in 1..MaxTime
            /\ products[item.product] \in Row
            /\ products'[item.product] =
                    Upserted(products[item.product], item.at)
            /\ Of(item.product)' = Of(item.product) \cup {item}
            /\ \A p \in Products \ {item.product} :
                products'[p] = products[p] /\ Of(p)' = Of(p)
    BY <1>3, FlushedTables
  <2>2. ASSUME NEW p \in Products, p # item.product, Listed(p)',
               SourceOf[p] \notin overlapped'
        PROVE  /\ OldestOf(p, products[p].firstSeen)'
               /\ NewestOf(p, products[p].described)'
    <3>1. products'[p] = products[p] /\ Of(p)' = Of(p)
      BY <2>1, <2>2
    <3>2. OldestOf(p, products[p].firstSeen) /\ NewestOf(p, products[p].described)
      BY <3>1, <2>2, <1>1 DEF RowTrueAlone, Listed
    <3> QED BY <3>1, <3>2 DEF OldestOf, NewestOf
  <2>3. ASSUME SourceOf[item.product] \notin overlapped'
        PROVE  /\ OldestOf(item.product, products[item.product].firstSeen)'
               /\ NewestOf(item.product, products[item.product].described)'
    <3> DEFINE q == item.product
               row == products[q]
    <3>1. /\ products'[q].firstSeen =
                IF row = NoRow THEN item.at ELSE row.firstSeen
          /\ products'[q].described = item.at
      BY <2>1, UpsertedType
    <3>2. \A o \in Of(q) : o.at < item.at
      <4>1. 1 \in DOMAIN writer[w].buffer /\ item = writer[w].buffer[1]
        BY <1>3, <2>1, FlushedCrawl
      <4>2. writer[w].source = SourceOf[q] /\ Working(w)
        BY <4>1, <1>3 DEF OrderInv, BuffersOrdered, FlushItem, Working
      <4>3. HoldsNewest(w)
        BY <4>2, <2>3, <1>1 DEF OrderInv, NothingNewer
      <4> QED BY <4>1, <4>3 DEF HoldsNewest
    <3>3. /\ item.at \in Nat /\ row.firstSeen \in Nat
          /\ \A o \in Of(q) : o.at \in Nat
      BY <2>1 DEF Row, Of, TypeInv, TypeOK, Observation
    <3>4. /\ row = NoRow => Of(q) = {}
          /\ row # NoRow => OldestOf(q, row.firstSeen)
      BY <2>1, <2>3, <1>1 DEF LastSeenIsNewest, RowTrueAlone, Listed
    <3>5. Of(q)' = Of(q) \cup {item}
      BY <2>1
    <3> HIDE DEF q, row
    <3>6. /\ \E o \in Of(q)' : o.at = item.at
          /\ \A o \in Of(q)' : o.at <= item.at
      BY <3>2, <3>3, <3>5
    <3>7. /\ \E o \in Of(q)' : o.at = products'[q].firstSeen
          /\ \A o \in Of(q)' : o.at >= products'[q].firstSeen
      <4>1. CASE row = NoRow
        <5>1. Of(q)' = {item} /\ products'[q].firstSeen = item.at
          BY <4>1, <3>1, <3>4, <3>5
        <5> QED BY <5>1, <3>3
      <4>2. CASE row # NoRow
        <5>1. /\ \E o \in Of(q) : o.at = row.firstSeen
              /\ \A o \in Of(q) : o.at >= row.firstSeen
          BY <4>2, <3>4 DEF OldestOf
        <5>2. item.at >= row.firstSeen
          BY <5>1, <3>2, <3>3
        <5> QED BY <5>1, <5>2, <4>2, <3>1, <3>5
      <4> QED BY <4>1, <4>2
    <3> QED BY <3>1, <3>6, <3>7 DEF OldestOf, NewestOf, q
  <2> QED BY <2>2, <2>3 DEF RowTrueAlone
<1> QED BY <1>2, <1>3

(* first_seen_at and the descriptive fields of a row are those of the      *)
(* oldest and of the newest observation, for every source whose crawls     *)
(* never overlapped, wherever the crawls of any source stop.               *)
THEOREM RowTrueCorrect == Spec => []RowTrueAlone
<1>1. Init => RowTrueAlone /\ OrderInv
  <2> SUFFICES ASSUME Init PROVE RowTrueAlone /\ OrderInv
    OBVIOUS
  <2>1. RowTrueAlone /\ PastOnly
    BY InitTables DEF RowTrueAlone, Listed, PastOnly
  <2>2. \A w \in Writers : writer[w].pc = "none" /\ DOMAIN writer[w].buffer = {}
    BY DEF Init, NoWriter
  <2>3. BuffersOrdered /\ OneCrawl /\ NothingNewer
    BY <2>2 DEF BuffersOrdered, OneCrawl, NothingNewer, Working
  <2> QED BY <2>1, <2>3 DEF OrderInv
<1> QED BY <1>1, RowTrueStep, OrderStep, LastSeenCorrect, TypeInvariant, PTL
        DEF Spec

-----------------------------------------------------------------------------
(***************************************************************************)
(* Times tell the observations of a product apart.                         *)
(***************************************************************************)

(* Nothing is captured twice, and a series is finite.                      *)
UniqueTimes ==
    \A o, q \in observed : o.product = q.product /\ o.at = q.at => o = q

Unstored(w) ==
    \A i \in DOMAIN writer[w].buffer : \A o \in Of(writer[w].buffer[i].product) :
        o.at # writer[w].buffer[i].at

Unshared(v, w) ==
    \A i \in DOMAIN writer[v].buffer, j \in DOMAIN writer[w].buffer :
        writer[v].buffer[i].at # writer[w].buffer[j].at

CaptureInv ==
    /\ IsFiniteSet(observed)
    /\ UniqueTimes
    /\ \A w \in Writers : Unstored(w)
    /\ \A v, w \in Writers : v # w => Unshared(v, w)

(* A step that neither captures nor flushes keeps each buffer or drops it. *)
LEMMA QuietBuffers ==
    ASSUME TypeInv, [Next]_tables,
           \A w \in Writers : ~FlushItem(w),
           \A w \in Writers, p \in Products, raw \in RawItems :
                ~ProcessItem(w, p, raw)
    PROVE  /\ observed' = observed
           /\ \A w \in Writers : \/ writer'[w].buffer = writer[w].buffer
                                 \/ DOMAIN writer'[w].buffer = {}
<1>1. ASSUME NEW w \in Writers, NEW s \in Sources, OpenSpider(w, s)
      PROVE  \A v \in Writers : \/ writer'[v].buffer = writer[v].buffer
                                \/ DOMAIN writer'[v].buffer = {}
  BY <1>1 DEF OpenSpider, NoWriter, TypeInv, TypeOK
<1>2. ASSUME NEW w \in Writers, StopWriter(w)
      PROVE  \A v \in Writers : \/ writer'[v].buffer = writer[v].buffer
                                \/ DOMAIN writer'[v].buffer = {}
  BY <1>2 DEF StopWriter, Gone, NoWriter, TypeInv, TypeOK
<1>3. ASSUME NEW w \in Writers, CloseSpider(w)
      PROVE  \A v \in Writers : writer'[v].buffer = writer[v].buffer
  BY <1>3 DEF CloseSpider, TypeInv, TypeOK, Crawl
<1>4. TimePasses \/ UNCHANGED tables => writer' = writer
  BY DEF TimePasses, tables
<1>5. observed' = observed
  BY OnlyFlushWrites
<1> QED BY <1>1, <1>2, <1>3, <1>4, <1>5 DEF Next, Write

LEMMA CaptureStep ==
    TypeInv /\ OrderInv /\ CaptureInv /\ [Next]_tables => CaptureInv'
<1> SUFFICES ASSUME TypeInv, OrderInv, CaptureInv, [Next]_tables
             PROVE  CaptureInv'
  OBVIOUS
<1>1. CASE /\ \A w \in Writers : ~FlushItem(w)
           /\ \A w \in Writers, p \in Products, raw \in RawItems :
                ~ProcessItem(w, p, raw)
  <2>1. /\ observed' = observed
        /\ \A w \in Writers : \/ writer'[w].buffer = writer[w].buffer
                              \/ DOMAIN writer'[w].buffer = {}
    BY <1>1, QuietBuffers
  <2>2. IsFiniteSet(observed)' /\ UniqueTimes'
    BY <2>1 DEF CaptureInv, UniqueTimes
  <2>3. ASSUME NEW w \in Writers PROVE Unstored(w)'
    BY <2>1 DEF CaptureInv, Unstored, Of
  <2>4. ASSUME NEW v \in Writers, NEW w \in Writers, v # w
        PROVE  Unshared(v, w)'
    BY <2>1, <2>4 DEF CaptureInv, Unshared
  <2> QED BY <2>2, <2>3, <2>4 DEF CaptureInv
<1>2. ASSUME NEW w \in Writers, NEW p \in Products, NEW raw \in RawItems,
             ProcessItem(w, p, raw)
      PROVE  CaptureInv'
  <2> DEFINE item == Normalize(raw, p, clock + 1, DefaultOf[SourceOf[p]])
             buf  == writer[w].buffer
  <2>1. clock + 1 \in 1..MaxTime /\ clock \in Nat
    BY <1>2, CatalogueAssumption DEF ProcessItem, TypeInv, TypeOK
  <2>2. item \in Observation /\ item.at = clock + 1
    BY <1>2, <2>1, NormalizeType DEF ProcessItem
  <2>3. buf \in Seq(Observation)
    BY DEF TypeInv, TypeOK, Crawl
  <2>4. /\ observed' = observed
        /\ writer'[w].buffer = Append(buf, item)
        /\ \A v \in Writers \ {w} : writer'[v] = writer[v]
    BY <1>2 DEF ProcessItem, TypeInv, TypeOK, Crawl
  <2> HIDE DEF item
  <2>5. /\ Len(buf) \in Nat /\ DOMAIN buf = 1..Len(buf)
        /\ DOMAIN Append(buf, item) = 1..(Len(buf) + 1)
        /\ \A i \in 1..Len(buf) : Append(buf, item)[i] = buf[i]
        /\ Append(buf, item)[Len(buf) + 1] = item
    BY <2>2, <2>3, AppendProperties, LenProperties
  <2>6. \A i \in DOMAIN Append(buf, item) :
            \/ i \in DOMAIN buf /\ Append(buf, item)[i] = buf[i]
            \/ Append(buf, item)[i] = item
    BY <2>5
  <2>7. /\ \A o \in observed : o.at # clock + 1
        /\ \A v \in Writers : \A i \in DOMAIN writer[v].buffer :
                writer[v].buffer[i].at # clock + 1
    BY <2>1 DEF OrderInv, PastOnly, BuffersOrdered
  <2> HIDE DEF buf
  <2>8. IsFiniteSet(observed)' /\ UniqueTimes'
    BY <2>4 DEF CaptureInv, UniqueTimes
  <2>9. ASSUME NEW v \in Writers PROVE Unstored(v)'
    <3>1. CASE v = w
      <4> SUFFICES ASSUME NEW i \in DOMAIN Append(buf, item),
                          NEW o \in observed,
                          o.product = Append(buf, item)[i].product
                   PROVE  o.at # Append(buf, item)[i].at
        BY <2>4, <3>1 DEF Unstored, Of
      <4>1. CASE Append(buf, item)[i] = item
        BY <4>1, <2>2, <2>7
      <4>2. CASE i \in DOMAIN buf /\ Append(buf, item)[i] = buf[i]
        BY <4>2 DEF CaptureInv, Unstored, Of, buf
      <4> QED BY <4>1, <4>2, <2>6
    <3>2. CASE v # w
      BY <3>2, <2>4 DEF CaptureInv, Unstored, Of
    <3> QED BY <3>1, <3>2
  <2>10. ASSUME NEW v \in Writers \ {w}, NEW i \in DOMAIN writer[v].buffer,
                NEW j \in DOMAIN Append(buf, item)
         PROVE  writer[v].buffer[i].at # Append(buf, item)[j].at
    <3>1. CASE Append(buf, item)[j] = item
      BY <3>1, <2>2, <2>7
    <3>2. CASE j \in DOMAIN buf /\ Append(buf, item)[j] = buf[j]
      BY <3>2 DEF CaptureInv, Unshared, buf
    <3> QED BY <3>1, <3>2, <2>6
  <2>11. ASSUME NEW u \in Writers, NEW v \in Writers, u # v
         PROVE  Unshared(u, v)'
    <3>1. CASE u = w
      BY <3>1, <2>4, <2>10, <2>11 DEF Unshared
    <3>2. CASE v = w
      BY <3>2, <2>4, <2>10, <2>11 DEF Unshared
    <3>3. CASE u # w /\ v # w
      BY <3>3, <2>4, <2>11 DEF CaptureInv, Unshared
    <3> QED BY <3>1, <3>2, <3>3
  <2> QED BY <2>8, <2>9, <2>11 DEF CaptureInv
<1>3. ASSUME NEW w \in Writers, FlushItem(w)
      PROVE  CaptureInv'
  <2> DEFINE buf == writer[w].buffer
  <2>1. /\ 1 \in DOMAIN buf /\ buf[1] \in Observation
        /\ buf \in Seq(Observation) /\ buf # <<>>
    BY <1>3, FlushedCrawl DEF TypeInv, TypeOK, Crawl, FlushItem, FlushHasItems
  <2>2. PICK item \in Observation : item = buf[1]
    BY <2>1
  <2>3. /\ observed' = observed \cup {item}
        /\ \A v \in Writers \ {w} : writer'[v] = writer[v]
    BY <1>3, <2>2, FlushedCrawl DEF FlushItem, TypeInv, TypeOK
  <2>4. \A i \in DOMAIN writer'[w].buffer :
            /\ i + 1 \in DOMAIN buf /\ 1 < i + 1
            /\ writer'[w].buffer[i] = buf[i + 1]
    <3>1. CASE writer'[w] = Gone
      <4>1. DOMAIN writer'[w].buffer = {}
        BY <3>1 DEF Gone, NoWriter
      <4> QED BY <4>1
    <3>2. CASE writer'[w].buffer = Tail(buf)
      <4>1. /\ Len(Tail(buf)) = Len(buf) - 1
            /\ Tail(buf) \in Seq(Observation)
            /\ \A i \in 1..Len(Tail(buf)) : Tail(buf)[i] = buf[i + 1]
        BY <2>1, HeadTailProperties
      <4>2. /\ DOMAIN Tail(buf) = 1..(Len(buf) - 1)
            /\ DOMAIN buf = 1..Len(buf) /\ Len(buf) \in Nat
        BY <2>1, <4>1, LenProperties
      <4> QED BY <4>1, <4>2, <3>2
    <3> QED BY <3>1, <3>2, <1>3, FlushedCrawl
  <2>5. \A i \in DOMAIN buf : 1 < i => item.at # buf[i].at
    <3>1. ASSUME NEW i \in DOMAIN buf, 1 < i
          PROVE  item.at # buf[i].at
      <4>1. item.at < buf[i].at
        BY <3>1, <2>1, <2>2 DEF OrderInv, BuffersOrdered
      <4>2. buf[i] \in Observation
        BY <2>1, ElementOfSeq, LenProperties
      <4>3. item.at \in Nat /\ buf[i].at \in Nat
        BY <4>2, <2>2 DEF Observation
      <4> QED BY <4>1, <4>3
    <3> QED BY <3>1
  <2>6. /\ Unstored(w)
        /\ \A v \in Writers \ {w} : \A i \in DOMAIN writer[v].buffer :
                writer[v].buffer[i].at # item.at
    BY <2>1, <2>2 DEF CaptureInv, Unshared
  <2> HIDE DEF buf
  <2>7. IsFiniteSet(observed)'
    BY <2>3, FS_AddElement DEF CaptureInv
  <2>8. UniqueTimes'
    <3>1. \A o \in observed : o.product = item.product => o.at # item.at
      BY <2>1, <2>2, <2>6 DEF Unstored, Of, buf
    <3> QED BY <3>1, <2>3 DEF CaptureInv, UniqueTimes
  <2>9. ASSUME NEW v \in Writers PROVE Unstored(v)'
    <3>1. CASE v = w
      <4> SUFFICES ASSUME NEW i \in DOMAIN writer'[w].buffer,
                          NEW o \in observed',
                          o.product = writer'[w].buffer[i].product
                   PROVE  o.at # writer'[w].buffer[i].at
        BY <3>1 DEF Unstored, Of
      <4>1. /\ i + 1 \in DOMAIN buf /\ 1 < i + 1
            /\ writer'[w].buffer[i] = buf[i + 1]
        BY <2>4
      <4>2. CASE o = item
        BY <4>1, <4>2, <2>5
      <4>3. CASE o \in observed
        BY <4>1, <4>3, <2>6 DEF Unstored, Of, buf
      <4> QED BY <4>2, <4>3, <2>3
    <3>2. CASE v # w
      BY <3>2, <2>3, <2>6 DEF CaptureInv, Unstored, Of
    <3> QED BY <3>1, <3>2
  <2>10. ASSUME NEW v \in Writers \ {w}, NEW i \in DOMAIN writer[v].buffer,
                NEW j \in DOMAIN writer'[w].buffer
         PROVE  writer[v].buffer[i].at # writer'[w].buffer[j].at
    BY <2>4 DEF CaptureInv, Unshared, buf
  <2>11. ASSUME NEW u \in Writers, NEW v \in Writers, u # v
         PROVE  Unshared(u, v)'
    <3>1. CASE u = w
      BY <3>1, <2>3, <2>10, <2>11 DEF Unshared
    <3>2. CASE v = w
      BY <3>2, <2>3, <2>10, <2>11 DEF Unshared
    <3>3. CASE u # w /\ v # w
      BY <3>3, <2>3, <2>11 DEF CaptureInv, Unshared
    <3> QED BY <3>1, <3>2, <3>3
  <2> QED BY <2>7, <2>8, <2>9, <2>11 DEF CaptureInv
<1> QED BY <1>1, <1>2, <1>3

LEMMA TableInvariant ==
    Spec => [](TypeInv /\ OrderInv /\ CaptureInv /\ LastSeenIsNewest)
<1>1. Init => OrderInv /\ CaptureInv
  <2> SUFFICES ASSUME Init PROVE OrderInv /\ CaptureInv
    OBVIOUS
  <2>1. PastOnly
    BY InitTables DEF PastOnly
  <2>2. \A w \in Writers : writer[w].pc = "none" /\ DOMAIN writer[w].buffer = {}
    BY DEF Init, NoWriter
  <2>3. OrderInv
    BY <2>1, <2>2
       DEF OrderInv, BuffersOrdered, OneCrawl, NothingNewer, Working
  <2>4. IsFiniteSet(observed) /\ UniqueTimes
    BY CatalogueAssumption DEF Init, UniqueTimes
  <2>5. CaptureInv
    BY <2>2, <2>4 DEF CaptureInv, Unstored, Unshared
  <2> QED BY <2>3, <2>5
<1> QED BY <1>1, OrderStep, CaptureStep, LastSeenCorrect, TypeInvariant, PTL
        DEF Spec

-----------------------------------------------------------------------------
(***************************************************************************)
(* Sorted, Take and ComputeDeal.                                           *)
(***************************************************************************)

LEMMA TakeProperties ==
    ASSUME NEW S, NEW s \in Seq(S), NEW n \in Nat
    PROVE  /\ Take(s, n) \in Seq(S)
           /\ Len(Take(s, n)) = IF n < Len(s) THEN n ELSE Len(s)
           /\ DOMAIN Take(s, n) = 1..Len(Take(s, n))
           /\ \A i \in DOMAIN Take(s, n) :
                i \in 1..Len(s) /\ Take(s, n)[i] = s[i]
<1> DEFINE m == IF n < Len(s) THEN n ELSE Len(s)
<1>1. Len(s) \in Nat /\ m \in Nat /\ m <= Len(s)
  BY LenProperties
<1>2. \A i \in 1..m : i \in 1..Len(s) /\ s[i] \in S
  BY <1>1, ElementOfSeq
<1> HIDE DEF m
<1>3. /\ SubSeq(s, 1, m) \in Seq(S)
      /\ Len(SubSeq(s, 1, m)) = IF 1 <= m THEN m - 1 + 1 ELSE 0
      /\ \A i \in 1..(m - 1 + 1) : SubSeq(s, 1, m)[i] = s[1 + i - 1]
  BY <1>1, <1>2, SubSeqProperties
<1>4. /\ Len(SubSeq(s, 1, m)) = m
      /\ \A i \in 1..m : SubSeq(s, 1, m)[i] = s[i]
  BY <1>1, <1>3
<1>5. Take(s, n) = SubSeq(s, 1, m)
  BY DEF Take, m
<1>6. DOMAIN Take(s, n) = 1..m
  BY <1>3, <1>4, <1>5, LenProperties
<1> QED BY <1>2, <1>3, <1>4, <1>5, <1>6 DEF m

ByDrop(S)     == Sorted(S, Before)
ByLastSeen(S) == Sorted(S, SeenBefore)

(* Deals of different products have an order without ties.                 *)
LEMMA SortedDeals ==
    ASSUME NEW S, IsFiniteSet(S),
           \A d \in S : d.drop \in Int /\ d.product \in Nat,
           \A d, e \in S : d.product = e.product => d = e
    PROVE  \E s \in Seq(S) :
            /\ s = ByDrop(S) /\ Len(s) = Cardinality(S)
            /\ \A i, j \in 1..Len(s) : i < j => Before(s[i], s[j])
            /\ \A d \in S : \E i \in 1..Len(s) : s[i] = d
<1> DEFINE n == Cardinality(S)
           R == {de \in S \X S : Before(de[1], de[2])}
<1>1. \A d, e \in S : <<d, e>> \in R <=> Before(d, e)
  OBVIOUS
<1> HIDE DEF R
<1>2. \A d, e \in S : Before(d, e) => d # e
  BY DEF Before
<1>3. Orders(R, S)
  <2>1. ASSUME NEW d \in S, NEW e \in S, d # e
        PROVE  Before(d, e) \/ Before(e, d)
    BY <2>1 DEF Before
  <2>2. ASSUME NEW d \in S, NEW e \in S, NEW f \in S,
               Before(d, e), Before(e, f)
        PROVE  Before(d, f)
    BY <2>2 DEF Before
  <2> QED BY <1>1, <1>2, <2>1, <2>2 DEF Orders
<1>4. \E t \in [1..n -> S] :
        \A i, j \in DOMAIN t : i < j => Before(t[i], t[j])
  <2>1. PICK t \in [1..n -> S] :
            \A i, j \in 1..n : i < j => <<t[i], t[j]>> \in R
    BY <1>3, Enumeration
  <2>2. DOMAIN t = 1..n /\ \A i \in 1..n : t[i] \in S
    BY <2>1
  <2> HIDE DEF n
  <2> QED BY <1>1, <2>1, <2>2
<1>5. n \in Nat
  BY FS_CardinalityType
<1>6. PICK s \in [1..n -> S] :
        /\ s = ByDrop(S)
        /\ \A i, j \in DOMAIN s : i < j => Before(s[i], s[j])
  BY <1>4 DEF ByDrop, Sorted
<1>7. s \in Seq(S) /\ Len(s) = n
  BY <1>5, <1>6
<1>8. \A i, j \in 1..n : i < j => s[i] # s[j]
  BY <1>2, <1>6
<1>9. \A d \in S : \E i \in 1..n : s[i] = d
  BY <1>6, <1>8, ListsAll
<1> QED BY <1>6, <1>7, <1>9

(* Products, numbered in their order, have an order without ties.          *)
LEMMA SortedRows ==
    ASSUME NEW S, IsFiniteSet(S), S \subseteq Products,
           products \in [Products -> Row]
    PROVE  /\ ByLastSeen(S) \in Seq(S)
           /\ Len(ByLastSeen(S)) = Cardinality(S)
<1> DEFINE n == Cardinality(S)
           R == {pq \in S \X S : SeenBefore(pq[1], pq[2])}
<1>1. \A p, q \in S : <<p, q>> \in R <=> SeenBefore(p, q)
  OBVIOUS
<1> HIDE DEF R
<1>2. \A p \in S : p \in Nat /\ products[p].lastSeen \in Int
  BY CatalogueAssumption DEF Row
<1>3. Orders(R, S)
  <2>1. ASSUME NEW p \in S, NEW q \in S, p # q
        PROVE  SeenBefore(p, q) \/ SeenBefore(q, p)
    BY <2>1, <1>2 DEF SeenBefore
  <2>2. ASSUME NEW p \in S, NEW q \in S, NEW r \in S,
               SeenBefore(p, q), SeenBefore(q, r)
        PROVE  SeenBefore(p, r)
    BY <2>2, <1>2 DEF SeenBefore
  <2>3. \A p \in S : ~SeenBefore(p, p)
    BY <1>2 DEF SeenBefore
  <2> QED BY <1>1, <2>1, <2>2, <2>3 DEF Orders
<1>4. \E t \in [1..n -> S] :
        \A i, j \in DOMAIN t : i < j => SeenBefore(t[i], t[j])
  <2>1. PICK t \in [1..n -> S] :
            \A i, j \in 1..n : i < j => <<t[i], t[j]>> \in R
    BY <1>3, Enumeration
  <2>2. DOMAIN t = 1..n /\ \A i \in 1..n : t[i] \in S
    BY <2>1
  <2> HIDE DEF n
  <2> QED BY <1>1, <2>1, <2>2
<1>5. n \in Nat
  BY FS_CardinalityType
<1>6. ByLastSeen(S) \in [1..n -> S]
  BY <1>4 DEF ByLastSeen, Sorted
<1> QED BY <1>5, <1>6

(* Of the observations of one product, the latest and the recent high are  *)
(* determined: no two have the same time.                                  *)
Points(set) ==
    /\ set \subseteq Observation /\ set # {} /\ IsFiniteSet(set)
    /\ \A o, q \in set : o.at = q.at => o = q

LEMMA LatestPoint ==
    ASSUME NEW set, Points(set)
    PROVE  /\ Latest(set) \in set
           /\ \A q \in set : q.at <= Latest(set).at
           /\ \A l \in set : (\A q \in set : q.at <= l.at) => l = Latest(set)
<1> DEFINE times == {q.at : q \in set}
<1>1. \A q \in set : q.at \in Nat /\ q.at <= MaxTime
  BY CatalogueAssumption DEF Points, Observation
<1>2. times \in SUBSET Nat /\ times # {} /\ \A t \in times : t <= MaxTime
  BY <1>1 DEF Points
<1>3. PICK t \in times : \A u \in times : u <= t
  <2>1. MaxTime \in Nat
    BY CatalogueAssumption
  <2> HIDE DEF times
  <2> QED BY <1>2, <2>1, GreatestElement
<1>4. \E l \in set : \A q \in set : q.at <= l.at
  BY <1>3
<1>5. /\ Latest(set) \in set
      /\ \A q \in set : q.at <= Latest(set).at
  BY <1>4 DEF Latest
<1>6. ASSUME NEW l \in set, \A q \in set : q.at <= l.at
      PROVE  l = Latest(set)
  <2>1. l.at = Latest(set).at
    BY <1>1, <1>5, <1>6
  <2> QED BY <2>1, <1>5 DEF Points
<1> QED BY <1>5, <1>6

LEMMA ReferencePoint ==
    ASSUME NEW set, Points(set)
    PROVE  LET High(h) == \A q \in set : q.amount < h.amount
                                \/ (q.amount = h.amount /\ q.at <= h.at)
           IN  /\ Reference(set) \in set /\ High(Reference(set))
               /\ \A h \in set : High(h) => h = Reference(set)
<1> DEFINE High(h) == \A q \in set : q.amount < h.amount
                                \/ (q.amount = h.amount /\ q.at <= h.at)
           amountOf == [q \in set |-> q.amount]
           amounts == {q.amount : q \in set}
<1>1. \A q \in set : q.amount \in Nat /\ q.at \in Nat /\ q \in Observation
  BY CatalogueAssumption DEF Points, Observation
<1>2. amounts \in SUBSET Nat /\ amounts # {} /\ IsFiniteSet(amounts)
  <2>1. amountOf \in Surjection(set, amounts)
    BY DEF Surjection
  <2>2. IsFiniteSet(set)
    BY DEF Points
  <2>3. IsFiniteSet(amounts)
    <3> HIDE DEF amountOf, amounts
    <3> QED BY <2>1, <2>2, FS_Surjection
  <2> QED BY <2>3, <1>1 DEF Points
<1>3. PICK a \in amounts : \A b \in amounts : b <= a
  <2> HIDE DEF amounts
  <2> QED BY <1>2, GreatestOfFinite
<1> DEFINE dear == {q \in set : q.amount = a}
<1>4. Points(dear)
  <2>1. dear # {} /\ dear \subseteq set
    OBVIOUS
  <2>2. IsFiniteSet(dear)
    BY <2>1, FS_Subset DEF Points
  <2> QED BY <2>1, <2>2 DEF Points
<1>5. High(Latest(dear)) /\ Latest(dear) \in set
  <2>1. /\ Latest(dear) \in dear /\ \A q \in dear : q.at <= Latest(dear).at
    <3> HIDE DEF dear
    <3> QED BY <1>4, LatestPoint
  <2>2. \A q \in set : q.amount <= a
    BY <1>3
  <2>3. \A q \in set : q.amount < a \/ q.amount = a
    BY <2>2, <1>1, <1>2
  <2> QED BY <2>1, <2>3
<1>6. Reference(set) \in set /\ High(Reference(set))
  BY <1>5 DEF Reference
<1>7. ASSUME NEW h \in set, High(h)
      PROVE  h = Reference(set)
  <2>1. h.amount = Reference(set).amount /\ h.at = Reference(set).at
    BY <1>1, <1>6, <1>7
  <2> QED BY <2>1, <1>6 DEF Points
<1> QED BY <1>6, <1>7

LEMMA DropType ==
    ASSUME NEW h \in Nat, h > 0, NEW c \in Nat
    PROVE  DropPct(h, c) \in Int
<1>1. 20000 * (h - c) + h \in Int /\ 2 * h \in Nat /\ 2 * h > 0
  OBVIOUS
<1>2. \A a \in Int, b \in Nat : b > 0 => a \div b \in Int
  OBVIOUS
<1> QED BY <1>1, <1>2 DEF DropPct

(* The higher the high, the greater the drop.                              *)
LEMMA DropGrows ==
    ASSUME NEW g \in Nat, g > 0, NEW h \in Nat, g <= h, NEW c \in Nat
    PROVE  DropPct(g, c) <= DropPct(h, c)
<1>1. \A a \in Int, b \in Nat : b > 0 =>
        /\ a \div b \in Int
        /\ \A n \in Int : n <= a \div b <=> n * b <= a
  OBVIOUS
<1>2. PICK n \in Int : n = DropPct(g, c)
  BY DropType
<1>3. n * (2 * g) <= 20000 * (g - c) + g
  <2>1. 20000 * (g - c) + g \in Int /\ 2 * g \in Nat /\ 2 * g > 0
    OBVIOUS
  <2>2. n <= (20000 * (g - c) + g) \div (2 * g)
    BY <1>2 DEF DropPct
  <2> QED BY <1>1, <2>1, <2>2
<1>4. 20000 * c <= (20001 - 2 * n) * g
  BY <1>3
<1>5. 20001 - 2 * n >= 0
  <2> SUFFICES ASSUME 20001 - 2 * n <= -1 PROVE FALSE
    OBVIOUS
  <2>1. (20001 - 2 * n) * g <= -1 * g
    OBVIOUS
  <2> QED BY <2>1, <1>4
<1>6. (20001 - 2 * n) * g <= (20001 - 2 * n) * h
  <2> DEFINE k == 20001 - 2 * n
  <2>1. k \in Nat
    BY <1>5
  <2> HIDE DEF k
  <2>2. k * g <= k * h
    BY <2>1
  <2> QED BY <2>2 DEF k
<1>7. n * (2 * h) <= 20000 * (h - c) + h
  <2>1. 20000 * c <= (20001 - 2 * n) * h
    BY <1>4, <1>6
  <2> QED BY <2>1
<1>8. n <= (20000 * (h - c) + h) \div (2 * h)
  <2>1. 20000 * (h - c) + h \in Int /\ 2 * h \in Nat /\ 2 * h > 0
    OBVIOUS
  <2> QED BY <1>1, <1>7, <2>1
<1> QED BY <1>2, <1>8 DEF DropPct

(* A deal as ADR-0013 defines it: h is the high of the points, l the latest.*)
IsDeal(points, h, l) ==
    /\ h \in points /\ l \in points
    /\ \A q \in points : q.at <= l.at
    /\ \A q \in points : q.amount < h.amount
                            \/ (q.amount = h.amount /\ q.at <= h.at)
    /\ h.at < l.at /\ l.amount < h.amount
    /\ DropPct(h.amount, l.amount) >= MinDrop

(* A deal is one of its product, and a product that has a deal has this one.*)
LEMMA DealOfPoints ==
    ASSUME NEW set, Points(set), NEW p \in Products
    PROVE  LET d == ComputeDeal(p, set) IN
           /\ d # NoDeal =>
                /\ d.product = p /\ d.drop \in Int
                /\ d.current = Latest(set)
                /\ d.drop = DropPct(d.previous.amount, d.current.amount)
                /\ IsDeal(set, d.previous, d.current)
           /\ \A h, l \in set : IsDeal(set, h, l) =>
                d # NoDeal /\ d.drop = DropPct(h.amount, l.amount)
<1> DEFINE h == Reference(set)
           l == Latest(set)
           drop == DropPct(h.amount, l.amount)
           d == ComputeDeal(p, set)
<1>1. /\ h \in set /\ l \in set
      /\ \A q \in set : q.at <= l.at
      /\ \A q \in set : q.amount < h.amount
                            \/ (q.amount = h.amount /\ q.at <= h.at)
  BY LatestPoint, ReferencePoint
<1>2. /\ h.amount \in Nat /\ l.amount \in Nat
      /\ h.at \in Nat /\ l.at \in Nat
  BY <1>1, CatalogueAssumption DEF Points, Observation
<1>3. d = IF h.amount <= 0 \/ l.amount >= h.amount \/ drop < MinDrop
          THEN NoDeal
          ELSE [product |-> p, drop |-> drop, since |-> h.at,
                previous |-> h, current |-> l]
  <2>1. set # {}
    BY DEF Points
  <2> QED BY <2>1 DEF ComputeDeal
<1>4. ASSUME d # NoDeal
      PROVE  /\ d.product = p /\ d.drop \in Int /\ d.current = l
             /\ d.previous = h /\ d.drop = drop
             /\ IsDeal(set, h, l)
  <2>1. ~(h.amount <= 0) /\ ~(l.amount >= h.amount) /\ ~(drop < MinDrop)
    BY <1>3, <1>4
  <2>2. /\ d.product = p /\ d.drop = drop /\ d.previous = h /\ d.current = l
    BY <1>3, <2>1
  <2>3. h.amount > 0 /\ l.amount < h.amount
    BY <1>2, <2>1
  <2>4. drop \in Int
    BY <1>2, <2>3, DropType
  <2>5. drop >= MinDrop
    BY <2>1, <2>4, DealsAssumption
  <2>6. h.at < l.at
    <3>1. h.at <= l.at
      BY <1>1
    <3>2. h # l
      BY <1>2, <2>3
    <3>3. h.at # l.at
      BY <1>1, <3>2 DEF Points
    <3> QED BY <1>2, <3>1, <3>3
  <2> QED BY <1>1, <2>2, <2>3, <2>4, <2>5, <2>6 DEF IsDeal
<1>5. ASSUME NEW g \in set, NEW c \in set, IsDeal(set, g, c)
      PROVE  d # NoDeal /\ d.drop = DropPct(g.amount, c.amount)
  <2>1. g = h /\ c = l
    BY <1>5, LatestPoint, ReferencePoint DEF IsDeal
  <2>2. l.amount < h.amount /\ drop >= MinDrop
    BY <1>5, <2>1 DEF IsDeal
  <2>3. drop \in Int
    BY <1>2, <2>2, DropType
  <2>4. ~(h.amount <= 0) /\ ~(l.amount >= h.amount) /\ ~(drop < MinDrop)
    BY <1>2, <2>2, <2>3, DealsAssumption
  <2>5. d.product = p /\ d.drop = drop
    BY <1>3, <2>4
  <2>6. p # 0
    BY CatalogueAssumption
  <2> QED BY <2>1, <2>5, <2>6 DEF NoDeal
<1> QED BY <1>4, <1>5

(* Where the high of a deal stays and its price is still the latest, there *)
(* still is a deal, and no smaller one.                                    *)
LEMMA DealKept ==
    ASSUME NEW S, Points(S), NEW T, Points(T), NEW p \in Products,
           NEW d, d = ComputeDeal(p, S), d # NoDeal,
           NEW e, e = ComputeDeal(p, T),
           d.previous \in T, d.current = Latest(T)
    PROVE  e # NoDeal /\ d.drop \in Int /\ e.drop \in Int /\ d.drop <= e.drop
<1> DEFINE h == d.previous
           l == d.current
           g == Reference(T)
<1>1. /\ d.drop \in Int /\ d.drop = DropPct(h.amount, l.amount)
      /\ IsDeal(S, h, l)
  BY DealOfPoints
<1>2. h \in T /\ l \in T /\ g \in T /\ \A q \in T : q.at <= l.at
  BY LatestPoint, ReferencePoint
<1>3. \A q \in T : q.amount \in Nat /\ q.at \in Nat
  BY CatalogueAssumption DEF Points, Observation
<1>4. \A q \in T : q.amount < g.amount \/ (q.amount = g.amount /\ q.at <= g.at)
  BY ReferencePoint
<1>5. h.amount <= g.amount /\ l.amount < h.amount /\ 0 < h.amount
  BY <1>1, <1>2, <1>3, <1>4 DEF IsDeal
<1>6. DropPct(h.amount, l.amount) <= DropPct(g.amount, l.amount)
  BY <1>2, <1>3, <1>5, DropGrows
<1>7. DropPct(g.amount, l.amount) \in Int
  BY <1>2, <1>3, <1>5, DropType
<1>8. IsDeal(T, g, l)
  <2>1. DropPct(g.amount, l.amount) >= MinDrop
    BY <1>1, <1>6, <1>7, DealsAssumption DEF IsDeal
  <2>2. l.amount < g.amount
    BY <1>2, <1>3, <1>5
  <2>3. g.at < l.at
    <3>1. g.at <= l.at /\ g # l
      BY <1>2, <1>3, <2>2
    <3>2. g.at # l.at
      BY <1>2, <3>1 DEF Points
    <3> QED BY <1>2, <1>3, <3>1, <3>2
  <2> QED BY <1>2, <1>4, <2>1, <2>2, <2>3 DEF IsDeal
<1>9. e # NoDeal /\ e.drop = DropPct(g.amount, l.amount)
  BY <1>2, <1>8, DealOfPoints
<1> QED BY <1>1, <1>6, <1>7, <1>9

(* The points of a product in a window.                                    *)
LEMMA HistoryPoints ==
    ASSUME TypeInv, CaptureInv, NEW source, NEW since \in Int,
           NEW history, history = HistorySince(source, since)
    PROVE  /\ DOMAIN history \subseteq Products
           /\ \A p \in DOMAIN history :
                /\ Points(history[p]) /\ Points(Of(p))
                /\ history[p] = {o \in Of(p) : o.at >= since}
                /\ Latest(history[p]) = LatestForMany(p)
<1> DEFINE found == {o \in observed : Selects(source, o.product)
                                        /\ o.at >= since}
<1>1. history = [p \in {o.product : o \in found} |->
                    {o \in found : o.product = p}]
  BY DEF HistorySince
<1>2. \A o \in observed : o \in Observation /\ o.product \in Products
  BY DEF TypeInv, TypeOK, Observation
<1>3. DOMAIN history \subseteq Products
  BY <1>1, <1>2
<1>4. ASSUME NEW p \in DOMAIN history
      PROVE  /\ Points(history[p]) /\ Points(Of(p))
             /\ history[p] = {o \in Of(p) : o.at >= since}
             /\ Latest(history[p]) = LatestForMany(p)
  <2>1. /\ history[p] = {o \in found : o.product = p}
        /\ \E o \in found : o.product = p
    BY <1>1
  <2>2. PICK w \in found : w.product = p
    BY <2>1
  <2>3. history[p] = {o \in Of(p) : o.at >= since}
    BY <2>1, <2>2 DEF Of
  <2>4. w \in history[p] /\ history[p] \subseteq Of(p) /\ Of(p) \subseteq observed
    BY <2>1, <2>2, <2>3 DEF Of
  <2>5. Points(Of(p))
    <3>1. IsFiniteSet(Of(p))
      BY <2>4, FS_Subset DEF CaptureInv
    <3>2. \A o, q \in Of(p) : o.at = q.at => o = q
      BY DEF CaptureInv, UniqueTimes, Of
    <3> QED BY <1>2, <2>4, <3>1, <3>2 DEF Points
  <2>6. Points(history[p])
    <3>1. IsFiniteSet(history[p])
      BY <2>4, <2>5, FS_Subset DEF Points
    <3> QED BY <2>4, <2>5, <3>1 DEF Points
  <2>7. Latest(history[p]) = Latest(Of(p))
    <3>1. /\ Latest(Of(p)) \in Of(p)
          /\ \A q \in Of(p) : q.at <= Latest(Of(p)).at
      BY <2>5, LatestPoint
    <3>2. Latest(Of(p)) \in history[p]
      <4>1. w \in Of(p) /\ w.at >= since /\ w.at <= Latest(Of(p)).at
        BY <2>3, <2>4, <3>1
      <4>2. w.at \in Int /\ Latest(Of(p)).at \in Int
        BY <3>1, <4>1, CatalogueAssumption, <2>5 DEF Points, Observation
      <4>3. Latest(Of(p)).at >= since
        BY <4>1, <4>2
      <4> QED BY <2>3, <3>1, <4>3
    <3>3. \A q \in history[p] : q.at <= Latest(Of(p)).at
      BY <2>4, <3>1
    <3> QED BY <2>6, <3>2, <3>3, LatestPoint
  <2> QED BY <2>3, <2>4, <2>5, <2>6, <2>7 DEF LatestForMany
<1> QED BY <1>3, <1>4

DealsIn(history) ==
    {ComputeDeal(p, history[p]) : p \in DOMAIN history} \ {NoDeal}

(* What the ranking lists, and in which order.                             *)
LEMMA RankedDeals ==
    ASSUME NEW history, DOMAIN history \subseteq Products,
           \A p \in DOMAIN history : Points(history[p]), NEW n \in Nat
    PROVE  /\ \A d \in DealsIn(history) :
                /\ d.product \in DOMAIN history
                /\ d = ComputeDeal(d.product, history[d.product])
                /\ d # NoDeal
           /\ \E s \in Seq(DealsIn(history)) :
                /\ RankDeals(history, n) = Take(s, n)
                /\ \A i, j \in 1..Len(s) : i < j => Before(s[i], s[j])
                /\ \A d \in DealsIn(history) : \E i \in 1..Len(s) : s[i] = d
<1> DEFINE all == DealsIn(history)
<1>1. DOMAIN history \subseteq Products
  OBVIOUS
<1>2. ASSUME NEW d \in all
      PROVE  /\ d.product \in DOMAIN history
             /\ d = ComputeDeal(d.product, history[d.product])
             /\ d # NoDeal /\ d.drop \in Int
  <2>1. PICK p \in DOMAIN history : d = ComputeDeal(p, history[p])
    BY DEF DealsIn
  <2>2. d # NoDeal
    BY DEF DealsIn
  <2>3. Points(history[p]) /\ p \in Products
    OBVIOUS
  <2>4. d.product = p /\ d.drop \in Int
    BY <2>1, <2>2, <2>3, DealOfPoints
  <2> QED BY <2>1, <2>2, <2>4
<1> HIDE DEF all
<1>3. IsFiniteSet(all)
  <2> DEFINE f == [d \in all |-> d.product]
  <2>1. f \in [all -> Products]
    BY <1>1, <1>2
  <2>2. \A d, e \in all : f[d] = f[e] => d = e
    BY <1>2
  <2>3. f \in Injection(all, Products)
    BY <2>1, <2>2 DEF Injection, IsInjective
  <2> HIDE DEF f
  <2> QED BY <2>3, FS_Injection, CatalogueAssumption
<1>4. \A d \in all : d.drop \in Int /\ d.product \in Nat
  BY <1>1, <1>2, CatalogueAssumption
<1>5. PICK s \in Seq(all) :
        /\ s = ByDrop(all)
        /\ \A i, j \in 1..Len(s) : i < j => Before(s[i], s[j])
        /\ \A d \in all : \E i \in 1..Len(s) : s[i] = d
  <2>1. \A d, e \in all : d.product = e.product => d = e
    BY <1>2
  <2>2. \E s \in Seq(all) :
            /\ s = ByDrop(all) /\ Len(s) = Cardinality(all)
            /\ \A i, j \in 1..Len(s) : i < j => Before(s[i], s[j])
            /\ \A d \in all : \E i \in 1..Len(s) : s[i] = d
    BY <1>3, <1>4, <2>1, SortedDeals
  <2> QED BY <2>2
<1>6. RankDeals(history, n) = Take(s, n)
  BY <1>5 DEF RankDeals, ByDrop, Sorted, all, DealsIn
<1> QED BY <1>2, <1>5, <1>6 DEF all

LEMMA ClampType ==
    ASSUME NEW raw \in RawLimits
    PROVE  ClampLimit(raw) \in Nat
BY ReadAssumption DEF ClampLimit

(* What GET /deals would list now, whatever the order of the prices: each  *)
(* product once, with its high and the price GET /products shows for it,   *)
(* the largest drops first; a deal is left out only when the list is full  *)
(* of drops no smaller.                                                    *)
DealsRight ==
    reader.pc = "idle" =>
      \A source \in Sources \cup {AnySource}, raw \in RawLimits, window \in Windows :
        LET history == HistorySince(source, clock - window)
            deals   == RankDeals(history, ClampLimit(raw))
            Listing(p) == \E d \in Range(deals) : d.product = p
        IN  /\ \A d \in Range(deals) :
                /\ IsDeal(history[d.product], d.previous, d.current)
                /\ d.current = LatestForMany(d.product)
            /\ \A i, j \in DOMAIN deals : i < j =>
                /\ deals[i].product # deals[j].product
                /\ deals[i].drop >= deals[j].drop
            /\ \A p \in DOMAIN history : \A h, l \in history[p] :
                ~Listing(p) /\ IsDeal(history[p], h, l) =>
                    /\ Len(deals) = ClampLimit(raw)
                    /\ \A d \in Range(deals) :
                        d.drop >= DropPct(h.amount, l.amount)

LEMMA DealsOfTables == TypeInv /\ CaptureInv => DealsRight
<1> SUFFICES ASSUME TypeInv, CaptureInv,
                    NEW source \in Sources \cup {AnySource},
                    NEW raw \in RawLimits, NEW window \in Windows,
                    NEW history, history = HistorySince(source, clock - window),
                    NEW deals, deals = RankDeals(history, ClampLimit(raw))
             PROVE  /\ \A d \in Range(deals) :
                        /\ IsDeal(history[d.product], d.previous, d.current)
                        /\ d.current = LatestForMany(d.product)
                    /\ \A i, j \in DOMAIN deals : i < j =>
                        /\ deals[i].product # deals[j].product
                        /\ deals[i].drop >= deals[j].drop
                    /\ \A p \in DOMAIN history : \A h, l \in history[p] :
                        /\ ~ \E d \in Range(deals) : d.product = p
                        /\ IsDeal(history[p], h, l)
                        => /\ Len(deals) = ClampLimit(raw)
                           /\ \A d \in Range(deals) :
                                d.drop >= DropPct(h.amount, l.amount)
  BY DEF DealsRight
<1> DEFINE all == DealsIn(history)
           n == ClampLimit(raw)
<1>1. n \in Nat /\ clock - window \in Int
  BY ClampType, ReadAssumption, CatalogueAssumption DEF TypeInv, TypeOK
<1>2. /\ DOMAIN history \subseteq Products
      /\ \A p \in DOMAIN history :
            /\ Points(history[p]) /\ p \in Products
            /\ Latest(history[p]) = LatestForMany(p)
  BY <1>1, HistoryPoints
<1>3. \A d \in all :
        /\ d.product \in DOMAIN history
        /\ d = ComputeDeal(d.product, history[d.product])
        /\ d # NoDeal
  BY <1>1, <1>2, RankedDeals
<1>4. PICK s \in Seq(all) :
        /\ deals = Take(s, n)
        /\ \A i, j \in 1..Len(s) : i < j => Before(s[i], s[j])
        /\ \A d \in all : \E i \in 1..Len(s) : s[i] = d
  <2>1. deals = RankDeals(history, n)
    OBVIOUS
  <2> HIDE DEF n
  <2>2. \E s \in Seq(DealsIn(history)) :
            /\ RankDeals(history, n) = Take(s, n)
            /\ \A i, j \in 1..Len(s) : i < j => Before(s[i], s[j])
            /\ \A d \in DealsIn(history) : \E i \in 1..Len(s) : s[i] = d
    BY <1>1, <1>2, RankedDeals
  <2> QED BY <2>1, <2>2
<1>5. ASSUME NEW d \in all
      PROVE  /\ d.drop \in Int /\ d.product \in DOMAIN history
             /\ IsDeal(history[d.product], d.previous, d.current)
             /\ d.current = LatestForMany(d.product)
  <2> HIDE DEF all
  <2>1. /\ d = ComputeDeal(d.product, history[d.product]) /\ d # NoDeal
        /\ d.product \in DOMAIN history
    BY <1>3
  <2>2. Points(history[d.product]) /\ d.product \in Products
    BY <1>2, <2>1
  <2>3. /\ d.drop \in Int /\ d.current = Latest(history[d.product])
        /\ IsDeal(history[d.product], d.previous, d.current)
    BY <2>1, <2>2, DealOfPoints
  <2> QED BY <2>1, <2>3, <1>2
<1> HIDE DEF all, n
<1>6. /\ deals \in Seq(all) /\ DOMAIN deals = 1..Len(deals)
      /\ Len(s) \in Nat
      /\ Len(deals) = IF n < Len(s) THEN n ELSE Len(s)
      /\ \A i \in DOMAIN deals :
            i \in 1..Len(s) /\ deals[i] = s[i] /\ deals[i] \in all
  <2>1. Len(s) \in Nat /\ \A i \in 1..Len(s) : s[i] \in all
    BY LenProperties, ElementOfSeq
  <2>2. /\ Take(s, n) \in Seq(all)
        /\ Len(Take(s, n)) = IF n < Len(s) THEN n ELSE Len(s)
        /\ DOMAIN Take(s, n) = 1..Len(Take(s, n))
        /\ \A i \in DOMAIN Take(s, n) :
            i \in 1..Len(s) /\ Take(s, n)[i] = s[i]
    BY <1>1, TakeProperties
  <2> QED BY <1>4, <2>1, <2>2
<1>7. \A d \in Range(deals) : \E i \in DOMAIN deals : d = deals[i]
  BY DEF Range
<1>8. \A d \in Range(deals) :
        /\ IsDeal(history[d.product], d.previous, d.current)
        /\ d.current = LatestForMany(d.product)
  BY <1>5, <1>6, <1>7
<1>9. ASSUME NEW i \in 1..Len(s), NEW j \in 1..Len(s), i < j
      PROVE  s[i].product # s[j].product /\ s[i].drop >= s[j].drop
  <2>1. s[i] \in all /\ s[j] \in all
    BY ElementOfSeq
  <2>2. Before(s[i], s[j]) /\ s[i].drop \in Int /\ s[j].drop \in Int
    BY <1>4, <1>5, <1>9, <2>1
  <2>3. s[i] # s[j] /\ s[i].drop >= s[j].drop
    <3>1. s[i].product \in Nat /\ s[j].product \in Nat
      BY <2>1, <1>2, <1>5, CatalogueAssumption
    <3> QED BY <2>2, <3>1 DEF Before
  <2>4. s[i].product # s[j].product
    BY <2>1, <2>3, <1>3
  <2> QED BY <2>3, <2>4
<1>10. ASSUME NEW p \in DOMAIN history,
              NEW h \in history[p], NEW l \in history[p],
              ~ \E d \in Range(deals) : d.product = p,
              IsDeal(history[p], h, l)
       PROVE  /\ Len(deals) = n
              /\ \A d \in Range(deals) : d.drop >= DropPct(h.amount, l.amount)
  <2> DEFINE e == ComputeDeal(p, history[p])
  <2>1. e # NoDeal /\ e.drop = DropPct(h.amount, l.amount) /\ e.product = p
    BY <1>2, <1>10, DealOfPoints
  <2>2. e \in all
    BY <2>1 DEF all, DealsIn
  <2> HIDE DEF e
  <2>3. PICK k \in 1..Len(s) : s[k] = e
    BY <1>4, <2>2
  <2>4. k \notin DOMAIN deals
    <3> SUFFICES ASSUME k \in DOMAIN deals PROVE FALSE
      OBVIOUS
    <3>1. deals[k] = e /\ deals[k] \in Range(deals)
      BY <2>3, <1>6 DEF Range
    <3> QED BY <3>1, <2>1, <1>10
  <2>5. Len(deals) = n /\ \A i \in DOMAIN deals : i < k
    BY <2>3, <2>4, <1>1, <1>6
  <2>6. ASSUME NEW d \in Range(deals)
        PROVE  d.drop >= e.drop
    <3>1. PICK i \in DOMAIN deals : d = deals[i]
      BY <1>7
    <3> QED BY <3>1, <2>3, <2>5, <1>6, <1>9
  <2> QED BY <2>1, <2>5, <2>6
<1>11. \A i, j \in DOMAIN deals : i < j =>
        deals[i].product # deals[j].product /\ deals[i].drop >= deals[j].drop
  BY <1>6, <1>9
<1> QED BY <1>8, <1>10, <1>11 DEF n

-----------------------------------------------------------------------------
(***************************************************************************)
(* The answers (ReadApi).                                                  *)
(***************************************************************************)

(* Requests write no table: whatever the crawls guarantee holds while they *)
(* are answered.                                                           *)
LEMMA ReadersOnlyRead == ReadSpec => Spec
<1>1. ReadInit => Init
  BY DEF ReadInit
<1>2. [ReadNext]_apiVars => [Next]_tables
  BY DEF ReadNext, apiVars, Read, BadRequest, ListRows, ReadHistories,
         GetProduct, PriceHistory, ListProducts, ListDeals
<1> QED BY <1>1, <1>2, PTL DEF ReadSpec, Spec

Tables == TypeInv /\ OrderInv /\ CaptureInv /\ LastSeenIsNewest

LEMMA TablesInvariant == ReadSpec => []Tables
BY ReadersOnlyRead, TableInvariant, PTL DEF Tables

(* Whatever the crawls have done, what GET /deals would list now is what   *)
(* ADR-0013 calls the deals, ranked, and cut off only where it is full.  A *)
(* price that rose and returned is among them while its rise is in the     *)
(* window (ADR-0013:37, against deals.py:4-6).                             *)
THEOREM DealsCorrect == ReadSpec => []DealsRight
<1>1. Tables => DealsRight
  BY DealsOfTables DEF Tables
<1> QED BY <1>1, TablesInvariant, PTL

(* The points of a window are points, in every state.                      *)
LEMMA WindowPoints ==
    ASSUME TypeInv, CaptureInv, NEW p, NEW since \in Int, NEW set,
           set = {o \in Of(p) : o.at >= since}, set # {}
    PROVE  Points(set)
<1>1. set \subseteq observed /\ \A o \in set : o.product = p
  BY DEF Of
<1>2. IsFiniteSet(set)
  BY <1>1, FS_Subset DEF CaptureInv
<1>3. \A o, q \in set : o.at = q.at => o = q
  BY <1>1 DEF CaptureInv, UniqueTimes
<1> QED BY <1>1, <1>2, <1>3 DEF Points, TypeInv, TypeOK

(* Time goes on and observations stay.                                     *)
LEMMA TablesGrow ==
    ASSUME TypeInv, TypeInv', [ReadNext]_apiVars
    PROVE  clock \in Nat /\ clock' \in Nat /\ clock <= clock'
           /\ observed \subseteq observed'
<1>1. clock \in Nat /\ clock' \in Nat
  BY CatalogueAssumption DEF TypeInv, TypeOK
<1>2. [Next]_tables
  BY DEF ReadNext, apiVars, Read, BadRequest, ListRows, ReadHistories,
         GetProduct, PriceHistory, ListProducts, ListDeals
<1>3. clock' = clock \/ clock' = clock + 1
  BY <1>2 DEF Next, Write, tables, TimePasses, OpenSpider, ProcessItem,
              CloseSpider, FlushItem, StopWriter
<1>4. observed \subseteq observed'
  BY <1>2 DEF Next, Write, tables, TimePasses, OpenSpider, ProcessItem,
              CloseSpider, FlushItem, StopWriter
<1> QED BY <1>1, <1>3, <1>4

(* What the drop of no deal is, and of a deal.                             *)
LEMMA DropOfDeal ==
    ASSUME NEW set, set = {} \/ Points(set), NEW p \in Products,
           NEW d, d = ComputeDeal(p, set)
    PROVE  /\ DropOf(d) \in Int /\ DropOf(d) >= -1
           /\ d = NoDeal <=> DropOf(d) = -1
           /\ d # NoDeal => Points(set) /\ DropOf(d) = d.drop
<1>1. CASE set = {}
  BY <1>1 DEF ComputeDeal, DropOf
<1>2. CASE Points(set) /\ d # NoDeal
  <2>1. d.drop \in Int /\ d.drop >= MinDrop
    BY <1>2, DealOfPoints DEF IsDeal
  <2> QED BY <1>2, <2>1, DealsAssumption DEF DropOf
<1>3. CASE Points(set) /\ d = NoDeal
  BY <1>3 DEF DropOf
<1> QED BY <1>1, <1>2, <1>3

(* Deals come and go for the causes ADR-0013 gives: a deal that ends or    *)
(* shrinks has lost its high to the window or its place to a newer price,  *)
(* one that appears or grows owes it to an observation just stored.        *)
THEOREM DealsForCauseCorrect == ReadSpec => DealsForCause
<1>1. ASSUME Tables, Tables', [ReadNext]_apiVars,
             NEW p \in {o.product : o \in observed'}, NEW window \in Windows,
             NEW before, before = DealOf(p, window),
             NEW after, after = DealOf(p, window)',
             NEW stored, stored = {o \in observed' \ observed : o.product = p}
      PROVE  /\ DropOf(after) < DropOf(before) =>
                \/ before.previous.at < clock' - window
                \/ \E o \in stored : o.at > before.current.at
             /\ DropOf(after) > DropOf(before) =>
                stored \cap {after.previous, after.current} # {}
  <2> DEFINE S == {o \in Of(p) : o.at >= clock - window}
             T == {o \in Of(p)' : o.at >= clock' - window}
  <2>1. p \in Products /\ window \in Nat
    BY <1>1, ReadAssumption DEF Tables, TypeInv, TypeOK, Observation
  <2>2. /\ clock \in Nat /\ clock' \in Nat /\ clock <= clock'
        /\ observed \subseteq observed'
    BY <1>1, TablesGrow DEF Tables
  <2>3. before = ComputeDeal(p, S) /\ after = ComputeDeal(p, T)
    BY <1>1 DEF DealOf
  <2>4. S = {} \/ Points(S)
    BY <1>1, <2>1, <2>2, WindowPoints DEF Tables
  <2>5. T = {} \/ Points(T)
    <3>1. TypeInv' /\ CaptureInv' /\ clock' - window \in Int
      BY <1>1, <2>1, <2>2 DEF Tables
    <3>2. T \subseteq observed' /\ \A o \in T : o.product = p
      BY DEF Of
    <3>3. IsFiniteSet(T)
      BY <3>1, <3>2, FS_Subset DEF CaptureInv
    <3>4. \A o, q \in T : o.at = q.at => o = q
      BY <3>1, <3>2 DEF CaptureInv, UniqueTimes
    <3> QED BY <3>1, <3>2, <3>3, <3>4 DEF Points, TypeInv, TypeOK
  <2>6. /\ \A o \in S : o \in observed /\ o.product = p /\ o.at >= clock - window
        /\ \A o \in T : o \in observed' /\ o.product = p /\ o.at >= clock' - window
        /\ \A o \in observed : o.product = p /\ o.at >= clock - window => o \in S
        /\ \A o \in observed' : o.product = p /\ o.at >= clock' - window => o \in T
        /\ \A o \in observed' : o.at \in Nat
    BY <1>1, CatalogueAssumption DEF Of, Tables, TypeInv, TypeOK, Observation
  <2>7. /\ DropOf(before) \in Int /\ DropOf(after) \in Int
        /\ DropOf(before) >= -1 /\ DropOf(after) >= -1
        /\ before = NoDeal <=> DropOf(before) = -1
        /\ after = NoDeal <=> DropOf(after) = -1
        /\ before # NoDeal => Points(S) /\ DropOf(before) = before.drop
        /\ after # NoDeal => Points(T) /\ DropOf(after) = after.drop
    <3> HIDE DEF S, T
    <3> QED BY <2>1, <2>3, <2>4, <2>5, DropOfDeal
  <2> HIDE DEF S, T
  <2>8. ASSUME before # NoDeal
        PROVE  /\ before.previous \in S /\ before.current \in S
               /\ before.previous.at < before.current.at
               /\ \A q \in S : q.at <= before.current.at
    BY <2>1, <2>3, <2>7, <2>8, DealOfPoints DEF IsDeal
  <2>9. ASSUME after # NoDeal
        PROVE  /\ after.previous \in T /\ after.current \in T
               /\ \A q \in T : q.at <= after.current.at
    BY <2>1, <2>3, <2>7, <2>9, DealOfPoints DEF IsDeal
  <2>10. ASSUME DropOf(after) < DropOf(before),
                ~(before.previous.at < clock' - window),
                ~ \E o \in stored : o.at > before.current.at
         PROVE  FALSE
    <3>1. before # NoDeal
      BY <2>7, <2>10
    <3>2. before.previous \in T /\ before.current \in T
      BY <2>1, <2>2, <2>6, <2>8, <2>10, <3>1
    <3>3. Points(T)
      BY <2>5, <3>2
    <3>4. ASSUME NEW q \in T PROVE q.at <= before.current.at
      <4>1. CASE q \in observed
        <5>1. q.at >= clock - window
          BY <2>1, <2>2, <2>6
        <5> QED BY <4>1, <5>1, <2>6, <2>8, <3>1
      <4>2. CASE q \notin observed
        <5>1. q \in stored
          BY <1>1, <2>6, <4>2
        <5> QED BY <5>1, <2>6, <2>10, <3>2
      <4> QED BY <4>1, <4>2
    <3>5. before.current = Latest(T)
      BY <3>2, <3>3, <3>4, LatestPoint
    <3>6. after # NoDeal /\ before.drop <= after.drop
      BY <2>1, <2>3, <2>7, <3>1, <3>2, <3>3, <3>5, DealKept
    <3> QED BY <2>7, <2>10, <3>1, <3>6
  <2>11. ASSUME DropOf(after) > DropOf(before),
                stored \cap {after.previous, after.current} = {}
         PROVE  FALSE
    <3>1. after # NoDeal
      BY <2>7, <2>11
    <3>2. after.previous \in S /\ after.current \in S
      <4>1. after.previous \in observed /\ after.current \in observed
        BY <1>1, <2>6, <2>9, <2>11, <3>1
      <4> QED BY <4>1, <2>1, <2>2, <2>6, <2>9, <3>1
    <3>3. Points(S)
      BY <2>4, <3>2
    <3>4. ASSUME NEW q \in S PROVE q.at <= after.current.at
      <4>1. q \in observed' /\ q.product = p /\ q.at \in Nat
        BY <2>2, <2>6
      <4>2. after.current.at >= clock' - window /\ after.current.at \in Nat
        BY <2>6, <2>9, <3>1
      <4>3. CASE q.at >= clock' - window
        BY <4>1, <4>3, <2>6, <2>9, <3>1
      <4>4. CASE q.at < clock' - window
        BY <4>1, <4>2, <4>4, <2>1, <2>2
      <4> QED BY <4>1, <4>3, <4>4, <2>1, <2>2
    <3>5. after.current = Latest(S)
      BY <3>2, <3>3, <3>4, LatestPoint
    <3>6. before # NoDeal /\ after.drop <= before.drop
      BY <2>1, <2>3, <2>7, <3>1, <3>2, <3>3, <3>5, DealKept
    <3> QED BY <2>7, <2>11, <3>1, <3>6
  <2> QED BY <2>10, <2>11
<1>2. Tables /\ Tables' /\ [ReadNext]_apiVars =>
        [\A p \in {o.product : o \in observed'}, window \in Windows :
            LET before == DealOf(p, window)
                after  == DealOf(p, window)'
                stored == {o \in observed' \ observed : o.product = p}
            IN  /\ DropOf(after) < DropOf(before) =>
                    \/ before.previous.at < clock' - window
                    \/ \E o \in stored : o.at > before.current.at
                /\ DropOf(after) > DropOf(before) =>
                    stored \cap {after.previous, after.current} # {}
        ]_<<observed, clock>>
  BY <1>1
<1> QED BY <1>2, TablesInvariant, PTL DEF ReadSpec, DealsForCause

(* What a request has read stays true of the tables while crawls flush.    *)
Kept(r) ==
    /\ r.product \in Products /\ r.row \in Row
    /\ \E o \in Of(r.product) : o.at >= r.row.lastSeen

ReaderInv ==
    /\ reader.now \in Nat
    /\ reader.pc = "joining" => \A r \in Range(reader.rows) : Kept(r)
    /\ reader.pc = "charting" => Kept(reader.rows[1])
    /\ reader.pc = "fetching" => \A d \in Range(reader.deals) :
            d.product \in Products /\ d.current \in Of(d.product)

(* The rows GET /products reads.                                           *)
LEMMA RowsKept ==
    ASSUME Tables, NEW source, NEW n \in Nat
    PROVE  \A r \in Range(Rows(source, n)) : Kept(r)
<1> DEFINE found == {p \in Products : Listed(p) /\ Selects(source, p)}
           first == Take(ByLastSeen(found), n)
<1>1. Rows(source, n) = [i \in DOMAIN first |-> RowOf(first[i])]
  BY DEF Rows, ByLastSeen, Sorted
<1>2. IsFiniteSet(found)
  BY CatalogueAssumption, FS_Subset
<1>3. products \in [Products -> Row]
  BY DEF Tables, TypeInv, TypeOK
<1>4. first \in Seq(found) /\ \A i \in DOMAIN first : first[i] \in found
  <2>1. ByLastSeen(found) \in Seq(found)
    BY <1>2, <1>3, SortedRows
  <2> HIDE DEF found
  <2>2. first \in Seq(found)
    BY <2>1, TakeProperties
  <2> HIDE DEF first
  <2> QED BY <2>2, LenProperties, ElementOfSeq
<1> HIDE DEF first
<1>5. ASSUME NEW p \in found PROVE Kept(RowOf(p))
  <2>1. products[p] \in Row /\ NewestOf(p, products[p].lastSeen)
    BY <1>3 DEF Tables, LastSeenIsNewest
  <2>2. \E o \in Of(p) : o.at >= products[p].lastSeen
    <3>1. PICK o \in Of(p) : o.at = products[p].lastSeen
      BY <2>1 DEF NewestOf
    <3>2. products[p].lastSeen \in Int
      BY <2>1, CatalogueAssumption DEF Row
    <3> QED BY <3>1, <3>2
  <2> QED BY <2>1, <2>2 DEF Kept, RowOf
<1> HIDE DEF found
<1>6. ASSUME NEW r \in Range(Rows(source, n))
      PROVE  Kept(r)
  <2>1. PICK i \in DOMAIN first : r = RowOf(first[i])
    BY <1>1 DEF Range
  <2> QED BY <2>1, <1>4, <1>5
<1> QED BY <1>6

(* The deals GET /deals ranks.                                             *)
LEMMA DealsKept ==
    ASSUME Tables, NEW source, NEW since \in Int, NEW n \in Nat,
           NEW d \in Range(RankDeals(HistorySince(source, since), n))
    PROVE  d.product \in Products /\ d.current \in Of(d.product)
<1> DEFINE history == HistorySince(source, since)
<1>1. /\ DOMAIN history \subseteq Products
      /\ \A p \in DOMAIN history :
            /\ Points(history[p]) /\ history[p] \subseteq Of(p)
  <2>1. TypeInv /\ CaptureInv
    BY DEF Tables
  <2> QED BY <2>1, HistoryPoints
<1> HIDE DEF history
<1>2. /\ \A e \in DealsIn(history) :
            /\ e.product \in DOMAIN history
            /\ e = ComputeDeal(e.product, history[e.product])
            /\ e # NoDeal
      /\ \E s \in Seq(DealsIn(history)) : RankDeals(history, n) = Take(s, n)
  BY <1>1, RankedDeals
<1>3. d \in DealsIn(history)
  <2>1. PICK s \in Seq(DealsIn(history)) : RankDeals(history, n) = Take(s, n)
    BY <1>2
  <2>2. Take(s, n) \in Seq(DealsIn(history))
    BY <2>1, TakeProperties
  <2>3. d \in Range(Take(s, n))
    BY <2>1 DEF history
  <2>4. PICK i \in DOMAIN Take(s, n) : d = Take(s, n)[i]
    BY <2>3 DEF Range
  <2> QED BY <2>2, <2>4, LenProperties, ElementOfSeq
<1>4. d.current = Latest(history[d.product]) /\ d.product \in DOMAIN history
  BY <1>1, <1>2, <1>3, DealOfPoints
<1>5. Latest(history[d.product]) \in history[d.product]
  BY <1>1, <1>4, LatestPoint
<1> QED BY <1>1, <1>4, <1>5

LEMMA ReaderStep == Tables /\ ReaderInv /\ [ReadNext]_apiVars => ReaderInv'
<1> SUFFICES ASSUME Tables, ReaderInv, [ReadNext]_apiVars PROVE ReaderInv'
  OBVIOUS
<1>1. clock \in Nat
  BY CatalogueAssumption DEF Tables, TypeInv, TypeOK
<1>2. NewReader.now = 0 /\ NewReader.pc = "idle"
  BY DEF NewReader
<1>3. CASE Next /\ UNCHANGED reader
  <2>1. observed \subseteq observed'
    BY <1>3 DEF Next, Write, TimePasses, OpenSpider, ProcessItem, CloseSpider,
                FlushItem, StopWriter
  <2>2. reader' = reader
    BY <1>3
  <2>3. \A r : Kept(r) => Kept(r)'
    BY <2>1 DEF Kept, Of
  <2>4. \A p : Of(p) \subseteq Of(p)'
    BY <2>1 DEF Of
  <2> QED BY <2>2, <2>3, <2>4 DEF ReaderInv, Kept, Of
<1>4. CASE reader' = NewReader
  BY <1>2, <1>4 DEF ReaderInv
<1>5. ASSUME NEW source, NEW raw \in RawLimits, ListRows(source, raw)
      PROVE  ReaderInv'
  <2>1. /\ reader'.pc = "joining" /\ reader'.now = clock
        /\ reader'.rows = Rows(source, ClampLimit(raw))
    BY <1>5 DEF ListRows, Begins, NewReader
  <2>2. \A r \in Range(Rows(source, ClampLimit(raw))) : Kept(r)
    BY ClampType, RowsKept
  <2>3. \A r : Kept(r) => Kept(r)'
    BY <1>5 DEF ListRows, tables, Kept, Of
  <2>4. \A r \in Range(reader'.rows) : Kept(r)'
    BY <2>1, <2>2, <2>3
  <2> QED BY <2>1, <2>4, <1>1 DEF ReaderInv
<1>6. ASSUME NEW source, NEW raw \in RawLimits, NEW window \in Windows,
             ReadHistories(source, window, raw)
      PROVE  ReaderInv'
  <2> DEFINE deals == RankDeals(HistorySince(source, clock - window),
                                ClampLimit(raw))
  <2>1. /\ reader'.pc = "fetching" /\ reader'.now = clock
        /\ reader'.deals = deals
    BY <1>6 DEF ReadHistories, Begins, NewReader
  <2>2. clock - window \in Int /\ ClampLimit(raw) \in Nat
    BY <1>1, ClampType, ReadAssumption
  <2>3. \A d \in Range(deals) : d.product \in Products /\ d.current \in Of(d.product)
    BY <2>2, DealsKept
  <2>4. \A p : Of(p)' = Of(p)
    BY <1>6 DEF ReadHistories, tables, Of
  <2> HIDE DEF deals
  <2> QED BY <2>1, <2>3, <2>4, <1>1 DEF ReaderInv
<1>7. ASSUME NEW p \in Products, GetProduct(p)
      PROVE  ReaderInv'
  <2>1. CASE ~Listed(p)
    BY <1>4, <1>7, <2>1 DEF GetProduct, Reply
  <2>2. CASE Listed(p)
    <3>1. /\ reader'.pc = "charting" /\ reader'.now = clock
          /\ reader'.rows = <<RowOf(p)>>
      BY <1>7, <2>2 DEF GetProduct, Begins, NewReader
    <3>2. Kept(RowOf(p))
      <4>1. products[p] \in Row /\ NewestOf(p, products[p].lastSeen)
        BY <2>2 DEF Tables, LastSeenIsNewest, TypeInv, TypeOK
      <4>2. PICK o \in Of(p) : o.at = products[p].lastSeen
        BY <4>1 DEF NewestOf
      <4>3. products[p].lastSeen \in Int
        BY <4>1, CatalogueAssumption DEF Row
      <4> QED BY <4>1, <4>2, <4>3 DEF Kept, RowOf
    <3>3. Kept(RowOf(p))' /\ RowOf(p)' = RowOf(p)
      BY <1>7, <3>2 DEF GetProduct, tables, Kept, Of, RowOf
    <3>4. reader'.rows[1] = RowOf(p)
      BY <3>1
    <3> QED BY <3>1, <3>3, <3>4, <1>1 DEF ReaderInv, Kept
  <2> QED BY <2>1, <2>2
<1>8. CASE UNCHANGED apiVars
  BY <1>8 DEF apiVars, tables, ReaderInv, Kept, Of
<1>9. CASE BadRequest
  BY <1>9 DEF BadRequest, tables, ReaderInv, Kept, Of
<1>10. \A since : PriceHistory(since) => reader' = NewReader
  BY DEF PriceHistory, Reply
<1>11. ListProducts \/ ListDeals => reader' = NewReader
  BY DEF ListProducts, ListDeals, Reply
<1> QED BY <1>3, <1>4, <1>5, <1>6, <1>7, <1>8, <1>9, <1>10, <1>11
        DEF ReadNext, Read

LEMMA ReaderInvariant == ReadSpec => [](Tables /\ ReaderInv)
<1>1. ReadInit => ReaderInv
  BY DEF ReadInit, ReaderInv, NewReader
<1> QED BY <1>1, ReaderStep, TablesInvariant, PTL DEF ReadSpec

-----------------------------------------------------------------------------
(* The answers that have been given.                                       *)
Fits(a) ==
    /\ a.status = 200 /\ a.kind = "products" =>
        \A e \in a.entries : e.shown.at >= e.row.lastSeen
    /\ a.status = 200 /\ a.kind = "deals" =>
        \A e \in a.entries : e.shown.at <= e.row.lastSeen

ShownAt(a, e) == IF a.kind = "products" THEN e.row.lastSeen ELSE e.shown.at

Flagged(a) ==
    a.status = 200 /\ a.stale =>
        \A e \in a.entries :
            a.now - ShownAt(a, e) > StaleAfter[SourceOf[e.product]]

(* An answer that is no list makes no claim.                               *)
LEMMA NoClaim ==
    ASSUME NEW a, a.status # 200
    PROVE  Fits(a) /\ Flagged(a)
BY DEF Fits, Flagged

(* The series of a product with a row.                                     *)
LEMMA PointsOfListed ==
    ASSUME Tables, NEW p \in Products, Of(p) # {}
    PROVE  Points(Of(p))
<1>1. IsFiniteSet(Of(p))
  BY FS_Subset DEF Tables, CaptureInv, Of
<1>2. \A o, q \in Of(p) : o.at = q.at => o = q
  BY DEF Tables, CaptureInv, UniqueTimes, Of
<1>3. Of(p) \subseteq Observation
  BY DEF Tables, TypeInv, TypeOK, Of
<1> QED BY <1>1, <1>2, <1>3 DEF Points

(* A stale answer is older than any of its thresholds at any of its times. *)
LEMMA StaleThroughout ==
    ASSUME NEW times \in SUBSET Nat, \A t \in times : t <= MaxTime,
           NEW thresholds \in SUBSET Nat, NEW now \in Nat, NEW default,
           IsStale(AsOf(times, default), thresholds, now),
           NEW t \in times, NEW budget \in thresholds
    PROVE  now - t > budget
<1>1. /\ AsOf(times, default) = Greatest(times)
      /\ Greatest(times) \in times /\ t <= Greatest(times)
  BY Extremes DEF AsOf
<1>2. now - Greatest(times) > budget
  BY <1>1 DEF IsStale
<1>3. t \in Nat /\ Greatest(times) \in Nat /\ budget \in Nat
  BY <1>1
<1> QED BY <1>1, <1>2, <1>3

LEMMA ProductsAnswered ==
    ASSUME Tables, ReaderInv, ListProducts
    PROVE  Fits(answer') /\ Flagged(answer')
<1> DEFINE rows == Range(reader.rows)
           data == {[product |-> r.product, row |-> r.row,
                     shown |-> LatestForMany(r.product)] : r \in rows}
           times == {r.row.lastSeen : r \in rows}
           budgets == Thresholds({r.product : r \in rows})
<1>1. answer' = [status |-> 200, kind |-> "products", entries |-> data,
                 now |-> reader.now,
                 stale |-> IsStale(AsOf(times, reader.now), budgets, reader.now)]
  BY DEF ListProducts, Reply, Respond
<1>2. reader.now \in Nat /\ \A r \in rows : Kept(r)
  BY DEF ListProducts, ReaderInv
<1>3. ASSUME NEW r \in rows
      PROVE  LatestForMany(r.product).at >= r.row.lastSeen
  <2>1. PICK o \in Of(r.product) : o.at >= r.row.lastSeen
    BY <1>2 DEF Kept
  <2>2. Points(Of(r.product))
    BY <1>2, <2>1, PointsOfListed DEF Kept
  <2>3. /\ LatestForMany(r.product) = Latest(Of(r.product))
        /\ Latest(Of(r.product)) \in Of(r.product)
        /\ o.at <= Latest(Of(r.product)).at
    BY <2>1, <2>2, LatestPoint DEF LatestForMany
  <2>4. /\ o.at \in Int /\ Latest(Of(r.product)).at \in Int
        /\ r.row.lastSeen \in Int
    BY <1>2, <2>1, <2>2, <2>3, CatalogueAssumption
       DEF Points, Observation, Kept, Row
  <2> QED BY <2>1, <2>3, <2>4
<1>4. /\ times \in SUBSET Nat /\ \A t \in times : t <= MaxTime
      /\ budgets \in SUBSET Nat
      /\ \A r \in rows : StaleAfter[SourceOf[r.product]] \in budgets
  <2>1. \A r \in rows : r.row.lastSeen \in Nat /\ r.row.lastSeen <= MaxTime
    BY <1>2, CatalogueAssumption DEF Kept, Row
  <2>2. \A r \in rows : StaleAfter[SourceOf[r.product]] \in Nat
    BY <1>2, CatalogueAssumption, ReadAssumption DEF Kept
  <2> QED BY <2>1, <2>2 DEF Thresholds
<1> HIDE DEF rows, budgets
<1>5. ASSUME answer'.stale, NEW r \in rows
      PROVE  reader.now - r.row.lastSeen > StaleAfter[SourceOf[r.product]]
  <2>1. IsStale(AsOf(times, reader.now), budgets, reader.now)
    BY <1>1, <1>5
  <2>2. r.row.lastSeen \in times /\ StaleAfter[SourceOf[r.product]] \in budgets
    BY <1>4
  <2> HIDE DEF times
  <2> QED BY <2>1, <2>2, <1>2, <1>4, StaleThroughout
<1>6. /\ answer'.entries = data /\ answer'.kind = "products"
      /\ answer'.now = reader.now
  BY <1>1
<1>7. ASSUME NEW e \in data
      PROVE  \E r \in rows : /\ e.product = r.product /\ e.row = r.row
                             /\ e.shown = LatestForMany(r.product)
  OBVIOUS
<1>8. Fits(answer')
  BY <1>3, <1>6, <1>7 DEF Fits
<1>9. Flagged(answer')
  <2> SUFFICES ASSUME answer'.stale, NEW e \in data
               PROVE  reader.now - e.row.lastSeen > StaleAfter[SourceOf[e.product]]
    BY <1>6 DEF Flagged, ShownAt
  <2> QED BY <1>5, <1>7
<1> QED BY <1>8, <1>9

LEMMA DealsAnswered ==
    ASSUME Tables, ReaderInv, ListDeals
    PROVE  Fits(answer') /\ Flagged(answer')
<1> DEFINE deals == Range(reader.deals)
           found == {d \in deals : Listed(d.product)}
           data == {[product |-> d.product, row |-> products[d.product],
                     shown |-> d.current] : d \in found}
           times == {d.current.at : d \in deals}
           budgets == Thresholds({d.product : d \in found})
<1>1. answer' = [status |-> 200, kind |-> "deals", entries |-> data,
                 now |-> reader.now,
                 stale |-> IsStale(AsOf(times, reader.now), budgets, reader.now)]
  BY DEF ListDeals, Reply, Respond
<1>2. reader.now \in Nat
      /\ \A d \in deals : d.product \in Products /\ d.current \in Of(d.product)
  BY DEF ListDeals, ReaderInv
<1>3. \A d \in found : d.current.at <= products[d.product].lastSeen
  BY <1>2 DEF Tables, LastSeenIsNewest, NewestOf
<1>4. /\ times \in SUBSET Nat /\ \A t \in times : t <= MaxTime
      /\ budgets \in SUBSET Nat
      /\ \A d \in found : StaleAfter[SourceOf[d.product]] \in budgets
  <2>1. \A d \in deals : d.current \in Observation
    BY <1>2 DEF Tables, TypeInv, TypeOK, Of
  <2>2. \A d \in deals : d.current.at \in Nat /\ d.current.at <= MaxTime
    BY <2>1, CatalogueAssumption DEF Observation
  <2>3. \A d \in found : StaleAfter[SourceOf[d.product]] \in Nat
    BY <1>2, CatalogueAssumption, ReadAssumption
  <2> QED BY <2>2, <2>3 DEF Thresholds
<1>5. found \subseteq deals
  OBVIOUS
<1> HIDE DEF deals, found, budgets
<1>6. ASSUME answer'.stale, NEW d \in found
      PROVE  reader.now - d.current.at > StaleAfter[SourceOf[d.product]]
  <2>1. IsStale(AsOf(times, reader.now), budgets, reader.now)
    BY <1>1, <1>6
  <2>2. d.current.at \in times /\ StaleAfter[SourceOf[d.product]] \in budgets
    BY <1>4, <1>5
  <2> HIDE DEF times
  <2> QED BY <2>1, <2>2, <1>2, <1>4, StaleThroughout
<1>7. /\ answer'.entries = data /\ answer'.kind = "deals"
      /\ answer'.now = reader.now
  BY <1>1
<1>8. ASSUME NEW e \in data
      PROVE  \E d \in found : /\ e.product = d.product
                              /\ e.row = products[d.product]
                              /\ e.shown = d.current
  OBVIOUS
<1>9. Fits(answer')
  BY <1>3, <1>7, <1>8 DEF Fits
<1>10. Flagged(answer')
  <2> SUFFICES ASSUME answer'.stale, NEW e \in data
               PROVE  reader.now - e.shown.at > StaleAfter[SourceOf[e.product]]
    BY <1>7 DEF Flagged, ShownAt
  <2> QED BY <1>6, <1>8
<1> QED BY <1>9, <1>10

LEMMA HistoryAnswered ==
    ASSUME Tables, ReaderInv, NEW since, PriceHistory(since)
    PROVE  Fits(answer') /\ Flagged(answer')
<1> DEFINE r == reader.rows[1]
           points == {o \in Of(r.product) : o.at >= since}
           data == {[product |-> r.product, row |-> r.row, shown |-> o]
                        : o \in points}
           times == {o.at : o \in points}
           budget == StaleAfter[SourceOf[r.product]]
<1>1. answer' = [status |-> 200, kind |-> "history", entries |-> data,
                 now |-> reader.now,
                 stale |-> IsStale(AsOf(times, r.row.lastSeen),
                                   Thresholds({r.product}), reader.now)]
  BY DEF PriceHistory, Reply, Respond
<1>2. reader.now \in Nat /\ r.product \in Products
  BY DEF PriceHistory, ReaderInv, Kept
<1>3. budget \in Nat /\ Thresholds({r.product}) = {budget}
  BY <1>2, CatalogueAssumption, ReadAssumption DEF Thresholds
<1>4. times \in SUBSET Nat /\ \A t \in times : t <= MaxTime
  <2>1. \A o \in points : o \in Observation
    BY DEF Tables, TypeInv, TypeOK, Of
  <2>2. \A o \in points : o.at \in Nat /\ o.at <= MaxTime
    BY <2>1, CatalogueAssumption DEF Observation
  <2> QED BY <2>2
<1> HIDE DEF points, r
<1>5. ASSUME answer'.stale, NEW o \in points
      PROVE  reader.now - o.at > budget
  <2>1. IsStale(AsOf(times, r.row.lastSeen), {budget}, reader.now)
    BY <1>1, <1>3, <1>5
  <2>2. o.at \in times /\ {budget} \in SUBSET Nat /\ budget \in {budget}
    BY <1>3
  <2> HIDE DEF times, budget
  <2> QED BY <2>1, <2>2, <1>2, <1>4, StaleThroughout
<1>6. /\ answer'.entries = data /\ answer'.kind = "history"
      /\ answer'.now = reader.now
  BY <1>1
<1>7. ASSUME NEW e \in data
      PROVE  e.product = r.product /\ \E o \in points : e.shown = o
  OBVIOUS
<1>8. Fits(answer')
  BY <1>6 DEF Fits
<1>9. Flagged(answer')
  <2> SUFFICES ASSUME answer'.stale, NEW e \in data
               PROVE  reader.now - e.shown.at > StaleAfter[SourceOf[e.product]]
    BY <1>6 DEF Flagged, ShownAt
  <2> QED BY <1>5, <1>7
<1> QED BY <1>8, <1>9

(* Every answer that is given fits, and its flag is just.                  *)
LEMMA AnswerStep ==
    Tables /\ ReaderInv /\ Fits(answer) /\ Flagged(answer) /\ [ReadNext]_apiVars
        => Fits(answer') /\ Flagged(answer')
<1> SUFFICES ASSUME Tables, ReaderInv, Fits(answer), Flagged(answer),
                    [ReadNext]_apiVars
             PROVE  Fits(answer') /\ Flagged(answer')
  OBVIOUS
<1>1. NoAnswer.status # 200 /\ Problem(400).status # 200
      /\ Problem(404).status # 200
  BY DEF NoAnswer, Problem
<1>2. CASE answer' = NoAnswer
  BY <1>1, <1>2, NoClaim
<1>3. CASE BadRequest
  BY <1>1, <1>3, NoClaim DEF BadRequest
<1>4. ASSUME NEW p, GetProduct(p)
      PROVE  Fits(answer') /\ Flagged(answer')
  BY <1>1, <1>4, NoClaim DEF GetProduct, Reply
<1>5. ASSUME NEW since, PriceHistory(since)
      PROVE  Fits(answer') /\ Flagged(answer')
  BY <1>5, HistoryAnswered
<1>6. CASE ListProducts
  BY <1>6, ProductsAnswered
<1>7. CASE ListDeals
  BY <1>7, DealsAnswered
<1>8. CASE UNCHANGED apiVars
  BY <1>8 DEF apiVars
<1>9. \A source, raw, window :
         ListRows(source, raw) \/ ReadHistories(source, window, raw)
             => answer' = NoAnswer
  BY DEF ListRows, ReadHistories
<1> QED BY <1>2, <1>3, <1>4, <1>5, <1>6, <1>7, <1>8, <1>9 DEF ReadNext, Read

AnswerInv == Fits(answer) /\ Flagged(answer)

LEMMA AnswerInvariant == ReadSpec => [](Tables /\ ReaderInv /\ AnswerInv)
<1>1. ReadInit => AnswerInv
  BY NoClaim DEF ReadInit, NoAnswer, AnswerInv
<1>2. Tables /\ ReaderInv /\ AnswerInv /\ [ReadNext]_apiVars => AnswerInv'
  BY AnswerStep DEF AnswerInv, Fits, Flagged, ShownAt
<1> QED BY <1>1, <1>2, ReaderInvariant, PTL DEF ReadSpec

(* What a request reads first still fits what it reads last, and what an   *)
(* answer shows, however many crawls flush between its statements.         *)
THEOREM AnswersCoherent == ReadSpec => []AnswerCoherent
<1>1. Tables /\ ReaderInv /\ AnswerInv => AnswerCoherent
  <2> SUFFICES ASSUME Tables, ReaderInv, AnswerInv PROVE AnswerCoherent
    OBVIOUS
  <2>1. reader.pc = "fetching" => \A d \in Range(reader.deals) : Listed(d.product)
    BY DEF ReaderInv, Tables, LastSeenIsNewest
  <2>2. reader.pc = "charting" =>
          \E o \in Of(reader.rows[1].product) : o.at >= reader.rows[1].row.lastSeen
    BY DEF ReaderInv, Kept
  <2> QED BY <2>1, <2>2 DEF AnswerCoherent, AnswerInv, Fits
<1> QED BY <1>1, AnswerInvariant, PTL

(* Under the stale flag everything shown is older than the budget of its   *)
(* own source, whichever sources an answer mixes.                          *)
THEOREM StaleCorrect == ReadSpec => []StaleIsAllStale
<1>1. AnswerInv => StaleIsAllStale
  BY DEF AnswerInv, Flagged, ShownAt, StaleIsAllStale
<1> QED BY <1>1, AnswerInvariant, PTL

=============================================================================
