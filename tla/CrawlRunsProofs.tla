-------------------------- MODULE CrawlRunsProofs --------------------------
(***************************************************************************)
(* The crawl-run ledger and the time series, for every value of the        *)
(* constants: any sources, listings, prices and gates, any number of runs, *)
(* overlapping in any way, and any of the faults.                          *)
(***************************************************************************)
EXTENDS CrawlRuns, SetLemmas, SequenceTheorems

(***************************************************************************)
(* Types, and what a process has done by the step it is at.                *)
(***************************************************************************)

Phase(p) ==
    /\ p.pc \in Live \ {"started"} => p.source \in Persistable \cap Registered
    /\ p.pc \in {"none", "started", "opened", "priced"} =>
            p.buffer = <<>> /\ p.seen = {}
    /\ p.pc \in {"none", "started", "opened", "priced", "crawling"} =>
            p.persisted = 0 /\ ~p.quarantined
    /\ p.pc = "flushing" => p.persisted < Len(p.buffer) /\ ~p.quarantined
    /\ p.pc = "closing"  => /\ p.persisted <= Len(p.buffer)
                            /\ p.quarantined => p.persisted = 0

TypeInv ==
    /\ TypeOK
    /\ \A r \in Runs : Phase(proc[r])
    /\ \A o \in observed : o.at <= captures

LEMMA IdleType == Idle \in Process /\ Phase(Idle)
<1>1. None \in Int /\ <<>> \in Seq(Observation) /\ Len(<<>>) = 0
  BY DEF None
<1> QED BY <1>1 DEF Idle, Process, Phase, Live

LEMMA GoneType ==
    ASSUME NEW p \in Process, NEW pc \in {"exited", "died"}
    PROVE  Gone(p, pc) \in Process /\ Phase(Gone(p, pc))
<1>1. None \in Int
  BY DEF None
<1> QED BY <1>1 DEF Gone, Idle, Process, Phase, Live

LEMMA OpenedType ==
    ASSUME NEW s \in Sources \cup {"none"}
    PROVE  Opened(s) \in Row /\ Absent \in Row
BY DEF Opened, Absent, Row

(* A step of one process.                                                  *)
LEMMA OneProcess ==
    ASSUME TypeInv, NEW r \in Runs, NEW q \in Process, Phase(q),
           proc' = [proc EXCEPT ![r] = q]
    PROVE  /\ proc' \in [Runs -> Process]
           /\ \A x \in Runs : Phase(proc'[x])
           /\ proc'[r] = q /\ \A x \in Runs \ {r} : proc'[x] = proc[x]
BY DEF TypeInv, TypeOK

(* The captures of a product have a latest one.                            *)
LEMMA LatestObservation ==
    ASSUME TypeInv, NEW s, NEW e, Of(s, e) # {}
    PROVE  \E o \in Of(s, e) : /\ \A p \in Of(s, e) : p.at <= o.at
                               /\ LatestAmount(s, e) = o.amount
<1> DEFINE times == {o.at : o \in Of(s, e)}
<1>1. captures \in Nat
  BY DEF TypeInv, TypeOK
<1>2. \A o \in Of(s, e) : o.at \in Nat /\ o.at <= captures
  BY DEF TypeInv, TypeOK, Of, Observation
<1>3. times \in SUBSET Nat /\ times # {} /\ \A t \in times : t <= captures
  BY <1>2
<1>4. PICK t \in times : \A u \in times : u <= t
  <2> HIDE DEF times
  <2> QED BY <1>1, <1>3, GreatestElement
<1>5. \E o \in Of(s, e) : \A p \in Of(s, e) : p.at <= o.at
  BY <1>4
<1> QED BY <1>5 DEF LatestAmount

LEMMA AmountType ==
    ASSUME TypeInv, NEW s, NEW e
    PROVE  LatestAmount(s, e) \in Int
<1>1. CASE Of(s, e) = {}
  BY <1>1 DEF LatestAmount, None
<1>2. CASE Of(s, e) # {}
  <2>1. PICK o \in Of(s, e) : LatestAmount(s, e) = o.amount
    BY <1>2, LatestObservation
  <2> QED BY <2>1 DEF TypeInv, TypeOK, Of, Observation
<1> QED BY <1>1, <1>2

(* The finished runs of a source that committed have a last one.           *)
LEMMA LastBaseline ==
    ASSUME TypeInv, NEW s, NEW r, Baselines(s, r) # {}
    PROVE  \E i \in Baselines(s, r) :
             /\ \A j \in Baselines(s, r) : j <= i
             /\ BaselineCount(s, r) = ledger[closed[i]].itemsOk
<1>1. Len(closed) \in Nat
  BY DEF TypeInv, TypeOK
<1>2. /\ Baselines(s, r) \in SUBSET Nat
      /\ \A i \in Baselines(s, r) : i <= Len(closed)
  BY <1>1 DEF Baselines
<1>3. \E i \in Baselines(s, r) : \A j \in Baselines(s, r) : j <= i
  BY <1>1, <1>2, GreatestElement
<1> QED BY <1>3 DEF BaselineCount

LEMMA BaselineType ==
    ASSUME TypeInv, NEW s, NEW r
    PROVE  BaselineCount(s, r) \in Int
<1>1. CASE Baselines(s, r) = {}
  BY <1>1 DEF BaselineCount, None
<1>2. CASE Baselines(s, r) # {}
  <2>1. PICK i \in Baselines(s, r) : BaselineCount(s, r) = ledger[closed[i]].itemsOk
    BY <1>2, LastBaseline
  <2>2. i \in 1..Len(closed)
    BY DEF Baselines
  <2>3. closed[i] \in Runs
    BY <2>2, ElementOfSeq DEF TypeInv, TypeOK
  <2> QED BY <2>1, <2>3 DEF TypeInv, TypeOK, Row
<1> QED BY <1>1, <1>2

-----------------------------------------------------------------------------
(***************************************************************************)
(* What a step does to the process it is a step of: it goes on with its    *)
(* items as they are, keeps one, flushes one, is gone, or is started.      *)
(***************************************************************************)

Moves(r, q) == proc' = [proc EXCEPT ![r] = q]

(* The ways to go on without an item, with what the gates use.             *)
Advances(r, q) ==
    LET p == proc[r] IN
    \/ p.pc = "started" /\ q.pc = "opened" /\ UNCHANGED overlapped
    \/ /\ LoadPrices(r) /\ p.pc = "opened" /\ q.pc = "priced"
       /\ q.prev = [e \in Entries |-> LatestAmount(p.source, e)]
    \/ /\ p.pc = "priced" /\ q.pc = "crawling" /\ UNCHANGED overlapped
       /\ q.prev = p.prev /\ q.baseline = BaselineCount(p.source, r)
    \/ /\ p.pc \in {"opened", "priced", "crawling"} /\ q.pc = "closing"
       /\ q.reason # "finished" /\ UNCHANGED overlapped
    \/ /\ p.pc = "flushing" /\ q.pc = "closing" /\ UNCHANGED overlapped
       /\ q.baseline = p.baseline /\ q.quarantined = p.quarantined
    \/ /\ p.pc = "crawling" /\ q.pc = "crawling" /\ UNCHANGED overlapped
       /\ q.prev = p.prev /\ q.baseline = p.baseline
    \/ /\ p.pc = "crawling" /\ q.pc \in {"closing", "flushing"}
       /\ q.prev = p.prev /\ q.baseline = p.baseline /\ UNCHANGED overlapped
       /\ q.quarantined = VolumeAnomaly(Len(p.buffer), p.baseline)

Goes(r) ==
    /\ proc[r].pc \in Live
    /\ \E q \in Process :
        /\ Moves(r, q) /\ Phase(q)
        /\ q.pc \in Live \ {"started"}
        /\ q.source = proc[r].source /\ q.owned = proc[r].owned
        /\ q.buffer = proc[r].buffer /\ q.persisted = proc[r].persisted
        /\ proc[r].seen \subseteq q.seen /\ Advances(r, q)
    /\ \A x \in Runs \ {r} : ledger'[x] = ledger[x]
    /\ Prepare(r) \/ (proc[r].pc # "started" /\ UNCHANGED ledger)
    /\ UNCHANGED <<closed, observed, calls, captures>>

Ends(r) ==
    /\ proc[r].pc \in Live
    /\ \E pc \in {"exited", "died"} : Moves(r, Gone(proc[r], pc))
    /\ \A x \in Runs \ {r} : ledger'[x] = ledger[x]
    /\ CloseRun(r) \/ UNCHANGED <<ledger, closed>>
    /\ UNCHANGED <<observed, calls, captures, overlapped>>

Started(s, owned) == [Idle EXCEPT !.pc = "started", !.source = s, !.owned = owned]

Starts(r) ==
    /\ proc[r] = Idle
    /\ \E s \in Sources \cup {"none"}, owned \in BOOLEAN :
        Moves(r, Started(s, owned))
    /\ UNCHANGED <<ledger, closed, observed, captures, overlapped>>

(* The steps of a process that touch no table but, perhaps, the ledger.    *)
LEMMA TypeEnds ==
    ASSUME TypeInv, NEW r \in Runs, Bail(r) \/ Dies(r)
    PROVE  TypeInv' /\ Ends(r) /\ UNCHANGED <<ledger, closed>>
<1>1. proc[r] \in Process /\ proc[r].pc \in Live
  BY DEF TypeInv, TypeOK, Bail, Dies, At, Live
<1>2. PICK pc \in {"exited", "died"} : Moves(r, Gone(proc[r], pc))
  BY DEF Bail, Dies, TypeInv, TypeOK, Moves
<1>3. UNCHANGED <<ledger, closed, observed, calls, captures, overlapped>>
  BY DEF Bail, Dies
<1>4. proc' \in [Runs -> Process] /\ \A x \in Runs : Phase(proc'[x])
  BY <1>1, <1>2, GoneType, OneProcess DEF Moves
<1> QED BY <1>1, <1>2, <1>3, <1>4 DEF Ends, TypeInv, TypeOK

LEMMA TypeOpening ==
    ASSUME TypeInv, NEW r \in Runs,
           \/ Prepare(r) \/ LoadPrices(r) \/ LoadBaseline(r)
           \/ OpenSpiderFails(r) \/ FlushFails(r)
           \/ \E bans \in 0..MaxBans : ReactorFails(r, bans)
    PROVE  TypeInv' /\ Goes(r)
<1>1. proc[r] \in Process /\ Phase(proc[r])
  BY DEF TypeInv, TypeOK
<1> DEFINE Keeps(q) ==
        /\ q.pc \in Live \ {"started"}
        /\ q.source = proc[r].source /\ q.owned = proc[r].owned
        /\ q.buffer = proc[r].buffer /\ q.persisted = proc[r].persisted
        /\ q.seen = proc[r].seen /\ Advances(r, q)
<1>2. ASSUME NEW q \in Process, Phase(q), Moves(r, q), Keeps(q),
             ledger' \in [Runs -> Row], overlapped' \subseteq Sources
      PROVE  TypeInv' /\ Goes(r)
  <2>1. proc' \in [Runs -> Process] /\ \A x \in Runs : Phase(proc'[x])
    BY <1>2, OneProcess DEF Moves
  <2>2. UNCHANGED <<closed, observed, calls, captures>>
    BY DEF Prepare, LoadPrices, LoadBaseline, OpenSpiderFails, ReactorFails,
           FlushFails
  <2>3. proc[r].pc \in Live
    BY DEF Prepare, LoadPrices, LoadBaseline, OpenSpiderFails, ReactorFails,
           FlushFails, At, Live
  <2>4. TypeInv'
    BY <1>2, <2>1, <2>2 DEF TypeInv, TypeOK
  <2>5. \A x \in Runs \ {r} : ledger'[x] = ledger[x]
    BY DEF Prepare, LoadPrices, LoadBaseline, OpenSpiderFails, ReactorFails,
           FlushFails, TypeInv, TypeOK
  <2>6. Prepare(r) \/ (proc[r].pc # "started" /\ UNCHANGED ledger)
    BY DEF Prepare, LoadPrices, LoadBaseline, OpenSpiderFails, ReactorFails,
           FlushFails, At
  <2>7. Goes(r)
    BY <1>2, <2>2, <2>3, <2>5, <2>6 DEF Goes
  <2> QED BY <2>4, <2>7
<1>3. ledger \in [Runs -> Row] /\ overlapped \subseteq Sources
  BY DEF TypeInv, TypeOK
<1>4. CASE Prepare(r)
  <2> DEFINE q == [proc[r] EXCEPT !.pc = "opened"]
  <2>1. Moves(r, q) /\ UNCHANGED overlapped
    BY <1>4 DEF Prepare, Moves
  <2>2. q \in Process /\ Phase(q) /\ Keeps(q)
    BY <1>1, <1>4 DEF Prepare, At, Process, Phase, Live, Advances
  <2>3. ledger' \in [Runs -> Row]
    <3>1. Opened(proc[r].source) \in Row
      BY <1>1, OpenedType DEF Process
    <3> QED BY <1>3, <1>4, <3>1 DEF Prepare
  <2> HIDE DEF Keeps, q
  <2> QED BY <2>1, <2>2, <2>3, <1>2, <1>3
<1>5. CASE LoadPrices(r)
  <2> DEFINE s == proc[r].source
             prev == [e \in Entries |-> LatestAmount(s, e)]
             q == [proc[r] EXCEPT !.pc = "priced", !.prev = prev]
  <2>1. Moves(r, q) /\ UNCHANGED ledger
    BY <1>5 DEF LoadPrices, Moves
  <2>2. prev \in [Entries -> Int]
    BY AmountType
  <2>3. prev = [e \in Entries |-> LatestAmount(proc[r].source, e)]
    OBVIOUS
  <2> HIDE DEF prev
  <2>5. /\ q \in Process /\ Phase(q) /\ q.prev = prev /\ q.pc = "priced"
        /\ q.source = proc[r].source /\ q.owned = proc[r].owned
        /\ q.buffer = proc[r].buffer /\ q.persisted = proc[r].persisted
        /\ q.seen = proc[r].seen
    BY <1>1, <1>5, <2>2 DEF LoadPrices, At, Process, Phase, Live
  <2> HIDE DEF q
  <2>6. Advances(r, q)
    BY <1>5, <2>3, <2>5 DEF Advances, LoadPrices, At
  <2>7. Keeps(q)
    BY <2>5, <2>6 DEF Live
  <2>4. overlapped' \subseteq Sources
    BY <1>1, <1>3, <1>5, CrawlAssumption DEF LoadPrices, At, Phase, Live
  <2> HIDE DEF Keeps
  <2> QED BY <2>1, <2>4, <2>5, <2>7, <1>2, <1>3 DEF q
<1>6. CASE LoadBaseline(r)
  <2> DEFINE baseline == BaselineCount(proc[r].source, r)
             q == [proc[r] EXCEPT !.pc = "crawling", !.baseline = baseline]
  <2>1. Moves(r, q) /\ UNCHANGED <<ledger, overlapped>>
    BY <1>6 DEF LoadBaseline, Moves
  <2>2. baseline \in Int
    BY BaselineType
  <2> HIDE DEF baseline
  <2>3. q \in Process /\ Phase(q) /\ Keeps(q)
    <3>1. /\ q \in Process /\ Phase(q) /\ q.prev = proc[r].prev
          /\ q.pc = "crawling" /\ q.baseline = baseline
          /\ q.source = proc[r].source /\ q.owned = proc[r].owned
          /\ q.buffer = proc[r].buffer /\ q.persisted = proc[r].persisted
          /\ q.seen = proc[r].seen
      BY <1>1, <1>6, <2>2 DEF LoadBaseline, At, Process, Phase, Live
    <3> HIDE DEF q
    <3>2. Advances(r, q)
      BY <1>6, <3>1 DEF Advances, LoadBaseline, At, baseline
    <3> QED BY <3>1, <3>2 DEF Live
  <2> HIDE DEF Keeps, q
  <2> QED BY <2>1, <2>3, <1>2, <1>3
<1>7. ASSUME NEW q \in Process, Moves(r, q), UNCHANGED <<ledger, overlapped>>,
             proc[r].pc \in {"opened", "priced", "crawling", "flushing"},
             q.pc = "closing", q.quarantined = proc[r].quarantined,
             q.source = proc[r].source, q.owned = proc[r].owned,
             q.buffer = proc[r].buffer, q.persisted = proc[r].persisted,
             q.seen = proc[r].seen, q.baseline = proc[r].baseline,
             q.reason # "finished" \/ proc[r].pc = "flushing"
      PROVE  TypeInv' /\ Goes(r)
  <2>1. Len(proc[r].buffer) \in Nat /\ proc[r].persisted \in Nat
    BY <1>1, LenProperties DEF Process
  <2>2. Phase(q)
    <3>1. /\ proc[r].source \in Persistable \cap Registered
          /\ ~proc[r].quarantined
          /\ proc[r].persisted = 0 \/ proc[r].persisted < Len(proc[r].buffer)
      BY <1>1, <1>7 DEF Phase, Live
    <3> QED BY <1>7, <2>1, <3>1 DEF Phase
  <2>3. Advances(r, q)
    BY <1>7 DEF Advances
  <2>4. Keeps(q)
    BY <1>7, <2>3 DEF Live
  <2> HIDE DEF Keeps
  <2> QED BY <1>2, <1>3, <1>7, <2>2, <2>4
<1>8. CASE OpenSpiderFails(r)
  <2> DEFINE q == [proc[r] EXCEPT !.pc = "closing", !.reason = "shutdown"]
  <2>1. /\ Moves(r, q) /\ UNCHANGED <<ledger, overlapped>>
        /\ proc[r].pc \in {"opened", "priced"}
    BY <1>8 DEF OpenSpiderFails, Moves
  <2>2. /\ q \in Process /\ q.pc = "closing" /\ q.reason # "finished"
        /\ q.quarantined = proc[r].quarantined /\ q.source = proc[r].source
        /\ q.owned = proc[r].owned /\ q.buffer = proc[r].buffer
        /\ q.persisted = proc[r].persisted /\ q.seen = proc[r].seen
        /\ q.baseline = proc[r].baseline
    BY <1>1 DEF Process, Live
  <2> HIDE DEF q
  <2> QED BY <1>7, <2>1, <2>2
<1>9. CASE \E bans \in 0..MaxBans : ReactorFails(r, bans)
  <2>1. PICK bans \in 0..MaxBans : ReactorFails(r, bans)
    BY <1>9
  <2> DEFINE q == [proc[r] EXCEPT !.pc = "closing", !.reason = "crashed",
                                  !.bans = bans]
  <2>2. /\ Moves(r, q) /\ UNCHANGED <<ledger, overlapped>>
        /\ proc[r].pc \in {"opened", "priced", "crawling"}
    BY <2>1 DEF ReactorFails, Moves
  <2>3. bans \in Nat
    BY CrawlAssumption
  <2>4. /\ q \in Process /\ q.pc = "closing" /\ q.reason # "finished"
        /\ q.quarantined = proc[r].quarantined /\ q.source = proc[r].source
        /\ q.owned = proc[r].owned /\ q.buffer = proc[r].buffer
        /\ q.persisted = proc[r].persisted /\ q.seen = proc[r].seen
        /\ q.baseline = proc[r].baseline
    BY <1>1, <2>3 DEF Process, Live
  <2> HIDE DEF q
  <2> QED BY <1>7, <2>2, <2>4
<1>10. CASE FlushFails(r)
  <2> DEFINE q == [proc[r] EXCEPT !.pc = "closing"]
  <2>1. /\ Moves(r, q) /\ UNCHANGED <<ledger, overlapped>>
        /\ proc[r].pc = "flushing"
    BY <1>10 DEF FlushFails, Moves, At
  <2>2. /\ q \in Process /\ q.pc = "closing"
        /\ q.quarantined = proc[r].quarantined /\ q.source = proc[r].source
        /\ q.owned = proc[r].owned /\ q.buffer = proc[r].buffer
        /\ q.persisted = proc[r].persisted /\ q.seen = proc[r].seen
        /\ q.baseline = proc[r].baseline
    BY <1>1 DEF Process, Live
  <2> HIDE DEF q
  <2> QED BY <1>7, <2>1, <2>2
<1> QED BY <1>4, <1>5, <1>6, <1>8, <1>9, <1>10

(* An item is dropped ...                                                  *)
LEMMA TypeDrop ==
    ASSUME TypeInv, NEW r \in Runs, NEW e \in Entries, NEW a \in Prices,
           DropItem(r, e, a)
    PROVE  TypeInv' /\ Goes(r)
<1> DEFINE p == proc[r]
           rejects == Unmappable(a) \/ (~Duplicate(p, e) /\ Fails(p, e, a))
           seen == IF Unmappable(a) THEN p.seen ELSE p.seen \cup {e}
           rejected == IF rejects THEN p.rejected + 1 ELSE p.rejected
           mapped == p.mapped + 1
           q == [p EXCEPT !.mapped = mapped, !.seen = seen, !.rejected = rejected]
<1>1. p \in Process /\ Phase(p) /\ p.pc = "crawling"
  BY DEF TypeInv, TypeOK, DropItem, Yielding, At
<1>2. Moves(r, q)
  BY DEF DropItem, Moves
<1>3. /\ seen \in SUBSET Entries /\ rejected \in Nat /\ mapped \in Nat
      /\ p.seen \subseteq seen
  BY <1>1 DEF Process
<1> HIDE DEF seen, rejected, mapped
<1>4. /\ q \in Process /\ Phase(q) /\ p.seen \subseteq q.seen
      /\ q.pc = p.pc /\ q.source = p.source /\ q.owned = p.owned
      /\ q.buffer = p.buffer /\ q.persisted = p.persisted
      /\ q.prev = p.prev /\ q.baseline = p.baseline
  BY <1>1, <1>3 DEF Process, Phase
<1> HIDE DEF q
<1>5. proc' \in [Runs -> Process] /\ \A x \in Runs : Phase(proc'[x])
  BY <1>2, <1>4, OneProcess DEF Moves
<1>6. UNCHANGED <<ledger, closed, observed, calls, captures, overlapped>>
  BY DEF DropItem
<1>7. Goes(r)
  <2>1. Advances(r, q)
    BY <1>1, <1>4, <1>6 DEF Advances
  <2> QED BY <1>1, <1>2, <1>4, <1>6, <2>1 DEF Goes, Live
<1> QED BY <1>5, <1>6, <1>7 DEF TypeInv, TypeOK

(* ... or buffered.                                                        *)
Item(r, e, a) == [source |-> proc[r].source, entry |-> e, run |-> r,
                  amount |-> a, at |-> captures + 1]

Keeps(r, e, a) ==
    /\ proc[r].pc = "crawling" /\ e \notin proc[r].seen
    /\ ~Discontinuous(a, proc[r].prev[e])
    /\ Item(r, e, a) \in Observation
    /\ \E q \in Process :
        /\ Moves(r, q) /\ Phase(q)
        /\ q.pc = "crawling" /\ q.source = proc[r].source
        /\ q.owned = proc[r].owned /\ q.prev = proc[r].prev
        /\ q.baseline = proc[r].baseline
        /\ q.buffer = Append(proc[r].buffer, Item(r, e, a))
        /\ q.persisted = 0 /\ q.seen = proc[r].seen \cup {e}
    /\ captures' = captures + 1
    /\ UNCHANGED <<ledger, closed, observed, calls, overlapped>>

LEMMA TypeKeep ==
    ASSUME TypeInv, NEW r \in Runs, NEW e \in Entries, NEW a \in Prices,
           KeepItem(r, e, a)
    PROVE  TypeInv' /\ Keeps(r, e, a)
<1> DEFINE p == proc[r]
           item == Item(r, e, a)
           buffer == Append(p.buffer, item)
           seen == p.seen \cup {e}
           mapped == p.mapped + 1
           q == [p EXCEPT !.mapped = mapped, !.seen = seen, !.buffer = buffer]
<1>1. /\ p \in Process /\ Phase(p) /\ p.pc = "crawling" /\ e \notin p.seen
      /\ ~Discontinuous(a, p.prev[e])
  BY DEF TypeInv, TypeOK, KeepItem, Yielding, At, Duplicate, Fails
<1>2. Moves(r, q) /\ captures' = captures + 1
  BY DEF KeepItem, Moves, Item
<1>3. captures \in Nat
  BY DEF TypeInv, TypeOK
<1>4. item \in Observation
  <2>1. p.source \in Sources /\ a \in Int
    BY <1>1, CrawlAssumption DEF Phase, Live
  <2> QED BY <1>3, <2>1 DEF Observation, Item
<1> HIDE DEF item
<1>5. buffer \in Seq(Observation) /\ seen \in SUBSET Entries /\ mapped \in Nat
  BY <1>1, <1>4, AppendProperties DEF Process
<1>6. buffer = Append(p.buffer, item) /\ seen = p.seen \cup {e}
  OBVIOUS
<1> HIDE DEF buffer, seen, mapped
<1>7. /\ q \in Process /\ Phase(q)
      /\ q.pc = "crawling" /\ q.source = p.source /\ q.owned = p.owned
      /\ q.prev = p.prev /\ q.buffer = buffer /\ q.persisted = 0 /\ q.seen = seen
      /\ q.baseline = p.baseline
  BY <1>1, <1>5 DEF Process, Phase
<1> HIDE DEF q
<1>8. proc' \in [Runs -> Process] /\ \A x \in Runs : Phase(proc'[x])
  BY <1>2, <1>7, OneProcess DEF Moves
<1>9. \A o \in observed : o.at <= captures + 1
  <2>1. \A o \in observed : o.at \in Nat /\ o.at <= captures
    BY DEF TypeInv, TypeOK, Observation
  <2> QED BY <1>3, <2>1
<1>10. UNCHANGED <<ledger, closed, observed, calls, overlapped>>
  BY DEF KeepItem
<1>11. TypeInv'
  BY <1>2, <1>3, <1>8, <1>9, <1>10 DEF TypeInv, TypeOK
<1>12. Keeps(r, e, a)
  BY <1>1, <1>2, <1>4, <1>6, <1>7, <1>10 DEF Keeps, item
<1> QED BY <1>11, <1>12

(* The crawl ends, its buffer is flushed, its row is closed.               *)
LEMMA TypeEnd ==
    ASSUME TypeInv, NEW r \in Runs, NEW reason \in {"finished", "shutdown"},
           NEW unmapped \in 0..MaxUnmapped, NEW bans \in 0..MaxBans,
           EndCrawl(r, reason, unmapped, bans)
    PROVE  TypeInv' /\ Goes(r)
<1> DEFINE p == proc[r]
           pc == IF Anomaly(p) \/ p.buffer = <<>> THEN "closing" ELSE "flushing"
           quarantined == Anomaly(p)
           q == [p EXCEPT !.pc = pc, !.reason = reason, !.unmapped = unmapped,
                          !.bans = bans, !.quarantined = quarantined]
<1>1. p \in Process /\ Phase(p) /\ p.pc = "crawling"
  BY DEF TypeInv, TypeOK, EndCrawl, At
<1>2. Moves(r, q)
  BY DEF EndCrawl, Moves
<1>3. /\ pc \in {"closing", "flushing"} /\ quarantined \in BOOLEAN
      /\ pc = "flushing" => ~quarantined /\ p.buffer # <<>>
  BY DEF Anomaly, VolumeAnomaly
<1>4. unmapped \in Nat /\ bans \in Nat
  BY CrawlAssumption
<1>5. /\ Len(p.buffer) \in Nat
      /\ p.buffer # <<>> => 0 < Len(p.buffer)
  <2>1. p.buffer \in Seq(Observation)
    BY <1>1 DEF Process
  <2> QED BY <2>1, EmptySeq, LenProperties
<1> HIDE DEF pc, quarantined
<1>6. q \in Process
  BY <1>1, <1>3, <1>4 DEF Process, Live
<1>7. Phase(q)
  <2>1. /\ q.pc = pc /\ q.quarantined = quarantined /\ q.buffer = p.buffer
        /\ q.persisted = p.persisted /\ q.source = p.source
    BY <1>1 DEF Process
  <2>2. p.persisted = 0 /\ p.source \in Persistable \cap Registered
    BY <1>1 DEF Phase, Live
  <2> HIDE DEF q
  <2> QED BY <1>3, <1>5, <2>1, <2>2 DEF Phase
<1>8. /\ q.pc \in Live \ {"started"} /\ q.source = p.source
      /\ q.owned = p.owned /\ q.buffer = p.buffer
      /\ q.persisted = p.persisted /\ q.seen = p.seen
      /\ q.prev = p.prev /\ q.baseline = p.baseline
      /\ q.pc = pc /\ q.quarantined = quarantined
  BY <1>1, <1>3 DEF Process, Live
<1>11. quarantined = VolumeAnomaly(Len(p.buffer), p.baseline)
  BY DEF quarantined, Anomaly
<1> HIDE DEF q
<1>9. proc' \in [Runs -> Process] /\ \A x \in Runs : Phase(proc'[x])
  BY <1>2, <1>6, <1>7, OneProcess DEF Moves
<1>10. Goes(r)
  <2>1. UNCHANGED overlapped
    BY DEF EndCrawl
  <2>2. Advances(r, q)
    BY <1>1, <1>3, <1>8, <1>11, <2>1 DEF Advances
  <2> QED BY <1>1, <1>2, <1>6, <1>7, <1>8, <2>2 DEF EndCrawl, Goes, Live
<1> QED BY <1>9, <1>10 DEF EndCrawl, TypeInv, TypeOK

(* A process that flushes has an item left, captured in the past.          *)
LEMMA NextToFlush ==
    ASSUME TypeInv, NEW r \in Runs, At(r, "flushing")
    PROVE  /\ proc[r].persisted + 1 \in 1..Len(proc[r].buffer)
           /\ proc[r].buffer \in Seq(Observation)
           /\ proc[r].buffer[proc[r].persisted + 1] \in Observation
<1>1. proc[r] \in Process /\ Phase(proc[r])
  BY DEF TypeInv, TypeOK
<1>2. /\ proc[r].buffer \in Seq(Observation) /\ proc[r].persisted \in Nat
      /\ proc[r].persisted < Len(proc[r].buffer)
  BY <1>1 DEF Process, Phase, At
<1>3. Len(proc[r].buffer) \in Nat
  BY <1>2, LenProperties
<1>4. proc[r].persisted + 1 \in 1..Len(proc[r].buffer)
  BY <1>2, <1>3
<1> QED BY <1>2, <1>4, ElementOfSeq

LEMMA TypeClose ==
    ASSUME TypeInv, NEW r \in Runs, CloseRun(r)
    PROVE  TypeInv' /\ Ends(r)
<1>1. proc[r] \in Process
  BY DEF TypeInv, TypeOK
<1>2. proc' = [proc EXCEPT ![r] = Gone(proc[r], "exited")]
  BY DEF CloseRun, TypeInv, TypeOK
<1>3. proc' \in [Runs -> Process] /\ \A x \in Runs : Phase(proc'[x])
  BY <1>1, <1>2, GoneType, OneProcess
<1>4. Outcome(proc[r]) \in Row
  <2>1. StatusOf(proc[r]) \in Terminal
    BY DEF StatusOf, RunStatus, Terminal
  <2> QED BY <1>1, <2>1 DEF Outcome, Rejected, Row, Process
<1>5. ledger' \in [Runs -> Row]
  BY <1>4 DEF CloseRun, TypeInv, TypeOK
<1>6. closed' \in Seq(Runs)
  BY AppendProperties DEF CloseRun, TypeInv, TypeOK
<1>7. Ends(r)
  BY <1>2 DEF CloseRun, Ends, Moves, At, Live, TypeInv, TypeOK
<1> QED BY <1>3, <1>5, <1>6, <1>7 DEF CloseRun, TypeInv, TypeOK

-----------------------------------------------------------------------------
(* Ids are used one after the other, each by one launch or one start.      *)
IdInv ==
    /\ \E n \in Nat : Used = 1..n
    /\ \A call \in calls : \A r \in call :
            ledger[r].status = "running" /\ proc[r] = Idle
    /\ \A call, other \in calls : call # other => call \cap other = {}

LEMMA FreshIds ==
    ASSUME IdInv, NEW n \in Nat
    PROVE  \E m \in Nat : /\ Used = 1..m /\ NextIds(n) = (m + 1)..(m + n)
                          /\ NextIds(n) \cap Used = {}
                          /\ IsFiniteSet(NextIds(n)) /\ Cardinality(NextIds(n)) = n
<1>1. PICK m \in Nat : Used = 1..m
  BY DEF IdInv
<1>2. Cardinality(Used) = m
  BY <1>1, FS_Interval
<1>3. NextIds(n) = (m + 1)..(m + n)
  BY <1>2 DEF NextIds
<1>4. IsFiniteSet((m + 1)..(m + n)) /\ Cardinality((m + 1)..(m + n)) = n
  <2>1. m + 1 \in Int /\ m + n \in Int
    OBVIOUS
  <2> QED BY <2>1, FS_Interval
<1> QED BY <1>1, <1>3, <1>4

(* A trigger opens a row under each of its ids, none of which was used.    *)
Opens(ids) ==
    /\ ids \subseteq Runs /\ ids \cap Used = {}
    /\ calls' = calls \cup ({ids} \ {{}})
    /\ \A r \in ids : \E s \in Sources : ledger'[r] = Opened(s)
    /\ \A r \in Runs \ ids : ledger'[r] = ledger[r]
    /\ ledger' \in [Runs -> Row]
    /\ UNCHANGED <<closed, observed, proc, captures, overlapped>>

(* ... one row for every target.                                           *)
EachOnce(targets, ids) ==
    /\ \A s \in targets : \E r \in ids : ledger'[r].source = s
    /\ \A r \in ids : ledger'[r].source \in targets
    /\ \A q, r \in ids : ledger'[q].source = ledger'[r].source => q = r

LEMMA TypeOpenRows ==
    ASSUME TypeInv, IdInv, NEW targets, targets \subseteq Sources,
           IsFiniteSet(targets), OpenRows(targets)
    PROVE  /\ TypeInv' /\ Opens(NextIds(Cardinality(targets)))
           /\ EachOnce(targets, NextIds(Cardinality(targets)))
<1> DEFINE ids == NextIds(Cardinality(targets))
           Apart(f) == \A s, t \in targets : f[s] = f[t] => s = t
           run == CHOOSE f \in [targets -> ids] : Apart(f)
           Mine(r) == \E s \in targets : run[s] = r
           First(r) == CHOOSE s \in targets : run[s] = r
<1>1. /\ ids \subseteq Runs /\ calls' = calls \cup ({ids} \ {{}})
      /\ ledger' = [r \in Runs |-> IF Mine(r) THEN Opened(First(r)) ELSE ledger[r]]
      /\ UNCHANGED <<closed, observed, proc, captures, overlapped>>
  BY DEF OpenRows
<1>2. /\ ids \cap Used = {} /\ IsFiniteSet(ids)
      /\ Cardinality(ids) = Cardinality(targets)
  BY FreshIds, FS_CardinalityType
<1> HIDE DEF ids
<1>3. run \in [targets -> ids] /\ Apart(run)
  <2>1. PICK f \in Bijection(targets, ids) : TRUE
    BY <1>2, FS_SameCardinalityBij DEF ExistsBijection
  <2>2. f \in [targets -> ids] /\ Apart(f)
    BY <2>1 DEF Bijection, Injection, IsInjective
  <2> HIDE DEF Apart
  <2> QED BY <2>2
<1>4. \A r \in ids : Mine(r)
  <2>1. run \in Injection(targets, ids)
    BY <1>3 DEF Injection, IsInjective
  <2>2. run \in Surjection(targets, ids)
    <3> HIDE DEF run
    <3> QED BY <2>1, <1>2, FS_Injection
  <2> QED BY <2>2 DEF Surjection
<1>5. \A r : Mine(r) => r \in ids /\ First(r) \in targets /\ run[First(r)] = r
  <2> SUFFICES ASSUME NEW r, Mine(r)
               PROVE  r \in ids /\ First(r) \in targets /\ run[First(r)] = r
    OBVIOUS
  <2>1. First(r) \in targets /\ run[First(r)] = r
    <3> HIDE DEF run
    <3> QED OBVIOUS
  <2>2. PICK s \in targets : run[s] = r
    OBVIOUS
  <2> HIDE DEF run, First
  <2> QED BY <2>1, <2>2, <1>3
<1>11. \A s \in targets : Mine(run[s])
  <2> HIDE DEF run
  <2> QED OBVIOUS
<1>12. \A s, t \in targets : run[s] = run[t] => s = t
  BY <1>3
<1> HIDE DEF run, Mine, First
<1>6. \A r \in ids : ledger'[r] = Opened(First(r)) /\ First(r) \in Sources
  BY <1>1, <1>4, <1>5
<1>7. \A r \in Runs \ ids : ledger'[r] = ledger[r]
  BY <1>1, <1>5
<1>8. ledger' \in [Runs -> Row]
  <2>1. ASSUME NEW r \in Runs PROVE ledger'[r] \in Row
    <3>1. CASE r \in ids
      BY <1>6, <3>1, OpenedType
    <3>2. CASE r \notin ids
      BY <1>7, <3>2 DEF TypeInv, TypeOK
    <3> QED BY <3>1, <3>2
  <2> QED BY <1>1, <2>1
<1>9. TypeInv'
  BY <1>1, <1>8 DEF TypeInv, TypeOK
<1>10. Opens(ids)
  BY <1>1, <1>2, <1>6, <1>7, <1>8 DEF Opens
<1>13. EachOnce(targets, ids)
  <2>1. \A r \in ids : /\ ledger'[r].source = First(r) /\ First(r) \in targets
                        /\ run[First(r)] = r
    <3>1. \A s : Opened(s).source = s
      BY DEF Opened, Absent
    <3> QED BY <1>4, <1>5, <1>6, <3>1
  <2>2. \A s \in targets : run[s] \in ids /\ First(run[s]) = s
    BY <1>5, <1>11, <1>12
  <2> QED BY <2>1, <2>2 DEF EachOnce
<1> QED BY <1>9, <1>10, <1>13 DEF ids

LEMMA TypeStarted ==
    ASSUME TypeInv, NEW r \in Runs, NEW s \in Sources \cup {"none"},
           NEW owned \in BOOLEAN,
           Moves(r, Started(s, owned)), proc[r] = Idle,
           UNCHANGED <<ledger, closed, observed, captures, overlapped>>,
           calls' \subseteq SUBSET Runs
    PROVE  TypeInv' /\ Starts(r)
<1>1. Started(s, owned) \in Process /\ Phase(Started(s, owned))
  BY IdleType DEF Started, Process, Phase, Live, Idle
<1>2. proc' \in [Runs -> Process] /\ \A x \in Runs : Phase(proc'[x])
  BY <1>1, OneProcess DEF Moves
<1> QED BY <1>2 DEF TypeInv, TypeOK, Starts

LEMMA TypeLaunch ==
    ASSUME TypeInv, IdInv, NEW r \in Runs, NEW call \in calls, r \in call,
           Launch(call, r)
    PROVE  TypeInv' /\ Starts(r)
<1>1. proc[r] = Idle
  BY DEF IdInv
<1>2. proc' = [proc EXCEPT ![r] = [proc[r] EXCEPT !.pc = "started",
                                     !.source = ledger[r].source]]
  BY DEF Launch
<1>3. [Idle EXCEPT !.pc = "started", !.source = ledger[r].source]
        = Started(ledger[r].source, FALSE)
  <2>1. Idle.owned = FALSE /\ Idle \in Process
    BY IdleType DEF Idle
  <2> QED BY <2>1 DEF Started, Process
<1>4. calls' \subseteq SUBSET Runs
  BY DEF Launch, TypeInv, TypeOK
<1>5. ledger[r].source \in Sources \cup {"none"}
  BY DEF TypeInv, TypeOK, Row
<1>6. Moves(r, Started(ledger[r].source, FALSE))
  BY <1>1, <1>2, <1>3 DEF Moves
<1> QED BY <1>1, <1>4, <1>5, <1>6, TypeStarted DEF Launch

LEMMA TypeCli ==
    ASSUME TypeInv, IdInv, NEW s \in Sources, StartCli(s)
    PROVE  /\ TypeInv'
           /\ \E r \in NextIds(1) \cap Runs :
                /\ Starts(r) /\ r \notin Used
                /\ Moves(r, Started(s, TRUE)) /\ UNCHANGED calls
<1>1. PICK r \in NextIds(1) \cap Runs :
         /\ proc' = [proc EXCEPT ![r].pc = "started", ![r].source = s,
                                 ![r].owned = TRUE]
         /\ UNCHANGED <<ledger, closed, observed, calls, captures, overlapped>>
  BY DEF StartCli
<1>2. r \notin Used
  BY FreshIds
<1>3. proc[r] = Idle
  BY <1>2 DEF Used
<1>4. proc' = [proc EXCEPT ![r] = [proc[r] EXCEPT !.pc = "started",
                                     !.source = s, !.owned = TRUE]]
  BY <1>1
<1>5. Moves(r, Started(s, TRUE))
  BY <1>3, <1>4 DEF Started, Moves
<1>6. calls' \subseteq SUBSET Runs
  BY <1>1 DEF TypeInv, TypeOK
<1>7. TypeInv' /\ Starts(r)
  BY <1>1, <1>3, <1>5, <1>6, TypeStarted
<1> QED BY <1>1, <1>2, <1>5, <1>7

(* What is buffered was captured in the past.                              *)
BuffersPast ==
    \A r \in Runs : \A i \in 1..Len(proc[r].buffer) :
        proc[r].buffer[i].at <= captures

Flushes(r) ==
    /\ proc[r].pc = "flushing"
    /\ proc[r].persisted + 1 \in 1..Len(proc[r].buffer)
    /\ \E q \in Process :
        /\ Moves(r, q) /\ Phase(q)
        /\ q.pc \in {"flushing", "closing"} /\ q.source = proc[r].source
        /\ q.owned = proc[r].owned /\ q.prev = proc[r].prev
        /\ q.buffer = proc[r].buffer /\ q.seen = proc[r].seen
        /\ q.persisted = proc[r].persisted + 1
        /\ q.baseline = proc[r].baseline /\ q.quarantined = proc[r].quarantined
    /\ observed' = observed \cup {proc[r].buffer[proc[r].persisted + 1]}
    /\ UNCHANGED <<ledger, closed, calls, captures, overlapped>>

LEMMA TypeFlush ==
    ASSUME TypeInv, BuffersPast, NEW r \in Runs, FlushItem(r)
    PROVE  TypeInv' /\ Flushes(r)
<1> DEFINE p == proc[r]
           pc == IF p.persisted + 1 = Len(p.buffer) THEN "closing" ELSE "flushing"
           q == [p EXCEPT !.persisted = p.persisted + 1, !.pc = pc]
<1>1. p \in Process /\ Phase(p) /\ p.pc = "flushing"
  BY DEF TypeInv, TypeOK, FlushItem, At
<1>2. Moves(r, q)
  BY DEF FlushItem, Moves
<1>3. /\ p.persisted + 1 \in 1..Len(p.buffer)
      /\ p.buffer[p.persisted + 1] \in Observation
  BY NextToFlush DEF FlushItem
<1>4. /\ pc \in {"closing", "flushing"}
      /\ pc = "flushing" => p.persisted + 1 < Len(p.buffer)
      /\ p.persisted + 1 <= Len(p.buffer) /\ p.persisted + 1 \in Nat
  <2>1. Len(p.buffer) \in Nat /\ p.persisted \in Nat
    BY <1>1, LenProperties DEF Process
  <2> QED BY <1>3, <2>1
<1> HIDE DEF pc
<1>5. q \in Process
  BY <1>1, <1>4 DEF Process, Live
<1>6. Phase(q)
  <2>1. /\ q.pc = pc /\ q.quarantined = p.quarantined /\ q.buffer = p.buffer
        /\ q.persisted = p.persisted + 1 /\ q.source = p.source
    BY <1>1 DEF Process
  <2>2. ~p.quarantined /\ p.source \in Persistable \cap Registered
    BY <1>1 DEF Phase, Live
  <2> HIDE DEF q
  <2> QED BY <1>4, <2>1, <2>2 DEF Phase
<1>9. /\ q.pc \in {"flushing", "closing"} /\ q.source = p.source
      /\ q.owned = p.owned /\ q.prev = p.prev /\ q.buffer = p.buffer
      /\ q.seen = p.seen /\ q.persisted = p.persisted + 1
      /\ q.baseline = p.baseline /\ q.quarantined = p.quarantined
  BY <1>1, <1>4 DEF Process
<1> HIDE DEF q
<1>7. proc' \in [Runs -> Process] /\ \A x \in Runs : Phase(proc'[x])
  BY <1>2, <1>5, <1>6, OneProcess DEF Moves
<1>8. p.buffer[p.persisted + 1].at <= captures
  BY <1>3 DEF BuffersPast
<1>10. Flushes(r)
  BY <1>1, <1>2, <1>3, <1>5, <1>6, <1>9 DEF FlushItem, Flushes
<1> QED BY <1>3, <1>7, <1>8, <1>10 DEF FlushItem, TypeInv, TypeOK

(* Every step is of one of these kinds, and keeps the types.               *)
Gives == \E call \in calls : /\ calls' = calls \ {call}
                             /\ UNCHANGED <<ledger, closed, observed, proc,
                                            captures, overlapped>>

Steps(r) ==
    \/ Goes(r) \/ Ends(r) \/ Flushes(r)
    \/ \E e \in Entries, a \in Prices : Keeps(r, e, a)
    \/ Starts(r) /\ \E call \in calls : r \in call /\ Launch(call, r)
    \/ Starts(r) /\ r \notin Used /\ r \in NextIds(1) /\ UNCHANGED calls
       /\ \E s \in Sources : Moves(r, Started(s, TRUE))

(* The steps of a crawl process, which leave the launches alone.           *)
Works(r) ==
    \/ Goes(r) \/ Ends(r) \/ Flushes(r)
    \/ \E e \in Entries, a \in Prices : Keeps(r, e, a)

LEMMA TypeWorks ==
    ASSUME TypeInv, BuffersPast, NEW r \in Runs, Proceed(r) \/ Fault(r)
    PROVE  TypeInv' /\ Works(r)
<1>1. ASSUME Proceed(r) PROVE TypeInv' /\ Works(r)
  <2>1. CASE Bail(r)
    BY <2>1, TypeEnds DEF Works
  <2>2. CASE Prepare(r) \/ LoadPrices(r) \/ LoadBaseline(r)
    BY <2>2, TypeOpening DEF Works
  <2>3. ASSUME NEW e \in Entries, NEW a \in Prices, DropItem(r, e, a)
        PROVE  TypeInv' /\ Works(r)
    BY <2>3, TypeDrop DEF Works
  <2>4. ASSUME NEW e \in Entries, NEW a \in Prices, KeepItem(r, e, a)
        PROVE  TypeInv' /\ Works(r)
    BY <2>4, TypeKeep DEF Works
  <2>5. ASSUME NEW reason \in {"finished", "shutdown"},
               NEW unmapped \in 0..MaxUnmapped, NEW bans \in 0..MaxBans,
               EndCrawl(r, reason, unmapped, bans)
        PROVE  TypeInv' /\ Works(r)
    BY <2>5, TypeEnd DEF Works
  <2>6. CASE FlushItem(r)
    BY <2>6, TypeFlush DEF Works
  <2>7. CASE CloseRun(r)
    BY <2>7, TypeClose DEF Works
  <2> QED BY <1>1, <2>1, <2>2, <2>3, <2>4, <2>5, <2>6, <2>7 DEF Proceed
<1>2. ASSUME Fault(r) PROVE TypeInv' /\ Works(r)
  <2>1. CASE Dies(r)
    BY <2>1, TypeEnds DEF Works
  <2>2. CASE \/ OpenSpiderFails(r) \/ FlushFails(r)
             \/ \E bans \in 0..MaxBans : ReactorFails(r, bans)
    BY <2>2, TypeOpening DEF Works
  <2> QED BY <1>2, <2>1, <2>2 DEF Fault
<1> QED BY <1>1, <1>2

LEMMA Kinds ==
    ASSUME TypeInv, IdInv, BuffersPast, [Next]_vars
    PROVE  /\ TypeInv'
           /\ \/ UNCHANGED vars \/ Gives
              \/ \E n \in Nat : Opens(NextIds(n))
              \/ \E r \in Runs : Steps(r)
<1>1. CASE UNCHANGED vars
  BY <1>1 DEF vars, TypeInv, TypeOK
<1>2. ASSUME NEW targets, targets \subseteq Registered, OpenRows(targets)
      PROVE  TypeInv' /\ \E n \in Nat : Opens(NextIds(n))
  <2>1. targets \subseteq Sources /\ IsFiniteSet(targets)
    BY <1>2, CrawlAssumption, FS_Subset
  <2>2. Cardinality(targets) \in Nat
    BY <2>1, FS_CardinalityType
  <2> QED BY <1>2, <2>1, <2>2, TypeOpenRows
<1>3. ASSUME NEW s \in Sources, TriggerOne(s)
      PROVE  TypeInv' /\ \E n \in Nat : Opens(NextIds(n))
  <2>1. {s} \subseteq Registered /\ OpenRows({s})
    BY <1>3 DEF TriggerOne
  <2> QED BY <2>1, <1>2
<1>4. CASE TriggerAll
  BY <1>2, <1>4 DEF TriggerAll
<1>5. ASSUME NEW s \in Sources, StartCli(s)
      PROVE  TypeInv' /\ \E r \in Runs : Steps(r)
  BY <1>5, TypeCli DEF Steps
<1>6. ASSUME NEW call \in calls, LaunchFails(call)
      PROVE  TypeInv' /\ Gives
  BY <1>6 DEF LaunchFails, Gives, TypeInv, TypeOK
<1>7. ASSUME NEW r \in Runs, Launches(r)
      PROVE  TypeInv' /\ Steps(r)
  <2>1. PICK call \in calls : r \in call /\ Launch(call, r)
    BY <1>7 DEF Launches
  <2> QED BY <2>1, TypeLaunch DEF Steps
<1>8. ASSUME NEW r \in Runs, Proceed(r) \/ Fault(r)
      PROVE  TypeInv' /\ Steps(r)
  BY <1>8, TypeWorks DEF Works, Steps
<1> QED BY <1>1, <1>3, <1>4, <1>5, <1>6, <1>7, <1>8 DEF Next

(* A process of which a step is one is an id that was used.                *)
LEMMA LiveUsed ==
    ASSUME TypeInv, NEW r \in Runs, proc[r].pc \in Live
    PROVE  proc[r] # Idle /\ r \in Used
BY DEF Live, Idle, Used

LEMMA Moved ==
    ASSUME TypeInv, NEW r \in Runs, NEW q, Moves(r, q)
    PROVE  proc'[r] = q /\ \A x \in Runs \ {r} : proc'[x] = proc[x]
BY DEF TypeInv, TypeOK, Moves

LEMMA GoneFields ==
    ASSUME NEW p, NEW pc
    PROVE  /\ Gone(p, pc).pc = pc /\ Gone(p, pc).source = p.source
           /\ Gone(p, pc).buffer = p.buffer
BY DEF Gone, Idle

LEMMA StartedFields ==
    ASSUME NEW s, NEW owned
    PROVE  /\ Started(s, owned).pc = "started" /\ Started(s, owned).source = s
           /\ Started(s, owned).owned = owned /\ Started(s, owned).buffer = <<>>
           /\ Started(s, owned).persisted = 0 /\ Started(s, owned).seen = {}
BY DEF Started, Idle

(* The steps of a process that was started use no new id.                  *)
LEMMA UsedKept ==
    ASSUME TypeInv, NEW r \in Runs, r \in Used,
           \A x \in Runs \ {r} : ledger'[x] = ledger[x] /\ proc'[x] = proc[x],
           proc'[r].pc # "none"
    PROVE  Used' = Used
<1>1. proc'[r] # Idle
  BY DEF Idle
<1> QED BY <1>1 DEF Used

LEMMA IdOpen ==
    ASSUME TypeInv, IdInv, NEW n \in Nat, Opens(NextIds(n))
    PROVE  IdInv'
<1> DEFINE ids == NextIds(n)
<1>1. PICK m \in Nat : /\ Used = 1..m /\ ids = (m + 1)..(m + n)
                       /\ ids \cap Used = {}
  BY FreshIds
<1> HIDE DEF ids
<1>2. /\ ids \subseteq Runs /\ calls' = calls \cup ({ids} \ {{}})
      /\ UNCHANGED proc
      /\ \A r \in ids : ledger'[r].status = "running" /\ ledger'[r] # Absent
      /\ \A r \in Runs \ ids : ledger'[r] = ledger[r]
  <2>1. \A s : Opened(s).status = "running" /\ Opened(s) # Absent
    BY DEF Opened, Absent
  <2> QED BY <2>1 DEF Opens, ids
<1>3. Used' = Used \cup ids
  BY <1>2 DEF Used
<1>4. Used' = 1..(m + n)
  BY <1>1, <1>3
<1>5. \A call \in calls : call \subseteq Used
  <2>1. \A r \in Runs : ledger[r].status = "running" => ledger[r] # Absent
    BY DEF Absent
  <2> QED BY <2>1 DEF IdInv, Used, TypeInv, TypeOK
<1>6. ASSUME NEW call \in calls', NEW r \in call
      PROVE  ledger'[r].status = "running" /\ proc'[r] = Idle
  <2>1. CASE call = ids
    <3>1. r \in ids /\ r \in Runs /\ r \notin Used
      BY <1>1, <1>2, <2>1
    <3> QED BY <1>2, <3>1 DEF Used
  <2>2. CASE call \in calls
    <3>1. r \in Runs \ ids
      BY <1>1, <1>5, <2>2 DEF Used
    <3> QED BY <1>2, <2>2, <3>1 DEF IdInv
  <2> QED BY <1>2, <2>1, <2>2
<1>7. ASSUME NEW call \in calls', NEW other \in calls', call # other
      PROVE  call \cap other = {}
  <2>1. \A c \in calls : c \cap ids = {}
    BY <1>1, <1>5
  <2> QED BY <1>2, <1>7, <2>1 DEF IdInv
<1>8. m + n \in Nat
  OBVIOUS
<1> QED BY <1>4, <1>6, <1>7, <1>8 DEF IdInv

LEMMA IdLaunch ==
    ASSUME TypeInv, IdInv, NEW r \in Runs, Starts(r),
           NEW call \in calls, r \in call, Launch(call, r)
    PROVE  IdInv'
<1>1. /\ calls' = (calls \ {call}) \cup ({call \ {r}} \ {{}})
      /\ UNCHANGED ledger
  BY DEF Launch
<1>2. proc'[r].pc = "started" /\ \A x \in Runs \ {r} : proc'[x] = proc[x]
  BY Moved, StartedFields DEF Starts
<1>3. r \in Used
  <2>1. ledger[r].status = "running"
    BY DEF IdInv
  <2> QED BY <2>1 DEF Used, Absent
<1>4. Used' = Used
  BY <1>1, <1>2, <1>3, UsedKept
<1>5. \A c \in calls' : r \notin c /\ \E d \in calls : c \subseteq d
  BY <1>1 DEF IdInv
<1>6. \A c \in calls' : \A x \in c : ledger'[x].status = "running" /\ proc'[x] = Idle
  <2>1. \A c \in calls : c \subseteq Runs
    BY DEF TypeInv, TypeOK
  <2> QED BY <1>1, <1>2, <1>5, <2>1 DEF IdInv
<1>7. \A c, d \in calls' : c # d => c \cap d = {}
  BY <1>1 DEF IdInv
<1> QED BY <1>4, <1>6, <1>7 DEF IdInv

LEMMA IdCli ==
    ASSUME TypeInv, IdInv, NEW r \in Runs, Starts(r), r \notin Used,
           r \in NextIds(1), UNCHANGED calls
    PROVE  IdInv'
<1>1. PICK m \in Nat : Used = 1..m /\ NextIds(1) = (m + 1)..(m + 1)
  BY FreshIds
<1>2. proc'[r].pc = "started" /\ \A x \in Runs \ {r} : proc'[x] = proc[x]
  BY Moved, StartedFields DEF Starts
<1>3. UNCHANGED ledger
  BY DEF Starts
<1>4. Used' = Used \cup {r}
  <2>1. proc'[r] # Idle
    BY <1>2 DEF Idle
  <2> QED BY <1>2, <1>3, <2>1 DEF Used
<1>5. Used' = 1..(m + 1)
  BY <1>1, <1>4
<1>6. \A call \in calls : \A x \in call : x \in Runs \ {r}
  <2>1. \A x \in Runs : ledger[x].status = "running" => x \in Used
    BY DEF Absent, Used
  <2> QED BY <2>1 DEF IdInv, TypeInv, TypeOK
<1>7. \A call \in calls' : \A x \in call :
         ledger'[x].status = "running" /\ proc'[x] = Idle
  BY <1>2, <1>3, <1>6 DEF IdInv
<1>8. m + 1 \in Nat
  OBVIOUS
<1> QED BY <1>5, <1>7, <1>8 DEF IdInv

LEMMA IdStep ==
    ASSUME TypeInv, IdInv, BuffersPast, [Next]_vars
    PROVE  IdInv'
<1>1. CASE UNCHANGED vars
  BY <1>1 DEF vars, IdInv, Used
<1>2. CASE Gives
  <2>1. Used' = Used
    BY <1>2 DEF Gives, Used
  <2> QED BY <1>2, <2>1 DEF Gives, IdInv
<1>3. ASSUME NEW r \in Runs, proc[r].pc \in Live, NEW q, Moves(r, q),
             q.pc # "none", UNCHANGED calls,
             \A x \in Runs \ {r} : ledger'[x] = ledger[x]
      PROVE  IdInv'
  <2>1. proc'[r] = q /\ \A x \in Runs \ {r} : proc'[x] = proc[x]
    BY <1>3, Moved
  <2>2. Used' = Used
    BY <1>3, <2>1, LiveUsed, UsedKept
  <2>3. \A call \in calls : \A x \in call : x \in Runs \ {r}
    <3>1. proc[r] # Idle
      BY <1>3, LiveUsed
    <3> QED BY <3>1 DEF IdInv, TypeInv, TypeOK
  <2> QED BY <1>3, <2>1, <2>2, <2>3 DEF IdInv
<1>4. ASSUME NEW r \in Runs, Goes(r) PROVE IdInv'
  <2>1. PICK q \in Process : Moves(r, q) /\ q.pc \in Live \ {"started"}
    BY <1>4 DEF Goes
  <2>2. q.pc # "none"
    BY <2>1 DEF Live
  <2> QED BY <1>3, <1>4, <2>1, <2>2 DEF Goes
<1>5. ASSUME NEW r \in Runs, Ends(r) PROVE IdInv'
  <2>1. PICK pc \in {"exited", "died"} : Moves(r, Gone(proc[r], pc))
    BY <1>5 DEF Ends
  <2>2. Gone(proc[r], pc).pc # "none"
    BY <2>1, GoneFields
  <2> QED BY <1>3, <1>5, <2>1, <2>2 DEF Ends
<1>6. ASSUME NEW r \in Runs, Flushes(r) PROVE IdInv'
  <2>1. PICK q \in Process : Moves(r, q) /\ q.pc \in {"flushing", "closing"}
    BY <1>6 DEF Flushes
  <2> QED BY <1>3, <1>6, <2>1 DEF Flushes, Live
<1>7. ASSUME NEW r \in Runs, NEW e, NEW a, Keeps(r, e, a) PROVE IdInv'
  <2>1. PICK q \in Process : Moves(r, q) /\ q.pc = "crawling"
    BY <1>7 DEF Keeps
  <2> QED BY <1>3, <1>7, <2>1 DEF Keeps, Live
<1> QED BY <1>1, <1>2, <1>4, <1>5, <1>6, <1>7, Kinds, IdOpen, IdLaunch, IdCli
        DEF Steps

-----------------------------------------------------------------------------
(***************************************************************************)
(* Buffers, and what is stored of them.                                    *)
(***************************************************************************)

(* The buffer of a run has its own items, each entry once, as captured.    *)
Items(p, r, now) ==
    /\ \A i \in 1..Len(p.buffer) :
        /\ p.buffer[i].run = r /\ p.buffer[i].source = p.source
        /\ p.buffer[i].at <= now
        /\ p.pc \in Live => p.buffer[i].entry \in p.seen
    /\ \A i, j \in 1..Len(p.buffer) : i < j =>
        /\ p.buffer[i].entry # p.buffer[j].entry
        /\ p.buffer[i].at < p.buffer[j].at

BufferInv == \A r \in Runs : Items(proc[r], r, captures)

DistinctStamps ==
    \A r, x \in Runs : r # x =>
        \A i \in 1..Len(proc[r].buffer), j \in 1..Len(proc[x].buffer) :
            proc[r].buffer[i].at # proc[x].buffer[j].at

(* What is stored is of a buffer; a run has stored what it has flushed.    *)
Flushed(p) == {p.buffer[i] : i \in 1..p.persisted}

StoredInv ==
    /\ \A o \in observed : \E i \in 1..Len(proc[o.run].buffer) :
            o = proc[o.run].buffer[i]
    /\ \A r \in Runs : proc[r].pc \notin {"exited", "died"} =>
            Committed(r) = Flushed(proc[r])

BuffersInv == IdInv /\ BufferInv /\ DistinctStamps /\ StoredInv

LEMMA BufferPast == BufferInv => BuffersPast
BY DEF BufferInv, Items, BuffersPast

LEMMA EmptyItems ==
    ASSUME NEW p, p.buffer = <<>>, NEW r, NEW now
    PROVE  Items(p, r, now)
BY EmptySeq DEF Items

(* One process moves, with the buffer it had.                              *)
LEMMA SameBuffers ==
    ASSUME TypeInv, BuffersInv, NEW r \in Runs, NEW q, Moves(r, q),
           q.buffer = proc[r].buffer, UNCHANGED captures,
           \/ Len(q.buffer) = 0
           \/ /\ q.source = proc[r].source /\ proc[r].pc \in Live
              /\ q.pc \in Live => proc[r].seen \subseteq q.seen
    PROVE  BufferInv' /\ DistinctStamps'
<1>1. proc'[r] = q /\ \A x \in Runs \ {r} : proc'[x] = proc[x]
  BY Moved
<1>2. Items(proc[r], r, captures)
  BY DEF BuffersInv, BufferInv
<1>3. Items(q, r, captures)
  BY <1>2 DEF Items
<1>4. BufferInv'
  BY <1>1, <1>3 DEF BuffersInv, BufferInv
<1>5. \A x \in Runs : proc'[x].buffer = proc[x].buffer
  BY <1>1
<1>6. DistinctStamps'
  <2> SUFFICES ASSUME NEW x \in Runs, NEW y \in Runs, x # y,
                      NEW i \in 1..Len(proc'[x].buffer),
                      NEW j \in 1..Len(proc'[y].buffer)
               PROVE  proc'[x].buffer[i].at # proc'[y].buffer[j].at
    BY DEF DistinctStamps
  <2>1. proc'[x].buffer = proc[x].buffer /\ proc'[y].buffer = proc[y].buffer
    BY <1>5
  <2>2. DistinctStamps
    BY DEF BuffersInv
  <2> QED BY <2>1, <2>2 DEF DistinctStamps
<1> QED BY <1>4, <1>6

(* A process that neither keeps nor flushes an item.                       *)
LEMMA BuffersQuiet ==
    ASSUME TypeInv, BuffersInv, NEW r \in Runs, NEW q, Moves(r, q),
           UNCHANGED <<captures, observed>>,
           \/ /\ q.buffer = proc[r].buffer /\ q.source = proc[r].source
              /\ proc[r].pc \in Live
              /\ q.pc \in Live => proc[r].seen \subseteq q.seen
              /\ q.pc \in {"exited", "died"} \/ q.persisted = proc[r].persisted
           \/ proc[r] = Idle /\ q.buffer = <<>> /\ q.persisted = 0
    PROVE  BufferInv' /\ DistinctStamps' /\ StoredInv'
<1>1. proc'[r] = q /\ \A x \in Runs \ {r} : proc'[x] = proc[x]
  BY Moved
<1>2. q.buffer = proc[r].buffer
  BY DEF Idle
<1>3. BufferInv' /\ DistinctStamps'
  BY <1>2, EmptySeq, SameBuffers
<1>4. \A x \in Runs : proc'[x].buffer = proc[x].buffer
  BY <1>1, <1>2
<1>5. ASSUME NEW o \in observed'
      PROVE  \E i \in 1..Len(proc'[o.run].buffer) : o = proc'[o.run].buffer[i]
  <2>1. o \in observed /\ o.run \in Runs
    BY DEF TypeInv, TypeOK, Observation
  <2> QED BY <1>4, <2>1 DEF BuffersInv, StoredInv
<1>6. ASSUME NEW x \in Runs, proc'[x].pc \notin {"exited", "died"}
      PROVE  Committed(x)' = Flushed(proc'[x])
  <2>1. Committed(x)' = Committed(x)
    BY DEF Committed
  <2>2. CASE x # r
    BY <1>1, <1>6, <2>1, <2>2 DEF BuffersInv, StoredInv, Flushed
  <2>3. CASE x = r
    <3>1. proc[r].pc \notin {"exited", "died"}
      BY DEF Live, Idle
    <3>2. q.persisted = proc[r].persisted
      BY <1>1, <1>6, <2>3 DEF Idle
    <3>3. Committed(r) = Flushed(proc[r])
      BY <3>1 DEF BuffersInv, StoredInv
    <3>4. Flushed(q) = Flushed(proc[r])
      BY <1>2, <3>2 DEF Flushed
    <3> QED BY <1>1, <2>1, <2>3, <3>3, <3>4
  <2> QED BY <2>2, <2>3
<1> QED BY <1>3, <1>5, <1>6 DEF StoredInv

(* An item is kept: it is of an entry not seen, captured after all others. *)
LEMMA BuffersKeep ==
    ASSUME TypeInv, BuffersInv, NEW r \in Runs, NEW e \in Entries,
           NEW a \in Prices, Keeps(r, e, a)
    PROVE  BufferInv' /\ DistinctStamps' /\ StoredInv'
<1> DEFINE p == proc[r]
           item == Item(r, e, a)
           n == Len(p.buffer)
<1>1. PICK q \in Process :
        /\ Moves(r, q) /\ q.pc = "crawling" /\ q.source = p.source
        /\ q.buffer = Append(p.buffer, item)
        /\ q.persisted = 0 /\ q.seen = p.seen \cup {e}
  BY DEF Keeps
<1>2. proc'[r] = q /\ \A x \in Runs \ {r} : proc'[x] = proc[x]
  BY <1>1, Moved
<1>3. /\ p.buffer \in Seq(Observation) /\ captures \in Nat /\ p.persisted = 0
      /\ p.pc = "crawling" /\ e \notin p.seen
  BY DEF TypeInv, TypeOK, Process, Keeps, Phase
<1>4. /\ item.run = r /\ item.source = p.source /\ item.entry = e
      /\ item.at = captures + 1 /\ captures' = captures + 1
  BY DEF Item, Keeps
<1>5. item \in Observation
  BY DEF Keeps
<1> HIDE DEF item
<1>6. /\ n \in Nat /\ Len(q.buffer) = n + 1 /\ q.buffer[n + 1] = item
      /\ \A i \in 1..n : q.buffer[i] = p.buffer[i] /\ p.buffer[i] \in Observation
  BY <1>1, <1>3, <1>5, AppendProperties, LenProperties, ElementOfSeq
<1>7. \A x \in Runs : \A i \in 1..Len(proc[x].buffer) :
        proc[x].buffer[i].at \in Nat /\ proc[x].buffer[i].at < captures + 1
  <2> SUFFICES ASSUME NEW x \in Runs, NEW i \in 1..Len(proc[x].buffer)
               PROVE  proc[x].buffer[i].at \in Nat
                      /\ proc[x].buffer[i].at < captures + 1
    OBVIOUS
  <2>1. proc[x].buffer \in Seq(Observation)
    BY DEF TypeInv, TypeOK, Process
  <2>2. proc[x].buffer[i] \in Observation
    BY <2>1, ElementOfSeq
  <2>3. proc[x].buffer[i].at <= captures
    BY DEF BuffersInv, BufferInv, Items
  <2>4. proc[x].buffer[i].at \in Nat
    BY <2>2 DEF Observation
  <2> QED BY <1>3, <2>3, <2>4
<1>8. Items(p, r, captures)
  BY DEF BuffersInv, BufferInv
<1>9. Items(q, r, captures + 1)
  <2>1. ASSUME NEW i \in 1..Len(q.buffer)
        PROVE  /\ q.buffer[i].run = r /\ q.buffer[i].source = q.source
               /\ q.buffer[i].at <= captures + 1
               /\ q.buffer[i].entry \in q.seen
    <3>1. i \in 1..n \/ i = n + 1
      BY <1>6, <2>1
    <3>2. CASE i \in 1..n
      <4>1. q.buffer[i] = p.buffer[i] /\ p.buffer[i].at < captures + 1
            /\ p.buffer[i].at \in Nat
        BY <1>6, <1>7, <3>2
      <4>2. /\ p.buffer[i].run = r /\ p.buffer[i].source = p.source
            /\ p.buffer[i].entry \in p.seen
        BY <1>3, <1>8, <3>2 DEF Items, Live
      <4> QED BY <1>1, <1>3, <4>1, <4>2
    <3>3. CASE i = n + 1
      BY <1>1, <1>3, <1>4, <1>6, <3>3
    <3> QED BY <3>1, <3>2, <3>3
  <2>2. ASSUME NEW i \in 1..Len(q.buffer), NEW j \in 1..Len(q.buffer), i < j
        PROVE  /\ q.buffer[i].entry # q.buffer[j].entry
               /\ q.buffer[i].at < q.buffer[j].at
    <3>1. i \in 1..n /\ (j \in 1..n \/ j = n + 1)
      BY <1>6, <2>2
    <3>2. CASE j \in 1..n
      BY <1>6, <1>8, <2>2, <3>1, <3>2 DEF Items
    <3>3. CASE j = n + 1
      <4>1. p.buffer[i].entry \in p.seen /\ p.buffer[i].at < captures + 1
        BY <1>3, <1>7, <1>8, <3>1 DEF Items, Live
      <4> QED BY <1>3, <1>4, <1>6, <3>1, <3>3, <4>1
    <3> QED BY <3>1, <3>2, <3>3
  <2> QED BY <2>1, <2>2 DEF Items
<1>10. ASSUME NEW x \in Runs \ {r} PROVE Items(proc[x], x, captures + 1)
  <2>1. Items(proc[x], x, captures)
    BY DEF BuffersInv, BufferInv
  <2>2. \A i \in 1..Len(proc[x].buffer) : proc[x].buffer[i].at <= captures + 1
    BY <1>3, <1>7
  <2> QED BY <2>1, <2>2 DEF Items
<1>11. BufferInv'
  BY <1>2, <1>4, <1>9, <1>10 DEF BufferInv
<1>12. ASSUME NEW x \in Runs \ {r}, NEW i \in 1..Len(q.buffer),
              NEW j \in 1..Len(proc[x].buffer)
       PROVE  q.buffer[i].at # proc[x].buffer[j].at
  <2>1. i \in 1..n \/ i = n + 1
    BY <1>6
  <2>2. CASE i \in 1..n
    BY <1>6, <2>2 DEF BuffersInv, DistinctStamps
  <2>3. CASE i = n + 1
    BY <1>3, <1>4, <1>6, <1>7, <2>3
  <2> QED BY <2>1, <2>2, <2>3
<1>13. DistinctStamps'
  <2> SUFFICES ASSUME NEW x \in Runs, NEW y \in Runs, x # y,
                      NEW i \in 1..Len(proc'[x].buffer),
                      NEW j \in 1..Len(proc'[y].buffer)
               PROVE  proc'[x].buffer[i].at # proc'[y].buffer[j].at
    BY DEF DistinctStamps
  <2>1. CASE x = r
    BY <1>2, <1>12, <2>1
  <2>2. CASE y = r
    BY <1>2, <1>12, <2>2
  <2>3. CASE x # r /\ y # r
    <3>1. proc'[x] = proc[x] /\ proc'[y] = proc[y]
      BY <1>2, <2>3
    <3>2. DistinctStamps
      BY DEF BuffersInv
    <3> QED BY <3>1, <3>2 DEF DistinctStamps
  <2> QED BY <2>1, <2>2, <2>3
<1>14. ASSUME NEW o \in observed'
       PROVE  \E i \in 1..Len(proc'[o.run].buffer) : o = proc'[o.run].buffer[i]
  <2>1. o \in observed /\ o.run \in Runs
    BY DEF TypeInv, TypeOK, Observation, Keeps
  <2>2. PICK i \in 1..Len(proc[o.run].buffer) : o = proc[o.run].buffer[i]
    BY <2>1 DEF BuffersInv, StoredInv
  <2>3. CASE o.run = r
    <3>1. i \in 1..(n + 1) /\ i \in 1..n
      BY <1>6, <2>2, <2>3
    <3> QED BY <1>2, <1>6, <2>2, <2>3, <3>1
  <2>4. CASE o.run # r
    BY <1>2, <2>1, <2>2, <2>4
  <2> QED BY <2>3, <2>4
<1>15. ASSUME NEW x \in Runs, proc'[x].pc \notin {"exited", "died"}
       PROVE  Committed(x)' = Flushed(proc'[x])
  <2>1. Committed(x)' = Committed(x)
    BY DEF Committed, Keeps
  <2>2. CASE x # r
    BY <1>2, <1>15, <2>1, <2>2 DEF BuffersInv, StoredInv, Flushed
  <2>3. CASE x = r
    <3>1. Committed(r) = Flushed(p)
      BY <1>3 DEF BuffersInv, StoredInv
    <3>2. Flushed(p) = {} /\ Flushed(q) = {}
      BY <1>1, <1>3 DEF Flushed
    <3> QED BY <1>2, <2>1, <2>3, <3>1, <3>2
  <2> QED BY <2>2, <2>3
<1> QED BY <1>11, <1>13, <1>14, <1>15 DEF StoredInv

(* The next item is flushed.                                               *)
LEMMA BuffersFlush ==
    ASSUME TypeInv, BuffersInv, NEW r \in Runs, Flushes(r)
    PROVE  BufferInv' /\ DistinctStamps' /\ StoredInv'
<1> DEFINE p == proc[r]
           k == p.persisted + 1
           item == p.buffer[k]
<1>1. PICK q \in Process :
        /\ Moves(r, q) /\ q.pc \in {"flushing", "closing"} /\ q.source = p.source
        /\ q.buffer = p.buffer /\ q.persisted = k /\ q.seen = p.seen
  BY DEF Flushes
<1>2. proc'[r] = q /\ \A x \in Runs \ {r} : proc'[x] = proc[x]
  BY <1>1, Moved
<1>3. /\ p.pc = "flushing" /\ k \in 1..Len(p.buffer) /\ p.persisted \in Nat
      /\ observed' = observed \cup {item} /\ UNCHANGED captures
  BY DEF Flushes, TypeInv, TypeOK, Process
<1>4. BufferInv' /\ DistinctStamps'
  BY <1>1, <1>3, SameBuffers DEF Live
<1>5. item.run = r
  BY <1>3 DEF BuffersInv, BufferInv, Items
<1>6. \A x \in Runs : proc'[x].buffer = proc[x].buffer
  BY <1>1, <1>2
<1>7. ASSUME NEW o \in observed'
      PROVE  \E i \in 1..Len(proc'[o.run].buffer) : o = proc'[o.run].buffer[i]
  <2>1. CASE o = item
    BY <1>3, <1>5, <1>6, <2>1
  <2>2. CASE o \in observed
    <3>1. o.run \in Runs
      BY <2>2 DEF TypeInv, TypeOK, Observation
    <3> QED BY <1>6, <2>2, <3>1 DEF BuffersInv, StoredInv
  <2> QED BY <1>3, <2>1, <2>2
<1>8. ASSUME NEW x \in Runs, proc'[x].pc \notin {"exited", "died"}
      PROVE  Committed(x)' = Flushed(proc'[x])
  <2>1. CASE x # r
    <3>1. Committed(x)' = Committed(x)
      BY <1>3, <1>5, <2>1 DEF Committed
    <3> QED BY <1>2, <1>8, <2>1, <3>1 DEF BuffersInv, StoredInv, Flushed
  <2>2. CASE x = r
    <3>1. Committed(r) = Flushed(p)
      BY <1>3 DEF BuffersInv, StoredInv
    <3>2. Committed(r)' = Committed(r) \cup {item}
      BY <1>3, <1>5 DEF Committed
    <3>3. 1..k = (1..p.persisted) \cup {k}
      BY <1>3
    <3>4. Flushed(q) = Flushed(p) \cup {item}
      BY <1>1, <3>3 DEF Flushed
    <3> QED BY <1>2, <2>2, <3>1, <3>2, <3>4
  <2> QED BY <2>1, <2>2
<1> QED BY <1>4, <1>7, <1>8 DEF StoredInv

LEMMA BuffersStep ==
    ASSUME TypeInv, BuffersInv, [Next]_vars
    PROVE  BuffersInv'
<1>1. IdInv /\ BuffersPast
  BY BufferPast DEF BuffersInv
<1>2. IdInv'
  BY <1>1, IdStep
<1> DEFINE Goal == BufferInv' /\ DistinctStamps' /\ StoredInv'
<1>3. ASSUME UNCHANGED <<proc, observed, captures>> PROVE Goal
  BY <1>3 DEF BuffersInv, BufferInv, DistinctStamps, StoredInv, Committed
<1>4. ASSUME NEW r \in Runs, Goes(r) PROVE Goal
  <2>1. PICK q \in Process :
          /\ Moves(r, q) /\ q.source = proc[r].source /\ q.buffer = proc[r].buffer
          /\ q.persisted = proc[r].persisted /\ proc[r].seen \subseteq q.seen
    BY <1>4 DEF Goes
  <2> QED BY <1>4, <2>1, BuffersQuiet DEF Goes
<1>5. ASSUME NEW r \in Runs, Ends(r) PROVE Goal
  <2>1. PICK pc \in {"exited", "died"} : Moves(r, Gone(proc[r], pc))
    BY <1>5 DEF Ends
  <2> DEFINE q == Gone(proc[r], pc)
  <2>2. q.pc = pc /\ q.source = proc[r].source /\ q.buffer = proc[r].buffer
    BY GoneFields
  <2> HIDE DEF q
  <2>3. q.pc \notin Live
    BY <2>1, <2>2 DEF Live
  <2>4. Moves(r, q) /\ proc[r].pc \in Live /\ UNCHANGED <<captures, observed>>
    BY <1>5, <2>1 DEF Ends, q
  <2> QED BY <2>1, <2>2, <2>3, <2>4, BuffersQuiet
<1>6. ASSUME NEW r \in Runs, Starts(r) PROVE Goal
  <2>1. PICK s, owned : Moves(r, Started(s, owned))
    BY <1>6 DEF Starts
  <2>2. Started(s, owned).buffer = <<>> /\ Started(s, owned).persisted = 0
    BY StartedFields
  <2> QED BY <1>6, <2>1, <2>2, BuffersQuiet DEF Starts
<1>7. UNCHANGED vars \/ Gives \/ (\E ids : Opens(ids))
        => UNCHANGED <<proc, observed, captures>>
  BY DEF vars, Gives, Opens
<1> HIDE DEF Goal
<1>8. Goal
  <2>1. \A r \in Runs : Steps(r) => Goal
    BY <1>4, <1>5, <1>6, BuffersKeep, BuffersFlush DEF Steps, Goal
  <2> QED BY <1>1, <1>3, <1>7, <2>1, Kinds
<1> QED BY <1>2, <1>8 DEF BuffersInv, Goal

LEMMA InitBuffers == Init => TypeInv /\ BuffersInv
<1> SUFFICES ASSUME Init PROVE TypeInv /\ BuffersInv
  OBVIOUS
<1>1. \A r \in Runs : proc[r] = Idle /\ proc[r].buffer = <<>> /\ proc[r].persisted = 0
  BY DEF Init, Idle
<1>2. TypeInv
  <2>1. proc \in [Runs -> Process] /\ \A r \in Runs : Phase(proc[r])
    BY IdleType DEF Init
  <2>2. ledger \in [Runs -> Row]
    BY OpenedType DEF Init
  <2>3. closed \in Seq(Runs)
    BY EmptySeq DEF Init
  <2> QED BY <2>1, <2>2, <2>3 DEF Init, TypeInv, TypeOK
<1>3. IdInv
  <2>1. Used = 1..0
    BY <1>1 DEF Init, Used
  <2> QED BY <2>1 DEF Init, IdInv
<1>4. BufferInv
  BY <1>1, EmptyItems DEF BufferInv
<1>5. DistinctStamps /\ StoredInv
  BY <1>1, EmptySeq DEF DistinctStamps, StoredInv, Init, Committed, Flushed
<1> QED BY <1>2, <1>3, <1>4, <1>5 DEF BuffersInv

LEMMA BuffersInvariant == Spec => [](TypeInv /\ BuffersInv)
<1>1. TypeInv /\ BuffersInv /\ [Next]_vars => TypeInv' /\ BuffersInv'
  BY Kinds, BuffersStep, BufferPast DEF BuffersInv
<1> QED BY <1>1, InitBuffers, PTL DEF Spec

(* Every variable of the ledger and of the crawl processes keeps its type. *)
THEOREM TypeCorrect == Spec => []TypeOK
<1>1. TypeInv => TypeOK
  BY DEF TypeInv
<1> QED BY <1>1, BuffersInvariant, PTL

(* A run stores a product at most once, whatever its page lists twice and  *)
(* whichever faults and crawls come between.                               *)
THEOREM OncePerRunCorrect == Spec => []OncePerRun
<1>1. TypeInv /\ BuffersInv => OncePerRun
  <2> SUFFICES ASSUME TypeInv, BuffersInv, NEW o \in observed, NEW p \in observed,
                      o.run = p.run, o.entry = p.entry
               PROVE  o = p
    BY DEF OncePerRun
  <2>1. o.run \in Runs
    BY DEF TypeInv, TypeOK, Observation
  <2> DEFINE b == proc[o.run].buffer
  <2>2. PICK i \in 1..Len(b), j \in 1..Len(b) : o = b[i] /\ p = b[j]
    BY DEF BuffersInv, StoredInv
  <2>3. ~(i < j) /\ ~(j < i)
    BY <2>1, <2>2 DEF BuffersInv, BufferInv, Items
  <2>4. i = j
    BY <2>3
  <2> QED BY <2>2, <2>4
<1> QED BY <1>1, BuffersInvariant, PTL

-----------------------------------------------------------------------------
(***************************************************************************)
(* The ledger keeps what it promises (RunLedger).                          *)
(***************************************************************************)

(* The row of a run is open exactly while its process may write to it, and *)
(* a run without a row has stored nothing.                                 *)
RowFits(r) ==
    /\ proc[r].pc \in Live \ {"started"} => ledger[r].status = "running"
    /\ proc[r].pc = "started" =>
        IF proc[r].owned THEN ledger[r] = Absent ELSE ledger[r].status = "running"
    /\ ledger[r].status = "absent" => ledger[r] = Absent /\ Committed(r) = {}

LedgerInv == \A r \in Runs : RowFits(r)

LedgerParts == TypeInv /\ BuffersInv /\ LedgerInv

LEMMA RowOpens ==
    ASSUME NEW s
    PROVE  /\ Opened(s).status = "running" /\ Opened(s).itemsOk = 0
           /\ Opened(s).source = s
           /\ Absent.status = "absent" /\ Absent.itemsOk = 0
BY DEF Opened, Absent

LEMMA OutcomeFields ==
    ASSUME NEW p
    PROVE  /\ Outcome(p).status \in Terminal
           /\ Outcome(p).itemsOk = p.persisted /\ Outcome(p).source = p.source
           /\ Outcome(p).status = "quarantined" => p.quarantined
<1>1. Outcome(p).status = StatusOf(p)
  BY DEF Outcome
<1>2. StatusOf(p) \in Terminal /\ (StatusOf(p) = "quarantined" => p.quarantined)
  BY DEF StatusOf, RunStatus, Terminal
<1> QED BY <1>1, <1>2 DEF Outcome

LEMMA LedgerStep == LedgerParts /\ [Next]_vars => LedgerInv'
<1> SUFFICES ASSUME LedgerParts, [Next]_vars PROVE LedgerInv'
  OBVIOUS
<1>1. TypeInv /\ BuffersInv /\ IdInv /\ BuffersPast
  BY BufferPast DEF LedgerParts, BuffersInv
<1>2. ASSUME NEW x \in Runs, proc'[x] = proc[x], ledger'[x] = ledger[x],
             Committed(x)' = Committed(x)
      PROVE  RowFits(x)'
  BY <1>2 DEF LedgerParts, LedgerInv, RowFits
<1>3. CASE UNCHANGED <<proc, ledger, observed>>
  BY <1>2, <1>3 DEF LedgerInv, Committed
<1>4. ASSUME NEW n \in Nat, Opens(NextIds(n)) PROVE LedgerInv'
  <2>1. ASSUME NEW x \in Runs PROVE RowFits(x)'
    <3>1. proc'[x] = proc[x] /\ Committed(x)' = Committed(x)
      BY <1>4 DEF Opens, Committed
    <3>2. CASE x \in NextIds(n)
      <4>1. proc[x] = Idle /\ ledger'[x].status = "running"
        BY <1>4, <3>2, RowOpens DEF Opens, Used
      <4> QED BY <3>1, <4>1 DEF RowFits, Idle, Live
    <3>3. CASE x \notin NextIds(n)
      BY <1>2, <1>4, <3>1, <3>3 DEF Opens
    <3> QED BY <3>2, <3>3
  <2> QED BY <2>1 DEF LedgerInv
<1>5. ASSUME NEW r \in Runs, NEW q, Moves(r, q),
             \A x \in Runs \ {r} : /\ ledger'[x] = ledger[x]
                                   /\ Committed(x)' = Committed(x),
             RowFits(r)'
      PROVE  LedgerInv'
  <2>1. \A x \in Runs \ {r} : proc'[x] = proc[x]
    BY <1>1, <1>5, Moved
  <2> QED BY <1>2, <1>5, <2>1 DEF LedgerInv
<1>6. ASSUME NEW r \in Runs, Goes(r) PROVE LedgerInv'
  <2>1. PICK q \in Process : /\ Moves(r, q) /\ q.pc \in Live \ {"started"}
                             /\ proc'[r] = q
    BY <1>1, <1>6, Moved DEF Goes
  <2>2. \A x \in Runs : Committed(x)' = Committed(x)
    BY <1>6 DEF Goes, Committed
  <2>3. RowFits(r)
    BY DEF LedgerParts, LedgerInv
  <2>4. ledger'[r].status = "running"
    <3>1. CASE Prepare(r)
      BY <1>1, <3>1, <2>3, RowOpens
         DEF Prepare, At, RowFits, TypeInv, TypeOK
    <3>2. CASE proc[r].pc # "started" /\ UNCHANGED ledger
      BY <1>6, <2>3, <3>2 DEF Goes, RowFits
    <3> QED BY <1>6, <3>1, <3>2 DEF Goes
  <2>5. RowFits(r)'
    BY <2>1, <2>4 DEF RowFits
  <2> QED BY <1>5, <1>6, <2>1, <2>2, <2>5 DEF Goes
<1>7. ASSUME NEW r \in Runs, Ends(r) PROVE LedgerInv'
  <2>1. PICK pc \in {"exited", "died"} : Moves(r, Gone(proc[r], pc))
    BY <1>7 DEF Ends
  <2>2. proc'[r].pc = pc
    BY <1>1, <2>1, Moved, GoneFields
  <2>3. \A x \in Runs : Committed(x)' = Committed(x)
    BY <1>7 DEF Ends, Committed
  <2>4. ledger'[r] = ledger[r] \/ ledger'[r].status \in Terminal
    BY <1>1, <1>7, OutcomeFields DEF Ends, CloseRun, TypeInv, TypeOK
  <2>5. RowFits(r)'
    <3>1. RowFits(r)
      BY DEF LedgerParts, LedgerInv
    <3> QED BY <2>2, <2>3, <2>4, <3>1 DEF RowFits, Live, Terminal
  <2> QED BY <1>5, <1>7, <2>1, <2>3, <2>5 DEF Ends
<1>8. ASSUME NEW r \in Runs, Flushes(r) PROVE LedgerInv'
  <2>1. PICK q \in Process : /\ Moves(r, q) /\ q.pc \in {"flushing", "closing"}
                             /\ proc'[r] = q
    BY <1>1, <1>8, Moved DEF Flushes
  <2>2. \A x \in Runs \ {r} : Committed(x)' = Committed(x)
    <3>1. proc[r].buffer[proc[r].persisted + 1].run = r
      BY <1>1, <1>8 DEF Flushes, BuffersInv, BufferInv, Items
    <3> QED BY <1>8, <3>1 DEF Flushes, Committed
  <2>3. ledger[r].status = "running"
    BY <1>8 DEF LedgerParts, LedgerInv, RowFits, Flushes, Live
  <2>4. RowFits(r)'
    BY <1>8, <2>1, <2>3 DEF RowFits, Flushes, Live
  <2> QED BY <1>5, <1>8, <2>1, <2>2, <2>4 DEF Flushes
<1>9. ASSUME NEW r \in Runs, NEW e, NEW a, Keeps(r, e, a) PROVE LedgerInv'
  <2>1. PICK q \in Process : Moves(r, q) /\ q.pc = "crawling" /\ proc'[r] = q
    BY <1>1, <1>9, Moved DEF Keeps
  <2>2. \A x \in Runs : Committed(x)' = Committed(x)
    BY <1>9 DEF Keeps, Committed
  <2>3. ledger[r].status = "running"
    BY <1>9 DEF LedgerParts, LedgerInv, RowFits, Keeps, Live
  <2>4. RowFits(r)'
    BY <1>9, <2>1, <2>3 DEF RowFits, Keeps, Live
  <2> QED BY <1>5, <1>9, <2>1, <2>2, <2>4 DEF Keeps
<1>10. ASSUME NEW r \in Runs, Starts(r), NEW s, NEW owned,
              Moves(r, Started(s, owned)),
              IF owned THEN ledger[r] = Absent ELSE ledger[r].status = "running"
       PROVE  LedgerInv'
  <2>1. proc'[r].pc = "started" /\ proc'[r].owned = owned
    BY <1>1, <1>10, Moved, StartedFields
  <2>2. \A x \in Runs : Committed(x)' = Committed(x)
    BY <1>10 DEF Starts, Committed
  <2>3. RowFits(r)
    BY DEF LedgerParts, LedgerInv
  <2>4. RowFits(r)'
    BY <1>10, <2>1, <2>2, <2>3 DEF RowFits, Starts, Live
  <2> QED BY <1>5, <1>10, <2>2, <2>4 DEF Starts
<1>11. ASSUME NEW r \in Runs, Starts(r), NEW call \in calls, r \in call,
              Launch(call, r)
       PROVE  LedgerInv'
  <2>1. proc[r] = Idle /\ ledger[r].status = "running"
    BY <1>1, <1>11 DEF IdInv
  <2>2. PICK s, owned : Moves(r, Started(s, owned))
    BY <1>11 DEF Starts
  <2>3. proc'[r].owned = proc[r].owned
    BY <1>1, <1>11, IdleType, <2>1 DEF Launch, TypeInv, TypeOK, Process
  <2>4. ~owned
    <3>1. proc'[r].owned = owned
      BY <1>1, <2>2, Moved, StartedFields
    <3>2. proc[r].owned = FALSE
      BY <2>1 DEF Idle
    <3> QED BY <2>3, <3>1, <3>2
  <2> QED BY <1>10, <1>11, <2>1, <2>2, <2>4
<1>12. ASSUME NEW r \in Runs, Starts(r), r \notin Used, NEW s,
              Moves(r, Started(s, TRUE))
       PROVE  LedgerInv'
  BY <1>10, <1>12 DEF Used
<1>13. UNCHANGED vars \/ Gives => UNCHANGED <<proc, ledger, observed>>
  BY DEF vars, Gives
<1>14. \A r \in Runs : Steps(r) => LedgerInv'
  BY <1>6, <1>7, <1>8, <1>9, <1>11, <1>12 DEF Steps
<1> QED BY <1>1, <1>3, <1>4, <1>13, <1>14, Kinds

LEMMA LedgerInvariant == Spec => []LedgerParts
<1>1. Init => LedgerInv
  <2> SUFFICES ASSUME Init, NEW r \in Runs PROVE RowFits(r)
    BY DEF LedgerInv
  <2>1. proc[r].pc = "none" /\ ledger[r] = Absent /\ Committed(r) = {}
    BY DEF Init, Idle, Committed
  <2> QED BY <2>1 DEF RowFits, Live
<1> QED BY <1>1, LedgerStep, BuffersInvariant, PTL DEF LedgerParts, Spec

(* A run has stored as many observations as it has flushed items.          *)
LEMMA FlushedCount ==
    ASSUME NEW p \in Process, NEW r, NEW now, Items(p, r, now), Phase(p),
           p.pc \notin {"exited", "died"}
    PROVE  IsFiniteSet(Flushed(p)) /\ Cardinality(Flushed(p)) = p.persisted
<1>1. /\ p.persisted \in Nat /\ Len(p.buffer) \in Nat
      /\ p.persisted <= Len(p.buffer)
  <2>1. p.persisted \in Nat /\ Len(p.buffer) \in Nat
    BY LenProperties DEF Process
  <2>2. p.persisted = 0 \/ p.persisted < Len(p.buffer) \/ p.persisted <= Len(p.buffer)
    BY DEF Phase, Process, Live
  <2> QED BY <2>1, <2>2
<1> DEFINE n == p.persisted
           f == [i \in 1..n |-> p.buffer[i]]
<1>2. ASSUME NEW i \in 1..n, NEW j \in 1..n, f[i] = f[j] PROVE i = j
  <2>1. i \in 1..Len(p.buffer) /\ j \in 1..Len(p.buffer)
    BY <1>1
  <2>2. p.buffer[i] = p.buffer[j]
    BY <1>2
  <2>3. ~(i < j) /\ ~(j < i)
    BY <2>1, <2>2 DEF Items
  <2> QED BY <1>1, <2>3
<1>3. f \in [1..n -> Flushed(p)] /\ \A x \in Flushed(p) : \E i \in 1..n : f[i] = x
  BY DEF Flushed
<1> HIDE DEF f
<1>4. f \in Surjection(1..n, Flushed(p)) /\ f \in Injection(1..n, Flushed(p))
  BY <1>2, <1>3 DEF Surjection, Injection, IsInjective
<1>5. IsFiniteSet(1..n) /\ Cardinality(1..n) = n
  <2>1. 1 \in Int /\ n \in Int /\ n \in Nat
    BY <1>1
  <2> HIDE DEF n
  <2>2. /\ IsFiniteSet(1..n)
        /\ Cardinality(1..n) = IF 1 > n THEN 0 ELSE n - 1 + 1
    BY <2>1, FS_Interval
  <2> QED BY <2>1, <2>2
<1> QED BY <1>4, <1>5, FS_Surjection

LEMMA StoredCount ==
    ASSUME TypeInv, BuffersInv, NEW r \in Runs, proc[r].pc \notin {"exited", "died"}
    PROVE  /\ IsFiniteSet(Committed(r))
           /\ Cardinality(Committed(r)) = proc[r].persisted
<1>1. proc[r] \in Process /\ Phase(proc[r]) /\ Items(proc[r], r, captures)
  BY DEF TypeInv, TypeOK, BuffersInv, BufferInv
<1>2. Committed(r) = Flushed(proc[r])
  BY DEF BuffersInv, StoredInv
<1> QED BY <1>1, <1>2, FlushedCount

(* The steps of the ledger, seen by its readers.                           *)
LEMMA StepQuiet ==
    ASSUME UNCHANGED observed, \A r \in Runs : ledger'[r] = ledger[r]
    PROVE  UNCHANGED <<statusBar, storedBar, countBar>>
<1>1. \A r \in Runs : Committed(r)' = Committed(r)
  BY DEF Committed
<1> QED BY <1>1 DEF statusBar, storedBar, countBar

LEMMA StepOpen ==
    ASSUME LedgerParts, NEW ids \in SUBSET Runs, UNCHANGED observed,
           \A r \in ids : ledger[r] = Absent /\ \E s : ledger'[r] = Opened(s),
           \A r \in Runs \ ids : ledger'[r] = ledger[r]
    PROVE  Promise!Next
<1>1. \A r \in Runs : Committed(r)' = Committed(r)
  BY DEF Committed
<1>2. UNCHANGED storedBar
  BY <1>1 DEF storedBar
<1>3. UNCHANGED countBar
  BY RowOpens DEF countBar
<1>4. \A r \in ids : statusBar[r] = "absent"
  BY RowOpens DEF statusBar
<1>5. statusBar' = [r \in Runs |-> IF r \in ids THEN "running" ELSE statusBar[r]]
  BY RowOpens DEF statusBar
<1>6. Promise!Open(ids)
  BY <1>2, <1>3, <1>4, <1>5 DEF Promise!Open
<1> QED BY <1>6 DEF Promise!Next

LEMMA StepFlush ==
    ASSUME LedgerParts, NEW r \in Runs, Flushes(r), TypeInv', BuffersInv'
    PROVE  Promise!Next
<1> DEFINE p == proc[r]
           item == p.buffer[p.persisted + 1]
<1>1. TypeInv /\ BuffersInv /\ LedgerInv
  BY DEF LedgerParts
<1>2. p.pc = "flushing" /\ proc'[r].persisted = p.persisted + 1
      /\ proc'[r].pc \in {"flushing", "closing"}
  BY <1>1, Moved DEF Flushes
<1>3. item.run = r
  BY <1>1 DEF Flushes, BuffersInv, BufferInv, Items
<1>4. \A x \in Runs \ {r} : Committed(x)' = Committed(x)
  BY <1>3 DEF Flushes, Committed
<1>5. Cardinality(Committed(r)) = p.persisted
  BY <1>1, <1>2, StoredCount
<1>6. Cardinality(Committed(r)') = p.persisted + 1
  <2>1. proc'[r] \in Process /\ Phase(proc'[r]) /\ Items(proc'[r], r, captures')
    BY DEF TypeInv, TypeOK, BuffersInv, BufferInv
  <2>2. Committed(r)' = Flushed(proc'[r])
    BY <1>2 DEF BuffersInv, StoredInv
  <2>3. Cardinality(Flushed(proc'[r])) = proc'[r].persisted
    BY <1>2, <2>1, FlushedCount
  <2> QED BY <1>2, <2>2, <2>3
<1>7. storedBar' = [storedBar EXCEPT ![r] = storedBar[r] + 1]
  BY <1>4, <1>5, <1>6 DEF storedBar
<1>8. UNCHANGED <<statusBar, countBar>>
  BY DEF Flushes, statusBar, countBar
<1>9. statusBar[r] = "running"
  BY <1>1, <1>2 DEF LedgerInv, RowFits, statusBar, Live
<1>10. Promise!Store(r)
  BY <1>7, <1>8, <1>9 DEF Promise!Store
<1> QED BY <1>10 DEF Promise!Next

LEMMA StepClose ==
    ASSUME LedgerParts, NEW r \in Runs, CloseRun(r)
    PROVE  Promise!Next
<1> DEFINE p == proc[r]
           st == Outcome(p).status
<1>1. TypeInv /\ BuffersInv /\ LedgerInv /\ p.pc = "closing"
  BY DEF LedgerParts, CloseRun, At
<1>2. ledger' = [ledger EXCEPT ![r] = Outcome(p)] /\ UNCHANGED observed
  BY DEF CloseRun
<1>3. /\ st \in Terminal /\ (st = "quarantined" => p.quarantined)
      /\ Outcome(p).itemsOk = p.persisted
  BY OutcomeFields
<1>4. Cardinality(Committed(r)) = p.persisted
  BY <1>1, StoredCount
<1>5. st = "quarantined" => storedBar[r] = 0
  BY <1>1, <1>3, <1>4 DEF TypeInv, Phase, storedBar
<1>6. statusBar[r] = "running"
  BY <1>1 DEF LedgerInv, RowFits, statusBar, Live
<1>7. storedBar[r] = p.persisted
  BY <1>4 DEF storedBar
<1>8. ledger \in [Runs -> Row]
  BY <1>1 DEF TypeInv, TypeOK
<1> HIDE DEF p
<1>9. statusBar' = [statusBar EXCEPT ![r] = st]
  BY <1>2, <1>8 DEF statusBar
<1>10. countBar' = [countBar EXCEPT ![r] = storedBar[r]]
  <2>1. countBar' = [x \in Runs |-> ledger'[x].itemsOk]
    BY DEF countBar
  <2>2. ledger'[r].itemsOk = storedBar[r]
    BY <1>2, <1>3, <1>7, <1>8
  <2>3. \A x \in Runs \ {r} : ledger'[x].itemsOk = ledger[x].itemsOk
    BY <1>2, <1>8
  <2>4. [countBar EXCEPT ![r] = storedBar[r]]
          = [x \in Runs |-> IF x = r THEN storedBar[r] ELSE ledger[x].itemsOk]
    BY DEF countBar
  <2> QED BY <2>1, <2>2, <2>3, <2>4
<1>11. UNCHANGED storedBar
  BY <1>2 DEF storedBar, Committed
<1> HIDE DEF st
<1>12. Promise!Finish(r, st)
  BY <1>5, <1>6, <1>9, <1>10, <1>11 DEF Promise!Finish
<1> QED BY <1>3, <1>12 DEF Promise!Next

LEMMA PromiseStep ==
    ASSUME LedgerParts, [Next]_vars, TypeInv', BuffersInv'
    PROVE  Promise!Next \/ UNCHANGED <<statusBar, storedBar, countBar>>
<1> DEFINE Goal == Promise!Next \/ UNCHANGED <<statusBar, storedBar, countBar>>
<1>1. TypeInv /\ BuffersInv /\ LedgerInv /\ IdInv /\ BuffersPast
  BY BufferPast DEF LedgerParts, BuffersInv
<1>2. ASSUME UNCHANGED <<observed, ledger>> PROVE Goal
  BY <1>2, StepQuiet
<1>3. ASSUME NEW n \in Nat, Opens(NextIds(n)) PROVE Goal
  <2>1. \A r \in NextIds(n) : ledger[r] = Absent
    BY <1>3 DEF Opens, Used
  <2> QED BY <1>3, <2>1, StepOpen DEF Opens
<1>4. ASSUME NEW r \in Runs, Goes(r) PROVE Goal
  <2>1. CASE UNCHANGED ledger
    BY <1>2, <1>4, <2>1 DEF Goes
  <2>2. CASE Prepare(r) /\ ledger' # ledger
    <3>1. /\ proc[r].owned /\ At(r, "started")
          /\ ledger' = [ledger EXCEPT ![r] = Opened(proc[r].source)]
          /\ UNCHANGED observed
      BY <2>2 DEF Prepare
    <3>2. ledger[r] = Absent
      BY <1>1, <3>1 DEF LedgerInv, RowFits, At
    <3>3. ledger \in [Runs -> Row]
      BY <1>1 DEF TypeInv, TypeOK
    <3>4. ledger'[r] = Opened(proc[r].source)
          /\ \A x \in Runs \ {r} : ledger'[x] = ledger[x]
      BY <3>1, <3>3
    <3>5. \A x \in {r} : ledger[x] = Absent /\ \E s : ledger'[x] = Opened(s)
      BY <3>2, <3>4
    <3> DEFINE ids == {r}
    <3>6. /\ ids \in SUBSET Runs /\ UNCHANGED observed
          /\ \A x \in ids : ledger[x] = Absent /\ \E s : ledger'[x] = Opened(s)
          /\ \A x \in Runs \ ids : ledger'[x] = ledger[x]
      BY <3>1, <3>4, <3>5
    <3> HIDE DEF ids
    <3>7. Promise!Next
      BY <3>6, StepOpen
    <3> QED BY <3>7
  <2> QED BY <1>4, <2>1, <2>2 DEF Goes
<1>5. ASSUME NEW r \in Runs, Ends(r) PROVE Goal
  BY <1>2, <1>5, StepClose DEF Ends
<1>6. ASSUME NEW r \in Runs, Flushes(r) PROVE Goal
  BY <1>6, StepFlush
<1>7. ASSUME NEW r \in Runs, NEW e, NEW a, Keeps(r, e, a) PROVE Goal
  BY <1>2, <1>7 DEF Keeps
<1>8. ASSUME NEW r \in Runs, Starts(r) PROVE Goal
  BY <1>2, <1>8 DEF Starts
<1>9. UNCHANGED vars \/ Gives => UNCHANGED <<observed, ledger>>
  BY DEF vars, Gives
<1> HIDE DEF Goal
<1>10. \A r \in Runs : Steps(r) => Goal
  BY <1>4, <1>5, <1>6, <1>7, <1>8 DEF Steps
<1>11. Goal
  BY <1>1, <1>2, <1>3, <1>9, <1>10, Kinds
<1> QED BY <1>11 DEF Goal

(* The ledger keeps its promise to its readers: a run is opened once and   *)
(* finished at most once, prices arrive only in between, the final count   *)
(* is the number that arrived, and a quarantined run has stored none.      *)
THEOREM LedgerKeepsPromise == Spec => KeepsPromise
<1>1. Init => Promise!Init
  <2> SUFFICES ASSUME Init PROVE Promise!Init
    OBVIOUS
  <2>1. \A r \in Runs : ledger[r] = Absent /\ Committed(r) = {}
    BY DEF Init, Committed
  <2>2. Cardinality({}) = 0
    BY FS_EmptySet
  <2> QED BY <2>1, <2>2, RowOpens DEF Promise!Init, statusBar, storedBar, countBar
<1>2. LedgerParts /\ LedgerParts' /\ [Next]_vars
        => [Promise!Next]_<<statusBar, storedBar, countBar>>
  BY PromiseStep DEF LedgerParts
<1>3. Promise!ledgerVars = <<statusBar, storedBar, countBar>>
  BY DEF Promise!ledgerVars
<1>4. LedgerParts /\ LedgerParts' /\ [Next]_vars => [Promise!Next]_Promise!ledgerVars
  BY <1>2, <1>3 DEF Promise!ledgerVars
<1> QED BY <1>1, <1>4, LedgerInvariant, PTL DEF Spec, KeepsPromise, Promise!Spec

-----------------------------------------------------------------------------
(***************************************************************************)
(* The continuity gate, for the sources whose crawls did not overlap.      *)
(***************************************************************************)

Loaded == {"priced", "crawling", "flushing"}

(* A process that has passed the gates' open_spider and is not given up.   *)
InCrawl(p) == p.pc \in Loaded \/ (p.pc = "closing" /\ p.reason = "finished")

OneCrawl ==
    \A x, r \in Runs : x # r /\ InCrawl(proc[x]) /\ InCrawl(proc[r])
        /\ proc[x].source = proc[r].source => proc[r].source \in overlapped

(* The items a process has yet to flush passed the gate against the prices *)
(* it loaded, which are still the latest ones of whatever it has not       *)
(* flushed, where no other crawl came between.                             *)
Pending(p) == (p.persisted + 1)..Len(p.buffer)

Passed(p) ==
    \A i \in Pending(p) : ~Discontinuous(p.buffer[i].amount, p.prev[p.buffer[i].entry])

Untouched(p, e) == \A i \in 1..p.persisted : p.buffer[i].entry # e

UpToDate(r) ==
    /\ \A e \in Entries : Untouched(proc[r], e) =>
            proc[r].prev[e] = LatestAmount(proc[r].source, e)
    /\ \A i \in Pending(proc[r]) :
            \A o \in Of(proc[r].source, proc[r].buffer[i].entry) :
                o.at < proc[r].buffer[i].at

PricesFit(r) ==
    proc[r].pc \in Loaded =>
        /\ Passed(proc[r])
        /\ proc[r].source \notin overlapped => UpToDate(r)

PricesInv == \A r \in Runs : PricesFit(r)

SteadyParts == TypeInv /\ BuffersInv /\ OneCrawl /\ PricesInv

(* A crawl that is under way was under way, or loads its prices.           *)
LEMMA StillOne ==
    ASSUME TypeInv, OneCrawl, NEW r \in Runs, NEW q, Moves(r, q),
           InCrawl(q) => InCrawl(proc[r]) /\ q.source = proc[r].source,
           overlapped \subseteq overlapped'
    PROVE  OneCrawl'
<1>1. proc'[r] = q /\ \A x \in Runs \ {r} : proc'[x] = proc[x]
  BY Moved
<1> SUFFICES ASSUME NEW x \in Runs, NEW y \in Runs, x # y, InCrawl(proc'[x]),
                    InCrawl(proc'[y]), proc'[x].source = proc'[y].source
             PROVE  proc'[y].source \in overlapped'
  BY DEF OneCrawl, InCrawl
<1>2. \A z \in Runs : InCrawl(proc'[z]) =>
        InCrawl(proc[z]) /\ proc'[z].source = proc[z].source
  BY <1>1
<1> QED BY <1>2 DEF OneCrawl

LEMMA FirstOne ==
    ASSUME TypeInv, OneCrawl, NEW r \in Runs, NEW q, Moves(r, q), LoadPrices(r),
           q.source = proc[r].source
    PROVE  OneCrawl'
<1>1. proc'[r] = q /\ \A x \in Runs \ {r} : proc'[x] = proc[x]
  BY Moved
<1>2. \A x \in Runs : InCrawl(proc[x]) /\ proc[x].source = q.source
        => q.source \in overlapped'
  BY DEF LoadPrices, Active, InCrawl, Loaded
<1>3. overlapped \subseteq overlapped'
  BY DEF LoadPrices
<1> SUFFICES ASSUME NEW x \in Runs, NEW y \in Runs, x # y, InCrawl(proc'[x]),
                    InCrawl(proc'[y]), proc'[x].source = proc'[y].source
             PROVE  proc'[y].source \in overlapped'
  BY DEF OneCrawl, InCrawl
<1>4. CASE x = r
  BY <1>1, <1>2, <1>4
<1>5. CASE y = r
  BY <1>1, <1>2, <1>5
<1>6. CASE x # r /\ y # r
  BY <1>1, <1>3, <1>6 DEF OneCrawl
<1> QED BY <1>4, <1>5, <1>6

LEMMA OneCrawlStep ==
    ASSUME TypeInv, IdInv, BuffersPast, OneCrawl, [Next]_vars
    PROVE  OneCrawl'
<1>1. ASSUME UNCHANGED <<proc, overlapped>> PROVE OneCrawl'
  BY <1>1 DEF OneCrawl
<1>2. ASSUME NEW r \in Runs, Goes(r) PROVE OneCrawl'
  <2>1. PICK q \in Process : /\ Moves(r, q) /\ q.source = proc[r].source
                             /\ Advances(r, q)
    BY <1>2 DEF Goes
  <2>2. CASE LoadPrices(r)
    BY <2>1, <2>2, FirstOne
  <2>3. CASE ~LoadPrices(r)
    <3>1. UNCHANGED overlapped /\ (InCrawl(q) => InCrawl(proc[r]))
      BY <2>1, <2>3 DEF Advances, InCrawl, Loaded
    <3> QED BY <2>1, <3>1, StillOne
  <2> QED BY <2>2, <2>3
<1>3. ASSUME NEW r \in Runs, Ends(r) PROVE OneCrawl'
  <2>1. PICK pc \in {"exited", "died"} : Moves(r, Gone(proc[r], pc))
    BY <1>3 DEF Ends
  <2>2. ~InCrawl(Gone(proc[r], pc))
    BY <2>1, GoneFields DEF InCrawl, Loaded
  <2> QED BY <1>3, <2>1, <2>2, StillOne DEF Ends
<1>4. ASSUME NEW r \in Runs, Starts(r) PROVE OneCrawl'
  <2>1. PICK s, owned : Moves(r, Started(s, owned))
    BY <1>4 DEF Starts
  <2>2. ~InCrawl(Started(s, owned))
    BY StartedFields DEF InCrawl, Loaded
  <2> QED BY <1>4, <2>1, <2>2, StillOne DEF Starts
<1>5. ASSUME NEW r \in Runs, Flushes(r) PROVE OneCrawl'
  <2>1. PICK q \in Process : Moves(r, q) /\ q.source = proc[r].source
    BY <1>5 DEF Flushes
  <2>2. InCrawl(proc[r]) /\ UNCHANGED overlapped
    BY <1>5 DEF Flushes, InCrawl, Loaded
  <2> QED BY <2>1, <2>2, StillOne
<1>6. ASSUME NEW r \in Runs, NEW e, NEW a, Keeps(r, e, a) PROVE OneCrawl'
  <2>1. PICK q \in Process : Moves(r, q) /\ q.source = proc[r].source
    BY <1>6 DEF Keeps
  <2>2. InCrawl(proc[r]) /\ UNCHANGED overlapped
    BY <1>6 DEF Keeps, InCrawl, Loaded
  <2> QED BY <2>1, <2>2, StillOne
<1>7. UNCHANGED vars \/ Gives \/ (\E ids : Opens(ids)) => UNCHANGED <<proc, overlapped>>
  BY DEF vars, Gives, Opens
<1>8. \A r \in Runs : Steps(r) => OneCrawl'
  BY <1>2, <1>3, <1>4, <1>5, <1>6 DEF Steps
<1> QED BY <1>1, <1>7, <1>8, Kinds

(* What a flush adds to the series, and to which of them.                  *)
LEMMA FlushedSeries ==
    ASSUME TypeInv, BuffersInv, NEW r \in Runs, Flushes(r),
           NEW item, item = proc[r].buffer[proc[r].persisted + 1]
    PROVE  /\ item \in Observation /\ item.run = r /\ item.source = proc[r].source
           /\ Of(item.source, item.entry)' = Of(item.source, item.entry) \cup {item}
           /\ \A s, e : s # item.source \/ e # item.entry => Of(s, e)' = Of(s, e)
<1>1. item.run = r /\ item.source = proc[r].source
  BY DEF Flushes, BuffersInv, BufferInv, Items
<1>2. item \in Observation
  BY NextToFlush DEF Flushes, At
<1>3. observed' = observed \cup {item}
  BY DEF Flushes
<1> QED BY <1>1, <1>2, <1>3 DEF Of

LEMMA SameLatest ==
    ASSUME NEW s, NEW e, Of(s, e)' = Of(s, e)
    PROVE  LatestAmount(s, e)' = LatestAmount(s, e)
BY DEF LatestAmount

(* A process that does not move, and of whose source nothing is flushed.   *)
LEMMA PricesStay ==
    ASSUME PricesInv, NEW x \in Runs, proc'[x] = proc[x],
           overlapped \subseteq overlapped',
           proc[x].pc \in Loaded /\ proc[x].source \notin overlapped =>
                \A e : Of(proc[x].source, e)' = Of(proc[x].source, e)
    PROVE  PricesFit(x)'
<1> SUFFICES ASSUME proc'[x].pc \in Loaded, proc'[x].source \notin overlapped'
             PROVE  UpToDate(x)'
  BY DEF PricesInv, PricesFit
<1>1. UpToDate(x) /\ \A e : Of(proc[x].source, e)' = Of(proc[x].source, e)
  BY DEF PricesInv, PricesFit
<1>2. \A e : LatestAmount(proc[x].source, e)' = LatestAmount(proc[x].source, e)
  BY <1>1, SameLatest
<1> QED BY <1>1, <1>2 DEF UpToDate

(* A process that goes on, with the prices and the buffer it had.          *)
LEMMA PricesGo ==
    ASSUME TypeInv, PricesInv, NEW r \in Runs, Goes(r), [Next]_vars
    PROVE  PricesInv'
<1>1. PICK q \in Process :
        /\ Moves(r, q) /\ Phase(q) /\ q.source = proc[r].source
        /\ q.buffer = proc[r].buffer /\ q.persisted = proc[r].persisted
        /\ Advances(r, q)
  BY DEF Goes
<1>2. proc'[r] = q /\ \A x \in Runs \ {r} : proc'[x] = proc[x]
  BY <1>1, Moved
<1>3. overlapped \subseteq overlapped'
  BY <1>1 DEF Advances, LoadPrices
<1>4. /\ \A s, e : Of(s, e)' = Of(s, e)
      /\ \A s, e : LatestAmount(s, e)' = LatestAmount(s, e)
  BY SameLatest DEF Goes, Of
<1>5. \A x \in Runs \ {r} : PricesFit(x)'
  BY <1>2, <1>3, <1>4, PricesStay
<1>6. CASE proc[r].pc = "opened" /\ q.prev = [e \in Entries |-> LatestAmount(proc[r].source, e)]
  <2>1. q.persisted = 0 /\ q.buffer = <<>> /\ Len(q.buffer) = 0
    BY <1>1, <1>6, EmptySeq DEF TypeInv, Phase
  <2>2. Pending(q) = {}
    BY <2>1 DEF Pending
  <2>3. \A e \in Entries : q.prev[e] = LatestAmount(q.source, e)'
    BY <1>1, <1>4, <1>6
  <2> QED BY <1>2, <2>2, <2>3, <1>5 DEF PricesInv, PricesFit, Passed, UpToDate
<1>7. CASE proc[r].pc \in Loaded /\ q.prev = proc[r].prev /\ UNCHANGED overlapped
  <2>1. PricesFit(r)
    BY DEF PricesInv
  <2>2. Pending(q) = Pending(proc[r]) /\ \A e : Untouched(q, e) <=> Untouched(proc[r], e)
    BY <1>1 DEF Pending, Untouched
  <2>3. Passed(q)
    BY <1>1, <1>7, <2>1, <2>2 DEF PricesFit, Passed
  <2>4. q.source \notin overlapped => UpToDate(r)'
    <3> SUFFICES ASSUME q.source \notin overlapped PROVE UpToDate(r)'
      OBVIOUS
    <3>1. UpToDate(r)
      BY <1>1, <1>7, <2>1 DEF PricesFit
    <3> QED BY <1>1, <1>2, <1>4, <1>7, <2>2, <3>1 DEF UpToDate
  <2> QED BY <1>2, <1>5, <1>7, <2>3, <2>4 DEF PricesInv, PricesFit
<1>8. CASE q.pc \notin Loaded
  BY <1>2, <1>5, <1>8 DEF PricesInv, PricesFit
<1> QED BY <1>1, <1>6, <1>7, <1>8 DEF Advances, Loaded

(* An item is kept: it passed the gate, and is newer than what is stored.  *)
LEMMA PricesKeep ==
    ASSUME TypeInv, BuffersInv, PricesInv, NEW r \in Runs, NEW e, NEW a,
           Keeps(r, e, a)
    PROVE  PricesInv'
<1> DEFINE p == proc[r]
           item == Item(r, e, a)
           n == Len(p.buffer)
<1>1. PICK q \in Process :
        /\ Moves(r, q) /\ q.pc = "crawling" /\ q.source = p.source
        /\ q.buffer = Append(p.buffer, item) /\ q.prev = p.prev
        /\ q.persisted = 0
  BY DEF Keeps
<1>2. proc'[r] = q /\ \A x \in Runs \ {r} : proc'[x] = proc[x]
  BY <1>1, Moved
<1>3. /\ p.buffer \in Seq(Observation) /\ captures \in Nat /\ p.persisted = 0
      /\ p.pc \in Loaded
  BY DEF TypeInv, TypeOK, Process, Keeps, Phase, Loaded
<1>4. /\ item.entry = e /\ item.at = captures + 1 /\ item.amount = a
      /\ ~Discontinuous(a, p.prev[e])
  BY DEF Item, Keeps
<1>5. item \in Observation
  BY DEF Keeps
<1> HIDE DEF item
<1>6. /\ n \in Nat /\ Len(q.buffer) = n + 1 /\ q.buffer[n + 1] = item
      /\ \A i \in 1..n : q.buffer[i] = p.buffer[i]
  BY <1>1, <1>3, <1>5, AppendProperties, LenProperties
<1>7. /\ \A s, f : Of(s, f)' = Of(s, f)
      /\ \A s, f : LatestAmount(s, f)' = LatestAmount(s, f)
      /\ UNCHANGED overlapped
  BY SameLatest DEF Keeps, Of
<1>8. \A x \in Runs \ {r} : PricesFit(x)'
  BY <1>2, <1>7, PricesStay
<1>9. Pending(q) = 1..(n + 1) /\ Pending(p) = 1..n
  BY <1>1, <1>3, <1>6 DEF Pending
<1>10. PricesFit(r)
  BY DEF PricesInv
<1>11. Passed(q)
  <2> SUFFICES ASSUME NEW i \in 1..(n + 1)
               PROVE  ~Discontinuous(q.buffer[i].amount, q.prev[q.buffer[i].entry])
    BY <1>9 DEF Passed
  <2>1. CASE i = n + 1
    BY <1>1, <1>4, <1>6, <2>1
  <2>2. CASE i \in 1..n
    BY <1>1, <1>3, <1>6, <1>9, <1>10, <2>2 DEF PricesFit, Passed
  <2> QED BY <1>6, <2>1, <2>2
<1>12. ASSUME q.source \notin overlapped PROVE UpToDate(r)'
  <2>1. UpToDate(r)
    BY <1>1, <1>3, <1>10, <1>12 DEF PricesFit
  <2>2. \A f \in Entries : q.prev[f] = LatestAmount(q.source, f)'
    <3>1. \A f \in Entries : Untouched(p, f)
      BY <1>3 DEF Untouched
    <3> QED BY <1>1, <1>7, <2>1, <3>1 DEF UpToDate
  <2>3. ASSUME NEW i \in 1..(n + 1), NEW o \in Of(q.source, q.buffer[i].entry)
        PROVE  o.at < q.buffer[i].at
    <3>1. CASE i = n + 1
      <4>1. o.at \in Nat /\ o.at <= captures
        BY DEF Of, TypeInv, TypeOK, Observation
      <4> QED BY <1>3, <1>4, <1>6, <3>1, <4>1
    <3>2. CASE i \in 1..n
      BY <1>1, <1>6, <1>9, <2>1, <3>2 DEF UpToDate
    <3> QED BY <1>6, <3>1, <3>2
  <2> QED BY <1>2, <1>7, <1>9, <2>2, <2>3 DEF UpToDate
<1>13. PricesFit(r)'
  BY <1>2, <1>7, <1>11, <1>12 DEF PricesFit
<1> QED BY <1>8, <1>13 DEF PricesInv

(* The item that is flushed next: no earlier one is of its entry, it       *)
(* passed the gate, and it is newer than what is stored of its series.     *)
LEMMA FlushedFits ==
    ASSUME TypeInv, BuffersInv, PricesInv, NEW r \in Runs, Flushes(r),
           proc[r].source \notin overlapped,
           NEW item, item = proc[r].buffer[proc[r].persisted + 1]
    PROVE  /\ item.entry \in Entries
           /\ ~Discontinuous(item.amount, LatestAmount(item.source, item.entry))
           /\ \A o \in Of(item.source, item.entry) : o.at < item.at
           /\ \A i \in Pending(proc[r]) \ {proc[r].persisted + 1} :
                proc[r].buffer[i].entry # item.entry
<1> DEFINE p == proc[r]
           n == p.persisted
<1>1. /\ n \in Nat /\ n + 1 \in 1..Len(p.buffer) /\ Len(p.buffer) \in Nat
      /\ p.pc \in Loaded
  <2>1. p \in Process
    BY DEF TypeInv, TypeOK
  <2> QED BY <2>1, LenProperties DEF Process, Flushes, Loaded
<1>2. item.source = p.source /\ item.entry \in Entries
  BY FlushedSeries DEF Observation
<1>3. Passed(p) /\ UpToDate(r)
  BY <1>1 DEF PricesInv, PricesFit
<1>4. n + 1 \in Pending(p)
  BY <1>1 DEF Pending
<1>5. Items(p, r, captures)
  BY DEF BuffersInv, BufferInv
<1>6. ~Discontinuous(item.amount, p.prev[item.entry])
  BY <1>3, <1>4 DEF Passed
<1>7. Untouched(p, item.entry)
  <2> SUFFICES ASSUME NEW i \in 1..n PROVE p.buffer[i].entry # item.entry
    BY DEF Untouched
  <2>1. i \in 1..Len(p.buffer) /\ i < n + 1
    BY <1>1
  <2> QED BY <1>1, <1>5, <2>1 DEF Items
<1>8. p.prev[item.entry] = LatestAmount(item.source, item.entry)
  BY <1>2, <1>3, <1>7 DEF UpToDate
<1>9. \A o \in Of(item.source, item.entry) : o.at < item.at
  BY <1>2, <1>3, <1>4 DEF UpToDate
<1>10. ASSUME NEW i \in Pending(p) \ {n + 1} PROVE p.buffer[i].entry # item.entry
  <2>1. i \in 1..Len(p.buffer) /\ n + 1 < i
    BY <1>1, <1>10 DEF Pending
  <2> QED BY <1>1, <1>5, <2>1 DEF Items
<1> QED BY <1>2, <1>6, <1>8, <1>9, <1>10

LEMMA PricesFlush ==
    ASSUME TypeInv, BuffersInv, OneCrawl, PricesInv, NEW r \in Runs, Flushes(r)
    PROVE  PricesInv'
<1> DEFINE p == proc[r]
           n == p.persisted
           item == p.buffer[n + 1]
<1>1. PICK q \in Process :
        /\ Moves(r, q) /\ q.source = p.source /\ q.prev = p.prev
        /\ q.buffer = p.buffer /\ q.persisted = n + 1
  BY DEF Flushes
<1>2. proc'[r] = q /\ \A x \in Runs \ {r} : proc'[x] = proc[x]
  BY <1>1, Moved
<1>3. /\ item.source = p.source
      /\ \A s, e : s # p.source \/ e # item.entry => Of(s, e)' = Of(s, e)
  BY FlushedSeries
<1>4. n \in Nat /\ Len(p.buffer) \in Nat /\ p.pc = "flushing" /\ UNCHANGED overlapped
  <2>1. p \in Process
    BY DEF TypeInv, TypeOK
  <2> QED BY <2>1, LenProperties DEF Process, Flushes
<1>5. ASSUME NEW x \in Runs \ {r} PROVE PricesFit(x)'
  <2>1. proc[x].pc \in Loaded /\ proc[x].source \notin overlapped
          => proc[x].source # p.source
    <3>1. InCrawl(p) /\ x \in Runs /\ x # r
      BY <1>4 DEF InCrawl, Loaded
    <3>2. proc[x].pc \in Loaded => InCrawl(proc[x])
      BY DEF InCrawl
    <3> QED BY <3>1, <3>2 DEF OneCrawl
  <2>2. proc[x].pc \in Loaded /\ proc[x].source \notin overlapped
          => \A e : Of(proc[x].source, e)' = Of(proc[x].source, e)
    <3>1. proc'[x] = proc[x]
      BY <1>2
    <3> HIDE DEF p
    <3> QED BY <1>3, <2>1, <3>1
  <2> HIDE DEF p, n, item
  <2> QED BY <1>2, <1>4, <2>2, PricesStay
<1>6. Pending(q) = Pending(p) \ {n + 1} /\ Pending(q) \subseteq Pending(p)
  BY <1>1, <1>4 DEF Pending
<1>7. Passed(p) /\ (p.source \notin overlapped => UpToDate(r))
  BY <1>4 DEF PricesInv, PricesFit, Loaded
<1>8. Passed(q)
  BY <1>1, <1>6, <1>7 DEF Passed
<1>9. ASSUME q.source \notin overlapped PROVE UpToDate(r)'
  <2>1. UpToDate(r)
    BY <1>1, <1>7, <1>9
  <2>2. \A i \in Pending(q) : p.buffer[i].entry # item.entry
    BY <1>1, <1>6, <1>9, FlushedFits
  <2>3. ASSUME NEW e \in Entries, Untouched(q, e)
        PROVE  q.prev[e] = LatestAmount(q.source, e)'
    <3>1. Untouched(p, e) /\ e # item.entry
      BY <1>1, <1>4, <2>3 DEF Untouched
    <3>2. Of(q.source, e)' = Of(q.source, e)
      BY <1>3, <3>1
    <3>3. LatestAmount(q.source, e)' = LatestAmount(q.source, e)
      BY <3>2, SameLatest
    <3>4. p.prev[e] = LatestAmount(p.source, e)
      BY <2>1, <3>1 DEF UpToDate
    <3> HIDE DEF p
    <3> QED BY <1>1, <3>3, <3>4
  <2>4. ASSUME NEW i \in Pending(q), NEW o \in Of(q.source, q.buffer[i].entry)'
        PROVE  o.at < q.buffer[i].at
    <3>1. Of(q.source, q.buffer[i].entry)' = Of(p.source, p.buffer[i].entry)
      BY <1>1, <1>3, <2>2
    <3> QED BY <1>1, <1>6, <2>1, <2>4, <3>1 DEF UpToDate
  <2> HIDE DEF p, n, item
  <2> QED BY <1>2, <2>3, <2>4 DEF UpToDate
<1>10. PricesFit(r)'
  <2> HIDE DEF p, n, item
  <2> QED BY <1>2, <1>4, <1>8, <1>9 DEF PricesFit
<1> QED BY <1>5, <1>10 DEF PricesInv

LEMMA PricesStep ==
    ASSUME TypeInv, BuffersInv, OneCrawl, PricesInv, [Next]_vars
    PROVE  PricesInv'
<1>1. IdInv /\ BuffersPast
  BY BufferPast DEF BuffersInv
<1>2. ASSUME UNCHANGED <<proc, observed, overlapped>> PROVE PricesInv'
  BY <1>2, PricesStay DEF PricesInv, Of
<1>3. ASSUME NEW r \in Runs, NEW q, Moves(r, q), q.pc \notin Loaded,
             UNCHANGED <<observed, overlapped>>
      PROVE  PricesInv'
  <2>1. proc'[r] = q /\ \A x \in Runs \ {r} : proc'[x] = proc[x]
    BY <1>3, Moved
  <2>2. \A s, e : Of(s, e)' = Of(s, e)
    BY <1>3 DEF Of
  <2>3. \A x \in Runs \ {r} : PricesFit(x)'
    BY <1>3, <2>1, <2>2, PricesStay
  <2>4. PricesFit(r)'
    BY <1>3, <2>1 DEF PricesFit
  <2> QED BY <2>3, <2>4 DEF PricesInv
<1>4. ASSUME NEW r \in Runs, Ends(r) PROVE PricesInv'
  <2>1. PICK pc \in {"exited", "died"} : Moves(r, Gone(proc[r], pc))
    BY <1>4 DEF Ends
  <2>2. Gone(proc[r], pc).pc \notin Loaded
    BY GoneFields DEF Loaded
  <2> QED BY <1>3, <1>4, <2>1, <2>2 DEF Ends
<1>5. ASSUME NEW r \in Runs, Starts(r) PROVE PricesInv'
  <2>1. PICK s, owned : Moves(r, Started(s, owned))
    BY <1>5 DEF Starts
  <2>2. Started(s, owned).pc \notin Loaded
    BY StartedFields DEF Loaded
  <2> QED BY <1>3, <1>5, <2>1, <2>2 DEF Starts
<1>6. UNCHANGED vars \/ Gives \/ (\E ids : Opens(ids))
        => UNCHANGED <<proc, observed, overlapped>>
  BY DEF vars, Gives, Opens
<1>7. \A r \in Runs : Steps(r) => PricesInv'
  BY <1>4, <1>5, PricesGo, PricesKeep, PricesFlush DEF Steps
<1> QED BY <1>1, <1>2, <1>6, <1>7, Kinds

(* No two observations were captured at the same time.                     *)
LEMMA StampsApart ==
    ASSUME TypeInv, BuffersInv, NEW o \in observed, NEW p \in observed, o.at = p.at
    PROVE  o = p
<1>1. o.run \in Runs /\ p.run \in Runs
  BY DEF TypeInv, TypeOK, Observation
<1>2. PICK i \in 1..Len(proc[o.run].buffer) : o = proc[o.run].buffer[i]
  BY DEF BuffersInv, StoredInv
<1>3. PICK j \in 1..Len(proc[p.run].buffer) : p = proc[p.run].buffer[j]
  BY DEF BuffersInv, StoredInv
<1>4. o.run = p.run
  <2>1. DistinctStamps
    BY DEF BuffersInv
  <2> QED BY <1>1, <1>2, <1>3, <2>1 DEF DistinctStamps
<1>5. i = j
  <2>1. Items(proc[o.run], o.run, captures)
    BY <1>1 DEF BuffersInv, BufferInv
  <2>2. ~(i < j) /\ ~(j < i)
    <3>1. o.at \in Nat
      BY DEF TypeInv, TypeOK, Observation
    <3> QED BY <1>2, <1>3, <1>4, <2>1, <3>1 DEF Items
  <2> QED BY <2>2
<1> QED BY <1>2, <1>3, <1>4, <1>5

(* What is flushed follows the price it was judged against.                *)
LEMMA SteadyFlush ==
    ASSUME TypeInv, BuffersInv, PricesInv, SteadyAlone, NEW r \in Runs, Flushes(r)
    PROVE  SteadyAlone'
<1>1. PICK item : item = proc[r].buffer[proc[r].persisted + 1]
  OBVIOUS
<1> DEFINE series == Of(item.source, item.entry)
<1>2. /\ item \in Observation /\ item.source = proc[r].source
      /\ Of(item.source, item.entry)' = series \cup {item}
      /\ \A s, e : s # item.source \/ e # item.entry => Of(s, e)' = Of(s, e)
  BY <1>1, FlushedSeries
<1> SUFFICES ASSUME NEW s \in Sources \ overlapped, NEW e \in Entries,
                    NEW o \in Of(s, e)', NEW p \in Of(s, e)', Next2(s, e, o, p)'
             PROVE  ~Discontinuous(p.amount, o.amount)
  BY DEF SteadyAlone, Steady, Flushes
<1>3. o.at < p.at /\ ~ \E q \in Of(s, e)' : o.at < q.at /\ q.at < p.at
  BY DEF Next2
<1>4. CASE o \in Of(s, e) /\ p \in Of(s, e)
  <2>1. Of(s, e) \subseteq Of(s, e)'
    BY <1>2
  <2>2. Next2(s, e, o, p)
    BY <1>3, <1>4, <2>1 DEF Next2
  <2> QED BY <1>4, <2>2 DEF SteadyAlone, Steady
<1>5. CASE ~(o \in Of(s, e) /\ p \in Of(s, e))
  <2>1. s = item.source /\ e = item.entry /\ (o = item \/ p = item)
    BY <1>2, <1>5
  <2>2. /\ ~Discontinuous(item.amount, LatestAmount(s, e))
        /\ \A x \in Of(s, e) : x.at < item.at
    BY <1>1, <1>2, <2>1, FlushedFits
  <2>3. \A x \in Of(s, e) \cup {item} : x.at \in Nat
    BY <1>2 DEF Of, TypeInv, TypeOK, Observation
  <2>4. o \in Of(s, e) /\ p = item
    BY <1>2, <1>3, <2>1, <2>2, <2>3
  <2>5. \A x \in Of(s, e) : x.at <= o.at
    BY <1>2, <1>3, <2>1, <2>2, <2>3, <2>4
  <2>6. PICK x \in Of(s, e) : x.amount = LatestAmount(s, e)
                              /\ \A y \in Of(s, e) : y.at <= x.at
    BY <2>4, LatestObservation
  <2>7. x = o
    <3>1. x.at = o.at
      BY <2>3, <2>4, <2>5, <2>6
    <3> QED BY <2>4, <2>6, <3>1, StampsApart DEF Of
  <2> QED BY <2>2, <2>4, <2>6, <2>7
<1> QED BY <1>4, <1>5

LEMMA SteadyStep ==
    ASSUME SteadyParts, SteadyAlone, [Next]_vars
    PROVE  SteadyAlone'
<1>1. TypeInv /\ BuffersInv /\ PricesInv /\ IdInv /\ BuffersPast
  BY BufferPast DEF SteadyParts, BuffersInv
<1>2. ASSUME UNCHANGED observed, overlapped \subseteq overlapped'
      PROVE  SteadyAlone'
  <2>1. \A s, e : Of(s, e)' = Of(s, e)
    BY <1>2 DEF Of
  <2> QED BY <1>2, <2>1 DEF SteadyAlone, Steady, Next2
<1>3. ASSUME NEW r \in Runs, Goes(r) PROVE SteadyAlone'
  <2>1. overlapped \subseteq overlapped'
    BY <1>3 DEF Goes, Advances, LoadPrices
  <2> QED BY <1>2, <1>3, <2>1 DEF Goes
<1>4. \A r \in Runs : Steps(r) => SteadyAlone'
  BY <1>1, <1>2, <1>3, SteadyFlush DEF Steps, Ends, Keeps, Starts
<1>5. UNCHANGED vars \/ Gives \/ (\E ids : Opens(ids))
        => UNCHANGED <<observed, overlapped>>
  BY DEF vars, Gives, Opens
<1> QED BY <1>1, <1>2, <1>4, <1>5, Kinds

LEMMA SteadyInvariant == Spec => []SteadyParts
<1>1. Init => OneCrawl /\ PricesInv
  BY DEF Init, Idle, OneCrawl, InCrawl, Loaded, PricesInv, PricesFit
<1>2. SteadyParts /\ [Next]_vars => OneCrawl' /\ PricesInv'
  BY OneCrawlStep, PricesStep, BufferPast DEF SteadyParts, BuffersInv
<1> QED BY <1>1, <1>2, BuffersInvariant, PTL DEF Spec, SteadyParts

(* Whatever crashes, fails, is quarantined or listed twice between two     *)
(* crawls of a source, prices that follow one another are within the jump  *)
(* ratio, as long as its crawls did not overlap.                           *)
THEOREM SteadyCorrect == Spec => []SteadyAlone
<1>1. Init => SteadyAlone
  BY DEF Init, SteadyAlone, Steady, Of
<1> QED BY <1>1, SteadyStep, SteadyInvariant, PTL DEF Spec

-----------------------------------------------------------------------------
(***************************************************************************)
(* The volume gate, for the sources whose crawls did not overlap.          *)
(***************************************************************************)

(* A finished run is over for good.                                        *)
Finished(x) == proc[x].pc = "exited" /\ ledger[x].status \in Terminal

ClosedInv == \A i \in 1..Len(closed) : Finished(closed[i])

(* The baseline a crawl loaded is still that of its source when it is used *)
(* and when the crawl commits, where no other crawl came between.          *)
VolumeFits(r) ==
    /\ InCrawl(proc[r]) /\ proc[r].pc # "priced" /\ proc[r].source \notin overlapped
            => proc[r].baseline = BaselineCount(proc[r].source, r)
    /\ InCrawl(proc[r]) /\ proc[r].pc \in {"flushing", "closing"}
            => proc[r].quarantined
                 = VolumeAnomaly(Len(proc[r].buffer), proc[r].baseline)

VolumeInv == \A r \in Runs : VolumeFits(r)

VolumeParts == LedgerParts /\ OneCrawl /\ ClosedInv /\ VolumeInv

LEMMA ClosedRuns ==
    ASSUME TypeInv, NEW i \in 1..Len(closed)
    PROVE  closed[i] \in Runs
BY ElementOfSeq DEF TypeInv, TypeOK

LEMMA FinishedStays ==
    ASSUME LedgerParts, [Next]_vars, NEW x \in Runs, Finished(x)
    PROVE  /\ proc'[x] = proc[x] /\ ledger'[x] = ledger[x]
           /\ Committed(x)' = Committed(x)
<1> DEFINE Goal == /\ proc'[x] = proc[x] /\ ledger'[x] = ledger[x]
                   /\ Committed(x)' = Committed(x)
<1>1. /\ TypeInv /\ BuffersInv /\ IdInv /\ BuffersPast
      /\ proc[x].pc = "exited" /\ ledger[x].status \in Terminal
  BY BufferPast DEF LedgerParts, BuffersInv, Finished
<1>2. /\ proc[x].pc \notin Live /\ proc[x] # Idle /\ x \in Used
  BY <1>1 DEF Live, Idle, Used
<1>3. ASSUME UNCHANGED <<proc, ledger, observed>> PROVE Goal
  BY <1>3 DEF Committed
<1>4. ASSUME NEW n \in Nat, Opens(NextIds(n)) PROVE Goal
  BY <1>2, <1>4 DEF Opens, Committed
<1>5. ASSUME NEW r \in Runs, Steps(r) PROVE Goal
  <2>1. r # x
    BY <1>2, <1>5 DEF Steps, Goes, Ends, Flushes, Keeps, Starts, Live
  <2>2. \E q : Moves(r, q)
    BY <1>5 DEF Steps, Goes, Ends, Flushes, Keeps, Starts
  <2>3. proc'[x] = proc[x]
    BY <1>1, <2>1, <2>2, Moved
  <2>4. ledger'[x] = ledger[x]
    BY <1>5, <2>1 DEF Steps, Goes, Ends, Flushes, Keeps, Starts
  <2>5. Committed(x)' = Committed(x)
    <3>1. CASE Flushes(r)
      <4>1. proc[r].buffer[proc[r].persisted + 1].run = r
        BY <1>1, <3>1 DEF Flushes, BuffersInv, BufferInv, Items
      <4> QED BY <2>1, <3>1, <4>1 DEF Flushes, Committed
    <3>2. CASE ~Flushes(r)
      BY <1>5, <3>2 DEF Steps, Goes, Ends, Keeps, Starts, Committed
    <3> QED BY <3>1, <3>2
  <2> QED BY <2>3, <2>4, <2>5
<1>6. UNCHANGED vars \/ Gives => UNCHANGED <<proc, ledger, observed>>
  BY DEF vars, Gives
<1> HIDE DEF Goal
<1>7. Goal
  BY <1>1, <1>3, <1>4, <1>5, <1>6, Kinds
<1> QED BY <1>7 DEF Goal

(* Runs are closed one at a time, at the end of the list.                  *)
LEMMA ClosedGrows ==
    ASSUME TypeInv, IdInv, BuffersPast, [Next]_vars
    PROVE  UNCHANGED closed \/ \E r \in Runs : CloseRun(r)
<1>1. UNCHANGED vars \/ Gives \/ (\E ids : Opens(ids)) => UNCHANGED closed
  BY DEF vars, Gives, Opens
<1>2. \A r \in Runs : Steps(r) => UNCHANGED closed \/ CloseRun(r)
  BY DEF Steps, Goes, Ends, Flushes, Keeps, Starts
<1> QED BY <1>1, <1>2, Kinds

LEMMA ClosedAppend ==
    ASSUME LedgerParts, ClosedInv, NEW r \in Runs, CloseRun(r)
    PROVE  /\ Len(closed) \in Nat /\ Len(closed') = Len(closed) + 1
           /\ closed'[Len(closed) + 1] = r
           /\ \A i \in 1..Len(closed) : closed'[i] = closed[i] /\ closed[i] # r
           /\ ledger'[r] = Outcome(proc[r])
           /\ \A x \in Runs \ {r} : ledger'[x] = ledger[x]
           /\ proc'[r] = Gone(proc[r], "exited")
           /\ \A x \in Runs \ {r} : proc'[x] = proc[x]
<1>1. closed \in Seq(Runs) /\ closed' = Append(closed, r)
      /\ ledger \in [Runs -> Row] /\ proc \in [Runs -> Process]
  BY DEF LedgerParts, TypeInv, TypeOK, CloseRun
<1>2. /\ Len(closed) \in Nat /\ Len(closed') = Len(closed) + 1
      /\ closed'[Len(closed) + 1] = r
      /\ \A i \in 1..Len(closed) : closed'[i] = closed[i]
  BY <1>1, AppendProperties, LenProperties
<1>3. \A i \in 1..Len(closed) : closed[i] # r
  BY DEF ClosedInv, Finished, CloseRun, At
<1>4. /\ ledger'[r] = Outcome(proc[r])
      /\ \A x \in Runs \ {r} : ledger'[x] = ledger[x]
  BY <1>1 DEF CloseRun
<1>5. /\ proc'[r] = Gone(proc[r], "exited")
      /\ \A x \in Runs \ {r} : proc'[x] = proc[x]
  BY <1>1 DEF CloseRun
<1> QED BY <1>2, <1>3, <1>4, <1>5

LEMMA ClosedStep ==
    ASSUME LedgerParts, ClosedInv, [Next]_vars
    PROVE  ClosedInv'
<1>1. TypeInv /\ IdInv /\ BuffersPast
  BY BufferPast DEF LedgerParts, BuffersInv
<1>2. \A x \in Runs : Finished(x) => Finished(x)'
  BY FinishedStays DEF Finished
<1>3. CASE UNCHANGED closed
  BY <1>1, <1>2, <1>3, ClosedRuns DEF ClosedInv
<1>4. ASSUME NEW r \in Runs, CloseRun(r) PROVE ClosedInv'
  <2>1. Finished(r)'
    BY <1>4, ClosedAppend, GoneFields, OutcomeFields DEF Finished
  <2> SUFFICES ASSUME NEW i \in 1..Len(closed') PROVE Finished(closed[i])'
    BY DEF ClosedInv
  <2>2. CASE i = Len(closed) + 1
    <3>1. closed'[i] = r
      BY <1>4, <2>2, ClosedAppend
    <3> QED BY <2>1, <3>1 DEF Finished
  <2>3. CASE i \in 1..Len(closed)
    <3>1. closed'[i] = closed[i]
      BY <1>4, <2>3, ClosedAppend
    <3>2. PICK x \in Runs : x = closed[i]
      BY <1>1, <2>3, ClosedRuns
    <3>3. Finished(x)'
      BY <1>2, <2>3, <3>2 DEF ClosedInv
    <3> QED BY <3>1, <3>2, <3>3 DEF Finished
  <2>4. i \in 1..(Len(closed) + 1) /\ Len(closed) \in Nat
    BY <1>4, ClosedAppend
  <2> QED BY <2>2, <2>3, <2>4
<1> QED BY <1>1, <1>3, <1>4, ClosedGrows

LEMMA CommittingOutcome ==
    ASSUME NEW p, Outcome(p).status \in Committing
    PROVE  p.reason = "finished" /\ ~p.quarantined
<1>1. StatusOf(p) \in Committing
  BY DEF Outcome
<1> QED BY <1>1 DEF StatusOf, RunStatus, Committing

(* Closing a run adds it to the committed ones of its source, if it is one *)
(* of them, and nothing else.                                              *)
LEMMA BaselinesGrow ==
    ASSUME LedgerParts, ClosedInv, NEW r \in Runs, CloseRun(r), NEW s, NEW x,
           x = r \/ Outcome(proc[r]).status \notin Committing \/ proc[r].source # s
    PROVE  /\ Baselines(s, x)' = Baselines(s, x)
           /\ BaselineCount(s, x)' = BaselineCount(s, x)
<1> DEFINE n == Len(closed)
<1>1. /\ n \in Nat /\ Len(closed') = n + 1 /\ closed'[n + 1] = r
      /\ ledger'[r] = Outcome(proc[r]) /\ Outcome(proc[r]).source = proc[r].source
  BY ClosedAppend, OutcomeFields
<1>2. ASSUME NEW i \in 1..n
      PROVE  closed'[i] = closed[i] /\ ledger'[closed'[i]] = ledger[closed[i]]
  <2>1. closed[i] \in Runs \ {r} /\ closed'[i] = closed[i]
    BY <1>2, ClosedAppend, ClosedRuns DEF LedgerParts
  <2> QED BY <2>1, ClosedAppend
<1>3. Baselines(s, x)' = {i \in 1..(n + 1) :
          /\ closed'[i] # x /\ ledger'[closed'[i]].source = s
          /\ ledger'[closed'[i]].status \in Committing}
  BY <1>1 DEF Baselines
<1>4. n + 1 \notin Baselines(s, x)'
  BY <1>1, <1>3
<1>5. Baselines(s, x)' = Baselines(s, x)
  <2>1. 1..(n + 1) = 1..n \cup {n + 1}
    BY <1>1
  <2>2. \A i \in 1..n : i \in Baselines(s, x)' <=> i \in Baselines(s, x)
    BY <1>2, <1>3, <2>1 DEF Baselines
  <2>3. Baselines(s, x)' \subseteq 1..n /\ Baselines(s, x) \subseteq 1..n
    BY <1>3, <1>4, <2>1 DEF Baselines
  <2> QED BY <2>2, <2>3
<1>6. \A i \in Baselines(s, x) : ledger'[closed'[i]] = ledger[closed[i]]
  BY <1>2 DEF Baselines
<1>7. CASE Baselines(s, x) = {}
  BY <1>5, <1>7 DEF BaselineCount
<1>8. CASE Baselines(s, x) # {}
  <2> DEFINE last == CHOOSE i \in Baselines(s, x) : \A j \in Baselines(s, x) : j <= i
  <2>1. last \in Baselines(s, x)
    BY <1>8, LastBaseline DEF LedgerParts
  <2>2. BaselineCount(s, x) = ledger[closed[last]].itemsOk
    BY <1>8 DEF BaselineCount
  <2>3. BaselineCount(s, x)' = ledger'[closed'[last]].itemsOk
    BY <1>5, <1>8 DEF BaselineCount
  <2> HIDE DEF last
  <2> QED BY <1>5, <1>6, <2>1, <2>2, <2>3
<1> QED BY <1>5, <1>7, <1>8

LEMMA BaselinesStay ==
    ASSUME LedgerParts, ClosedInv, [Next]_vars, UNCHANGED closed, NEW s, NEW x
    PROVE  /\ Baselines(s, x)' = Baselines(s, x)
           /\ BaselineCount(s, x)' = BaselineCount(s, x)
<1>1. ASSUME NEW i \in 1..Len(closed) PROVE ledger'[closed[i]] = ledger[closed[i]]
  BY <1>1, ClosedRuns, FinishedStays DEF ClosedInv, LedgerParts
<1>2. Baselines(s, x)' = Baselines(s, x)
  BY <1>1 DEF Baselines
<1>3. \A i \in Baselines(s, x) : ledger'[closed[i]] = ledger[closed[i]]
  BY <1>1 DEF Baselines
<1>4. CASE Baselines(s, x) = {}
  BY <1>2, <1>4 DEF BaselineCount
<1>5. CASE Baselines(s, x) # {}
  <2> DEFINE last == CHOOSE i \in Baselines(s, x) : \A j \in Baselines(s, x) : j <= i
  <2>1. last \in Baselines(s, x)
    BY <1>5, LastBaseline DEF LedgerParts
  <2>2. BaselineCount(s, x) = ledger[closed[last]].itemsOk
    BY <1>5 DEF BaselineCount
  <2>3. BaselineCount(s, x)' = ledger'[closed[last]].itemsOk
    BY <1>2, <1>5 DEF BaselineCount
  <2> HIDE DEF last
  <2> QED BY <1>2, <1>3, <2>1, <2>2, <2>3
<1> QED BY <1>2, <1>4, <1>5

(* The baseline of a crawl's source does not move under it.                *)
LEMMA BaselineKept ==
    ASSUME LedgerParts, OneCrawl, ClosedInv, [Next]_vars, NEW x \in Runs,
           InCrawl(proc[x]), NEW s, s = proc[x].source, s \notin overlapped
    PROVE  BaselineCount(s, x)' = BaselineCount(s, x)
<1>1. ASSUME NEW r \in Runs, CloseRun(r)
      PROVE  BaselineCount(s, x)' = BaselineCount(s, x)
  <2>1. ASSUME r # x, Outcome(proc[r]).status \in Committing
        PROVE  proc[r].source # s
    <3>1. InCrawl(proc[r])
      BY <1>1, <2>1, CommittingOutcome DEF CloseRun, At, InCrawl
    <3> QED BY <2>1, <3>1 DEF OneCrawl
  <2> QED BY <1>1, <2>1, BaselinesGrow
<1> QED BY <1>1, ClosedGrows, BaselinesStay, BufferPast DEF LedgerParts, BuffersInv

LEMMA VolumeStays ==
    ASSUME VolumeParts, [Next]_vars, NEW x \in Runs, proc'[x] = proc[x],
           overlapped \subseteq overlapped'
    PROVE  VolumeFits(x)'
<1>1. VolumeFits(x) /\ LedgerParts /\ OneCrawl /\ ClosedInv
  BY DEF VolumeParts, VolumeInv
<1>2. PICK p : p = proc[x]
  OBVIOUS
<1>3. ASSUME InCrawl(p), p.source \notin overlapped
      PROVE  BaselineCount(p.source, x)' = BaselineCount(p.source, x)
  BY <1>1, <1>2, <1>3, BaselineKept
<1>4. proc[x] = p /\ proc'[x] = p
  BY <1>2
<1> QED BY <1>1, <1>3, <1>4 DEF VolumeFits

(* What a step may do to a process that is in a crawl.                     *)
Carries(p, q, r) ==
    /\ InCrawl(p) /\ q.source = p.source
    /\ \/ p.pc # "priced" /\ q.baseline = p.baseline
       \/ p.pc = "priced" /\ q.baseline = BaselineCount(p.source, r)
    /\ q.pc \in {"flushing", "closing"} =>
            q.quarantined = VolumeAnomaly(Len(q.buffer), q.baseline)

LEMMA VolumeMoves ==
    ASSUME VolumeParts, [Next]_vars, NEW r \in Runs, NEW q, Moves(r, q),
           overlapped \subseteq overlapped',
           InCrawl(q) /\ q.pc # "priced" => Carries(proc[r], q, r)
    PROVE  VolumeInv'
<1>1. proc'[r] = q /\ \A x \in Runs \ {r} : proc'[x] = proc[x]
  BY Moved DEF VolumeParts, LedgerParts
<1>2. \A x \in Runs \ {r} : VolumeFits(x)'
  BY <1>1, VolumeStays
<1>3. ASSUME InCrawl(q), q.pc # "priced", q.source \notin overlapped'
      PROVE  q.baseline = BaselineCount(q.source, r)'
  <2>1. Carries(proc[r], q, r)
    BY <1>3
  <2>2. BaselineCount(q.source, r)' = BaselineCount(q.source, r)
    BY <1>3, <2>1, BaselineKept DEF Carries, VolumeParts
  <2>3. proc[r].pc # "priced" => proc[r].baseline = BaselineCount(q.source, r)
    BY <1>3, <2>1 DEF Carries, VolumeParts, VolumeInv, VolumeFits
  <2> QED BY <2>1, <2>2, <2>3 DEF Carries
<1>4. InCrawl(q) /\ q.pc \in {"flushing", "closing"} =>
        q.quarantined = VolumeAnomaly(Len(q.buffer), q.baseline)
  BY DEF Carries
<1>5. VolumeFits(r)'
  BY <1>1, <1>3, <1>4 DEF VolumeFits
<1> QED BY <1>2, <1>5 DEF VolumeInv

LEMMA VolumeStep ==
    ASSUME VolumeParts, [Next]_vars
    PROVE  VolumeInv'
<1>1. TypeInv /\ BuffersInv /\ IdInv /\ BuffersPast
  BY BufferPast DEF VolumeParts, LedgerParts, BuffersInv
<1>2. ASSUME UNCHANGED <<proc, overlapped>> PROVE VolumeInv'
  BY <1>2, VolumeStays DEF VolumeInv
<1>3. ASSUME NEW r \in Runs, Goes(r) PROVE VolumeInv'
  <2>1. PICK q \in Process :
          /\ Moves(r, q) /\ q.source = proc[r].source
          /\ q.buffer = proc[r].buffer /\ Advances(r, q)
    BY <1>3 DEF Goes
  <2>2. overlapped \subseteq overlapped'
    BY <2>1 DEF Advances, LoadPrices
  <2>3. proc[r].pc \in {"flushing"} =>
          proc[r].quarantined = VolumeAnomaly(Len(proc[r].buffer), proc[r].baseline)
    BY DEF VolumeParts, VolumeInv, VolumeFits, InCrawl, Loaded
  <2>4. InCrawl(q) /\ q.pc # "priced" => Carries(proc[r], q, r)
    BY <2>1, <2>3 DEF Advances, Carries, InCrawl, Loaded
  <2> QED BY <2>1, <2>2, <2>4, VolumeMoves
<1>4. ASSUME NEW r \in Runs, Ends(r) PROVE VolumeInv'
  <2>1. PICK pc \in {"exited", "died"} : Moves(r, Gone(proc[r], pc))
    BY <1>4 DEF Ends
  <2>2. ~InCrawl(Gone(proc[r], pc))
    BY GoneFields DEF InCrawl, Loaded
  <2> QED BY <1>4, <2>1, <2>2, VolumeMoves DEF Ends
<1>5. ASSUME NEW r \in Runs, Starts(r) PROVE VolumeInv'
  <2>1. PICK s, owned : Moves(r, Started(s, owned))
    BY <1>5 DEF Starts
  <2>2. ~InCrawl(Started(s, owned))
    BY StartedFields DEF InCrawl, Loaded
  <2> QED BY <1>5, <2>1, <2>2, VolumeMoves DEF Starts
<1>6. ASSUME NEW r \in Runs, Flushes(r) PROVE VolumeInv'
  <2>1. PICK q \in Process :
          /\ Moves(r, q) /\ q.source = proc[r].source /\ q.buffer = proc[r].buffer
          /\ q.baseline = proc[r].baseline /\ q.quarantined = proc[r].quarantined
    BY <1>6 DEF Flushes
  <2>2. proc[r].pc = "flushing" /\ UNCHANGED overlapped
    BY <1>6 DEF Flushes
  <2>3. Carries(proc[r], q, r)
    BY <2>1, <2>2 DEF Carries, VolumeParts, VolumeInv, VolumeFits, InCrawl, Loaded
  <2> QED BY <2>1, <2>2, <2>3, VolumeMoves
<1>7. ASSUME NEW r \in Runs, NEW e, NEW a, Keeps(r, e, a) PROVE VolumeInv'
  <2>1. PICK q \in Process :
          /\ Moves(r, q) /\ q.source = proc[r].source /\ q.pc = "crawling"
          /\ q.baseline = proc[r].baseline
    BY <1>7 DEF Keeps
  <2>2. proc[r].pc = "crawling" /\ UNCHANGED overlapped
    BY <1>7 DEF Keeps
  <2>3. Carries(proc[r], q, r)
    BY <2>1, <2>2 DEF Carries, InCrawl, Loaded
  <2> QED BY <2>1, <2>2, <2>3, VolumeMoves
<1>8. UNCHANGED vars \/ Gives \/ (\E ids : Opens(ids)) => UNCHANGED <<proc, overlapped>>
  BY DEF vars, Gives, Opens
<1>9. \A r \in Runs : Steps(r) => VolumeInv'
  BY <1>3, <1>4, <1>5, <1>6, <1>7 DEF Steps
<1> QED BY <1>1, <1>2, <1>8, <1>9, Kinds

(* The steps that close no run change no count a reader could compare.     *)
LEMMA VolumeQuiet ==
    ASSUME VolumeParts, VolumeAlone, [Next]_vars, UNCHANGED closed,
           overlapped \subseteq overlapped'
    PROVE  VolumeAlone'
<1>1. LedgerParts /\ ClosedInv /\ TypeInv
  BY DEF VolumeParts, LedgerParts
<1> SUFFICES ASSUME NEW s \in Sources \ overlapped, NEW i \in 1..Len(closed),
                    NEW j \in 1..Len(closed), Committing2(s, i, j)',
                    FlushedWhole(closed[j])'
             PROVE  ~VolumeAnomaly(ledger'[closed[j]].itemsOk,
                                   ledger'[closed[i]].itemsOk)
  BY DEF VolumeAlone
<1>2. PICK x \in Runs, y \in Runs : x = closed[i] /\ y = closed[j]
  BY <1>1, ClosedRuns
<1>3. Finished(x) /\ Finished(y)
  BY <1>1, <1>2 DEF ClosedInv
<1>4. /\ ledger'[x] = ledger[x] /\ ledger'[y] = ledger[y]
      /\ proc'[y] = proc[y] /\ Committed(y)' = Committed(y)
  BY <1>1, <1>3, FinishedStays
<1>5. Committing2(s, i, j)
  <2>1. Baselines(s, 0)' = Baselines(s, 0)
    BY <1>1, BaselinesStay
  <2> QED BY <2>1 DEF Committing2
<1>6. FlushedWhole(y)' /\ (FlushedWhole(y)' => FlushedWhole(y))
  BY <1>2, <1>4 DEF FlushedWhole
<1> QED BY <1>2, <1>4, <1>5, <1>6 DEF VolumeAlone

(* A run that commits its whole buffer has passed the volume gate against  *)
(* the last committed one.                                                 *)
LEMMA VolumeClose ==
    ASSUME VolumeParts, NEW r \in Runs, CloseRun(r),
           Outcome(proc[r]).status \in Committing, FlushedWhole(r)',
           proc[r].source \notin overlapped
    PROVE  ~VolumeAnomaly(Outcome(proc[r]).itemsOk, BaselineCount(proc[r].source, r))
<1> DEFINE p == proc[r]
<1>1. TypeInv /\ BuffersInv /\ ClosedInv /\ LedgerParts /\ VolumeFits(r)
  BY DEF VolumeParts, LedgerParts, VolumeInv
<1>2. p.pc = "closing" /\ p.reason = "finished" /\ ~p.quarantined
  BY CommittingOutcome DEF CloseRun, At
<1>3. InCrawl(p)
  BY <1>2 DEF InCrawl
<1>4. ~VolumeAnomaly(Len(p.buffer), BaselineCount(p.source, r))
  BY <1>1, <1>2, <1>3 DEF VolumeFits
<1>5. Cardinality(Committed(r)) = p.persisted /\ Committed(r)' = Committed(r)
  BY <1>1, <1>2, StoredCount DEF CloseRun, Committed
<1>6. Cardinality(Committed(r)') = Len(proc'[r].buffer)
  BY DEF FlushedWhole
<1>7. proc'[r].buffer = p.buffer
  BY <1>1, ClosedAppend, GoneFields
<1>8. Outcome(p).itemsOk = Len(p.buffer)
  BY <1>5, <1>6, <1>7, OutcomeFields
<1> QED BY <1>4, <1>8

LEMMA VolumeClosing ==
    ASSUME VolumeParts, VolumeAlone, [Next]_vars, NEW r \in Runs, CloseRun(r)
    PROVE  VolumeAlone'
<1> DEFINE n == Len(closed)
<1>1. LedgerParts /\ ClosedInv /\ TypeInv /\ UNCHANGED overlapped
  BY DEF VolumeParts, LedgerParts, CloseRun
<1>2. /\ n \in Nat /\ Len(closed') = n + 1 /\ closed'[n + 1] = r
      /\ ledger'[r] = Outcome(proc[r]) /\ Outcome(proc[r]).source = proc[r].source
      /\ \A i \in 1..n : closed'[i] = closed[i] /\ closed[i] # r
  BY <1>1, ClosedAppend, OutcomeFields
<1>3. ASSUME NEW i \in 1..n
      PROVE  /\ ledger'[closed[i]] = ledger[closed[i]]
             /\ FlushedWhole(closed[i])' => FlushedWhole(closed[i])
  <2>1. PICK x \in Runs : x = closed[i]
    BY <1>1, ClosedRuns
  <2>2. Finished(x) /\ closed'[i] = x
    BY <1>1, <1>2, <2>1 DEF ClosedInv
  <2>3. ledger'[x] = ledger[x] /\ proc'[x] = proc[x] /\ Committed(x)' = Committed(x)
    BY <1>1, <2>2, FinishedStays
  <2>4. x # r
    BY <1>2, <2>1
  <2>5. FlushedWhole(x)' => FlushedWhole(x)
    BY <2>3 DEF FlushedWhole
  <2> QED BY <2>1, <2>2, <2>3, <2>4, <2>5
<1>4. ASSUME NEW s
      PROVE  /\ \A i \in 1..n : i \in Baselines(s, 0)' <=> i \in Baselines(s, 0)
             /\ n + 1 \in Baselines(s, 0)'
                  => /\ proc[r].source = s
                     /\ Outcome(proc[r]).status \in Committing
  <2>1. 1..(n + 1) = 1..n \cup {n + 1}
    BY <1>2
  <2>2. \A i \in 1..n : closed'[i] = closed[i] /\ ledger'[closed'[i]] = ledger[closed[i]]
    BY <1>2, <1>3
  <2>3. \A i \in 1..n : i \in Baselines(s, 0)' <=> i \in Baselines(s, 0)
    BY <1>2, <2>1, <2>2 DEF Baselines
  <2> QED BY <1>2, <2>3 DEF Baselines
<1> SUFFICES ASSUME NEW s \in Sources \ overlapped, NEW i \in 1..(n + 1),
                    NEW j \in 1..(n + 1), Committing2(s, i, j)',
                    FlushedWhole(closed[j])'
             PROVE  ~VolumeAnomaly(ledger'[closed'[j]].itemsOk,
                                   ledger'[closed'[i]].itemsOk)
  BY <1>1, <1>2 DEF VolumeAlone
<1>5. /\ i < j /\ i \in Baselines(s, 0)' /\ j \in Baselines(s, 0)'
      /\ \A k \in (i + 1)..(j - 1) : k \notin Baselines(s, 0)'
  BY DEF Committing2
<1>6. i \in 1..n
  BY <1>2, <1>5
<1>7. CASE j \in 1..n
  <2>1. \A k \in (i + 1)..(j - 1) : k \in 1..n
    BY <1>2, <1>6, <1>7
  <2>2. Committing2(s, i, j)
    BY <1>4, <1>5, <1>6, <1>7, <2>1 DEF Committing2
  <2>3. FlushedWhole(closed[j])
    <3>1. closed'[j] = closed[j]
      BY <1>2, <1>7
    <3>2. FlushedWhole(closed[j])'
      OBVIOUS
    <3> QED BY <1>3, <1>7, <3>1, <3>2
  <2>4. ledger'[closed'[j]] = ledger[closed[j]] /\ ledger'[closed'[i]] = ledger[closed[i]]
    BY <1>2, <1>3, <1>6, <1>7
  <2> QED BY <1>1, <1>6, <1>7, <2>2, <2>3, <2>4 DEF VolumeAlone
<1>8. CASE j = n + 1
  <2>1. closed'[j] = r /\ proc[r].source = s /\ Outcome(proc[r]).status \in Committing
    BY <1>2, <1>4, <1>5, <1>8
  <2>2. FlushedWhole(r)'
    BY <2>1 DEF FlushedWhole
  <2>3. ~VolumeAnomaly(Outcome(proc[r]).itemsOk, BaselineCount(s, r))
    BY <2>1, <2>2, VolumeClose
  <2>4. Baselines(s, r) = Baselines(s, 0)
    BY <1>1, <1>2, ClosedRuns DEF Baselines, Runs
  <2>5. i \in Baselines(s, r) /\ \A k \in Baselines(s, r) : k <= i
    <3>1. i \in Baselines(s, 0)
      BY <1>4, <1>5, <1>6
    <3>2. ASSUME NEW k \in Baselines(s, 0) PROVE k <= i
      <4>1. k \in 1..n /\ k \in Baselines(s, 0)'
        BY <1>4, <3>2 DEF Baselines
      <4>2. k \notin (i + 1)..(j - 1)
        BY <1>5, <4>1
      <4> QED BY <1>2, <1>6, <1>8, <4>1, <4>2
    <3> QED BY <2>4, <3>1, <3>2
  <2>6. PICK m \in Baselines(s, r) :
          /\ \A k \in Baselines(s, r) : k <= m
          /\ BaselineCount(s, r) = ledger[closed[m]].itemsOk
    BY <1>1, <2>5, LastBaseline
  <2>7. m = i
    <3>1. m \in 1..n
      BY DEF Baselines
    <3> QED BY <1>2, <1>6, <2>5, <2>6, <3>1
  <2>8. ledger'[closed'[i]] = ledger[closed[i]]
    BY <1>2, <1>3, <1>6
  <2> QED BY <1>2, <2>1, <2>3, <2>6, <2>7, <2>8
<1>9. j \in 1..n \/ j = n + 1
  BY <1>2
<1> QED BY <1>7, <1>8, <1>9

LEMMA VolumeAloneStep ==
    ASSUME VolumeParts, VolumeAlone, [Next]_vars
    PROVE  VolumeAlone'
<1>1. TypeInv /\ IdInv /\ BuffersPast
  BY BufferPast DEF VolumeParts, LedgerParts, BuffersInv
<1>2. overlapped \subseteq overlapped'
  <2>1. ASSUME NEW r \in Runs, Steps(r) PROVE overlapped \subseteq overlapped'
    <3>1. CASE Goes(r)
      BY <3>1 DEF Goes, Advances, LoadPrices
    <3> QED BY <2>1, <3>1 DEF Steps, Ends, Flushes, Keeps, Starts
  <2>2. UNCHANGED vars \/ Gives \/ (\E ids : Opens(ids)) => UNCHANGED overlapped
    BY DEF vars, Gives, Opens
  <2> QED BY <1>1, <2>1, <2>2, Kinds
<1> QED BY <1>1, <1>2, ClosedGrows, VolumeQuiet, VolumeClosing

LEMMA VolumeInvariant == Spec => []VolumeParts
<1>1. Init => OneCrawl /\ ClosedInv /\ VolumeInv
  <2> SUFFICES ASSUME Init PROVE OneCrawl /\ ClosedInv /\ VolumeInv
    OBVIOUS
  <2>1. Len(closed) = 0
    BY EmptySeq DEF Init
  <2> QED BY <2>1 DEF Init, Idle, OneCrawl, InCrawl, Loaded, VolumeInv, VolumeFits,
                      ClosedInv
<1>2. VolumeParts /\ [Next]_vars => OneCrawl' /\ ClosedInv' /\ VolumeInv'
  BY OneCrawlStep, ClosedStep, VolumeStep, BufferPast
     DEF VolumeParts, LedgerParts, BuffersInv
<1> QED BY <1>1, <1>2, LedgerInvariant, PTL DEF Spec, VolumeParts

(* Of two committing runs of a source that follow one another, the second  *)
(* one's count is within the tolerance of the first one's, where the       *)
(* crawls of the source do not overlap and its flush did not fail half way.*)
THEOREM VolumeCorrect == Spec => []VolumeAlone
<1>1. Init => VolumeAlone
  <2> SUFFICES ASSUME Init PROVE VolumeAlone
    OBVIOUS
  <2>1. Len(closed) = 0
    BY EmptySeq DEF Init
  <2> QED BY <2>1 DEF VolumeAlone
<1> QED BY <1>1, VolumeAloneStep, VolumeInvariant, PTL DEF Spec

=============================================================================
