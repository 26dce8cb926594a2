------------------------------ MODULE CrawlRuns ------------------------------
(***************************************************************************)
(* The crawl-run ledger and the time series: the trigger that opens runs   *)
(* (acquisition/orchestrator.py), the crawl process that executes each     *)
(* (acquisition/runner.py), the three item pipelines inside it (pipeline/) *)
(* and the tables they share (storage/repositories.py).                    *)
(*                                                                         *)
(* Every crawl is a process of its own: runs of one source may overlap,    *)
(* and whatever a process read at open_spider may be stale when it is      *)
(* used.  An action is one database transaction, or what one process does  *)
(* between two of them.  What the downloader does is Downloader's matter;  *)
(* here a crawl is the items it yields and the way it ends.                *)
(***************************************************************************)
EXTENDS QualityGates, Sequences, FiniteSets

CONSTANTS
    Sources,      \* the source ids that occur
    Registered,   \* those with a row in the sources table
    Spiders,      \* those the spider registry knows
    Persistable,  \* those whose spider is a real extractor with a kind
    Entries,      \* the external ids a source may list
    Prices,       \* the raw prices it may state; Unparsable is no price
    Faults,       \* what may go wrong: "launch", "db", "crash", "reactor"
    MaxRuns,      \* bound: runs ever started
    MaxItems,     \* bound: items a crawl yields
    MaxUnmapped,  \* bound: entries of a crawl that map to no item
    MaxBans       \* bound: ban events of a crawl

ASSUME CrawlAssumption ==
    /\ Registered \subseteq Sources /\ IsFiniteSet(Registered)
    /\ Spiders \subseteq Sources /\ Persistable \subseteq Spiders
    /\ Prices \subseteq Int
    /\ Faults \subseteq {"launch", "db", "crash", "reactor"}
    /\ MaxRuns \in Nat /\ MaxItems \in Nat /\ MaxUnmapped \in Nat
    /\ MaxBans \in Nat

VARIABLES
    ledger,     \* crawl_runs, by run id
    closed,     \* the ids of finished runs, in the order of finished_at
    observed,   \* price_observations
    calls,      \* trigger_crawl() calls: the runs each has yet to launch
    proc,       \* the crawl processes, by run id
    captures,   \* how many prices were captured, the clock of captured_at
    overlapped  \* sources of which two crawls ever overlapped (history)

vars == <<ledger, closed, observed, calls, proc, captures, overlapped>>

(* Run ids are numbered as they are minted; uuids carry no more than that. *)
Runs == 1..MaxRuns

(* normalize(): a price that does not parse, or a negative one, is         *)
(* rejected.                                                               *)
Unparsable == -2
Unmappable(amount) == amount < 0

Absent == [source |-> "none", status |-> "absent", itemsOk |-> 0,
           rejected |-> 0, bans |-> 0]

Opened(s) == [Absent EXCEPT !.source = s, !.status = "running"]

Idle == [pc |-> "none", source |-> "none", owned |-> FALSE,
         prev |-> [e \in Entries |-> None], baseline |-> None,
         seen |-> {}, buffer |-> <<>>, mapped |-> 0, rejected |-> 0,
         unmapped |-> 0, bans |-> 0, reason |-> "none",
         quarantined |-> FALSE, persisted |-> 0]

(* A process that is gone: its memory is lost, but for the buffer that      *)
(* NoHalfRuns compares with what was stored.                               *)
Gone(p, pc) == [Idle EXCEPT !.pc = pc, !.source = p.source,
                            !.buffer = p.buffer]

Init ==
    /\ ledger     = [r \in Runs |-> Absent]
    /\ closed     = <<>>
    /\ observed   = {}
    /\ calls      = {}
    /\ proc       = [r \in Runs |-> Idle]
    /\ captures   = 0
    /\ overlapped = {}

At(r, pc) == proc[r].pc = pc

Used == {r \in Runs : ledger[r] # Absent \/ proc[r] # Idle}

(* The next n ids.                                                         *)
NextIds(n) == (Cardinality(Used) + 1)..(Cardinality(Used) + n)

-----------------------------------------------------------------------------
(***************************************************************************)
(* What the tables answer.                                                 *)
(***************************************************************************)

Of(s, e) == {o \in observed : o.source = s /\ o.entry = e}

(* latest_amounts_for_source(): by captured_at, whenever it was committed. *)
LatestAmount(s, e) ==
    IF Of(s, e) = {} THEN None
    ELSE (CHOOSE o \in Of(s, e) : \A p \in Of(s, e) : p.at <= o.at).amount

(* baseline_count(): the last finished run of the source that committed,   *)
(* other than the asking one.                                              *)
Baselines(s, r) ==
    {i \in 1..Len(closed) :
        /\ closed[i] # r
        /\ ledger[closed[i]].source = s
        /\ ledger[closed[i]].status \in Committing}

BaselineCount(s, r) ==
    IF Baselines(s, r) = {} THEN None
    ELSE ledger[closed[CHOOSE i \in Baselines(s, r) :
                        \A j \in Baselines(s, r) : j <= i]].itemsOk

Committed(r) == {o \in observed : o.run = r}

-----------------------------------------------------------------------------
(***************************************************************************)
(* The trigger, shared by the scheduler and POST /admin/crawl.             *)
(***************************************************************************)

(* One transaction opens a row for every target; with none, as when the    *)
(* table is empty, nothing is opened and nothing is left to launch ...     *)
OpenRows(targets) ==
    LET ids == NextIds(Cardinality(targets))
        run == CHOOSE f \in [targets -> ids] :
                    \A s, t \in targets : f[s] = f[t] => s = t
    IN  /\ ids \subseteq Runs
        /\ ledger' = [r \in Runs |->
                        IF \E s \in targets : run[s] = r
                        THEN Opened(CHOOSE s \in targets : run[s] = r)
                        ELSE ledger[r]]
        /\ calls' = calls \cup ({ids} \ {{}})
        /\ UNCHANGED <<closed, observed, proc, captures, overlapped>>

(* ... a named one must be in the table and the registry, "all" is what    *)
(* the table holds.                                                        *)
TriggerOne(s) == s \in Registered \cap Spiders /\ OpenRows({s})
TriggerAll    == OpenRows(Registered)

(* ... and then launches a process for each.                               *)
Launch(call, r) ==
    /\ calls' = (calls \ {call}) \cup ({call \ {r}} \ {{}})
    /\ proc' = [proc EXCEPT ![r].pc = "started",
                            ![r].source = ledger[r].source]
    /\ UNCHANGED <<ledger, closed, observed, captures, overlapped>>

(* A launch that raises, or the death of the triggering process, abandons  *)
(* the launches that were to follow.                                       *)
LaunchFails(call) ==
    /\ "launch" \in Faults
    /\ calls' = calls \ {call}
    /\ UNCHANGED <<ledger, closed, observed, proc, captures, overlapped>>

(* An operator runs the CLI, which mints its own run id.                   *)
StartCli(s) ==
    \E r \in NextIds(1) \cap Runs :
        /\ proc' = [proc EXCEPT ![r].pc = "started", ![r].source = s,
                                ![r].owned = TRUE]
        /\ UNCHANGED <<ledger, closed, observed, calls, captures, overlapped>>

-----------------------------------------------------------------------------
(***************************************************************************)
(* The crawl process.                                                      *)
(***************************************************************************)

(* run_crawl() returns early: no spider, no kind, or no row in sources.    *)
Bail(r) ==
    /\ At(r, "started")
    /\ proc[r].source \notin Persistable \cap Registered
    /\ proc' = [proc EXCEPT ![r] = Gone(@, "exited")]
    /\ UNCHANGED <<ledger, closed, observed, calls, captures, overlapped>>

(* ... or goes on, opening the ledger row unless it adopted one.           *)
Prepare(r) ==
    /\ At(r, "started")
    /\ proc[r].source \in Persistable \cap Registered
    /\ proc' = [proc EXCEPT ![r].pc = "opened"]
    /\ ledger' = IF proc[r].owned
                 THEN [ledger EXCEPT ![r] = Opened(proc[r].source)]
                 ELSE ledger
    /\ UNCHANGED <<closed, observed, calls, captures, overlapped>>

(* open_spider() of the quality gates: the last committed prices.          *)
Active(r) == proc[r].pc \in {"priced", "crawling", "flushing", "closing"}

LoadPrices(r) ==
    LET s == proc[r].source IN
    /\ At(r, "opened")
    /\ proc' = [proc EXCEPT ![r].pc = "priced",
                    ![r].prev = [e \in Entries |-> LatestAmount(s, e)]]
    /\ overlapped' =
        IF \E q \in Runs : Active(q) /\ proc[q].source = s
        THEN overlapped \cup {s} ELSE overlapped
    /\ UNCHANGED <<ledger, closed, observed, calls, captures>>

(* open_spider() of the persistence stage: the volume baseline.            *)
LoadBaseline(r) ==
    /\ At(r, "priced")
    /\ proc' = [proc EXCEPT ![r].pc = "crawling",
                    ![r].baseline = BaselineCount(proc[r].source, r)]
    /\ UNCHANGED <<ledger, closed, observed, calls, captures, overlapped>>

(* open_spider() raises: Scrapy gives the crawl up.                        *)
OpenSpiderFails(r) ==
    /\ "db" \in Faults
    /\ proc[r].pc \in {"opened", "priced"}
    /\ proc' = [proc EXCEPT ![r].pc = "closing", ![r].reason = "shutdown"]
    /\ UNCHANGED <<ledger, closed, observed, calls, captures, overlapped>>

(* process.start() raises, before close_spider() was reached: the run is   *)
(* closed as failed, with no counts but the ban events so far.  What is    *)
(* raised inside the event loop is logged there, so a flush is not cut     *)
(* short in this way.                                                      *)
ReactorFails(r, bans) ==
    /\ "reactor" \in Faults
    /\ proc[r].pc \in {"opened", "priced", "crawling"}
    /\ proc' = [proc EXCEPT ![r].pc = "closing", ![r].reason = "crashed",
                            ![r].bans = bans]
    /\ UNCHANGED <<ledger, closed, observed, calls, captures, overlapped>>

(* One item through process_item of the three stages: normalise, drop the  *)
(* duplicates of the run (the first one is kept, even if a gate then drops *)
(* it), judge the price, buffer.                                           *)
Yielding(r) == At(r, "crawling") /\ proc[r].mapped < MaxItems

(* Mutants: no deduplication; no continuity gate.                          *)
NoDuplicate(p, e)      == FALSE
RangeOnly(p, e, amount) == OutOfRange(amount)

Duplicate(p, e) == e \in p.seen

Fails(p, e, amount) ==
    OutOfRange(amount) \/ Discontinuous(amount, p.prev[e])

DropItem(r, e, amount) ==
    LET p == proc[r]
        rejects == Unmappable(amount) \/ (~Duplicate(p, e) /\ Fails(p, e, amount))
    IN  /\ Yielding(r)
        /\ rejects \/ Duplicate(p, e)
        /\ proc' = [proc EXCEPT
                ![r].mapped = @ + 1,
                ![r].seen = IF Unmappable(amount) THEN @ ELSE @ \cup {e},
                ![r].rejected = IF rejects THEN @ + 1 ELSE @]
        /\ UNCHANGED <<ledger, closed, observed, calls, captures, overlapped>>

KeepItem(r, e, amount) ==
    LET p == proc[r]
        item == [source |-> p.source, entry |-> e, run |-> r,
                 amount |-> amount, at |-> captures + 1]
    IN  /\ Yielding(r)
        /\ ~Unmappable(amount) /\ ~Duplicate(p, e) /\ ~Fails(p, e, amount)
        /\ captures' = captures + 1
        /\ proc' = [proc EXCEPT ![r].mapped = @ + 1,
                                ![r].seen = @ \cup {e},
                                ![r].buffer = Append(@, item)]
        /\ UNCHANGED <<ledger, closed, observed, calls, overlapped>>

(* Mutant: the gate counts what the page listed, not what survived.        *)
AnomalyOfListed(p) == VolumeAnomaly(p.mapped, p.baseline)

Anomaly(p) == VolumeAnomaly(Len(p.buffer), p.baseline)

(* The spider is idle, or a signal stops the crawl; close_spider() of the  *)
(* persistence stage judges the volume.                                    *)
EndCrawl(r, reason, unmapped, bans) ==
    LET p == proc[r] IN
    /\ At(r, "crawling")
    /\ proc' = [proc EXCEPT
            ![r].pc = IF Anomaly(p) \/ p.buffer = <<>> THEN "closing"
                                                       ELSE "flushing",
            ![r].reason = reason, ![r].unmapped = unmapped,
            ![r].bans = bans, ![r].quarantined = Anomaly(p)]
    /\ UNCHANGED <<ledger, closed, observed, calls, captures, overlapped>>

(* One transaction per buffered item.                                      *)
FlushItem(r) ==
    LET p == proc[r] IN
    /\ At(r, "flushing")
    /\ observed' = observed \cup {p.buffer[p.persisted + 1]}
    /\ proc' = [proc EXCEPT
            ![r].persisted = @ + 1,
            ![r].pc = IF p.persisted + 1 = Len(p.buffer) THEN "closing"
                                                         ELSE "flushing"]
    /\ UNCHANGED <<ledger, closed, calls, captures, overlapped>>

(* A transaction fails: close_spider() raises, which Scrapy logs; what was *)
(* flushed stays, and the finish reason too.                               *)
FlushFails(r) ==
    /\ "db" \in Faults
    /\ At(r, "flushing")
    /\ proc' = [proc EXCEPT ![r].pc = "closing"]
    /\ UNCHANGED <<ledger, closed, observed, calls, captures, overlapped>>

(* _close_run(): ban events and ledger row in one transaction.             *)
StatusOf(p) == RunStatus(p.reason, p.rejected, p.quarantined,
                         AssessDrift(p.mapped + p.unmapped, p.mapped))

Rejected(p) == IF p.reason = "crashed" THEN 0 ELSE p.rejected

(* Mutant: items_ok counts the buffer instead of what was flushed.         *)
OutcomeOfBuffer(p) ==
    [source |-> p.source, status |-> StatusOf(p),
     itemsOk |-> Len(p.buffer), rejected |-> Rejected(p), bans |-> p.bans]

Outcome(p) ==
    [source |-> p.source, status |-> StatusOf(p),
     itemsOk |-> p.persisted, rejected |-> Rejected(p), bans |-> p.bans]

(* Mutant: a quarantined run returns before it closes its row.             *)
CloseUnlessQuarantined(r) ==
    /\ At(r, "closing")
    /\ proc' = [proc EXCEPT ![r] = Gone(@, "exited")]
    /\ IF proc[r].quarantined
       THEN UNCHANGED <<ledger, closed>>
       ELSE /\ ledger' = [ledger EXCEPT ![r] = Outcome(proc[r])]
            /\ closed' = Append(closed, r)
    /\ UNCHANGED <<observed, calls, captures, overlapped>>

CloseRun(r) ==
    /\ At(r, "closing")
    /\ ledger' = [ledger EXCEPT ![r] = Outcome(proc[r])]
    /\ closed' = Append(closed, r)
    /\ proc' = [proc EXCEPT ![r] = Gone(@, "exited")]
    /\ UNCHANGED <<observed, calls, captures, overlapped>>

(* The process dies, or an exception of the database ends it: what it had  *)
(* in memory is lost, its row stays as it is.                              *)
Live == {"started", "opened", "priced", "crawling", "flushing", "closing"}

Dies(r) ==
    /\ \/ "crash" \in Faults /\ proc[r].pc \in Live
       \/ "db" \in Faults /\ proc[r].pc \in {"started", "closing"}
    /\ proc' = [proc EXCEPT ![r] = Gone(@, "died")]
    /\ UNCHANGED <<ledger, closed, observed, calls, captures, overlapped>>

-----------------------------------------------------------------------------
Proceed(r) ==
    \/ Bail(r) \/ Prepare(r) \/ LoadPrices(r) \/ LoadBaseline(r)
    \/ \E e \in Entries, a \in Prices : DropItem(r, e, a) \/ KeepItem(r, e, a)
    \/ \E reason \in {"finished", "shutdown"}, unmapped \in 0..MaxUnmapped,
          bans \in 0..MaxBans : EndCrawl(r, reason, unmapped, bans)
    \/ FlushItem(r) \/ CloseRun(r)

Fault(r) ==
    \/ OpenSpiderFails(r) \/ FlushFails(r) \/ Dies(r)
    \/ \E bans \in 0..MaxBans : ReactorFails(r, bans)

Launches(r) == \E call \in calls : r \in call /\ Launch(call, r)

Next ==
    \/ \E s \in Sources : TriggerOne(s) \/ StartCli(s)
    \/ TriggerAll
    \/ \E call \in calls : LaunchFails(call)
    \/ \E r \in Runs : Launches(r) \/ Proceed(r) \/ Fault(r)

(* A trigger goes on with its launches and a crawl process with its work.  *)
Fairness == \A r \in Runs : WF_vars(Launches(r)) /\ WF_vars(Proceed(r))

Spec     == Init /\ [][Next]_vars
FairSpec == Spec /\ Fairness

-----------------------------------------------------------------------------
(***************************************************************************)
(* What must hold.                                                         *)
(***************************************************************************)

Row == [source : Sources \cup {"none"},
        status : Terminal \cup {"absent", "running"},
        itemsOk : Nat, rejected : Nat, bans : Nat]

Observation == [source : Sources, entry : Entries, run : Runs,
                amount : Int, at : Nat \ {0}]

Process == [pc : Live \cup {"none", "exited", "died"},
            source : Sources \cup {"none"}, owned : BOOLEAN,
            prev : [Entries -> Int], baseline : Int,
            seen : SUBSET Entries, buffer : Seq(Observation),
            mapped : Nat, rejected : Nat, unmapped : Nat, bans : Nat,
            reason : {"none", "finished", "shutdown", "crashed"},
            quarantined : BOOLEAN, persisted : Nat]

(* Every variable keeps its type.                                          *)
TypeOK ==
    /\ ledger \in [Runs -> Row]
    /\ closed \in Seq(Runs)
    /\ observed \subseteq Observation
    /\ calls \subseteq SUBSET Runs
    /\ proc \in [Runs -> Process]
    /\ captures \in Nat
    /\ overlapped \subseteq Sources

(* A run stores a product at most once (NormalizePipeline's dedup), even   *)
(* where its page lists it twice with two prices.                          *)
OncePerRun ==
    \A o, p \in observed :
        o.run = p.run /\ o.entry = p.entry /\ o.source = p.source => o = p

(* Prices of a product that follow one another differ by no more than the  *)
(* jump ratio, unless one of them is zero, which check_continuity lets     *)
(* pass and check_range lets in (price_min is 0 in the settings).          *)
Next2(s, e, o, p) ==
    /\ o \in Of(s, e) /\ p \in Of(s, e) /\ o.at < p.at
    /\ ~ \E q \in Of(s, e) : o.at < q.at /\ q.at < p.at

Steady(s) ==
    \A e \in Entries : \A o, p \in Of(s, e) :
        Next2(s, e, o, p) => ~Discontinuous(p.amount, o.amount)

(* The continuity gate works as long as the crawls of the source do not    *)
(* overlap (from open_spider to the closed row), whatever crashes, flush   *)
(* failures, quarantines and duplicates lie between two of them.  Of two   *)
(* that overlap the later one compares with prices that are no longer "the *)
(* last committed" ones (ADR-0012:62), and may store a jump.               *)
SteadyAlone == \A s \in Sources \ overlapped : Steady(s)

(* "a crawl crash mid-run commits nothing ... (no half-runs)" (ADR-0012):  *)
(* a run whose process is gone has stored its whole buffer or nothing.     *)
NoHalfRuns ==
    \A r \in Runs :
        proc[r].pc \in {"exited", "died"} =>
            Cardinality(Committed(r)) \in {0, Len(proc[r].buffer)}

(* Of two committing runs that follow one another, the second one's count  *)
(* is within the tolerance of the first one's, as long as the crawls of    *)
(* the source do not overlap and its flush did not fail half way           *)
(* (PersistencePipeline reads the baseline long before it is used; of two  *)
(* that overlap each may be judged by a baseline that is not the last).    *)
Committing2(s, i, j) ==
    /\ i < j
    /\ {i, j} \subseteq Baselines(s, 0)
    /\ \A k \in (i + 1)..(j - 1) : k \notin Baselines(s, 0)

FlushedWhole(r) == Cardinality(Committed(r)) = Len(proc[r].buffer)

VolumeAlone ==
    \A s \in Sources \ overlapped : \A i, j \in 1..Len(closed) :
        Committing2(s, i, j) /\ FlushedWhole(closed[j])
            => ~VolumeAnomaly(ledger[closed[j]].itemsOk,
                              ledger[closed[i]].itemsOk)

(* "The subprocess adopts the id and closes it" (ADR-0016:32): a row       *)
(* leaves "running", unless its launch never came, its process died, or    *)
(* run_crawl() turned the source down and left the row of the trigger      *)
(* behind.  ADR-0016:55 accepts the rows of processes killed, of the other *)
(* two it does not speak.                                                  *)
Abandoned(r)  == At(r, "none") /\ \A call \in calls : r \notin call
TurnedDown(r) == At(r, "exited") /\ ledger[r].source \notin Persistable

RowsCloseOrLost ==
    \A r \in Runs :
        (ledger[r].status = "running")
            ~> \/ ledger[r].status \in Terminal
               \/ At(r, "died") \/ TurnedDown(r) \/ Abandoned(r)

(* What the ledger promises its readers.                                   *)
statusBar == [r \in Runs |-> ledger[r].status]
storedBar == [r \in Runs |-> Cardinality(Committed(r))]
countBar  == [r \in Runs |-> ledger[r].itemsOk]

Promise == INSTANCE RunLedger WITH
    status <- statusBar, stored <- storedBar, count <- countBar

KeepsPromise == Promise!Spec

=============================================================================
