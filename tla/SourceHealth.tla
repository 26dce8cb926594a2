---------------------------- MODULE SourceHealth ----------------------------
(***************************************************************************)
(* analytics/health.py over the crawl_runs of one source: what             *)
(* GET /health/sources (api/monitoring.py) and the dashboard's panel       *)
(* (api/dashboard.py) say of the source while its runs open, overlap,      *)
(* close in any order, or never close, and while time passes.              *)
(*                                                                         *)
(* The two ban rates are per cent, so that they are compared by            *)
(* cross-multiplication.                                                   *)
(***************************************************************************)
EXTENDS Integers, SequencesExt

CONSTANTS
    Window,           \* ACQUIRE_HEALTH_RECENT_RUNS
    PanelWindow,      \* _RECENT_RUNS of api/dashboard.py
    StaleAfter,       \* sources.stale_after_seconds
    DegradedBanRate,  \* ACQUIRE_HEALTH_DEGRADED_BAN_RATE, per cent
    FailBanRate,      \* ACQUIRE_HEALTH_FAIL_BAN_RATE, per cent
    Traffic,          \* the ban events and requests a closed run may have
    MaxRuns,          \* bound: runs of the source
    MaxNow            \* bound: the clock

ASSUME HealthAssumption ==
    /\ Window \in Nat \ {0} /\ PanelWindow \in Nat \ {0}
    /\ StaleAfter \in Nat
    /\ DegradedBanRate \in Nat /\ FailBanRate \in Nat
    /\ Traffic \subseteq [bans : Nat, requests : Nat]
    /\ MaxRuns \in Nat /\ MaxNow \in Nat

VARIABLES runs,  \* the crawl_runs of the source, in the order of started_at
          now    \* the clock, in units that StaleAfter counts

vars == <<runs, now>>

Committed == {"success", "partial"}
DegradedStatuses == {"partial", "quarantined", "flagged"}
Terminal == {"success", "partial", "failed", "quarantined", "flagged"}

(* The finished_at of a run that is not closed.                            *)
Never == 0

Row == [status : Terminal \cup {"running"}, finished : Nat,
        bans : Nat, requests : Nat]

Init == runs = <<>> /\ now = 1

-----------------------------------------------------------------------------
(***************************************************************************)
(* The classification of the recent runs rs, newest first.                 *)
(***************************************************************************)

(* recent(): the newest n by started_at.                                   *)
Recent(n) == SubSeq(Reverse(runs), 1, IF Len(runs) < n THEN Len(runs) ELSE n)

(* The finish of the first of the runs in I.                               *)
FinishFirst(rs, I) == IF I = {} THEN Never ELSE rs[Min(I)].finished

(* Mutants: the last run that finished, whatever became of it; the run     *)
(* that committed first.                                                   *)
LastFinish(rs) == FinishFirst(rs, {i \in DOMAIN rs : rs[i].finished # Never})

FirstSuccess(rs) ==
    LET committed == {i \in DOMAIN rs : rs[i].status \in Committed}
    IN  IF committed = {} THEN Never ELSE rs[Max(committed)].finished

(* _last_success_at(): the finish of the committed run that began last.    *)
LastSuccess(rs) ==
    FinishFirst(rs, {i \in DOMAIN rs : /\ rs[i].status \in Committed
                                       /\ rs[i].finished # Never})

Old(finished) == now - finished > StaleAfter

Bans(rs)     == FoldSeq(LAMBDA r, sum : r.bans + sum, 0, rs)
Requests(rs) == FoldSeq(LAMBDA r, sum : r.requests + sum, 0, rs)

BanRateReaches(rs, rate) ==
    Requests(rs) > 0 /\ 100 * Bans(rs) >= rate * Requests(rs)

Failing(rs) == Head(rs).status = "failed" \/ BanRateReaches(rs, FailBanRate)

Stale(rs) == LastSuccess(rs) # Never /\ Old(LastSuccess(rs))

(* Mutant: a window without a commit is no quality signal.                 *)
DegradedBySignal(rs) ==
    \/ Head(rs).status \in DegradedStatuses
    \/ BanRateReaches(rs, DegradedBanRate)

Degraded(rs) ==
    \/ Head(rs).status \in DegradedStatuses
    \/ BanRateReaches(rs, DegradedBanRate)
    \/ LastSuccess(rs) = Never

(* classify_source(): the worst that applies.                              *)
ClassifySource(rs) ==
    IF rs = <<>> THEN "stale"
    ELSE IF Failing(rs) THEN "failing"
    ELSE IF Stale(rs) THEN "stale"
    ELSE IF Degraded(rs) THEN "degraded"
    ELSE "healthy"

(* Mutant: the panel does not look at the age of the last commit.          *)
PanelStaleIfNone(rs) == rs # <<>> /\ LastSuccess(rs) = Never

(* summarize_source(): the stale flag of the panel, where a window without *)
(* a commit is stale.                                                      *)
PanelStale(rs) ==
    rs # <<>> /\ (LastSuccess(rs) = Never \/ Old(LastSuccess(rs)))

Health == ClassifySource(Recent(Window))

-----------------------------------------------------------------------------
(* A trigger or the CLI opens a run.                                       *)
Open ==
    /\ Len(runs) < MaxRuns
    /\ runs' = Append(runs, [status |-> "running", finished |-> Never,
                             bans |-> 0, requests |-> 0])
    /\ UNCHANGED now

(* Mutant: finished_at is not set.                                         *)
CloseUnstamped(i, status, traffic) ==
    /\ runs[i].status = "running"
    /\ runs' = [runs EXCEPT ![i] =
                    [status |-> status, finished |-> Never,
                     bans |-> traffic.bans, requests |-> traffic.requests]]
    /\ UNCHANGED now

(* _close_run() of any run that is open, whichever began first.            *)
Close(i, status, traffic) ==
    /\ runs[i].status = "running"
    /\ runs' = [runs EXCEPT ![i] =
                    [status |-> status, finished |-> now,
                     bans |-> traffic.bans, requests |-> traffic.requests]]
    /\ UNCHANGED now

(* A crawl that crashed is closed without its requests.                    *)
CloseCrashed(i, traffic) ==
    Close(i, "failed", [bans |-> traffic.bans, requests |-> 0])

Tick == now < MaxNow /\ now' = now + 1 /\ UNCHANGED runs

Next ==
    \/ Open
    \/ \E i \in 1..Len(runs), traffic \in Traffic :
        \/ \E status \in Terminal : Close(i, status, traffic)
        \/ CloseCrashed(i, traffic)
    \/ Tick

Spec == Init /\ [][Next]_vars

-----------------------------------------------------------------------------
(***************************************************************************)
(* What must hold.                                                         *)
(***************************************************************************)

(* Rows of the ledger; a row has a finish, not in the future, exactly when *)
(* it has left running (open and close of CrawlRunRepository).             *)
TypeOK ==
    /\ runs \in Seq(Row) /\ now \in Nat \ {0}
    /\ \A i \in 1..Len(runs) :
        /\ (runs[i].status = "running") <=> (runs[i].finished = Never)
        /\ runs[i].finished <= now

(* The commits of the whole history, not only of the window.               *)
Commits == {i \in 1..Len(runs) : runs[i].status \in Committed}

FreshData == \E i \in Commits : ~Old(runs[i].finished)

(* "Is our data fresh": a source that is called healthy has data that is   *)
(* not older than its budget, whatever runs overlap, fail or hang, and     *)
(* whatever lies outside the window (classify_source).                     *)
HealthyIsFresh == Health = "healthy" => FreshData

(* No false alarm where runs commit in the order they began: a source with *)
(* runs that is called stale has no fresh data. Where a run that began     *)
(* first commits last the alarm may be false: _last_success_at takes the   *)
(* commit that began last, while ADR-0015 names the newest finished_at.    *)
CommitsInOrder ==
    \A i, j \in Commits : i < j => runs[i].finished <= runs[j].finished

StaleIsOld ==
    Health = "stale" /\ runs # <<>> /\ CommitsInOrder => ~FreshData

(* A source does not become healthy again by waiting, by opening runs or   *)
(* by pushing its last commit out of the window: from stale to healthy     *)
(* only a commit leads.                                                    *)
OnlyCommitsHeal ==
    [][Health = "stale" /\ Health' = "healthy"
        => Commits' # Commits]_vars

(* The endpoint and the panel, which look at windows of different lengths  *)
(* and treat a window without a commit differently, fit together like      *)
(* this. What the endpoint calls stale the panel flags, except a source    *)
(* without runs, which is "stale" for the endpoint (classify_source) and   *)
(* not for the panel (summarize_source), though ADR-0015 says that both    *)
(* "read the same pure logic". What the panel flags the endpoint does not  *)
(* call healthy, except where it is configured to look further back than   *)
(* the panel does: a commit that has left the panel's window may then      *)
(* still be fresh.                                                         *)
PanelAgrees ==
    /\ Health = "stale" => (PanelStale(Recent(PanelWindow)) <=> runs # <<>>)
    /\ PanelStale(Recent(PanelWindow)) /\ Window <= PanelWindow
        => Health # "healthy"

(* "stale outranks degraded because losing freshness breaks the platform's *)
(* core promise ..., whereas a degraded source is still flowing"           *)
(* (ADR-0015): a source that has committed and has no fresh data is stale  *)
(* or worse.                                                               *)
DegradedFlows == Health = "degraded" /\ Commits # {} => FreshData

=============================================================================
