---------------------------- MODULE ControlPlane ----------------------------
(***************************************************************************)
(* Who starts crawls: the threads of the API that answer POST /admin/crawl *)
(* (api/admin.py) and the scheduler's jobs (acquisition/scheduler.py), on  *)
(* top of the ledger and the crawl processes of CrawlRuns.                 *)
(*                                                                         *)
(* Requests are served by threads that share one rate limiter, built at    *)
(* the first request, without a lock: an action is what a thread does      *)
(* between two reads or writes of that limiter.  The API process may die   *)
(* and start again; crawl processes are detached and live on.              *)
(***************************************************************************)
EXTENDS CrawlRuns

CONSTANTS
    Requests,      \* the calls of POST /admin/crawl that are ever made
    MaxCalls,      \* ACQUIRE_ADMIN_RATE_LIMIT_PER_MINUTE
    PerSeconds,    \* the 60 seconds of the window, in ticks
    Bodies,        \* what the calls ask for: a source, "all", or "bad",
                   \* which fails the schema (no body, or one that is no
                   \* JSON, asks for all)
    MaxTime,       \* bound: ticks of the clock
    MaxRestarts    \* bound: deaths of the API process

NoOne == "no one"

ASSUME ControlAssumption ==
    /\ NoOne \notin Requests
    /\ MaxCalls \in Nat /\ PerSeconds \in Nat \ {0}
    /\ Bodies \subseteq Sources \cup {"all", "bad"}
    /\ IsFiniteSet(Requests) /\ MaxTime \in Nat /\ MaxRestarts \in Nat

VARIABLES
    handler,   \* the thread of every request
    limiter,   \* app.extensions: the request that built the limiter, or NoOne
    window,    \* the _calls of every limiter that was built
    clock,     \* time.monotonic()
    jobs,      \* the sources with an interval job
    passed,    \* when allow() let which request pass, in this process (history)
    crowded,   \* two threads were inside the limiter at once (history)
    restarts   \* deaths of the API process so far

planeVars   == <<handler, limiter, window, clock, jobs, passed, crowded,
                 restarts>>
controlVars == <<vars, planeVars>>

(* The thread of a request: where it is, the token and body of the call,   *)
(* the limiter it got and the time it read, the runs it opened, the answer.*)
NewHandler == [pc |-> "idle", body |-> "all", mine |-> NoOne, at |-> 0,
               runs |-> {}, answer |-> "none"]

HandlerIs(h, pc) == handler[h].pc = pc

(* From the lookup of the limiter to the end of allow().                   *)
InLimiter(h) ==
    handler[h].pc \in {"looking", "creating", "checking", "popping", "appending"}

Answer(h, status) ==
    [handler EXCEPT ![h] = [NewHandler EXCEPT !.pc = "answered",
                                !.body = handler[h].body,
                                !.runs = handler[h].runs, !.answer = status]]

(* configure_scheduler() at boot; a database error leaves no job at all,   *)
(* and nothing tries again.                                                *)
Jobs == {Registered} \cup IF "db" \in Faults THEN {{}} ELSE {}

ControlInit ==
    /\ Init
    /\ handler  = [h \in Requests |-> NewHandler]
    /\ limiter  = NoOne
    /\ window   = [h \in Requests |-> <<>>]
    /\ clock    = 0
    /\ jobs \in Jobs
    /\ passed   = {}
    /\ crowded  = FALSE
    /\ restarts = 0

-----------------------------------------------------------------------------
(***************************************************************************)
(* One call of POST /admin/crawl.                                          *)
(***************************************************************************)

(* Without the token the call is answered at once ...                      *)
Unauthorized(h) ==
    /\ HandlerIs(h, "idle")
    /\ handler' = Answer(h, "401")
    /\ UNCHANGED <<vars, limiter, window, clock, jobs, passed, crowded, restarts>>

Arrive(h) ==
    /\ HandlerIs(h, "idle")
    /\ handler' = [handler EXCEPT ![h].pc = "looking"]
    /\ crowded' = (crowded \/ \E g \in Requests : InLimiter(g))
    /\ UNCHANGED <<vars, limiter, window, clock, jobs, passed, restarts>>

(* _limiter(): take the one in app.extensions ...                          *)
Look(h) ==
    /\ HandlerIs(h, "looking")
    /\ handler' =
        IF limiter = NoOne THEN [handler EXCEPT ![h].pc = "creating"]
        ELSE [handler EXCEPT ![h].pc = "checking", ![h].mine = limiter,
                             ![h].at = clock]
    /\ UNCHANGED <<vars, limiter, window, clock, jobs, passed, crowded, restarts>>

(* ... or build one; it takes the place of one built in the meantime.      *)
Create(h) ==
    /\ HandlerIs(h, "creating")
    /\ limiter' = h
    /\ handler' = [handler EXCEPT ![h].pc = "checking", ![h].mine = h,
                                  ![h].at = clock]
    /\ UNCHANGED <<vars, window, clock, jobs, passed, crowded, restarts>>

CallsOf(h) == window[handler[h].mine]

(* Mutants: a call expires a tick too early, or a tick too late.           *)
ExpiredEarly(h) == CallsOf(h) # <<>> /\ handler[h].at - Head(CallsOf(h))
                                            >= PerSeconds - 1

ExpiredLate(h) == CallsOf(h) # <<>> /\ handler[h].at - Head(CallsOf(h))
                                            > PerSeconds

Expired(h) == CallsOf(h) # <<>> /\ handler[h].at - Head(CallsOf(h)) >= PerSeconds

(* allow(): the loop's condition, and the length when the loop is over.    *)
FindExpired(h) ==
    /\ HandlerIs(h, "checking")
    /\ Expired(h)
    /\ handler' = [handler EXCEPT ![h].pc = "popping"]
    /\ UNCHANGED <<vars, limiter, window, clock, jobs, passed, crowded, restarts>>

(* popleft(): whatever is the first call by now; an IndexError is a 500.   *)
PopLeft(h) ==
    /\ HandlerIs(h, "popping")
    /\ IF CallsOf(h) = <<>>
       THEN handler' = Answer(h, "500") /\ UNCHANGED window
       ELSE /\ handler' = [handler EXCEPT ![h].pc = "checking"]
            /\ window' = [window EXCEPT ![handler[h].mine] = Tail(@)]
    /\ UNCHANGED <<vars, limiter, clock, jobs, passed, crowded, restarts>>

RefuseCall(h) ==
    /\ HandlerIs(h, "checking")
    /\ ~Expired(h)
    /\ Len(CallsOf(h)) >= MaxCalls
    /\ handler' = Answer(h, "429")
    /\ UNCHANGED <<vars, limiter, window, clock, jobs, passed, crowded, restarts>>

FindRoom(h) ==
    /\ HandlerIs(h, "checking")
    /\ ~Expired(h)
    /\ Len(CallsOf(h)) < MaxCalls
    /\ handler' = [handler EXCEPT ![h].pc = "appending"]
    /\ UNCHANGED <<vars, limiter, window, clock, jobs, passed, crowded, restarts>>

(* Mutant: the time of the call is that of a tick ahead.                   *)
RecordAhead(h, body) ==
    /\ HandlerIs(h, "appending")
    /\ window' = [window EXCEPT ![handler[h].mine] = Append(@, handler[h].at + 1)]
    /\ passed' = passed \cup {[call |-> h, at |-> handler[h].at]}
    /\ handler' = IF body = "bad" THEN Answer(h, "400")
                  ELSE [handler EXCEPT ![h].pc = "triggering", ![h].body = body]
    /\ UNCHANGED <<vars, limiter, clock, jobs, crowded, restarts>>

(* The call is recorded, and only then is its body looked at.              *)
Record(h, body) ==
    /\ HandlerIs(h, "appending")
    /\ window' = [window EXCEPT ![handler[h].mine] = Append(@, handler[h].at)]
    /\ passed' = passed \cup {[call |-> h, at |-> handler[h].at]}
    /\ handler' = IF body = "bad" THEN Answer(h, "400")
                  ELSE [handler EXCEPT ![h].pc = "triggering", ![h].body = body]
    /\ UNCHANGED <<vars, limiter, clock, jobs, crowded, restarts>>

(* trigger_crawl(): rows for the targets, in one transaction; with nothing *)
(* to launch it returns at once, and the call is answered.                 *)
RunsOpened == UNION (calls' \ calls)

Trigger(h) ==
    /\ HandlerIs(h, "triggering")
    /\ IF handler[h].body = "all" THEN TriggerAll ELSE TriggerOne(handler[h].body)
    /\ handler' = IF RunsOpened = {} THEN Answer(h, "202")
                  ELSE [handler EXCEPT ![h].pc = "launching",
                                       ![h].runs = RunsOpened]
    /\ UNCHANGED <<limiter, window, clock, jobs, passed, crowded, restarts>>

(* No row for a source that is not known, or when the database fails.      *)
TriggerRaises(h) ==
    /\ HandlerIs(h, "triggering")
    /\ \/ /\ handler[h].body \notin (Registered \cap Spiders) \cup {"all"}
          /\ handler' = Answer(h, "404")
       \/ /\ "db" \in Faults
          /\ handler' = Answer(h, "500")
    /\ UNCHANGED <<vars, limiter, window, clock, jobs, passed, crowded, restarts>>

(* Mutant: the answer does not wait for the last launch.                   *)
LaunchedFirst(h, call) == handler' = Answer(h, "202")

(* The runs are launched one by one, then the call is answered.            *)
Launched(h, call) ==
    handler' = IF Cardinality(call) = 1 THEN Answer(h, "202") ELSE handler

LaunchOne(h) ==
    /\ HandlerIs(h, "launching")
    /\ \E call \in calls : \E r \in call :
        /\ call \subseteq handler[h].runs
        /\ Launch(call, r)
        /\ Launched(h, call)
    /\ UNCHANGED <<limiter, window, clock, jobs, passed, crowded, restarts>>

(* A launch that raises ends the request; the rows stay.                   *)
LaunchRaises(h) ==
    /\ HandlerIs(h, "launching")
    /\ \E call \in calls : call \subseteq handler[h].runs /\ LaunchFails(call)
    /\ handler' = Answer(h, "500")
    /\ UNCHANGED <<limiter, window, clock, jobs, passed, crowded, restarts>>

-----------------------------------------------------------------------------
(***************************************************************************)
(* The scheduler, the CLI, the API process and time.                       *)
(***************************************************************************)

(* An interval job of a source triggers it; of a source without a spider,  *)
(* or with a database error, it raises, which the job swallows.            *)
ScheduledCrawl(s) ==
    /\ s \in jobs
    /\ TriggerOne(s)
    /\ UNCHANGED planeVars

(* The calls no request waits for are those of jobs.                       *)
OfJob(call) == \A h \in Requests : ~(call \subseteq handler[h].runs)

JobLaunches ==
    /\ \E call \in calls : OfJob(call) /\ \E r \in call : Launch(call, r)
    /\ UNCHANGED planeVars

JobLaunchRaises ==
    /\ \E call \in calls : OfJob(call) /\ LaunchFails(call)
    /\ UNCHANGED planeVars

(* The API process dies and starts again: its threads, the limiter and the *)
(* launches under way are gone, the jobs are configured anew.              *)
Restart ==
    /\ restarts < MaxRestarts
    /\ restarts' = restarts + 1
    /\ handler' = [h \in Requests |->
                    IF handler[h].pc \in {"idle", "answered"} THEN handler[h]
                    ELSE Answer(h, "lost")[h]]
    /\ limiter' = NoOne
    /\ window' = [h \in Requests |-> <<>>]
    /\ passed' = {}
    /\ calls' = {}
    /\ jobs' \in Jobs
    /\ UNCHANGED <<ledger, closed, observed, proc, captures, overlapped, clock,
                   crowded>>

TickOfClock ==
    /\ clock < MaxTime
    /\ clock' = clock + 1
    /\ UNCHANGED <<vars, handler, limiter, window, jobs, passed, crowded,
                   restarts>>

(* What a thread does next on its own account.                             *)
Serve(h) ==
    \/ Look(h) \/ Create(h) \/ FindExpired(h) \/ PopLeft(h)
    \/ RefuseCall(h) \/ FindRoom(h)
    \/ \E body \in Bodies : Record(h, body)
    \/ Trigger(h) \/ TriggerRaises(h) \/ LaunchOne(h)

(* The crawls run meanwhile.                                               *)
CrawlSteps ==
    /\ \E r \in Runs : Proceed(r) \/ Fault(r)
    /\ UNCHANGED planeVars

ControlNext ==
    \/ \E h \in Requests :
        \/ Unauthorized(h) \/ Arrive(h)
        \/ Serve(h) \/ LaunchRaises(h)
    \/ \E s \in Sources : ScheduledCrawl(s)
    \/ JobLaunches \/ JobLaunchRaises \/ CrawlSteps \/ Restart \/ TickOfClock

ControlSpec == ControlInit /\ [][ControlNext]_controlVars

-----------------------------------------------------------------------------
(***************************************************************************)
(* What must hold.                                                         *)
(***************************************************************************)

Answers == {"none", "401", "429", "400", "404", "202", "500", "lost"}

(* Every variable keeps its type.                                          *)
ControlTypeOK ==
    /\ handler \in [Requests ->
            [pc : {"idle", "looking", "creating", "checking", "popping",
                   "appending", "triggering", "launching", "answered"},
             body : Bodies \cup {"all"}, mine : Requests \cup {NoOne},
             at : 0..MaxTime, runs : SUBSET Runs, answer : Answers]]
    /\ limiter \in Requests \cup {NoOne}
    /\ window \in [Requests -> Seq(0..MaxTime)]
    /\ clock \in 0..MaxTime
    /\ jobs \subseteq Registered
    /\ crowded \in BOOLEAN
    /\ restarts \in 0..MaxRestarts

(* The calls that passed in the window that ends at t.                     *)
PassedIn(t) == {p \in passed : t - PerSeconds < p.at /\ p.at <= t}

(* RateLimiter, "at most max_calls per per_seconds" (admin.py:36): the     *)
(* code keeps it in one life of the API process, as long as no two threads *)
(* are inside the limiter at once.  Two that are may both take the last    *)
(* place, or each count in a limiter of its own, and a restart starts the  *)
(* count anew: admin.py:36 has neither condition.                          *)
WithinLimitAlone == ~crowded => \A t \in 0..MaxTime :
                                    Cardinality(PassedIn(t)) <= MaxCalls

(* Under the same conditions a call is refused only if the window before   *)
(* it is full: refused calls do not prolong the wait (allow() records only *)
(* what it lets pass).  A thread whose clock reading is older than that of *)
(* a call recorded meanwhile may be refused without cause.                 *)
RefusedJustly ==
    [][\A h \in Requests : handler'[h].answer # handler[h].answer
            /\ handler'[h].answer = "429" /\ ~crowded
            => Cardinality(PassedIn(handler[h].at)) >= MaxCalls]_controlVars

(* The 202 of trigger() tells the truth: the runs it reports are one for   *)
(* every source that was asked for (none, if all were and the table is     *)
(* empty), each has been launched and is the run of no other request,      *)
(* however the crawls went since; an answer that refuses leaves no row     *)
(* behind (a 500 may: rows are committed before the launches).             *)
Targets(body) == IF body = "all" THEN Registered ELSE {body}

OneEach(runs, sources) ==
    /\ {ledger[r].source : r \in runs} = sources
    /\ \A q, r \in runs : ledger[q].source = ledger[r].source => q = r

AnswerTrue ==
    /\ \A h \in Requests :
        /\ handler[h].answer = "202" =>
            /\ OneEach(handler[h].runs, Targets(handler[h].body))
            /\ \A r \in handler[h].runs : ~At(r, "none")
        /\ handler[h].answer \in {"401", "429", "400", "404"} =>
            handler[h].runs = {}
    /\ \A g, h \in Requests : handler[g].runs \cap handler[h].runs # {} => g = h

=============================================================================
