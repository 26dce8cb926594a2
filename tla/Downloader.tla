----------------------------- MODULE Downloader -----------------------------
(***************************************************************************)
(* One crawl's downloader: the requests of one spider on their way through *)
(* Scrapy's scheduler, the four resilience middlewares of                  *)
(* resilience/middleware.py in the order scrapy_settings.py gives them,    *)
(* and a server that may answer anything.                                  *)
(*                                                                         *)
(* A CHAIN is a request that start_requests() yields, with the retries the *)
(* middlewares make of it and the follow-up page each parse() may yield.   *)
(* The shipped extractors have one chain; the extractor contract allows    *)
(* several.  Robots.txt fetches are chains of their own (InfraChains).     *)
(*                                                                         *)
(* Requests interleave at the awaits: between the process_request chain    *)
(* and the moment the download slot sends the request (DOWNLOAD_DELAY and  *)
(* AutoThrottle), while the answer is under way, and during the back-off   *)
(* sleep.  Each middleware chain in between runs without an await that     *)
(* another request could use to touch what the chain reads.                *)
(***************************************************************************)
EXTENDS BanClassifier, Backoff, CircuitBreaker, ProxyPool, IdentityPool,
        FiniteSets

CONSTANTS
    Chains,         \* the request chains of the crawl
    InfraChains,    \* those that carry dont_obey_robotstxt
    Domains,        \* the domains they are sent to
    DomainOf,       \* [Chains -> Domains]
    Responses,      \* the answers the servers may give
    MaxRetries,     \* ACQUIRE_BACKOFF_MAX_RETRIES
    MaxAttempts,    \* ACQUIRE_ROTATION_MAX_ATTEMPTS
    MaxNetRetries,  \* RETRY_TIMES of Scrapy's own RetryMiddleware
    Concurrency,    \* CONCURRENT_REQUESTS_PER_DOMAIN
    MaxPages        \* bound: the pages a chain may have

ASSUME DownloaderAssumption ==
    /\ InfraChains \subseteq Chains
    /\ DomainOf \in [Chains -> Domains]
    /\ Responses \subseteq Response
    /\ MaxRetries \in Nat /\ MaxAttempts \in Nat /\ MaxNetRetries \in Nat
    /\ Concurrency \in Nat \ {0}
    /\ MaxPages \in Nat \ {0}

VARIABLES
    req,        \* the current request of every chain
    breaker,    \* CircuitBreakerRegistry: one breaker per domain
    pool,       \* IdentityRotationMiddleware.proxies
    proxy,      \* IdentityRotationMiddleware._proxy
    bundle,     \* 0 on the contact User-Agent (_escalated is False),
                \* g + 1 once the identity of generation g is presented
    banEvents,  \* spider.ban_events, the kinds in the order of recording
    trace       \* what happened to every chain's current request (history)

code == <<req, breaker, pool, proxy, bundle, banEvents>>
vars == <<req, breaker, pool, proxy, bundle, banEvents, trace>>

InFlight == {"slotted", "sent"}
Pending  == {"scheduled", "sleeping"} \cup InFlight
Settled  == {"delivered", "banned", "skipped", "failed"}

Crawl == Chains \ InfraChains

(* A request: where it is, and the part of meta and headers that the       *)
(* middlewares read or write.  jar is the cookie jar (0 the default one),  *)
(* hints the profile whose sec-ch-ua headers the request carries.          *)
Request ==
    [st       : Pending \cup Settled,
     page     : 1..MaxPages,
     backoff  : 0..MaxRetries,
     rotation : 0..MaxAttempts,
     netRetry : 0..MaxNetRetries,
     wake     : 0..MaxDelay,
     proxy    : Proxies \cup {Direct},
     jar      : Nat,
     hints    : {"none", "chrome-win", "chrome-mac"}]

(* last: the label of the latest answer; faced: whether any answer so far  *)
(* was a block; downloads: how often this page's request was sent; wall:   *)
(* the jar that holds the cookie a cookie retry is to replay, -1 for no    *)
(* such retry.                                                             *)
Trace ==
    [last      : Classification \cup {"none"},
     faced     : {"friendly", "blocking"},
     downloads : Nat,
     wall      : Int]

Fresh(page) ==
    [st |-> "scheduled", page |-> page, backoff |-> 0, rotation |-> 0,
     netRetry |-> 0, wake |-> 0, proxy |-> Direct, jar |-> 0,
     hints |-> "none"]

FreshTrace(last, faced) ==
    [last |-> last, faced |-> faced, downloads |-> 0, wall |-> -1]

Init ==
    /\ req       = [c \in Chains |-> Fresh(1)]
    /\ breaker   = [d \in Domains |-> NewBreaker]
    /\ pool      = AfterAcquire(NewPool)
    /\ proxy     = Acquired(NewPool)
    /\ bundle    = 0
    /\ banEvents = <<>>
    /\ trace     = [c \in Chains |-> FreshTrace("none", "friendly")]

-----------------------------------------------------------------------------
(***************************************************************************)
(* On the way out: process_request, low priority number first.             *)
(***************************************************************************)

(* Mutants: the jar is keyed by the attempt; the proxy is stamped once.     *)
JarPerAttempt(r) ==
    [r EXCEPT !.jar   = IF bundle > 0 THEN bundle + r.rotation ELSE @,
              !.proxy = IF proxy # Direct THEN proxy ELSE @]

ProxyOnce(r) ==
    [r EXCEPT !.jar   = IF bundle > 0 THEN bundle ELSE @,
              !.proxy = IF @ = Direct THEN proxy ELSE @]

(* Rotation (582): the headers of the identity are set one by one, the     *)
(* jar and the proxy only when there is one to set.                        *)
Stamped(r) ==
    LET identity == ProfileOf(bundle - 1)
    IN  [r EXCEPT
            !.jar   = IF bundle > 0 THEN bundle ELSE @,
            !.hints = IF bundle > 0 /\ SendsClientHints(identity)
                      THEN identity ELSE @,
            !.proxy = IF proxy # Direct THEN proxy ELSE @]

(* Circuit (583) lets the stamped request through to the download slot.    *)
Admit(c) ==
    LET d == DomainOf[c] IN
    /\ c \in Crawl
    /\ req[c].st = "scheduled"
    /\ Allows(breaker[d])
    /\ req' = [req EXCEPT ![c] = [Stamped(@) EXCEPT !.st = "slotted"]]
    /\ breaker' = [breaker EXCEPT ![d] = AfterAllow(@)]
    /\ UNCHANGED <<pool, proxy, bundle, banEvents, trace>>

(* ... or refuses it with IgnoreRequest: nothing downloads, nothing is     *)
(* recorded and nothing retries it.                                        *)
Refuse(c) ==
    /\ c \in Crawl
    /\ req[c].st = "scheduled"
    /\ ~Allows(breaker[DomainOf[c]])
    /\ req' = [req EXCEPT ![c] = [Stamped(@) EXCEPT !.st = "skipped"]]
    /\ UNCHANGED <<breaker, pool, proxy, bundle, banEvents, trace>>

(* An infrastructure fetch bypasses all four middlewares.                  *)
AdmitInfra(c) ==
    /\ c \in InfraChains
    /\ req[c].st = "scheduled"
    /\ req' = [req EXCEPT ![c].st = "slotted"]
    /\ UNCHANGED <<breaker, pool, proxy, bundle, banEvents, trace>>

(* Scrapy's download slot of a domain: the requests it has out.            *)
Sending(d) == {c \in Chains : DomainOf[c] = d /\ req[c].st = "sent"}

(* The slot sends a request that waits in it, Concurrency at a time.       *)
Send(c) ==
    /\ req[c].st = "slotted"
    /\ Cardinality(Sending(DomainOf[c])) < Concurrency
    /\ req' = [req EXCEPT ![c].st = "sent"]
    /\ trace' = [trace EXCEPT ![c].downloads = @ + 1]
    /\ UNCHANGED <<breaker, pool, proxy, bundle, banEvents>>

-----------------------------------------------------------------------------
(***************************************************************************)
(* On the way back: process_response, high priority number first.  Each    *)
(* action is one path of an answer r through the chain.                    *)
(***************************************************************************)

(* Backoff (585) owns r: a retryable status with a retry left.             *)
PlansBackoff(c, r) ==
    r.status \in RetryableStatuses /\ req[c].backoff < MaxRetries

(* Mutant: every ban counts against the breaker, a rate limit too.         *)
AnsweredAnyBan(c, r) ==
    /\ c \in Crawl
    /\ req[c].st = "sent"
    /\ ~PlansBackoff(c, r)
    /\ breaker' =
        [breaker EXCEPT ![DomainOf[c]] =
            IF Classify(r) = "ok" THEN RecordSuccess(@) ELSE RecordFailure(@)]

(* The answer reached the circuit middleware (583), which notes it.        *)
Answered(c, r) ==
    /\ c \in Crawl
    /\ req[c].st = "sent"
    /\ ~PlansBackoff(c, r)
    /\ breaker' =
        [breaker EXCEPT ![DomainOf[c]] =
            IF Classify(r) \in CircuitFailures THEN RecordFailure(@)
            ELSE IF Classify(r) = "ok" THEN RecordSuccess(@)
            ELSE @]

(* Mutant: one attempt too many.                                           *)
AttemptsLeftOrEqual(c) == req[c].rotation <= MaxAttempts

AttemptsLeft(c) == req[c].rotation < MaxAttempts

(* Mutant: a cookie wall is a block like any other.                        *)
NoCookieWall(r) == FALSE

CookieWall(r) == Classify(r) = "blocked" /\ r.setCookie

(* Mutant: the retry copy keeps the counter of the original.               *)
RotatedUncounted(r) == [r EXCEPT !.st = "scheduled"]

(* A retry copy: the same meta and headers with the counter one higher,    *)
(* back in the scheduler.                                                  *)
Rotated(r) == [r EXCEPT !.st = "scheduled", !.rotation = @ + 1]

Note(c, r, wall) ==
    trace' = [trace EXCEPT ![c].last = Classify(r),
                           ![c].faced = IF Classify(r) \in RotateOn
                                             THEN "blocking" ELSE @,
                           ![c].wall = wall]

BackoffRetry(c, r) ==
    /\ c \in Crawl
    /\ req[c].st = "sent"
    /\ PlansBackoff(c, r)
    /\ \E delay \in ComputeDelay(req[c].backoff, r.retryAfter) :
        req' = [req EXCEPT ![c].st = "sleeping", ![c].backoff = @ + 1,
                           ![c].wake = delay]
    /\ Note(c, r, trace[c].wall)
    /\ UNCHANGED <<breaker, pool, proxy, bundle, banEvents>>

(* Mutant: the retry is not marked dont_filter, so that the duplicate      *)
(* filter drops it without a word.                                         *)
WakeFiltered(c) ==
    /\ req[c].st = "sleeping"
    /\ req[c].wake = 0
    /\ trace[c].downloads = 0
    /\ req' = [req EXCEPT ![c].st = "scheduled"]
    /\ UNCHANGED <<breaker, pool, proxy, bundle, banEvents, trace>>

(* The sleep is over: the retry goes back to the scheduler.                *)
Wake(c) ==
    /\ req[c].st = "sleeping"
    /\ req[c].wake = 0
    /\ req' = [req EXCEPT ![c].st = "scheduled"]
    /\ UNCHANGED <<breaker, pool, proxy, bundle, banEvents, trace>>

(* Rotation (582), cookie wall: the same identity again, to replay the     *)
(* cookie that CookiesMiddleware just stored in this request's jar.        *)
CookieRetry(c, r) ==
    /\ Answered(c, r)
    /\ CookieWall(r)
    /\ AttemptsLeft(c)
    /\ req' = [req EXCEPT ![c] = Rotated(@)]
    /\ Note(c, r, req[c].jar)
    /\ UNCHANGED <<pool, proxy, bundle, banEvents>>

(* Rotation (582), a persistent block: quarantine the current proxy, adopt *)
(* the next identity and the next healthy proxy, retry.                    *)
RotateRetry(c, r) ==
    LET banned == RecordBan(pool, proxy) IN
    /\ Answered(c, r)
    /\ Classify(r) \in RotateOn
    /\ ~CookieWall(r)
    /\ AttemptsLeft(c)
    /\ req' = [req EXCEPT ![c] = Rotated(@)]
    /\ pool' = AfterAcquire(banned)
    /\ proxy' = Acquired(banned)
    /\ bundle' = bundle + 1
    /\ Note(c, r, -1)
    /\ UNCHANGED banEvents

(* Mutant: the ban gate drops the request and does not record it.          *)
BanGateUnrecorded(c, r) ==
    /\ Answered(c, r)
    /\ Classify(r) # "ok"
    /\ ~(Classify(r) \in RotateOn /\ AttemptsLeft(c))
    /\ req' = [req EXCEPT ![c].st = "banned"]
    /\ Note(c, r, -1)
    /\ UNCHANGED <<pool, proxy, bundle, banEvents>>

(* The ban gate (581) sees what rotation passed on, records it and drops   *)
(* the request.                                                            *)
BanGate(c, r) ==
    /\ Answered(c, r)
    /\ Classify(r) # "ok"
    /\ ~(Classify(r) \in RotateOn /\ AttemptsLeft(c))
    /\ req' = [req EXCEPT ![c].st = "banned"]
    /\ banEvents' = Append(banEvents, Classify(r))
    /\ Note(c, r, -1)
    /\ UNCHANGED <<pool, proxy, bundle>>

(* An ok answer reaches parse(), the chain's last page ...                 *)
Deliver(c, r) ==
    /\ Answered(c, r)
    /\ Classify(r) = "ok"
    /\ req' = [req EXCEPT ![c].st = "delivered"]
    /\ Note(c, r, -1)
    /\ UNCHANGED <<pool, proxy, bundle, banEvents>>

(* ... or one that yields the request of the next page.                    *)
FollowUp(c, r) ==
    /\ Answered(c, r)
    /\ Classify(r) = "ok"
    /\ req[c].page < MaxPages
    /\ req' = [req EXCEPT ![c] = Fresh(@.page + 1)]
    /\ trace' = [trace EXCEPT ![c] = FreshTrace("ok", @.faced)]
    /\ UNCHANGED <<pool, proxy, bundle, banEvents>>

DeliverInfra(c) ==
    /\ c \in InfraChains
    /\ req[c].st = "sent"
    /\ req' = [req EXCEPT ![c].st = "delivered"]
    /\ UNCHANGED <<breaker, pool, proxy, bundle, banEvents, trace>>

-----------------------------------------------------------------------------
(***************************************************************************)
(* No answer at all.  None of the four middlewares handles an exception:   *)
(* Scrapy's RetryMiddleware retries some, the others end the request.      *)
(***************************************************************************)
NetworkRetry(c) ==
    /\ req[c].st = "sent"
    /\ req[c].netRetry < MaxNetRetries
    /\ req' = [req EXCEPT ![c].st = "scheduled", ![c].netRetry = @ + 1]
    /\ UNCHANGED <<breaker, pool, proxy, bundle, banEvents, trace>>

NetworkFailure(c) ==
    /\ req[c].st = "sent"
    /\ req' = [req EXCEPT ![c].st = "failed"]
    /\ UNCHANGED <<breaker, pool, proxy, bundle, banEvents, trace>>

(* One second passes for every sleep, cool-down and quarantine.            *)
Ticking ==
    \/ \E c \in Chains : req[c].wake > 0
    \/ \E d \in Domains : breaker[d].cooling > 0
    \/ \E p \in Proxies : ~Healthy(pool, p)

Tick ==
    /\ Ticking
    /\ req' = [c \in Chains |->
                [req[c] EXCEPT !.wake = IF @ > 0 THEN @ - 1 ELSE 0]]
    /\ breaker' = [d \in Domains |-> BreakerTick(breaker[d])]
    /\ pool' = PoolTick(pool)
    /\ UNCHANGED <<proxy, bundle, banEvents, trace>>

-----------------------------------------------------------------------------
Outbound(c) == Admit(c) \/ Refuse(c) \/ AdmitInfra(c) \/ Send(c) \/ Wake(c)

Inbound(c) ==
    \/ \E r \in Responses :
        \/ BackoffRetry(c, r)
        \/ CookieRetry(c, r)
        \/ RotateRetry(c, r)
        \/ BanGate(c, r)
        \/ Deliver(c, r)
        \/ FollowUp(c, r)
    \/ DeliverInfra(c)
    \/ NetworkRetry(c)
    \/ NetworkFailure(c)

Next ==
    \/ \E c \in Chains : Outbound(c) \/ Inbound(c)
    \/ Tick

(* The reactor keeps serving every request: a scheduled one is processed,  *)
(* a slot sends, a sleep ends and a download ends (DOWNLOAD_TIMEOUT) in    *)
(* some way, never in one that is promised.                                *)
Fairness ==
    /\ \A c \in Chains : WF_vars(Outbound(c)) /\ WF_vars(Inbound(c))
    /\ WF_vars(Tick)

Spec     == Init /\ [][Next]_vars
FairSpec == Spec /\ Fairness

-----------------------------------------------------------------------------
(***************************************************************************)
(* What must hold.                                                         *)
(***************************************************************************)

(* Every variable keeps its type; the counters in meta keep their bounds.  *)
TypeOK ==
    /\ req \in [Chains -> Request]
    /\ breaker \in [Domains -> Breaker]
    /\ pool \in Pool
    /\ proxy \in Proxies \cup {Direct}
    /\ bundle \in Nat
    /\ banEvents \in Seq(BanKinds)
    /\ trace \in [Chains -> Trace]

(* The downloads a page may cost, however backoff, cookie replay, rotation *)
(* and Scrapy's own retries follow one another.                            *)
Budget == 1 + MaxRetries + MaxAttempts + MaxNetRetries

(* No page is fetched more often than the three retry bounds allow         *)
(* together: no path through the middlewares resets a counter (BanGate     *)
(* sees every request again, ADR-0011 "bounded by ROTATION_MAX_ATTEMPTS"). *)
WithinBudget == \A c \in Chains : trace[c].downloads <= Budget

(* Why: every download but the last is paid for by one counter in meta.    *)
Paid(q, t) ==
    t.downloads = q.backoff + q.rotation + q.netRetry
        + (IF q.st \in {"scheduled", "slotted", "sleeping", "skipped"}
           THEN 0 ELSE 1)

AllPaid == \A c \in Chains : Paid(req[c], trace[c])

(* The identity's proxy is never one in quarantine: a ban always replaces  *)
(* the proxy it quarantines (IdentityRotationMiddleware.process_response). *)
CurrentProxyHealthy == proxy # Direct => Healthy(pool, proxy)

(* Where no two crawl chains share a domain, as with the shipped           *)
(* extractors, and the threshold exceeds the rotation attempts, as in the  *)
(* default settings (5 > 4), the breaker never swallows a request: every   *)
(* request ends at the spider, at the ban gate or in a network failure.    *)
OneChainPerDomain ==
    \A c1, c2 \in Crawl : DomainOf[c1] = DomainOf[c2] => c1 = c2

NoneRefused ==
    OneChainPerDomain /\ FailureThreshold > MaxAttempts
        => \A c \in Chains : req[c].st # "skipped"

(* Why: a failure the breaker counts is an attempt the request has spent.  *)
Margin ==
    /\ \A c \in Chains : req[c].st # "skipped"
    /\ \A c \in Crawl :
        req[c].st \in Pending =>
            /\ breaker[DomainOf[c]].state = "closed"
            /\ breaker[DomainOf[c]].failures <= req[c].rotation

(* "Friendly crawls are unaffected" (ADR-0011): as long as no server has   *)
(* blocked, the crawl stays on the contact User-Agent, no breaker counts a *)
(* failure and no request is refused, whatever 429s, back-offs, network    *)
(* errors and follow-ups the chains go through.                            *)
FriendlyUnaffected ==
    (\A c \in Chains : trace[c].faced = "friendly")
        => /\ bundle = 0
           /\ \A d \in Domains : breaker[d] = NewBreaker
           /\ \A c \in Chains :
                req[c].st # "skipped" /\ req[c].hints = "none" /\ req[c].jar = 0

(* Every request chain comes to an end: the spider goes idle and closes.   *)
AllSettle == <>(\A c \in Chains : req[c].st \in Settled)

-----------------------------------------------------------------------------
(* Properties of the steps that admit a request or judge its answer.       *)
Admits(c) ==
    c \in Crawl /\ req[c].st = "scheduled" /\ req'[c].st = "slotted"

(* A cookie retry goes out under the identity whose jar holds the cookie   *)
(* it is to replay (IdentityRotationMiddleware, ADR-0011 "Cookie wall").   *)
(* So it is while one crawl chain is under way, whatever becomes of it and *)
(* of infra requests beside it; with two, the other may rotate in between. *)
CookieReplayed ==
    [][\A c \in Chains : Admits(c) /\ trace[c].wall >= 0
            => req'[c].jar = trace[c].wall]_vars

(* A proxy that is quarantined has carried a request just answered: where  *)
(* one crawl chain is under way, the one that was blocked.  With two, the  *)
(* other may have rotated in between, and its proxy is banned instead.     *)
BlamesCarrier ==
    [][\A p \in Proxies : pool'.quarantine[p] > pool.quarantine[p]
            => \E c \in Crawl : /\ req[c].st = "sent" /\ req'[c].st # "sent"
                               /\ req[c].proxy = p]_vars

(* "skipped until it elapses": no request is admitted through a proxy      *)
(* whose quarantine runs.                                                  *)
QuarantineSkipped ==
    [][\A c \in Chains : Admits(c) /\ req'[c].proxy # Direct
            => Healthy(pool, req'[c].proxy)]_vars

(* The headers of an admitted request belong to one browser: client hints  *)
(* are those of the identity it is sent as.                                *)
CoherentBundle ==
    [][\A c \in Chains : Admits(c) /\ req'[c].hints # "none"
            => req'[c].hints = ProfileOf(req'[c].jar - 1)]_vars

-----------------------------------------------------------------------------
(* What the downloader promises its spider and the crawl-run ledger.       *)
FateOf(q) ==
    IF q.st \in Pending THEN "pending"
    ELSE IF q.st \in {"skipped", "failed"} THEN "dropped"
    ELSE q.st

fateBar     == [c \in Chains |-> FateOf(req[c])]
pageBar     == [c \in Chains |-> req[c].page]
attemptsBar == [c \in Chains |-> trace[c].downloads]

Fate == INSTANCE RequestFate WITH
    fate <- fateBar, page <- pageBar, attempts <- attemptsBar,
    recorded <- Len(banEvents)

ImplementsFate == Fate!Spec

=============================================================================
