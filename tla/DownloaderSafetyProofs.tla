----------------------- MODULE DownloaderSafetyProofs -----------------------
(***************************************************************************)
(* The safety of recovery, for every value of the constants: the proxy in  *)
(* use, crawls no server blocks, the breaker's margin, the promise of      *)
(* RequestFate, and what a crawl of one chain can count on.                *)
(***************************************************************************)
EXTENDS DownloaderProofs

(***************************************************************************)
(* The proxy in use.                                                       *)
(***************************************************************************)

LEMMA ProxyStep ==
    TypeOK /\ CurrentProxyHealthy /\ [Next]_vars => CurrentProxyHealthy'
<1> SUFFICES ASSUME TypeOK, CurrentProxyHealthy, [Next]_vars
             PROVE  CurrentProxyHealthy'
  OBVIOUS
<1>1. ASSUME NEW c \in Chains, NEW r \in Responses, RotateRetry(c, r)
      PROVE  CurrentProxyHealthy'
  <2>1. RecordBan(pool, proxy) \in Pool
    BY BanPreserves DEF TypeOK
  <2>2. /\ pool' = AfterAcquire(RecordBan(pool, proxy))
        /\ proxy' = Acquired(RecordBan(pool, proxy))
    BY <1>1 DEF RotateRetry
  <2> QED BY <2>1, <2>2, AcquirePreserves DEF CurrentProxyHealthy
<1>2. CASE Tick
  <2>1. /\ proxy' = proxy /\ pool' = PoolTick(pool)
        /\ pool \in Pool /\ proxy \in Proxies \cup {Direct}
    BY <1>2 DEF Tick, TypeOK
  <2>2. proxy # Direct => Healthy(PoolTick(pool), proxy)
    BY <2>1, TickHeals DEF CurrentProxyHealthy
  <2> QED BY <2>1, <2>2 DEF CurrentProxyHealthy
<1>3. CASE UNCHANGED <<pool, proxy>>
  BY <1>3 DEF CurrentProxyHealthy, Healthy
<1>4. ASSUME NEW c \in Chains, Outbound(c)
      PROVE  UNCHANGED <<pool, proxy>>
  BY <1>4 DEF Outbound, Admit, Refuse, AdmitInfra, Send, Wake
<1>5. ASSUME NEW c \in Chains, Inbound(c),
             ~ \E r \in Responses : RotateRetry(c, r)
      PROVE  UNCHANGED <<pool, proxy>>
  BY <1>5 DEF Inbound, BackoffRetry, CookieRetry, BanGate, Deliver, FollowUp,
        DeliverInfra, NetworkRetry, NetworkFailure
<1>6. UNCHANGED vars => UNCHANGED <<pool, proxy>>
  BY DEF vars
<1> QED BY <1>1, <1>2, <1>3, <1>4, <1>5, <1>6 DEF Next

(* The proxy the rotation middleware is about to stamp on requests is      *)
(* never in quarantine, for every pool size and every cool-down (0, where  *)
(* a banned proxy is healthy at once, included).                           *)
THEOREM ProxyHealthy == Spec => []CurrentProxyHealthy
<1>1. Init => CurrentProxyHealthy
  BY NewPoolType, AcquirePreserves DEF Init, CurrentProxyHealthy
<1> QED BY <1>1, ProxyStep, TypeCorrect, PTL DEF Spec

-----------------------------------------------------------------------------
(***************************************************************************)
(* Crawls that no server blocks.                                           *)
(***************************************************************************)

Unblocked == \A c \in Chains : trace[c].faced = "friendly"

Calm ==
    /\ bundle = 0
    /\ \A d \in Domains : breaker[d] = NewBreaker
    /\ \A c \in Chains :
        req[c].st # "skipped" /\ req[c].hints = "none" /\ req[c].jar = 0

LEMMA FreshBreaker ==
    /\ Allows(NewBreaker)
    /\ AfterAllow(NewBreaker) = NewBreaker
    /\ RecordSuccess(NewBreaker) = NewBreaker
    /\ BreakerTick(NewBreaker) = NewBreaker
BY DEF Allows, AfterAllow, RecordSuccess, BreakerTick, NewBreaker

(* On the contact User-Agent a request is stamped with a proxy at most.    *)
LEMMA StampedCalm ==
    ASSUME NEW r \in Request, bundle = 0
    PROVE  Stamped(r).hints = r.hints /\ Stamped(r).jar = r.jar
BY DEF Stamped, Request

(* Once a server has blocked, it has.                                      *)
LEMMA FacedSticks ==
    ASSUME TypeOK, NEW c \in Chains, Outbound(c) \/ Inbound(c),
           trace'[c].faced = "friendly"
    PROVE  trace[c].faced = "friendly"
<1>0. trace[c] \in Trace /\ req[c] \in Request
  BY DEF TypeOK
<1>1. CASE Outbound(c)
  BY <1>0, <1>1 DEF TypeOK, Trace, Outbound, Admit, Refuse, AdmitInfra, Send,
        Wake
<1>2. ASSUME NEW r \in Responses, NEW wall \in Int, Note(c, r, wall)
      PROVE  trace[c].faced = "friendly"
  BY <1>2, NoteSticks
<1>3. trace[c].wall \in Int /\ req[c].jar \in Int
  BY <1>0 DEF Trace, Request
<1>4. ASSUME NEW r \in Responses,
             \/ BackoffRetry(c, r) \/ CookieRetry(c, r) \/ RotateRetry(c, r)
             \/ BanGate(c, r) \/ Deliver(c, r)
      PROVE  trace[c].faced = "friendly"
  BY <1>2, <1>3, <1>4 DEF BackoffRetry, CookieRetry, RotateRetry, BanGate,
        Deliver
<1>5. ASSUME NEW r \in Responses, FollowUp(c, r)
      PROVE  trace[c].faced = "friendly"
  BY <1>0, <1>5 DEF FollowUp, FreshTrace, TypeOK
<1>6. CASE DeliverInfra(c) \/ NetworkRetry(c) \/ NetworkFailure(c)
  BY <1>0, <1>6 DEF DeliverInfra, NetworkRetry, NetworkFailure, TypeOK, Trace
<1> QED BY <1>1, <1>4, <1>5, <1>6 DEF Inbound

Untouched(r) == r.st # "skipped" /\ r.hints = "none" /\ r.jar = 0

LEMMA CalmOutbound ==
    ASSUME TypeOK, Calm, NEW c \in Chains, Outbound(c)
    PROVE  /\ bundle' = 0 /\ \A d \in Domains : breaker'[d] = NewBreaker
           /\ Untouched(req'[c])
<1>0. /\ req[c] \in Request /\ Untouched(req[c]) /\ bundle = 0
      /\ DomainOf[c] \in Domains /\ breaker[DomainOf[c]] = NewBreaker
      /\ \A d \in Domains : breaker[d] = NewBreaker
  BY DownloaderAssumption DEF TypeOK, Calm, Untouched
<1>1. CASE Admit(c)
  <2>1. req'[c] = [Stamped(req[c]) EXCEPT !.st = "slotted"]
    BY <1>1 DEF Admit, TypeOK
  <2>2. Stamped(req[c]) \in Request
    BY <1>0, StampedType
  <2>3. Stamped(req[c]).hints = "none" /\ Stamped(req[c]).jar = 0
    BY <1>0, StampedCalm DEF Untouched
  <2>4. Untouched(req'[c])
    BY <2>1, <2>2, <2>3 DEF Untouched, Request
  <2>5. \A d \in Domains : breaker'[d] = NewBreaker
    BY <1>0, <1>1, FreshBreaker DEF Admit, TypeOK
  <2> QED BY <1>0, <1>1, <2>4, <2>5 DEF Admit
<1>2. CASE Refuse(c)
  BY <1>0, <1>2, FreshBreaker DEF Refuse
<1>3. CASE AdmitInfra(c)
  BY <1>0, <1>3 DEF AdmitInfra, TypeOK, Untouched, Request
<1>4. CASE Send(c)
  BY <1>0, <1>4 DEF Send, TypeOK, Untouched, Request
<1>5. CASE Wake(c)
  BY <1>0, <1>5 DEF Wake, TypeOK, Untouched, Request
<1> QED BY <1>1, <1>2, <1>3, <1>4, <1>5 DEF Outbound

(* An answer that is no block leaves every breaker as new.                 *)
LEMMA CalmAnswered ==
    ASSUME TypeOK, Calm, NEW c \in Chains, NEW r, Answered(c, r),
           Classify(r) \notin RotateOn
    PROVE  \A d \in Domains : breaker'[d] = NewBreaker
<1>1. \A d \in Domains : breaker[d] = NewBreaker
  BY DEF Calm
<1>2. Classify(r) \notin CircuitFailures
  BY DEF RotateOn
<1> QED BY <1>1, <1>2, FreshBreaker DEF Answered, TypeOK

LEMMA CalmInbound ==
    ASSUME TypeOK, Calm, NEW c \in Chains, Inbound(c),
           trace'[c].faced = "friendly"
    PROVE  /\ bundle' = 0 /\ \A d \in Domains : breaker'[d] = NewBreaker
           /\ Untouched(req'[c])
<1>0. /\ req[c] \in Request /\ Untouched(req[c]) /\ bundle = 0
      /\ \A d \in Domains : breaker[d] = NewBreaker
      /\ trace[c] \in Trace
  BY DEF TypeOK, Calm, Untouched
<1>1. ASSUME NEW r, NEW wall \in Int, Note(c, r, wall)
      PROVE  Classify(r) \notin RotateOn
  BY <1>1, NoteSticks
<1>2. ASSUME NEW r \in Responses, BackoffRetry(c, r)
      PROVE  Untouched(req'[c])
  BY <1>0, <1>2 DEF BackoffRetry, TypeOK, Untouched, Request
<1>3. ASSUME NEW r \in Responses, CookieRetry(c, r) \/ RotateRetry(c, r)
      PROVE  FALSE
  <2>1. Classify(r) \notin RotateOn
    BY <1>0, <1>1, <1>3 DEF CookieRetry, RotateRetry, Request
  <2> QED BY <1>3, <2>1 DEF CookieRetry, CookieWall, RotateRetry, RotateOn,
            CircuitFailures
<1>4. ASSUME NEW r \in Responses, BanGate(c, r) \/ Deliver(c, r)
      PROVE  /\ Untouched(req'[c])
             /\ \A d \in Domains : breaker'[d] = NewBreaker
  <2>1. Classify(r) \notin RotateOn
    BY <1>1, <1>4 DEF BanGate, Deliver
  <2>2. \A d \in Domains : breaker'[d] = NewBreaker
    BY <1>4, <2>1, CalmAnswered DEF BanGate, Deliver
  <2>3. Untouched(req'[c])
    BY <1>0, <1>4 DEF BanGate, Deliver, TypeOK, Untouched, Request
  <2> QED BY <2>2, <2>3
<1>5. ASSUME NEW r \in Responses, FollowUp(c, r)
      PROVE  /\ Untouched(req'[c])
             /\ \A d \in Domains : breaker'[d] = NewBreaker
  <2>1. Classify(r) \notin RotateOn
    BY <1>5 DEF FollowUp, RotateOn, CircuitFailures
  <2>2. \A d \in Domains : breaker'[d] = NewBreaker
    BY <1>5, <2>1, CalmAnswered DEF FollowUp
  <2>3. Untouched(req'[c])
    BY <1>5 DEF FollowUp, TypeOK, Untouched, Fresh
  <2> QED BY <2>2, <2>3
<1>6. CASE DeliverInfra(c) \/ NetworkRetry(c) \/ NetworkFailure(c)
  BY <1>0, <1>6 DEF DeliverInfra, NetworkRetry, NetworkFailure, TypeOK,
        Untouched, Request
<1>7. ASSUME ~ \E r \in Responses : RotateRetry(c, r)
      PROVE  bundle' = 0
  BY <1>0, <1>7 DEF Inbound, BackoffRetry, CookieRetry, BanGate, Deliver,
        FollowUp, DeliverInfra, NetworkRetry, NetworkFailure
<1>8. ASSUME ~ \E r \in Responses : CookieRetry(c, r) \/ RotateRetry(c, r)
                \/ BanGate(c, r) \/ Deliver(c, r) \/ FollowUp(c, r)
      PROVE  \A d \in Domains : breaker'[d] = NewBreaker
  BY <1>0, <1>8 DEF Inbound, BackoffRetry, DeliverInfra, NetworkRetry,
        NetworkFailure
<1>9. Untouched(req'[c])
  BY <1>2, <1>3, <1>4, <1>5, <1>6 DEF Inbound
<1> QED BY <1>3, <1>4, <1>5, <1>7, <1>8, <1>9

LEMMA CalmStep ==
    TypeOK /\ FriendlyUnaffected /\ [Next]_vars => FriendlyUnaffected'
<1> SUFFICES ASSUME TypeOK, FriendlyUnaffected, [Next]_vars, Unblocked'
             PROVE  Calm'
  BY DEF FriendlyUnaffected, Unblocked, Calm
<1>1. ASSUME NEW c \in Chains, Outbound(c) \/ Inbound(c)
      PROVE  Calm'
  <2>1. ASSUME NEW d \in Chains
        PROVE  trace[d].faced = "friendly"
    BY <1>1, <2>1, Local, FacedSticks DEF Unblocked
  <2>2. Calm
    BY <2>1 DEF FriendlyUnaffected, Calm
  <2>3. /\ bundle' = 0 /\ \A d \in Domains : breaker'[d] = NewBreaker
        /\ Untouched(req'[c])
    BY <1>1, <2>2, CalmOutbound, CalmInbound DEF Unblocked
  <2>4. ASSUME NEW d \in Chains, d # c
        PROVE  Untouched(req'[d])
    BY <1>1, <2>2, <2>4, Local DEF Calm, Untouched
  <2> QED BY <2>3, <2>4 DEF Calm, Untouched
<1>2. CASE Tick
  <2>1. Calm
    BY <1>2 DEF Tick, Unblocked, FriendlyUnaffected, Calm
  <2>2. ASSUME NEW d \in Chains
        PROVE  Untouched(req'[d])
    BY <1>2, <2>1 DEF Tick, TypeOK, Calm, Untouched, Request
  <2>3. \A d \in Domains : breaker'[d] = NewBreaker
    BY <1>2, <2>1, FreshBreaker DEF Tick, Calm
  <2> QED BY <1>2, <2>1, <2>2, <2>3 DEF Tick, Calm, Untouched
<1>3. CASE UNCHANGED vars
  BY <1>3 DEF vars, Unblocked, FriendlyUnaffected, Calm
<1> QED BY <1>1, <1>2, <1>3 DEF Next

(* Until the first block, the resilience layer is inert: contact           *)
(* User-Agent, closed breakers without a counted failure, nothing refused, *)
(* no identity's cookie jar, for any number of chains and any mix of 429s, *)
(* network errors, retries and follow-up pages.                            *)
THEOREM FriendlyKept == Spec => []FriendlyUnaffected
<1>1. Init => FriendlyUnaffected
  BY DEF Init, FriendlyUnaffected, Fresh
<1> QED BY <1>1, CalmStep, TypeCorrect, PTL DEF Spec

-----------------------------------------------------------------------------
(***************************************************************************)
(* The breaker's margin.                                                   *)
(***************************************************************************)

Roomy == OneChainPerDomain /\ FailureThreshold > MaxAttempts

(* What Margin says of one chain.                                          *)
Spared(q, b) ==
    q.st \in Pending => b.state = "closed" /\ b.failures <= q.rotation

LEMMA SparedOutbound ==
    ASSUME TypeOK, Margin, NEW c \in Chains, Outbound(c)
    PROVE  /\ req'[c].st # "skipped"
           /\ c \in Crawl => Spared(req'[c], breaker'[DomainOf[c]])
<1>0. /\ req[c] \in Request /\ req[c].st # "skipped"
      /\ DomainOf[c] \in Domains
      /\ c \in Crawl => Spared(req[c], breaker[DomainOf[c]])
  BY DownloaderAssumption DEF TypeOK, Margin, Spared
<1>1. CASE Admit(c)
  <2>1. /\ req'[c] = [Stamped(req[c]) EXCEPT !.st = "slotted"]
        /\ breaker'[DomainOf[c]] = AfterAllow(breaker[DomainOf[c]])
        /\ req[c].st = "scheduled" /\ c \in Crawl
    BY <1>0, <1>1 DEF Admit, TypeOK
  <2>2. Stamped(req[c]) \in Request /\ Stamped(req[c]).rotation = req[c].rotation
    BY <1>0, StampedType
  <2>3. breaker'[DomainOf[c]] = breaker[DomainOf[c]]
    BY <1>0, <2>1 DEF Spared, Pending, AfterAllow
  <2>4. req'[c].st = "slotted" /\ req'[c].rotation = req[c].rotation
    BY <2>1, <2>2 DEF Request
  <2> QED BY <1>0, <2>1, <2>3, <2>4 DEF Spared, Pending
<1>2. CASE Refuse(c)
  BY <1>0, <1>2 DEF Refuse, Spared, Pending, Allows
<1>3. CASE AdmitInfra(c)
  BY <1>0, <1>3 DEF AdmitInfra, TypeOK, Crawl, Request
<1>4. CASE Send(c)
  <2>1. /\ req'[c] = [req[c] EXCEPT !.st = "sent"] /\ breaker' = breaker
        /\ req[c].st = "slotted"
    BY <1>4 DEF Send, TypeOK
  <2> QED BY <1>0, <2>1 DEF Spared, Request, Pending, InFlight
<1>5. CASE Wake(c)
  <2>1. /\ req'[c] = [req[c] EXCEPT !.st = "scheduled"] /\ breaker' = breaker
        /\ req[c].st = "sleeping"
    BY <1>5 DEF Wake, TypeOK
  <2> QED BY <1>0, <2>1 DEF Spared, Request, Pending, InFlight
<1> QED BY <1>1, <1>2, <1>3, <1>4, <1>5 DEF Outbound

(* A counted failure that still leaves an attempt cannot trip the breaker. *)
LEMMA RetrySpared ==
    ASSUME TypeOK, Margin, Roomy, NEW c \in Chains, NEW r, Answered(c, r),
           AttemptsLeft(c)
    PROVE  LET b == breaker'[DomainOf[c]]
           IN  b.state = "closed" /\ b.failures <= req[c].rotation + 1
<1> DEFINE b == breaker[DomainOf[c]]
<1>1. /\ req[c] \in Request /\ b \in Breaker /\ DomainOf[c] \in Domains
      /\ b.state = "closed" /\ b.failures <= req[c].rotation
  BY DownloaderAssumption
     DEF TypeOK, Margin, Answered, Pending, InFlight
<1>2. /\ b.failures \in Nat /\ req[c].rotation \in Nat
      /\ b.failures + 1 < FailureThreshold
  BY <1>1, DownloaderAssumption, CircuitAssumption
     DEF Request, Breaker, AttemptsLeft, Roomy
<1>3. breaker'[DomainOf[c]] \in {b, RecordFailure(b), RecordSuccess(b)}
  BY <1>1 DEF Answered, TypeOK
<1> HIDE DEF b
<1>4. RecordFailure(b) = [b EXCEPT !.failures = @ + 1]
  BY <1>1, <1>2, CircuitAssumption DEF RecordFailure
<1>5. /\ RecordFailure(b).state = "closed"
      /\ RecordFailure(b).failures = b.failures + 1
  BY <1>1, <1>4 DEF Breaker
<1>6. RecordSuccess(b).state = "closed" /\ RecordSuccess(b).failures = 0
  BY DEF RecordSuccess, NewBreaker
<1> QED BY <1>1, <1>2, <1>3, <1>5, <1>6

LEMMA SparedInbound ==
    ASSUME TypeOK, Margin, Roomy, NEW c \in Chains, Inbound(c)
    PROVE  /\ req'[c].st # "skipped"
           /\ c \in Crawl => Spared(req'[c], breaker'[DomainOf[c]])
<1>0. /\ req[c] \in Request /\ req[c].st # "skipped"
      /\ DomainOf[c] \in Domains /\ breaker[DomainOf[c]] \in Breaker
      /\ c \in Crawl => Spared(req[c], breaker[DomainOf[c]])
  BY DownloaderAssumption DEF TypeOK, Margin, Spared
<1>1. ASSUME NEW r \in Responses, BackoffRetry(c, r)
      PROVE  req'[c].st # "skipped" /\ Spared(req'[c], breaker'[DomainOf[c]])
  <2>1. /\ req'[c].st = "sleeping" /\ req'[c].rotation = req[c].rotation
        /\ breaker' = breaker /\ req[c].st = "sent" /\ c \in Crawl
    BY <1>0, <1>1 DEF BackoffRetry, TypeOK, Request
  <2> QED BY <1>0, <2>1 DEF Spared, Pending, InFlight
<1>2. ASSUME NEW r \in Responses, CookieRetry(c, r) \/ RotateRetry(c, r)
      PROVE  req'[c].st # "skipped" /\ Spared(req'[c], breaker'[DomainOf[c]])
  <2>1. req'[c] = Rotated(req[c]) /\ Answered(c, r) /\ AttemptsLeft(c)
    BY <1>2 DEF CookieRetry, RotateRetry, TypeOK
  <2>2. req'[c].st = "scheduled" /\ req'[c].rotation = req[c].rotation + 1
    BY <1>0, <2>1 DEF Rotated, Request
  <2> QED BY <2>1, <2>2, RetrySpared DEF Spared
<1>3. ASSUME NEW r \in Responses, BanGate(c, r) \/ Deliver(c, r)
      PROVE  req'[c].st # "skipped" /\ Spared(req'[c], breaker'[DomainOf[c]])
  <2>1. req'[c].st \in {"banned", "delivered"}
    BY <1>0, <1>3 DEF BanGate, Deliver, TypeOK, Request
  <2> QED BY <2>1 DEF Spared, Pending, InFlight
<1>4. ASSUME NEW r \in Responses, FollowUp(c, r)
      PROVE  req'[c].st # "skipped" /\ Spared(req'[c], breaker'[DomainOf[c]])
  <2>1. req'[c].st = "scheduled" /\ req'[c].rotation = 0
    BY <1>4 DEF FollowUp, TypeOK, Fresh
  <2>2. breaker'[DomainOf[c]] = NewBreaker
    BY <1>0, <1>4 DEF FollowUp, Answered, TypeOK, RecordSuccess,
          CircuitFailures
  <2> QED BY <2>1, <2>2 DEF Spared, NewBreaker
<1>5. CASE DeliverInfra(c)
  BY <1>0, <1>5 DEF DeliverInfra, TypeOK, Crawl, Request
<1>6. CASE NetworkRetry(c)
  <2>1. /\ req'[c].st = "scheduled" /\ req'[c].rotation = req[c].rotation
        /\ breaker' = breaker /\ req[c].st = "sent"
    BY <1>0, <1>6 DEF NetworkRetry, TypeOK, Request
  <2> QED BY <1>0, <2>1 DEF Spared, Pending, InFlight
<1>7. CASE NetworkFailure(c)
  <2>1. req'[c].st = "failed"
    BY <1>0, <1>7 DEF NetworkFailure, TypeOK, Request
  <2> QED BY <2>1 DEF Spared, Pending, InFlight
<1> QED BY <1>1, <1>2, <1>3, <1>4, <1>5, <1>6, <1>7 DEF Inbound

(* A step of one chain leaves the breaker of every other crawl chain alone.*)
LEMMA OwnBreaker ==
    ASSUME TypeOK, OneChainPerDomain, NEW c \in Chains,
           Outbound(c) \/ Inbound(c), NEW d \in Crawl, d # c
    PROVE  breaker'[DomainOf[d]] = breaker[DomainOf[d]]
<1>1. c \in Crawl => DomainOf[c] # DomainOf[d]
  BY DEF OneChainPerDomain
<1>2. d \in Chains /\ DomainOf[d] \in Domains
  BY DownloaderAssumption DEF Crawl
<1>3. CASE Outbound(c)
  BY <1>1, <1>2, <1>3 DEF TypeOK, Outbound, Admit, Refuse, AdmitInfra, Send,
        Wake
<1>4. CASE Inbound(c)
  BY <1>1, <1>2, <1>4 DEF TypeOK, Inbound, Answered, BackoffRetry, CookieRetry,
        RotateRetry, BanGate, Deliver, FollowUp, DeliverInfra, NetworkRetry,
        NetworkFailure
<1> QED BY <1>3, <1>4

LEMMA MarginStep ==
    ASSUME Roomy PROVE TypeOK /\ Margin /\ [Next]_vars => Margin'
<1> SUFFICES ASSUME TypeOK, Margin, [Next]_vars PROVE Margin'
  OBVIOUS
<1>1. ASSUME NEW c \in Chains, Outbound(c) \/ Inbound(c) PROVE Margin'
  <2>1. /\ req'[c].st # "skipped"
        /\ c \in Crawl => Spared(req'[c], breaker'[DomainOf[c]])
    BY <1>1, SparedOutbound, SparedInbound
  <2>2. ASSUME NEW d \in Chains, d # c
        PROVE  /\ req'[d].st # "skipped"
               /\ d \in Crawl => Spared(req'[d], breaker'[DomainOf[d]])
    <3>1. req'[d] = req[d]
      BY <1>1, <2>2, Local
    <3>2. d \in Crawl => breaker'[DomainOf[d]] = breaker[DomainOf[d]]
      BY <1>1, <2>2, OwnBreaker DEF Roomy
    <3> QED BY <3>1, <3>2 DEF Margin, Spared
  <2> QED BY <2>1, <2>2 DEF Margin, Spared, Crawl
<1>2. CASE Tick
  <2>1. ASSUME NEW d \in Chains
        PROVE  req'[d].st = req[d].st /\ req'[d].rotation = req[d].rotation
    BY <1>2 DEF Tick, TypeOK, Request
  <2>2. ASSUME NEW d \in Domains
        PROVE  /\ breaker'[d].state = breaker[d].state
               /\ breaker'[d].failures = breaker[d].failures
    BY <1>2 DEF Tick, TypeOK, BreakerTick, Breaker
  <2> QED BY <2>1, <2>2, DownloaderAssumption DEF Margin, Crawl
<1>3. CASE UNCHANGED vars
  BY <1>3 DEF vars, Margin
<1> QED BY <1>1, <1>2, <1>3 DEF Next

(* With one crawl chain per domain and more failures to the threshold than *)
(* rotation attempts, no breaker ever swallows a request.  The defaults (5 *)
(* against 4) are the tightest that have this property.                    *)
THEOREM NoRefusal == Spec => []NoneRefused
<1>1. CASE Roomy
  <2>1. Init => Margin
    <3> SUFFICES ASSUME Init PROVE Margin
      OBVIOUS
    <3>1. ASSUME NEW c \in Chains
          PROVE  req[c].st = "scheduled" /\ req[c].rotation = 0
      BY DEF Init, Fresh
    <3>2. ASSUME NEW d \in Domains
          PROVE  breaker[d].state = "closed" /\ breaker[d].failures = 0
      BY DEF Init, NewBreaker
    <3> QED BY <3>1, <3>2, DownloaderAssumption DEF Margin, Crawl
  <2>2. TypeOK /\ Margin /\ [Next]_vars => Margin'
    BY <1>1, MarginStep
  <2>3. Margin => NoneRefused
    BY DEF Margin, NoneRefused
  <2> QED BY <2>1, <2>2, <2>3, TypeCorrect, PTL DEF Spec
<1>2. CASE ~Roomy
  <2>1. NoneRefused
    BY <1>2 DEF Roomy, NoneRefused
  <2> QED BY <2>1, PTL
<1> QED BY <1>1, <1>2

-----------------------------------------------------------------------------
(***************************************************************************)
(* The downloader implements RequestFate.                                  *)
(***************************************************************************)

(* A step of chain c changes the abstract view at c alone.                 *)
LEMMA Lift ==
    ASSUME TypeOK, NEW c \in Chains, Outbound(c) \/ Inbound(c)
    PROVE  /\ fateBar' = [fateBar EXCEPT ![c] = FateOf(req'[c])]
           /\ pageBar' = [pageBar EXCEPT ![c] = req'[c].page]
           /\ attemptsBar' = [attemptsBar EXCEPT ![c] = trace'[c].downloads]
<1>1. \A d \in Chains : d # c => req'[d] = req[d] /\ trace'[d] = trace[d]
  BY Local
<1>2. \A d \in Chains : d # c => FateOf(req'[d]) = FateOf(req[d])
  BY <1>1
<1> QED BY <1>1, <1>2 DEF fateBar, pageBar, attemptsBar

(* The abstract view of one chain.                                         *)
View(q, t) == <<FateOf(q), q.page, t.downloads>>

LEMMA Stutter ==
    ASSUME TypeOK, NEW c \in Chains, Outbound(c) \/ Inbound(c),
           View(req'[c], trace'[c]) = View(req[c], trace[c]),
           banEvents' = banEvents
    PROVE  UNCHANGED Fate!fateVars
<1>1. /\ FateOf(req'[c]) = fateBar[c] /\ req'[c].page = pageBar[c]
      /\ trace'[c].downloads = attemptsBar[c]
  BY DEF View, fateBar, pageBar, attemptsBar
<1>2. fateBar' = fateBar /\ pageBar' = pageBar /\ attemptsBar' = attemptsBar
  BY <1>1, Lift DEF fateBar, pageBar, attemptsBar
<1> QED BY <1>2 DEF Fate!fateVars

LEMMA FateOutbound ==
    ASSUME TypeOK, AllPaid, NEW c \in Chains, Outbound(c)
    PROVE  [Fate!Next]_(Fate!fateVars)
<1>0. /\ req[c] \in Request /\ trace[c] \in Trace
      /\ Paid(req[c], trace[c])
      /\ fateBar[c] = FateOf(req[c]) /\ attemptsBar[c] = trace[c].downloads
      /\ pageBar[c] = req[c].page
  BY DEF TypeOK, AllPaid, fateBar, attemptsBar, pageBar
<1>1. CASE Admit(c)
  <2>1. /\ req'[c] = [Stamped(req[c]) EXCEPT !.st = "slotted"]
        /\ trace'[c].downloads = trace[c].downloads
        /\ banEvents' = banEvents /\ req[c].st = "scheduled"
    BY <1>0, <1>1 DEF Admit, TypeOK, Trace
  <2>2. Stamped(req[c]) \in Request /\ Stamped(req[c]).page = req[c].page
    BY <1>0, StampedType
  <2>3. req'[c].st = "slotted" /\ req'[c].page = req[c].page
    BY <2>1, <2>2 DEF Request
  <2>4. View(req'[c], trace'[c]) = View(req[c], trace[c])
    BY <2>1, <2>3 DEF View, FateOf, Pending, InFlight
  <2> QED BY <2>1, <2>4, Stutter
<1>2. CASE Refuse(c)
  <2>1. /\ req'[c] = [Stamped(req[c]) EXCEPT !.st = "skipped"]
        /\ trace'[c] = trace[c]
        /\ banEvents' = banEvents /\ req[c].st = "scheduled"
    BY <1>0, <1>2 DEF Refuse, TypeOK
  <2>2. Stamped(req[c]) \in Request /\ Stamped(req[c]).page = req[c].page
    BY <1>0, StampedType
  <2>3. req'[c].st = "skipped" /\ req'[c].page = req[c].page
    BY <2>1, <2>2 DEF Request
  <2>4. FateOf(req'[c]) = "dropped" /\ fateBar[c] = "pending"
    BY <1>0, <2>1, <2>3 DEF FateOf, Pending, InFlight
  <2>5. /\ fateBar' = [fateBar EXCEPT ![c] = "dropped"]
        /\ pageBar' = pageBar /\ attemptsBar' = attemptsBar
    BY <1>0, <2>1, <2>3, <2>4, Lift DEF pageBar, attemptsBar
  <2>6. Fate!Dropped(c)
    BY <2>1, <2>4, <2>5 DEF Fate!Dropped, Fate!End
  <2> QED BY <2>6 DEF Fate!Next
<1>3. CASE AdmitInfra(c)
  <2>1. /\ req'[c].st = "slotted" /\ req'[c].page = req[c].page
        /\ trace' = trace /\ banEvents' = banEvents
        /\ req[c].st = "scheduled"
    BY <1>0, <1>3 DEF AdmitInfra, TypeOK, Request
  <2>2. View(req'[c], trace'[c]) = View(req[c], trace[c])
    BY <2>1 DEF View, FateOf, Pending, InFlight
  <2> QED BY <2>1, <2>2, Stutter
<1>4. CASE Send(c)
  <2>1. /\ req'[c].st = "sent" /\ req'[c].page = req[c].page
        /\ trace'[c].downloads = trace[c].downloads + 1
        /\ banEvents' = banEvents /\ req[c].st = "slotted"
    BY <1>0, <1>4 DEF Send, TypeOK, Request, Trace
  <2>2. FateOf(req'[c]) = "pending" /\ fateBar[c] = "pending"
    BY <1>0, <2>1 DEF FateOf, Pending, InFlight
  <2>3. trace[c].downloads < Budget
    BY <1>0, <2>1, DownloaderAssumption DEF Paid, Request, Budget
  <2>4. /\ fateBar' = [fateBar EXCEPT ![c] = FateOf(req'[c])]
        /\ pageBar' = [pageBar EXCEPT ![c] = req'[c].page]
        /\ attemptsBar' = [attemptsBar EXCEPT ![c] = trace'[c].downloads]
    BY Lift
  <2>5. fateBar' = fateBar /\ pageBar' = pageBar
    <3>1. fateBar' = fateBar
      BY <2>2, <2>4 DEF fateBar
    <3>2. pageBar' = pageBar
      BY <2>1, <2>4 DEF pageBar
    <3> QED BY <3>1, <3>2
  <2>6. attemptsBar' = [attemptsBar EXCEPT ![c] = @ + 1]
    BY <1>0, <2>1, <2>4
  <2>7. Fate!Attempt(c)
    BY <1>0, <2>1, <2>2, <2>3, <2>5, <2>6 DEF Fate!Attempt
  <2> QED BY <2>7 DEF Fate!Next
<1>5. CASE Wake(c)
  <2>1. /\ req'[c].st = "scheduled" /\ req'[c].page = req[c].page
        /\ trace' = trace /\ banEvents' = banEvents
        /\ req[c].st = "sleeping"
    BY <1>0, <1>5 DEF Wake, TypeOK, Request
  <2>2. View(req'[c], trace'[c]) = View(req[c], trace[c])
    BY <2>1 DEF View, FateOf, Pending, InFlight
  <2> QED BY <2>1, <2>2, Stutter
<1> QED BY <1>1, <1>2, <1>3, <1>4, <1>5 DEF Outbound

LEMMA FateInbound ==
    ASSUME TypeOK, AllPaid, NEW c \in Chains, Inbound(c)
    PROVE  [Fate!Next]_(Fate!fateVars)
<1>0. /\ req[c] \in Request /\ trace[c] \in Trace
      /\ Paid(req[c], trace[c]) /\ banEvents \in Seq(BanKinds)
      /\ fateBar[c] = FateOf(req[c]) /\ attemptsBar[c] = trace[c].downloads
      /\ pageBar[c] = req[c].page
  BY DEF TypeOK, AllPaid, fateBar, attemptsBar, pageBar
<1>a. req[c].st = "sent"
  BY DEF Inbound, BackoffRetry, CookieRetry, RotateRetry, BanGate, Deliver,
        FollowUp, DeliverInfra, NetworkRetry, NetworkFailure, Answered
<1>b. fateBar[c] = "pending" /\ attemptsBar[c] > 0
  BY <1>0, <1>a DEF FateOf, Pending, InFlight, Paid, Request
<1>1. ASSUME NEW r \in Responses,
             BackoffRetry(c, r) \/ CookieRetry(c, r) \/ RotateRetry(c, r)
      PROVE  UNCHANGED Fate!fateVars
  <2>1. /\ req'[c].st \in {"sleeping", "scheduled"}
        /\ req'[c].page = req[c].page
    <3>1. CASE BackoffRetry(c, r)
      BY <1>0, <3>1 DEF BackoffRetry, TypeOK, Request
    <3>2. CASE CookieRetry(c, r) \/ RotateRetry(c, r)
      <4>1. req'[c] = Rotated(req[c])
        BY <3>2 DEF CookieRetry, RotateRetry, TypeOK
      <4> QED BY <1>0, <4>1 DEF Rotated, Request
    <3> QED BY <1>1, <3>1, <3>2
  <2>2. trace'[c].downloads = trace[c].downloads
    BY <1>1, NoteKeepsDownloads DEF BackoffRetry, CookieRetry, RotateRetry
  <2>3. View(req'[c], trace'[c]) = View(req[c], trace[c])
    BY <1>a, <2>1, <2>2 DEF View, FateOf, Pending, InFlight
  <2>4. banEvents' = banEvents
    BY <1>1 DEF BackoffRetry, CookieRetry, RotateRetry
  <2> QED BY <2>3, <2>4, Stutter
<1>2. ASSUME NEW r \in Responses, BanGate(c, r)
      PROVE  Fate!Banned(c)
  <2>1. req'[c].st = "banned" /\ req'[c].page = req[c].page
    BY <1>0, <1>2 DEF BanGate, TypeOK, Request
  <2>2. trace'[c].downloads = trace[c].downloads
    BY <1>2, NoteKeepsDownloads DEF BanGate
  <2>3. Len(banEvents') = Len(banEvents) + 1
    <3>1. Classify(r) \in BanKinds
      BY <1>2, ClassifyType DEF BanGate, BanKinds
    <3> QED BY <1>0, <1>2, <3>1 DEF BanGate
  <2>4. FateOf(req'[c]) = "banned"
    BY <2>1 DEF FateOf, Pending, InFlight
  <2>5. /\ fateBar' = [fateBar EXCEPT ![c] = "banned"]
        /\ pageBar' = pageBar /\ attemptsBar' = attemptsBar
    BY <1>0, <2>1, <2>2, <2>4, Lift DEF pageBar, attemptsBar
  <2> QED BY <1>b, <2>3, <2>5 DEF Fate!Banned, Fate!End
<1>3. ASSUME NEW r \in Responses, Deliver(c, r)
      PROVE  Fate!Delivered(c)
  <2>1. req'[c].st = "delivered" /\ req'[c].page = req[c].page
    BY <1>0, <1>3 DEF Deliver, TypeOK, Request
  <2>2. trace'[c].downloads = trace[c].downloads
    BY <1>3, NoteKeepsDownloads DEF Deliver
  <2>3. FateOf(req'[c]) = "delivered"
    BY <2>1 DEF FateOf, Pending, InFlight
  <2>4. /\ fateBar' = [fateBar EXCEPT ![c] = "delivered"]
        /\ pageBar' = pageBar /\ attemptsBar' = attemptsBar
    BY <1>0, <2>1, <2>2, <2>3, Lift DEF pageBar, attemptsBar
  <2> QED BY <1>3, <1>b, <2>4 DEF Deliver, Fate!Delivered, Fate!End
<1>4. ASSUME NEW r \in Responses, FollowUp(c, r)
      PROVE  Fate!TurnPage(c)
  <2>1. /\ req'[c] = Fresh(req[c].page + 1) /\ trace'[c].downloads = 0
        /\ req[c].page < MaxPages /\ banEvents' = banEvents
    BY <1>4 DEF FollowUp, TypeOK, FreshTrace
  <2>2. FateOf(req'[c]) = "pending" /\ req'[c].page = req[c].page + 1
    BY <2>1 DEF FateOf, Pending, InFlight, Fresh
  <2>3. /\ fateBar' = [fateBar EXCEPT ![c] = FateOf(req'[c])]
        /\ pageBar' = [pageBar EXCEPT ![c] = req'[c].page]
        /\ attemptsBar' = [attemptsBar EXCEPT ![c] = trace'[c].downloads]
    BY Lift
  <2>4. fateBar' = fateBar
    BY <1>b, <2>2, <2>3 DEF fateBar
  <2>5. pageBar' = [pageBar EXCEPT ![c] = @ + 1]
    BY <1>0, <2>2, <2>3
  <2>6. attemptsBar' = [attemptsBar EXCEPT ![c] = 0]
    BY <2>1, <2>3
  <2> QED BY <1>0, <1>b, <2>1, <2>4, <2>5, <2>6 DEF Fate!TurnPage
<1>5. CASE DeliverInfra(c)
  <2>1. /\ req'[c].st = "delivered" /\ req'[c].page = req[c].page
        /\ trace' = trace /\ banEvents' = banEvents
    BY <1>0, <1>5 DEF DeliverInfra, TypeOK, Request
  <2>2. FateOf(req'[c]) = "delivered"
    BY <2>1 DEF FateOf, Pending, InFlight
  <2>3. /\ fateBar' = [fateBar EXCEPT ![c] = "delivered"]
        /\ pageBar' = pageBar /\ attemptsBar' = attemptsBar
    BY <1>0, <2>1, <2>2, Lift DEF pageBar, attemptsBar
  <2>4. Fate!Delivered(c)
    BY <1>b, <2>1, <2>3 DEF Fate!Delivered, Fate!End
  <2> QED BY <2>4 DEF Fate!Next
<1>6. CASE NetworkRetry(c)
  <2>1. /\ req'[c].st = "scheduled" /\ req'[c].page = req[c].page
        /\ trace'[c].downloads = trace[c].downloads
        /\ banEvents' = banEvents
    BY <1>0, <1>6 DEF NetworkRetry, TypeOK, Request, Trace
  <2>2. View(req'[c], trace'[c]) = View(req[c], trace[c])
    BY <1>a, <2>1 DEF View, FateOf, Pending, InFlight
  <2> QED BY <2>1, <2>2, Stutter
<1>7. CASE NetworkFailure(c)
  <2>1. /\ req'[c].st = "failed" /\ req'[c].page = req[c].page
        /\ trace'[c].downloads = trace[c].downloads
        /\ banEvents' = banEvents
    BY <1>0, <1>7 DEF NetworkFailure, TypeOK, Request, Trace
  <2>2. FateOf(req'[c]) = "dropped"
    BY <2>1 DEF FateOf, Pending, InFlight
  <2>3. /\ fateBar' = [fateBar EXCEPT ![c] = "dropped"]
        /\ pageBar' = pageBar /\ attemptsBar' = attemptsBar
    BY <1>0, <2>1, <2>2, Lift DEF pageBar, attemptsBar
  <2>4. Fate!Dropped(c)
    BY <1>b, <2>1, <2>3 DEF Fate!Dropped, Fate!End
  <2> QED BY <2>4 DEF Fate!Next
<1> QED BY <1>1, <1>2, <1>3, <1>4, <1>5, <1>6, <1>7 DEF Inbound, Fate!Next

LEMMA FateNext ==
    TypeOK /\ AllPaid /\ [Next]_vars => [Fate!Next]_(Fate!fateVars)
<1> SUFFICES ASSUME TypeOK, AllPaid, [Next]_vars
             PROVE  [Fate!Next]_(Fate!fateVars)
  OBVIOUS
<1>1. ASSUME NEW c \in Chains, Outbound(c) \/ Inbound(c)
      PROVE  [Fate!Next]_(Fate!fateVars)
  BY <1>1, FateOutbound, FateInbound
<1>2. CASE Tick
  <2>1. ASSUME NEW c \in Chains
        PROVE  req'[c].st = req[c].st /\ req'[c].page = req[c].page
    BY <1>2 DEF Tick, TypeOK, Request
  <2>2. ASSUME NEW c \in Chains
        PROVE  FateOf(req'[c]) = FateOf(req[c])
    BY <2>1 DEF FateOf
  <2>3. fateBar' = fateBar /\ pageBar' = pageBar
    BY <2>1, <2>2 DEF fateBar, pageBar
  <2> QED BY <1>2, <2>3 DEF Tick, attemptsBar, Fate!fateVars
<1>3. CASE UNCHANGED vars
  BY <1>3 DEF vars, fateBar, FateOf, pageBar, attemptsBar, Fate!fateVars
<1> QED BY <1>1, <1>2, <1>3 DEF Next

(* The four middlewares together, in the order of scrapy_settings.py, keep *)
(* the promise of RequestFate: bounded fetches, one final fate per chain,  *)
(* and a ban event exactly when a ban ends a chain.                        *)
THEOREM Implements == Spec => ImplementsFate
<1>1. Init => Fate!Init
  <2> SUFFICES ASSUME Init PROVE Fate!Init
    OBVIOUS
  <2>1. ASSUME NEW c \in Chains
        PROVE  /\ FateOf(req[c]) = "pending" /\ req[c].page = 1
               /\ trace[c].downloads = 0
    BY DEF Init, Fresh, FreshTrace, FateOf, Pending
  <2>2. Len(banEvents) = 0
    BY DEF Init
  <2> QED BY <2>1, <2>2 DEF Fate!Init, fateBar, pageBar, attemptsBar
<1>2. Spec => Fate!Spec
  BY <1>1, FateNext, TypeCorrect, PaidAlways, PTL DEF Spec, Fate!Spec
<1> QED BY <1>2 DEF ImplementsFate

-----------------------------------------------------------------------------
(***************************************************************************)
(* One crawl chain, the shape of every shipped extractor: the identity and *)
(* the proxy change only while no request of the crawl is out.             *)
(***************************************************************************)

OneCrawlChain == \A c1, c2 \in Crawl : c1 = c2

(* A request that is out, or asleep, carries the jar and the proxy of the  *)
(* identity in use; the jar a cookie retry is to replay is its own.        *)
Carries(q, t) ==
    /\ bundle > 0 /\ (q.st \in InFlight \cup {"sleeping"} \/ t.wall >= 0)
            => q.jar = bundle
    /\ t.wall >= 0 => q.jar = t.wall
    /\ q.st \in InFlight /\ proxy # Direct => q.proxy = proxy

AllCarry == \A c \in Crawl : Carries(req[c], trace[c])

LEMMA CarriesOutbound ==
    ASSUME TypeOK, NEW c \in Crawl, Outbound(c), Carries(req[c], trace[c])
    PROVE  Carries(req[c], trace[c])'
<1>0. /\ c \in Chains /\ req[c] \in Request /\ trace[c] \in Trace
      /\ bundle \in Nat
  BY DownloaderAssumption DEF TypeOK, Crawl
<1>1. bundle' = bundle /\ proxy' = proxy
  BY DEF Outbound, Admit, Refuse, AdmitInfra, Send, Wake
<1>2. ASSUME NEW st \in {"slotted", "skipped"}, trace' = trace,
             req' = [req EXCEPT ![c] = [Stamped(@) EXCEPT !.st = st]],
             req[c].st = "scheduled"
      PROVE  Carries(req[c], trace[c])'
  <2>1. req'[c] = [Stamped(req[c]) EXCEPT !.st = st]
    BY <1>0, <1>2 DEF TypeOK
  <2>2. /\ req'[c].jar = (IF bundle > 0 THEN bundle ELSE req[c].jar)
        /\ req'[c].proxy = (IF proxy # Direct THEN proxy ELSE req[c].proxy)
        /\ req'[c].st = st
    BY <1>0, <2>1 DEF Stamped, Request
  <2> QED BY <1>0, <1>1, <1>2, <2>2 DEF Carries, InFlight, Trace
<1>3. CASE Admit(c)
  BY <1>2, <1>3 DEF Admit
<1>4. CASE Refuse(c)
  BY <1>2, <1>4 DEF Refuse
<1>5. CASE AdmitInfra(c)
  BY <1>5 DEF AdmitInfra, Crawl
<1>6. CASE Send(c)
  <2>1. /\ req'[c] = [req[c] EXCEPT !.st = "sent"] /\ req[c].st = "slotted"
        /\ trace'[c] = [trace[c] EXCEPT !.downloads = @ + 1]
    BY <1>0, <1>6 DEF Send, TypeOK
  <2>2. /\ req'[c].st = "sent" /\ req'[c].jar = req[c].jar
        /\ req'[c].proxy = req[c].proxy /\ trace'[c].wall = trace[c].wall
    BY <1>0, <2>1 DEF Request, Trace
  <2> QED BY <1>1, <2>1, <2>2 DEF Carries, InFlight
<1>7. CASE Wake(c)
  <2>1. /\ req'[c] = [req[c] EXCEPT !.st = "scheduled"]
        /\ req[c].st = "sleeping" /\ trace'[c] = trace[c]
    BY <1>0, <1>7 DEF Wake, TypeOK
  <2>2. /\ req'[c].st = "scheduled" /\ req'[c].jar = req[c].jar
        /\ trace'[c].wall = trace[c].wall
    BY <1>0, <2>1 DEF Request
  <2> QED BY <1>1, <2>1, <2>2 DEF Carries, InFlight
<1> QED BY <1>3, <1>4, <1>5, <1>6, <1>7 DEF Outbound

LEMMA NoteWall ==
    ASSUME TypeOK, NEW c \in Chains, NEW r, NEW wall, Note(c, r, wall)
    PROVE  trace'[c].wall = wall
BY DEF Note, TypeOK, Trace

LEMMA CarriesInbound ==
    ASSUME TypeOK, NEW c \in Crawl, Inbound(c), Carries(req[c], trace[c])
    PROVE  Carries(req[c], trace[c])'
<1>0. /\ c \in Chains /\ req[c] \in Request /\ trace[c] \in Trace
      /\ bundle \in Nat
  BY DownloaderAssumption DEF TypeOK, Crawl
<1>1. ASSUME NEW r \in Responses, BackoffRetry(c, r)
      PROVE  Carries(req[c], trace[c])'
  <2>1. /\ req'[c].st = "sleeping" /\ req[c].st = "sent"
        /\ req'[c].jar = req[c].jar
    BY <1>0, <1>1 DEF BackoffRetry, TypeOK, Request
  <2>2. trace'[c].wall = trace[c].wall
    BY <1>0, <1>1, NoteWall DEF BackoffRetry
  <2>3. bundle' = bundle /\ proxy' = proxy
    BY <1>1 DEF BackoffRetry
  <2> QED BY <2>1, <2>2, <2>3 DEF Carries, InFlight
<1>2. ASSUME NEW r \in Responses, CookieRetry(c, r)
      PROVE  Carries(req[c], trace[c])'
  <2>1. req'[c] = Rotated(req[c]) /\ req[c].st = "sent"
    BY <1>0, <1>2 DEF CookieRetry, Answered, TypeOK
  <2>2. req'[c].st = "scheduled" /\ req'[c].jar = req[c].jar
    BY <1>0, <2>1 DEF Rotated, Request
  <2>3. trace'[c].wall = req[c].jar
    BY <1>0, <1>2, NoteWall DEF CookieRetry
  <2>4. bundle' = bundle /\ proxy' = proxy
    BY <1>2 DEF CookieRetry
  <2> QED BY <2>1, <2>2, <2>3, <2>4 DEF Carries, InFlight
<1>3. ASSUME trace'[c].wall = -1, req'[c].st \notin InFlight \cup {"sleeping"}
      PROVE  Carries(req[c], trace[c])'
  BY <1>3 DEF Carries
<1>4. ASSUME NEW r \in Responses, RotateRetry(c, r)
      PROVE  Carries(req[c], trace[c])'
  <2>1. req'[c].st = "scheduled"
    BY <1>0, <1>4 DEF RotateRetry, TypeOK, Rotated, Request
  <2>2. trace'[c].wall = -1
    BY <1>0, <1>4, NoteWall DEF RotateRetry
  <2> QED BY <1>3, <2>1, <2>2 DEF InFlight
<1>5. ASSUME NEW r \in Responses, BanGate(c, r) \/ Deliver(c, r)
      PROVE  Carries(req[c], trace[c])'
  <2>1. req'[c].st \in {"banned", "delivered"}
    BY <1>0, <1>5 DEF BanGate, Deliver, TypeOK, Request
  <2>2. trace'[c].wall = -1
    BY <1>0, <1>5, NoteWall DEF BanGate, Deliver
  <2> QED BY <1>3, <2>1, <2>2 DEF InFlight
<1>6. ASSUME NEW r \in Responses, FollowUp(c, r)
      PROVE  Carries(req[c], trace[c])'
  <2>1. req'[c].st = "scheduled" /\ trace'[c].wall = -1
    BY <1>0, <1>6 DEF FollowUp, TypeOK, Fresh, FreshTrace
  <2> QED BY <1>3, <2>1 DEF InFlight
<1>7. CASE DeliverInfra(c)
  BY <1>7 DEF DeliverInfra, Crawl
<1>8. CASE NetworkRetry(c) \/ NetworkFailure(c)
  <2>1. /\ req'[c].st \in {"scheduled", "failed"} /\ req[c].st = "sent"
        /\ req'[c].jar = req[c].jar /\ trace'[c].wall = trace[c].wall
    BY <1>0, <1>8 DEF NetworkRetry, NetworkFailure, TypeOK, Request
  <2>2. bundle' = bundle /\ proxy' = proxy
    BY <1>8 DEF NetworkRetry, NetworkFailure
  <2> QED BY <2>1, <2>2 DEF Carries, InFlight
<1> QED BY <1>1, <1>2, <1>4, <1>5, <1>6, <1>7, <1>8 DEF Inbound
(* What is shared changes only with an answer to a crawl chain.            *)
LEMMA InfraAside ==
    ASSUME NEW c \in InfraChains, Outbound(c) \/ Inbound(c)
    PROVE  UNCHANGED <<breaker, pool, proxy, bundle>>
<1>1. c \notin Crawl
  BY DEF Crawl
<1>2. CASE Outbound(c)
  BY <1>1, <1>2 DEF Outbound, Admit, Refuse, AdmitInfra, Send, Wake
<1>3. CASE Inbound(c)
  BY <1>1, <1>3 DEF Inbound, Answered, BackoffRetry, CookieRetry, RotateRetry,
        BanGate, Deliver, FollowUp, DeliverInfra, NetworkRetry, NetworkFailure
<1> QED BY <1>2, <1>3

LEMMA CarryStep ==
    ASSUME OneCrawlChain PROVE TypeOK /\ AllCarry /\ [Next]_vars => AllCarry'
<1> SUFFICES ASSUME TypeOK, AllCarry, [Next]_vars, NEW d \in Crawl
             PROVE  Carries(req[d], trace[d])'
  BY DEF AllCarry
<1>0. /\ Carries(req[d], trace[d]) /\ d \in Chains
      /\ req[d] \in Request /\ trace[d] \in Trace
  BY DownloaderAssumption DEF AllCarry, TypeOK, Crawl
<1>1. ASSUME NEW c \in Chains, Outbound(c) \/ Inbound(c)
      PROVE  Carries(req[d], trace[d])'
  <2>1. CASE c \in Crawl
    <3>1. c = d
      BY <2>1 DEF OneCrawlChain
    <3> QED BY <1>0, <1>1, <3>1, CarriesOutbound, CarriesInbound
  <2>2. CASE c \notin Crawl
    <3>1. c \in InfraChains /\ c # d
      BY <2>2 DEF Crawl
    <3>2. /\ req'[d] = req[d] /\ trace'[d] = trace[d]
          /\ UNCHANGED <<proxy, bundle>>
      BY <1>0, <1>1, <3>1, Local, InfraAside
    <3> QED BY <1>0, <3>2 DEF Carries
  <2> QED BY <2>1, <2>2
<1>2. CASE Tick
  <2>1. /\ req'[d] = [req[d] EXCEPT !.wake = IF @ > 0 THEN @ - 1 ELSE 0]
        /\ trace'[d] = trace[d] /\ bundle' = bundle /\ proxy' = proxy
    BY <1>0, <1>2 DEF Tick
  <2>2. /\ req'[d].st = req[d].st /\ req'[d].jar = req[d].jar
        /\ req'[d].proxy = req[d].proxy
    BY <1>0, <2>1 DEF Request
  <2> QED BY <1>0, <2>1, <2>2 DEF Carries
<1>3. CASE UNCHANGED vars
  BY <1>0, <1>3 DEF vars, Carries
<1> QED BY <1>1, <1>2, <1>3 DEF Next

LEMMA CarryAlways == ASSUME OneCrawlChain PROVE Spec => []AllCarry
<1>1. Init => AllCarry
  <2> SUFFICES ASSUME Init, NEW c \in Crawl PROVE Carries(req[c], trace[c])
    BY DEF AllCarry
  <2>1. c \in Chains
    BY DownloaderAssumption DEF Crawl
  <2>2. req[c].st = "scheduled" /\ trace[c].wall = -1
    BY <2>1 DEF Init, Fresh, FreshTrace
  <2> QED BY <2>2 DEF Carries, InFlight
<1>2. TypeOK /\ AllCarry /\ [Next]_vars => AllCarry'
  BY CarryStep
<1> QED BY <1>1, <1>2, TypeCorrect, PTL DEF Spec

(* With one crawl chain a cookie retry goes out with the jar that holds    *)
(* its cookie, however many back-offs and lost answers come in between:    *)
(* nothing can rotate the identity until the retry itself is blocked.      *)
THEOREM CookieKept == ASSUME OneCrawlChain PROVE Spec => CookieReplayed
<1>1. ASSUME TypeOK, AllCarry, [Next]_vars, NEW c \in Chains, Admits(c),
             trace[c].wall >= 0
      PROVE  req'[c].jar = trace[c].wall
  <2>0. /\ req[c] \in Request /\ trace[c] \in Trace /\ bundle \in Nat
        /\ Carries(req[c], trace[c])
    BY <1>1 DEF TypeOK, AllCarry, Admits
  <2>1. req'[c] # req[c] /\ req'[c].st = "slotted" /\ req[c].st = "scheduled"
        /\ c \in Crawl
    BY <1>1 DEF Admits
  <2>2. Admit(c)
    <3>1. ~Tick
      BY <2>0, <2>1 DEF Tick, Request
    <3>2. PICK b \in Chains : Outbound(b) \/ Inbound(b)
      BY <1>1, <2>1, <3>1 DEF Next, vars
    <3>3. b = c
      BY <1>1, <2>1, <3>2, Local
    <3>4. ~Inbound(c)
      BY <2>1 DEF Inbound, Answered, BackoffRetry, CookieRetry, RotateRetry,
            BanGate, Deliver, FollowUp, DeliverInfra, NetworkRetry,
            NetworkFailure
    <3>5. ~Refuse(c) /\ ~AdmitInfra(c) /\ ~Send(c) /\ ~Wake(c)
      <4>1. ~Refuse(c)
        <5> SUFFICES ASSUME Refuse(c) PROVE FALSE
          OBVIOUS
        <5>1. req'[c] = [Stamped(req[c]) EXCEPT !.st = "skipped"]
          BY <1>1 DEF Refuse, TypeOK
        <5>2. Stamped(req[c]) \in Request
          BY <1>1, <2>0, StampedType
        <5>3. req'[c].st = "skipped"
          BY <5>1, <5>2 DEF Request
        <5> QED BY <2>1, <5>3
      <4> QED BY <2>1, <4>1 DEF AdmitInfra, Send, Wake, Crawl
    <3> QED BY <3>2, <3>3, <3>4, <3>5 DEF Outbound
  <2>3. req'[c] = [Stamped(req[c]) EXCEPT !.st = "slotted"]
    BY <1>1, <2>2 DEF Admit, TypeOK
  <2>4. req'[c].jar = IF bundle > 0 THEN bundle ELSE req[c].jar
    BY <2>0, <2>3 DEF Stamped, Request
  <2> QED BY <1>1, <2>0, <2>4 DEF Carries
<1>2. TypeOK /\ AllCarry /\ [Next]_vars
        => [\A c \in Chains : Admits(c) /\ trace[c].wall >= 0
                => req'[c].jar = trace[c].wall]_vars
  BY <1>1
<1> QED BY <1>2, TypeCorrect, CarryAlways, PTL DEF Spec, CookieReplayed

(* With one crawl chain a block puts into quarantine the very proxy that   *)
(* carried the blocked request, for every pool size: the proxy in use      *)
(* cannot have moved on between the request and its answer.                *)
THEOREM CarrierBlamed == ASSUME OneCrawlChain PROVE Spec => BlamesCarrier
<1>1. ASSUME TypeOK, AllCarry, [Next]_vars, NEW p \in Proxies,
             pool'.quarantine[p] > pool.quarantine[p]
      PROVE  \E c \in Crawl : /\ req[c].st = "sent" /\ req'[c].st # "sent"
                              /\ req[c].proxy = p
  <2>0. pool \in Pool /\ pool.quarantine[p] \in Nat
    BY <1>1 DEF TypeOK, Pool
  <2>1. ~UNCHANGED pool
    BY <1>1, <2>0
  <2>2. ~Tick
    BY <1>1, <2>0 DEF Tick, PoolTick, Pool
  <2>3. PICK c \in Chains : Outbound(c) \/ Inbound(c)
    BY <1>1, <2>1, <2>2 DEF Next, vars
  <2>4. PICK r \in Responses : RotateRetry(c, r)
    BY <2>1, <2>3 DEF Outbound, Admit, Refuse, AdmitInfra, Send, Wake, Inbound,
        BackoffRetry, CookieRetry, BanGate, Deliver, FollowUp, DeliverInfra,
        NetworkRetry, NetworkFailure
  <2>5. /\ c \in Crawl /\ req[c].st = "sent" /\ req[c] \in Request
        /\ Carries(req[c], trace[c])
    BY <1>1, <2>4 DEF RotateRetry, Answered, AllCarry, TypeOK
  <2>6. req'[c].st = "scheduled"
    BY <1>1, <2>4, <2>5 DEF RotateRetry, Rotated, TypeOK, Request
  <2>7. pool'.quarantine = RecordBan(pool, proxy).quarantine
    <3>1. RecordBan(pool, proxy) \in Pool
      BY <1>1, BanPreserves DEF TypeOK
    <3> QED BY <2>4, <3>1 DEF RotateRetry, AfterAcquire, Pool
  <2>8. proxy = p /\ proxy # Direct
    BY <1>1, <2>0, <2>7 DEF RecordBan, Pool
  <2> QED BY <2>5, <2>6, <2>8 DEF Carries, InFlight
<1>2. TypeOK /\ AllCarry /\ [Next]_vars
        => [\A p \in Proxies : pool'.quarantine[p] > pool.quarantine[p]
                => \E c \in Crawl : /\ req[c].st = "sent" /\ req'[c].st # "sent"
                                   /\ req[c].proxy = p]_vars
  BY <1>1
<1> QED BY <1>2, TypeCorrect, CarryAlways, PTL DEF Spec, BlamesCarrier

=============================================================================
