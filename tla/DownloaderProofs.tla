-------------------------- MODULE DownloaderProofs --------------------------
(***************************************************************************)
(* What holds of the downloader for every number of chains, domains and    *)
(* proxies, every set of answers and every value of the settings.          *)
(***************************************************************************)
EXTENDS Downloader, SetLemmas

(***************************************************************************)
(* What the operators of ProxyPool return, for every size of the pool.     *)
(***************************************************************************)

(* The round-robin index wraps around at most once.                        *)
LEMMA Wraps ==
    ASSUME NEW n \in Nat \ {0}, NEW a \in Nat, a < 2 * n
    PROVE  a % n = IF a < n THEN a ELSE a - n
OBVIOUS

(* Every proxy is reached from the cursor by some offset.                  *)
LEMMA Reachable ==
    ASSUME NEW pl \in Pool, NEW p \in Proxies
    PROVE  \E o \in Proxies : AtOffset(pl, o) = p
<1> USE ProxyAssumption
<1>1. /\ NumProxies \in Nat \ {0}
      /\ p \in Nat /\ p < NumProxies
      /\ pl.cursor \in Nat /\ pl.cursor < NumProxies
  BY DEF Pool, Proxies
<1>2. CASE p >= pl.cursor
  <2>1. p - pl.cursor \in Proxies
    BY <1>1, <1>2 DEF Proxies
  <2>2. (pl.cursor + (p - pl.cursor)) % NumProxies = p
    BY <1>1, Wraps
  <2> QED BY <2>1, <2>2 DEF AtOffset
<1>3. CASE p < pl.cursor
  <2>1. (p - pl.cursor) + NumProxies \in Proxies
    BY <1>1, <1>3 DEF Proxies
  <2>2. pl.cursor + ((p - pl.cursor) + NumProxies) = p + NumProxies
    BY <1>1
  <2>3. (p + NumProxies) % NumProxies = p
    <3>1. /\ p + NumProxies \in Nat
          /\ p + NumProxies < 2 * NumProxies
          /\ ~(p + NumProxies < NumProxies)
          /\ (p + NumProxies) - NumProxies = p
      BY <1>1
    <3> HIDE ProxyAssumption
    <3> QED BY <1>1, <3>1, Wraps
  <2> QED BY <2>1, <2>2, <2>3 DEF AtOffset
<1> QED BY <1>1, <1>2, <1>3

(* acquire() on a pool with a healthy proxy returns a healthy proxy.       *)
LEMMA AcquiredHealthy ==
    ASSUME NEW pl \in Pool, ~Exhausted(pl)
    PROVE  Acquired(pl) \in Proxies /\ Healthy(pl, Acquired(pl))
<1> USE ProxyAssumption
<1> DEFINE H == {o \in Proxies : Healthy(pl, AtOffset(pl, o))}
<1>1. H \in SUBSET Nat
  BY DEF Proxies
<1>2. H # {}
  BY Reachable DEF Exhausted
<1>3. PICK m \in H : \A x \in H : m <= x
  <2> HIDE DEF H
  <2> QED BY <1>1, <1>2, LeastElement
<1>4. FirstHealthy(pl, m)
  <2>1. ASSUME NEW nearer \in 0..(m - 1)
        PROVE  ~Healthy(pl, AtOffset(pl, nearer))
    BY <1>3 DEF Proxies
  <2> QED BY <1>3, <2>1 DEF FirstHealthy
<1>5. \E o \in Proxies : FirstHealthy(pl, o)
  BY <1>3, <1>4
<1> DEFINE w == CHOOSE o \in Proxies : FirstHealthy(pl, o)
<1>6. w \in Proxies /\ FirstHealthy(pl, w)
  BY <1>5
<1>7. Acquired(pl) = AtOffset(pl, w)
  BY DEF Acquired
<1>8. AtOffset(pl, w) \in Proxies
  <2> HIDE DEF w
  <2>1. /\ NumProxies \in Nat \ {0} /\ w \in Nat /\ pl.cursor \in Nat
        /\ w < NumProxies /\ pl.cursor < NumProxies
    BY <1>6 DEF Proxies, Pool
  <2>2. (pl.cursor + w) % NumProxies \in Proxies
    BY <2>1, Wraps DEF Proxies
  <2> QED BY <2>2 DEF AtOffset
<1> QED BY <1>6, <1>7, <1>8 DEF FirstHealthy

(* acquire() keeps the pool a pool and quarantines nothing; what it hands  *)
(* out is a direct connection or a healthy proxy.                          *)
LEMMA AcquirePreserves ==
    ASSUME NEW pl \in Pool
    PROVE  /\ AfterAcquire(pl) \in Pool
           /\ AfterAcquire(pl).quarantine = pl.quarantine
           /\ Acquired(pl) \in Proxies \cup {Direct}
           /\ Acquired(pl) # Direct => Healthy(AfterAcquire(pl), Acquired(pl))
<1> USE ProxyAssumption
<1>1. CASE Exhausted(pl)
  BY <1>1 DEF AfterAcquire, Acquired
<1>2. CASE ~Exhausted(pl)
  <2>1. Acquired(pl) \in Proxies /\ Healthy(pl, Acquired(pl))
    BY <1>2, AcquiredHealthy
  <2>2. NumProxies \in Nat \ {0} /\ Acquired(pl) + 1 \in Nat
    BY <2>1 DEF Proxies
  <2>3. (Acquired(pl) + 1) % NumProxies \in 0..(NumProxies - 1)
    BY <2>2
  <2>4. AfterAcquire(pl) =
            [pl EXCEPT !.cursor = (Acquired(pl) + 1) % NumProxies]
    BY <1>2 DEF AfterAcquire
  <2>5. /\ AfterAcquire(pl) \in Pool
        /\ AfterAcquire(pl).quarantine = pl.quarantine
    BY <2>3, <2>4 DEF Pool
  <2> QED BY <2>1, <2>5 DEF Healthy
<1> QED BY <1>1, <1>2

(* record_ban() and the passage of time keep the pool a pool; time only    *)
(* ever heals.                                                             *)
LEMMA BanPreserves ==
    ASSUME NEW pl \in Pool, NEW p \in Proxies \cup {Direct}
    PROVE  RecordBan(pl, p) \in Pool
<1> USE ProxyAssumption
<1>1. CASE p = Direct
  BY <1>1 DEF RecordBan
<1>2. CASE p # Direct
  <2>1. RecordBan(pl, p) = [pl EXCEPT !.quarantine[p] = ProxyCooldown]
    BY <1>2 DEF RecordBan
  <2>2. ProxyCooldown \in 0..ProxyCooldown
    OBVIOUS
  <2> QED BY <2>1, <2>2 DEF Pool
<1> QED BY <1>1, <1>2

LEMMA TickHeals ==
    ASSUME NEW pl \in Pool
    PROVE  /\ PoolTick(pl) \in Pool
           /\ \A p \in Proxies : Healthy(pl, p) => Healthy(PoolTick(pl), p)
<1> USE ProxyAssumption
<1> DEFINE q == [p \in Proxies |->
                    IF pl.quarantine[p] > 0 THEN pl.quarantine[p] - 1 ELSE 0]
<1>1. PoolTick(pl) = [pl EXCEPT !.quarantine = q]
  BY DEF PoolTick
<1>2. q \in [Proxies -> 0..ProxyCooldown]
  BY DEF Pool
<1>3. \A p \in Proxies : pl.quarantine[p] = 0 => q[p] = 0
  OBVIOUS
<1> HIDE DEF q
<1>4. PoolTick(pl) \in Pool /\ PoolTick(pl).quarantine = q
  BY <1>1, <1>2 DEF Pool
<1> QED BY <1>3, <1>4 DEF Healthy

(* The pool a crawl starts with.                                           *)
LEMMA NewPoolType == NewPool \in Pool
BY ProxyAssumption DEF NewPool, Pool

-----------------------------------------------------------------------------
(***************************************************************************)
(* The operators of the components keep their types.                       *)
(***************************************************************************)

LEMMA ClassifyType == \A r : Classify(r) \in Classification
BY DEF Classify, Classification

LEMMA CapType ==
    ASSUME NEW attempt \in Nat
    PROVE  ExponentialCap(attempt) <= MaxDelay
<1>1. CASE MaxDelay <= BaseDelay * 2^attempt
  BY <1>1, DelayAssumption DEF ExponentialCap, Least
<1>2. CASE ~(MaxDelay <= BaseDelay * 2^attempt)
  <2>1. BaseDelay * 2^attempt \in Int
    BY DelayAssumption
  <2>2. BaseDelay * 2^attempt < MaxDelay
    BY <1>2, <2>1, DelayAssumption
  <2>3. ExponentialCap(attempt) = BaseDelay * 2^attempt
    BY <1>2 DEF ExponentialCap, Least
  <2> QED BY <2>1, <2>2, <2>3, DelayAssumption
<1> QED BY <1>1, <1>2

(* A back-off wait never exceeds the cap, whatever the server asks for.    *)
LEMMA DelayBounded ==
    ASSUME NEW attempt \in Nat, NEW retryAfter \in Nat,
           NEW delay \in ComputeDelay(attempt, retryAfter)
    PROVE  delay \in 0..MaxDelay
<1>1. PICK draw \in 0..ExponentialCap(attempt) :
            delay = Floored(draw, retryAfter)
  BY DEF ComputeDelay
<1>2. draw \in Nat
  BY <1>1
<1> QED
  BY <1>1, <1>2, DelayAssumption DEF Floored, Least, Greatest

LEMMA BreakerOps ==
    ASSUME NEW b \in Breaker
    PROVE  /\ AfterAllow(b) \in Breaker
           /\ RecordSuccess(b) \in Breaker
           /\ RecordFailure(b) \in Breaker
           /\ BreakerTick(b) \in Breaker
BY CircuitAssumption
   DEF Breaker, AfterAllow, RecordSuccess, RecordFailure, Trip, NewBreaker,
       BreakerTick

LEMMA StampedType ==
    ASSUME TypeOK, NEW r \in Request
    PROVE  /\ Stamped(r) \in Request
           /\ Stamped(r).st = r.st /\ Stamped(r).page = r.page
           /\ Stamped(r).backoff = r.backoff
           /\ Stamped(r).rotation = r.rotation
           /\ Stamped(r).netRetry = r.netRetry
           /\ Stamped(r).wake = r.wake
BY DEF TypeOK, Stamped, Request, SendsClientHints

LEMMA FreshType ==
    ASSUME NEW n \in 1..MaxPages
    PROVE  Fresh(n) \in Request
BY DownloaderAssumption, DelayAssumption DEF Fresh, Request, Pending, Settled

LEMMA FreshTraceType ==
    ASSUME NEW k \in Classification \cup {"none"},
           NEW f \in {"friendly", "blocking"}
    PROVE  FreshTrace(k, f) \in Trace
BY DEF FreshTrace, Trace

(* A request that only changes its place keeps its type.                   *)
LEMMA MovedType ==
    ASSUME NEW r \in Request, NEW st \in Pending \cup Settled
    PROVE  [r EXCEPT !.st = st] \in Request
BY DEF Request

LEMMA DownloadedType ==
    ASSUME NEW t \in Trace, NEW n \in Nat
    PROVE  [t EXCEPT !.downloads = n] \in Trace
BY DEF Trace

LEMMA AnswerKeepsBreakers ==
    ASSUME TypeOK, NEW c \in Chains, NEW r, Answered(c, r)
    PROVE  breaker' \in [Domains -> Breaker]
<1>1. breaker[DomainOf[c]] \in Breaker
  BY DownloaderAssumption DEF TypeOK
<1> QED
  BY <1>1, BreakerOps DEF Answered, TypeOK

LEMMA NoteType ==
    ASSUME TypeOK, NEW c \in Chains, NEW r, NEW wall \in Int, Note(c, r, wall)
    PROVE  trace' \in [Chains -> Trace]
<1> DEFINE faced == IF Classify(r) \in RotateOn THEN "blocking"
                                               ELSE trace[c].faced
<1>1. trace[c] \in Trace
  BY DEF TypeOK
<1>2. faced \in {"friendly", "blocking"}
  BY <1>1 DEF Trace
<1>3. trace' = [trace EXCEPT ![c] =
                    [@ EXCEPT !.last = Classify(r),
                              !.faced = faced, !.wall = wall]]
  BY DEF Note
<1> HIDE DEF faced
<1>4. [trace[c] EXCEPT !.last = Classify(r),
                       !.faced = faced, !.wall = wall] \in Trace
  BY <1>1, <1>2, ClassifyType DEF Trace
<1> QED BY <1>3, <1>4 DEF TypeOK

(* Once a server has blocked, it has.                                      *)
LEMMA NoteSticks ==
    ASSUME TypeOK, NEW c \in Chains, NEW r, NEW wall \in Int, Note(c, r, wall)
    PROVE  trace'[c].faced = IF Classify(r) \in RotateOn THEN "blocking"
                                                        ELSE trace[c].faced
BY DEF Note, TypeOK, Trace

(***************************************************************************)
(* Types.                                                                  *)
(***************************************************************************)

LEMMA TypeInit == Init => TypeOK
<1> SUFFICES ASSUME Init PROVE TypeOK
  OBVIOUS
<1>1. req \in [Chains -> Request]
  BY FreshType, DownloaderAssumption DEF Init
<1>2. breaker \in [Domains -> Breaker]
  BY CircuitAssumption DEF Init, NewBreaker, Breaker
<1>3. pool \in Pool /\ proxy \in Proxies \cup {Direct}
  BY NewPoolType, AcquirePreserves DEF Init
<1>4. bundle \in Nat /\ banEvents \in Seq(BanKinds)
  BY DEF Init
<1>5. trace \in [Chains -> Trace]
  BY FreshTraceType DEF Init
<1> QED BY <1>1, <1>2, <1>3, <1>4, <1>5 DEF TypeOK

LEMMA TypeOutbound ==
    ASSUME TypeOK, NEW c \in Chains, Outbound(c)
    PROVE  TypeOK'
<1>0. /\ req[c] \in Request /\ trace[c] \in Trace
      /\ DomainOf[c] \in Domains /\ breaker[DomainOf[c]] \in Breaker
  BY DownloaderAssumption DEF TypeOK
<1>1. CASE Admit(c)
  <2>1. [Stamped(req[c]) EXCEPT !.st = "slotted"] \in Request
    BY <1>0, StampedType DEF Request, Pending, InFlight
  <2>2. req' \in [Chains -> Request]
    BY <1>1, <2>1 DEF Admit, TypeOK
  <2>3. breaker' \in [Domains -> Breaker]
    BY <1>1, <1>0, BreakerOps DEF Admit, TypeOK
  <2>4. trace' \in [Chains -> Trace]
    BY <1>0, <1>1, DownloadedType DEF Admit, TypeOK
  <2> QED BY <1>1, <2>2, <2>3, <2>4 DEF Admit, TypeOK
<1>2. CASE Refuse(c)
  <2>1. [Stamped(req[c]) EXCEPT !.st = "skipped"] \in Request
    BY <1>0, StampedType DEF Request, Settled
  <2>2. req' \in [Chains -> Request]
    BY <1>2, <2>1 DEF Refuse, TypeOK
  <2> QED BY <1>2, <2>2 DEF Refuse, TypeOK
<1>3. CASE AdmitInfra(c)
  <2>0. [req[c] EXCEPT !.st = "slotted"] \in Request
    BY <1>0, MovedType DEF Pending, InFlight, Settled
  <2>1. req' \in [Chains -> Request]
    BY <1>3, <2>0 DEF AdmitInfra, TypeOK
  <2> QED BY <1>3, <2>1 DEF AdmitInfra, TypeOK
<1>4. CASE Send(c)
  <2>0. [req[c] EXCEPT !.st = "sent"] \in Request
    BY <1>0, MovedType DEF Pending, InFlight, Settled
  <2>1. req' \in [Chains -> Request]
    BY <1>4, <2>0 DEF Send, TypeOK
  <2>2. trace[c].downloads + 1 \in Nat
    BY <1>0 DEF Trace
  <2>3. trace' \in [Chains -> Trace]
    BY <1>0, <1>4, <2>2, DownloadedType DEF Send, TypeOK
  <2> QED BY <1>4, <2>1, <2>3 DEF Send, TypeOK
<1>5. CASE Wake(c)
  <2>0. [req[c] EXCEPT !.st = "scheduled"] \in Request
    BY <1>0, MovedType DEF Pending, InFlight, Settled
  <2>1. req' \in [Chains -> Request]
    BY <1>5, <2>0 DEF Wake, TypeOK
  <2> QED BY <1>5, <2>1 DEF Wake, TypeOK
<1> QED BY <1>1, <1>2, <1>3, <1>4, <1>5 DEF Outbound

LEMMA RotatedType ==
    ASSUME TypeOK, NEW c \in Chains, AttemptsLeft(c)
    PROVE  Rotated(req[c]) \in Request
<1>1. req[c] \in Request
  BY DEF TypeOK
<1>2. req[c].rotation + 1 \in 0..MaxAttempts
  BY <1>1, DownloaderAssumption DEF AttemptsLeft, Request
<1> QED BY <1>1, <1>2 DEF Rotated, Request, Pending

LEMMA TypeAnswer ==
    ASSUME TypeOK, NEW c \in Chains, NEW r \in Responses,
           \/ BackoffRetry(c, r) \/ CookieRetry(c, r) \/ RotateRetry(c, r)
           \/ BanGate(c, r) \/ Deliver(c, r) \/ FollowUp(c, r)
    PROVE  TypeOK'
<1>0. req[c] \in Request /\ trace[c] \in Trace /\ r \in Response
  BY DownloaderAssumption DEF TypeOK
<1>1. CASE BackoffRetry(c, r)
  <2>1. PICK delay \in ComputeDelay(req[c].backoff, r.retryAfter) :
            req' = [req EXCEPT ![c].st = "sleeping", ![c].backoff = @ + 1,
                               ![c].wake = delay]
    BY <1>1 DEF BackoffRetry
  <2>2. req[c].backoff \in 0..MaxRetries /\ r.retryAfter \in Nat
    BY <1>0 DEF Request, Response
  <2>3. delay \in 0..MaxDelay
    BY <2>2, DelayBounded, DownloaderAssumption
  <2>4. req[c].backoff + 1 \in 0..MaxRetries
    BY <1>1, <2>2, DownloaderAssumption DEF BackoffRetry, PlansBackoff
  <2>0. [req[c] EXCEPT !.st = "sleeping", !.backoff = @ + 1, !.wake = delay]
            \in Request
    BY <1>0, <2>3, <2>4 DEF Request, Pending
  <2>5. req' \in [Chains -> Request]
    BY <2>0, <2>1 DEF TypeOK
  <2>6. trace' \in [Chains -> Trace]
    BY <1>0, <1>1, NoteType DEF BackoffRetry, Trace
  <2> QED BY <1>1, <2>5, <2>6 DEF BackoffRetry, TypeOK
<1>2. CASE CookieRetry(c, r)
  <2>1. req' \in [Chains -> Request]
    BY <1>2, RotatedType DEF CookieRetry, TypeOK
  <2>2. trace' \in [Chains -> Trace]
    BY <1>0, <1>2, NoteType DEF CookieRetry, Request
  <2>3. breaker' \in [Domains -> Breaker]
    BY <1>2, AnswerKeepsBreakers DEF CookieRetry
  <2> QED BY <1>2, <2>1, <2>2, <2>3 DEF CookieRetry, TypeOK
<1>3. CASE RotateRetry(c, r)
  <2>1. req' \in [Chains -> Request]
    BY <1>3, RotatedType DEF RotateRetry, TypeOK
  <2>2. trace' \in [Chains -> Trace]
    BY <1>3, NoteType DEF RotateRetry
  <2>3. breaker' \in [Domains -> Breaker]
    BY <1>3, AnswerKeepsBreakers DEF RotateRetry
  <2>4. RecordBan(pool, proxy) \in Pool
    BY BanPreserves DEF TypeOK
  <2>5. pool' \in Pool /\ proxy' \in Proxies \cup {Direct}
    BY <1>3, <2>4, AcquirePreserves DEF RotateRetry
  <2>6. bundle' \in Nat /\ banEvents' \in Seq(BanKinds)
    BY <1>3 DEF RotateRetry, TypeOK
  <2> QED BY <2>1, <2>2, <2>3, <2>5, <2>6 DEF TypeOK
<1>4. CASE BanGate(c, r)
  <2>0. [req[c] EXCEPT !.st = "banned"] \in Request
    BY <1>0, MovedType DEF Pending, InFlight, Settled
  <2>1. req' \in [Chains -> Request]
    BY <1>4, <2>0 DEF BanGate, TypeOK
  <2>2. trace' \in [Chains -> Trace]
    BY <1>4, NoteType DEF BanGate
  <2>3. breaker' \in [Domains -> Breaker]
    BY <1>4, AnswerKeepsBreakers DEF BanGate
  <2>4. Classify(r) \in BanKinds
    BY <1>4, ClassifyType DEF BanGate, BanKinds
  <2>5. banEvents' \in Seq(BanKinds)
    BY <1>4, <2>4 DEF BanGate, TypeOK
  <2> QED BY <1>4, <2>1, <2>2, <2>3, <2>5 DEF BanGate, TypeOK
<1>5. CASE Deliver(c, r)
  <2>0. [req[c] EXCEPT !.st = "delivered"] \in Request
    BY <1>0, MovedType DEF Pending, InFlight, Settled
  <2>1. req' \in [Chains -> Request]
    BY <1>5, <2>0 DEF Deliver, TypeOK
  <2>2. trace' \in [Chains -> Trace]
    BY <1>5, NoteType DEF Deliver
  <2>3. breaker' \in [Domains -> Breaker]
    BY <1>5, AnswerKeepsBreakers DEF Deliver
  <2> QED BY <1>5, <2>1, <2>2, <2>3 DEF Deliver, TypeOK
<1>6. CASE FollowUp(c, r)
  <2>1. req[c].page + 1 \in 1..MaxPages
    BY <1>0, <1>6, DownloaderAssumption DEF FollowUp, Request
  <2>2. req' \in [Chains -> Request]
    BY <1>6, <2>1, FreshType DEF FollowUp, TypeOK
  <2>3. trace' \in [Chains -> Trace]
    BY <1>6, <1>0, FreshTraceType
       DEF FollowUp, TypeOK, Classification, Trace
  <2>4. breaker' \in [Domains -> Breaker]
    BY <1>6, AnswerKeepsBreakers DEF FollowUp
  <2> QED BY <1>6, <2>2, <2>3, <2>4 DEF FollowUp, TypeOK
<1> QED BY <1>1, <1>2, <1>3, <1>4, <1>5, <1>6

LEMMA TypeNoAnswer ==
    ASSUME TypeOK, NEW c \in Chains,
           DeliverInfra(c) \/ NetworkRetry(c) \/ NetworkFailure(c)
    PROVE  TypeOK'
<1>0. req[c] \in Request /\ trace[c] \in Trace
  BY DEF TypeOK
<1>1. CASE DeliverInfra(c)
  <2>0. [req[c] EXCEPT !.st = "delivered"] \in Request
    BY <1>0, MovedType DEF Pending, InFlight, Settled
  <2>1. req' \in [Chains -> Request]
    BY <1>1, <2>0 DEF DeliverInfra, TypeOK
  <2> QED BY <1>1, <2>1 DEF DeliverInfra, TypeOK
<1>2. CASE NetworkRetry(c)
  <2>1. req[c].netRetry + 1 \in 0..MaxNetRetries
    BY <1>0, <1>2, DownloaderAssumption DEF NetworkRetry, Request
  <2>0. [req[c] EXCEPT !.st = "scheduled", !.netRetry = @ + 1] \in Request
    BY <1>0, <2>1 DEF Request, Pending
  <2>2. req' \in [Chains -> Request]
    BY <1>2, <2>0 DEF NetworkRetry, TypeOK
  <2>3. trace' \in [Chains -> Trace]
    BY <1>2 DEF NetworkRetry, TypeOK, Trace
  <2> QED BY <1>2, <2>2, <2>3 DEF NetworkRetry, TypeOK
<1>3. CASE NetworkFailure(c)
  <2>0. [req[c] EXCEPT !.st = "failed"] \in Request
    BY <1>0, MovedType DEF Pending, InFlight, Settled
  <2>1. req' \in [Chains -> Request]
    BY <1>3, <2>0 DEF NetworkFailure, TypeOK
  <2>2. trace' \in [Chains -> Trace]
    BY <1>3 DEF NetworkFailure, TypeOK, Trace
  <2> QED BY <1>3, <2>1, <2>2 DEF NetworkFailure, TypeOK
<1> QED BY <1>1, <1>2, <1>3

LEMMA TypeTick == TypeOK /\ Tick => TypeOK'
<1> SUFFICES ASSUME TypeOK, Tick PROVE TypeOK'
  OBVIOUS
<1>1. req' \in [Chains -> Request]
  <2>1. ASSUME NEW c \in Chains
        PROVE  [req[c] EXCEPT !.wake = IF @ > 0 THEN @ - 1 ELSE 0] \in Request
    <3>1. req[c] \in Request
      BY DEF TypeOK
    <3>2. (IF req[c].wake > 0 THEN req[c].wake - 1 ELSE 0) \in 0..MaxDelay
      BY <3>1, DelayAssumption DEF Request
    <3> QED BY <3>1, <3>2 DEF Request
  <2> QED BY <2>1 DEF Tick
<1>2. breaker' \in [Domains -> Breaker]
  BY BreakerOps DEF Tick, TypeOK
<1>3. pool' \in Pool
  BY TickHeals DEF Tick, TypeOK
<1> QED BY <1>1, <1>2, <1>3 DEF Tick, TypeOK

LEMMA TypeStep == TypeOK /\ [Next]_vars => TypeOK'
<1> SUFFICES ASSUME TypeOK, [Next]_vars PROVE TypeOK'
  OBVIOUS
<1>1. ASSUME NEW c \in Chains, Outbound(c) PROVE TypeOK'
  BY <1>1, TypeOutbound
<1>2. ASSUME NEW c \in Chains, Inbound(c) PROVE TypeOK'
  BY <1>2, TypeAnswer, TypeNoAnswer DEF Inbound
<1>3. CASE Tick
  BY <1>3, TypeTick
<1>4. CASE UNCHANGED vars
  BY <1>4 DEF vars, TypeOK
<1> QED BY <1>1, <1>2, <1>3, <1>4 DEF Next

(* Type correctness: the retry counters in meta stay within the settings,  *)
(* whatever order backoff, rotation and network retries come in.           *)
THEOREM TypeCorrect == Spec => []TypeOK
<1>1. Init => TypeOK
  BY TypeInit
<1>2. TypeOK /\ [Next]_vars => TypeOK'
  BY TypeStep
<1> QED BY <1>1, <1>2, PTL DEF Spec

-----------------------------------------------------------------------------
(***************************************************************************)
(* The download budget.                                                    *)
(***************************************************************************)

(* A step of one chain leaves every other chain's request alone.           *)
LEMMA Local ==
    ASSUME TypeOK, NEW c \in Chains, Outbound(c) \/ Inbound(c),
           NEW d \in Chains, d # c
    PROVE  req'[d] = req[d] /\ trace'[d] = trace[d]
<1>1. CASE Outbound(c)
  BY <1>1 DEF TypeOK, Outbound, Admit, Refuse, AdmitInfra, Send, Wake
<1>2. CASE Inbound(c)
  BY <1>2 DEF TypeOK, Inbound, BackoffRetry, CookieRetry, RotateRetry, BanGate,
        Deliver, FollowUp, DeliverInfra, NetworkRetry, NetworkFailure, Note
<1> QED BY <1>1, <1>2

LEMMA PaidOutbound ==
    ASSUME TypeOK, NEW c \in Chains, Outbound(c), Paid(req[c], trace[c])
    PROVE  Paid(req'[c], trace'[c])
<1>0. req[c] \in Request /\ trace[c] \in Trace
  BY DEF TypeOK
<1>1. CASE Admit(c)
  <2>1. req'[c] = [Stamped(req[c]) EXCEPT !.st = "slotted"]
    BY <1>1 DEF Admit, TypeOK
  <2>2. trace'[c].downloads = trace[c].downloads
    BY <1>0, <1>1 DEF Admit, TypeOK, Trace
  <2>3. Stamped(req[c]) \in Request
    BY <1>0, StampedType
  <2>4. req[c].st = "scheduled"
    BY <1>1 DEF Admit
  <2> QED BY <1>0, <2>1, <2>2, <2>3, <2>4, StampedType DEF Paid, Request
<1>2. CASE Refuse(c)
  <2>1. req'[c] = [Stamped(req[c]) EXCEPT !.st = "skipped"]
    BY <1>2 DEF Refuse, TypeOK
  <2>2. trace'[c] = trace[c] /\ req[c].st = "scheduled"
    BY <1>2 DEF Refuse
  <2>3. Stamped(req[c]) \in Request
    BY <1>0, StampedType
  <2> QED BY <1>0, <2>1, <2>2, <2>3, StampedType DEF Paid, Request
<1>3. CASE AdmitInfra(c)
  <2>1. /\ req'[c] = [req[c] EXCEPT !.st = "slotted"]
        /\ trace'[c] = trace[c] /\ req[c].st = "scheduled"
    BY <1>3 DEF AdmitInfra, TypeOK
  <2> QED BY <1>0, <2>1 DEF Paid, Request
<1>4. CASE Send(c)
  <2>1. /\ req'[c] = [req[c] EXCEPT !.st = "sent"]
        /\ req[c].st = "slotted"
        /\ trace'[c] = [trace[c] EXCEPT !.downloads = @ + 1]
    BY <1>4 DEF Send, TypeOK
  <2> QED BY <1>0, <2>1 DEF Paid, Request, Trace
<1>5. CASE Wake(c)
  <2>1. /\ req'[c] = [req[c] EXCEPT !.st = "scheduled"]
        /\ trace'[c] = trace[c] /\ req[c].st = "sleeping"
    BY <1>5 DEF Wake, TypeOK
  <2> QED BY <1>0, <2>1 DEF Paid, Request
<1> QED BY <1>1, <1>2, <1>3, <1>4, <1>5 DEF Outbound

LEMMA NoteKeepsDownloads ==
    ASSUME TypeOK, NEW c \in Chains, NEW r, NEW wall, Note(c, r, wall)
    PROVE  trace'[c].downloads = trace[c].downloads
BY DEF Note, TypeOK, Trace

LEMMA PaidInbound ==
    ASSUME TypeOK, NEW c \in Chains, Inbound(c), Paid(req[c], trace[c])
    PROVE  Paid(req'[c], trace'[c])
<1>0. req[c] \in Request /\ trace[c] \in Trace
  BY DEF TypeOK
<1>1. ASSUME NEW r \in Responses, BackoffRetry(c, r)
      PROVE  Paid(req'[c], trace'[c])
  <2>1. /\ req'[c].st = "sleeping" /\ req'[c].backoff = req[c].backoff + 1
        /\ req'[c].rotation = req[c].rotation
        /\ req'[c].netRetry = req[c].netRetry /\ req[c].st = "sent"
    BY <1>0, <1>1 DEF BackoffRetry, TypeOK, Request
  <2>2. trace'[c].downloads = trace[c].downloads
    BY <1>1, NoteKeepsDownloads DEF BackoffRetry
  <2> QED BY <1>0, <2>1, <2>2 DEF Paid, Request
<1>2. ASSUME NEW r \in Responses, CookieRetry(c, r) \/ RotateRetry(c, r)
      PROVE  Paid(req'[c], trace'[c])
  <2>1. req'[c] = Rotated(req[c]) /\ req[c].st = "sent"
    BY <1>2 DEF CookieRetry, RotateRetry, Answered, TypeOK
  <2>2. trace'[c].downloads = trace[c].downloads
    BY <1>2, NoteKeepsDownloads DEF CookieRetry, RotateRetry
  <2> QED BY <1>0, <2>1, <2>2 DEF Paid, Request, Rotated
<1>3. ASSUME NEW r \in Responses, BanGate(c, r) \/ Deliver(c, r)
      PROVE  Paid(req'[c], trace'[c])
  <2>1. /\ req'[c].st \in {"banned", "delivered"} /\ req[c].st = "sent"
        /\ req'[c].backoff = req[c].backoff
        /\ req'[c].rotation = req[c].rotation
        /\ req'[c].netRetry = req[c].netRetry
    BY <1>0, <1>3 DEF BanGate, Deliver, Answered, TypeOK, Request
  <2>2. trace'[c].downloads = trace[c].downloads
    BY <1>3, NoteKeepsDownloads DEF BanGate, Deliver
  <2> QED BY <1>0, <2>1, <2>2 DEF Paid, Request
<1>4. ASSUME NEW r \in Responses, FollowUp(c, r)
      PROVE  Paid(req'[c], trace'[c])
  <2>1. req'[c] = Fresh(req[c].page + 1) /\ trace'[c].downloads = 0
    BY <1>4 DEF FollowUp, TypeOK, FreshTrace
  <2> QED BY <2>1 DEF Paid, Fresh, FreshTrace
<1>5. CASE DeliverInfra(c)
  <2>1. /\ req'[c] = [req[c] EXCEPT !.st = "delivered"]
        /\ trace'[c] = trace[c] /\ req[c].st = "sent"
    BY <1>5 DEF DeliverInfra, TypeOK
  <2> QED BY <1>0, <2>1 DEF Paid, Request
<1>6. CASE NetworkRetry(c)
  <2>1. /\ req'[c] = [req[c] EXCEPT !.st = "scheduled", !.netRetry = @ + 1]
        /\ trace'[c] = trace[c]
        /\ req[c].st = "sent"
    BY <1>6 DEF NetworkRetry, TypeOK
  <2> QED BY <1>0, <2>1 DEF Paid, Request, Trace
<1>7. CASE NetworkFailure(c)
  <2>1. /\ req'[c] = [req[c] EXCEPT !.st = "failed"]
        /\ trace'[c] = trace[c]
        /\ req[c].st = "sent"
    BY <1>7 DEF NetworkFailure, TypeOK
  <2> QED BY <1>0, <2>1 DEF Paid, Request, Trace
<1> QED BY <1>1, <1>2, <1>3, <1>4, <1>5, <1>6, <1>7 DEF Inbound

LEMMA PaidStep == TypeOK /\ AllPaid /\ [Next]_vars => AllPaid'
<1> SUFFICES ASSUME TypeOK, AllPaid, [Next]_vars, NEW d \in Chains
             PROVE  Paid(req'[d], trace'[d])
  BY DEF AllPaid, Paid
<1>0. Paid(req[d], trace[d])
  BY DEF AllPaid
<1>1. ASSUME NEW c \in Chains, Outbound(c) \/ Inbound(c)
      PROVE  Paid(req'[d], trace'[d])
  <2>1. CASE c = d
    BY <1>0, <1>1, <2>1, PaidOutbound, PaidInbound
  <2>2. CASE c # d
    <3>1. req'[d] = req[d] /\ trace'[d] = trace[d]
      BY <1>1, <2>2, Local
    <3> QED BY <1>0, <3>1
  <2> QED BY <2>1, <2>2
<1>2. CASE Tick
  <2>1. req[d] \in Request
    BY DEF TypeOK
  <2>2. /\ req'[d] = [req[d] EXCEPT !.wake = IF @ > 0 THEN @ - 1 ELSE 0]
        /\ trace'[d] = trace[d]
    BY <1>2 DEF Tick
  <2> QED BY <1>0, <2>1, <2>2 DEF Paid, Request
<1>3. CASE UNCHANGED vars
  BY <1>0, <1>3 DEF vars
<1> QED BY <1>1, <1>2, <1>3 DEF Next

LEMMA PaidAlways == Spec => []AllPaid
<1>1. Init => AllPaid
  BY DEF Init, AllPaid, Paid, Fresh, FreshTrace
<1>2. TypeOK /\ AllPaid /\ [Next]_vars => AllPaid'
  BY PaidStep
<1> QED BY <1>1, <1>2, TypeCorrect, PTL DEF Spec

(* No page costs more downloads than one plus the three retry bounds,      *)
(* because backoff, rotation, cookie replay and network retries each spend *)
(* a counter that travels with the request and none is ever reset.         *)
THEOREM BudgetKept == Spec => []WithinBudget
<1>1. TypeOK /\ AllPaid => WithinBudget
  <2> SUFFICES ASSUME TypeOK, AllPaid, NEW c \in Chains
               PROVE  trace[c].downloads <= Budget
    BY DEF WithinBudget
  <2>1. req[c] \in Request /\ Paid(req[c], trace[c])
    BY DEF TypeOK, AllPaid
  <2> QED BY <2>1, DownloaderAssumption DEF Paid, Request, Budget
<1> QED BY <1>1, PaidAlways, TypeCorrect, PTL

=============================================================================
