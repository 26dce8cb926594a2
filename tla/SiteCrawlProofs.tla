-------------------------- MODULE SiteCrawlProofs --------------------------
(***************************************************************************)
(* What holds of a crawl of one shop for every catalogue, page size, set   *)
(* of required fields stated, burst, request budget and setting of the     *)
(* resilience layer, whatever answers are lost on the way.                 *)
(***************************************************************************)
EXTENDS SiteCrawl, DownloaderSafetyProofs, SequenceTheorems

(***************************************************************************)
(* The strengthening.                                                      *)
(***************************************************************************)

(* No jar is newer than the identity in use.                               *)
JarInv == req[Chain].jar \in 0..bundle

(* Why PagesBounded: by number, a page that is followed is not empty; by   *)
(* cursor, every page leaves one product less beyond it.                   *)
PageInv ==
    /\ Cardinality(listed) <= Cardinality(Catalogue) + changes
    /\ PagesBounded
    /\ site.kind = "graphql" =>
            (req[Chain].page - 1) + Cardinality(Beyond(after))
                <= Cardinality(Catalogue) + changes
    /\ site.kind = "html" => req[Chain].page = 1

(* What lies behind the page or the cursor, and in the end all of it.      *)
Passed ==
    IF req[Chain].st = "delivered" THEN listed
    ELSE IF site.kind = "rest"
    THEN {i \in listed : Rank(listed, i) <= (req[Chain].page - 1) * PageSize}
    ELSE IF site.kind = "graphql" THEN {i \in listed : i <= after}
    ELSE {}

(* What lies behind was yielded if it is whole, and each of it was counted *)
(* once, as long as the answers have the expected envelope.                *)
PassedInv ==
    /\ changes = 0 => always = listed /\ yielded \subseteq listed \cap Whole
    /\ site.scenario # "errors" =>
        /\ changes = 0 \/ site.kind # "rest"
                => Passed \cap always \cap Whole \subseteq yielded
        /\ changes = 0 => /\ seen = Cardinality(Passed)
                          /\ mapped = Cardinality(Passed \cap Whole)

Unbanned == req[Chain].st # "banned" /\ banEvents = <<>>

BannedAs(kind) ==
    /\ req[Chain].st # "delivered" /\ yielded = {}
    /\ banEvents = IF req[Chain].st = "banned" THEN <<kind>> ELSE <<>>

(* What an adversary can bring about.                                      *)
HarmInv ==
    /\ req[Chain].st = "banned" => banEvents # <<>>
    /\ site.scenario = "captcha" => BannedAs("captcha")
    /\ site.scenario = "soft_ban" => BannedAs("empty")
    /\ site.scenario = "drift" => Unbanned /\ yielded = {} /\ mapped = 0

(* The identity the next request goes out with.                            *)
CurrentIdentity == IF bundle = 0 THEN "contact" ELSE ProfileOf(bundle - 1)

(* A rotation makes up for the budget that was used up before this page, a *)
(* further one for each answer lost since; the last is to a fresh identity.*)
BudgetInv ==
    /\ \A k \in 1..Len(Profiles) : k > bundle => prior[Profiles[k]] = 0
    /\ req[Chain].rotation <= req[Chain].netRetry + 1
    /\ req[Chain].rotation = req[Chain].netRetry + 1
        /\ req[Chain].st \in Pending => prior[CurrentIdentity] = 0

(* How each recoverable scenario is recovered from.                        *)
RecoverInv ==
    Recoverable =>
        /\ Unbanned
        /\ site.scenario = "cookie_wall" =>
            bundle = 0 /\ (req[Chain].rotation > 0 => 0 \in cookies)
        /\ site.scenario = "rate_limited" =>
            bundle = 0 /\ req[Chain].backoff <= prior["contact"]
        /\ site.scenario = "block_after_n" => BudgetInv

-----------------------------------------------------------------------------
(***************************************************************************)
(* A crawl of one shop is a behaviour of Downloader.                       *)
(***************************************************************************)

LEMMA OneChain ==
    /\ Chains = {Chain} /\ Crawl = Chains /\ Chain \in Crawl
    /\ OneCrawlChain /\ OneChainPerDomain
BY SiteAssumption DEF Chain, Crawl, OneCrawlChain, OneChainPerDomain

LEMMA AnswerType ==
    ASSUME NEW s, NEW n, NEW b
    PROVE  Respond(s, n, b) \in HarnessAnswers /\ Respond(s, n, b) \in Responses
<1>1. Respond(s, n, b).setCookie \in BOOLEAN
  BY DEF Respond, Walls
<1>2. Respond(s, n, b) \in HarnessAnswers
  BY <1>1 DEF Respond, HarnessAnswers, BodyClass, Walls
<1> QED BY <1>2, SiteAssumption

LEMMA SiteSteps ==
    ASSUME [SiteNext]_crawlVars
    PROVE  \/ CrawlStep(Chain) \/ Pass \/ UNCHANGED crawlVars
           \/ Recover(Chain) \/ Reach(Chain) \/ Lose(Chain)
           \/ \E i \in Items : Change(i)
BY OneChain DEF SiteNext, ServerStep

LEMMA StepRefines == [SiteNext]_crawlVars => [Next]_vars
<1> SUFFICES ASSUME [SiteNext]_crawlVars PROVE [Next]_vars
  OBVIOUS
<1>0. AnswerTo(Chain) \in Responses
  BY AnswerType DEF AnswerTo
<1>1. CASE CrawlStep(Chain)
  BY <1>1, OneChain DEF CrawlStep, Next
<1>2. CASE Pass
  BY <1>2 DEF Pass, Next
<1>3. CASE UNCHANGED crawlVars
  BY <1>3 DEF crawlVars
<1>4. CASE Recover(Chain)
  <2>1. Inbound(Chain)
    BY <1>0, <1>4 DEF Recover, Inbound
  <2> QED BY <2>1, OneChain DEF Next
<1>5. CASE Reach(Chain)
  <2>1. Inbound(Chain)
    BY <1>0, <1>5 DEF Reach, Inbound
  <2> QED BY <2>1, OneChain DEF Next
<1>6. CASE Lose(Chain)
  <2>1. Inbound(Chain)
    BY <1>6 DEF Lose, Inbound
  <2> QED BY <2>1, OneChain DEF Next
<1>7. CASE \E i \in Items : Change(i)
  BY <1>7 DEF Change
<1> QED BY <1>1, <1>2, <1>3, <1>4, <1>5, <1>6, <1>7, SiteSteps

(* Whatever Downloader promises of any server and any paging holds of the  *)
(* harness and the shipped extractors: one whole crawl is a Downloader     *)
(* behaviour of one chain.                                                 *)
THEOREM SiteRefines == SiteSpec => Spec
<1>1. SiteInit => Init
  BY DEF SiteInit
<1> QED BY <1>1, StepRefines, PTL DEF SiteSpec, Spec

LEMMA DownloaderHolds == SiteSpec => [](TypeOK /\ AllCarry)
BY SiteRefines, TypeCorrect, CarryAlways, OneChain, PTL

-----------------------------------------------------------------------------
(***************************************************************************)
(* What a step does to the one request.                                    *)
(***************************************************************************)

Quiet ==
    /\ UNCHANGED <<site, listed, prior, cookies, after, yielded, seen, mapped,
                   changes, always, bundle, banEvents>>
    /\ req'[Chain].page = req[Chain].page
    /\ req'[Chain].backoff = req[Chain].backoff
    /\ req'[Chain].rotation = req[Chain].rotation
    /\ req'[Chain].netRetry = req[Chain].netRetry
    /\ req'[Chain].jar \in {req[Chain].jar, bundle}
    /\ \/ req'[Chain].st = req[Chain].st
       \/ req[Chain].st \in Pending /\ req'[Chain].st \in Pending \cup {"skipped"}

LEMMA QuietSteps ==
    ASSUME TypeOK, CrawlStep(Chain) \/ Pass \/ UNCHANGED crawlVars
    PROVE  Quiet
<1>0. Chain \in Chains /\ req[Chain] \in Request
  BY OneChain DEF TypeOK
<1>1. CASE CrawlStep(Chain)
  <2>1. /\ Outbound(Chain)
        /\ UNCHANGED <<site, listed, prior, cookies, after, yielded, seen,
                       mapped, changes, always, bundle, banEvents>>
    BY <1>1 DEF CrawlStep, siteVars, Outbound, Admit, Refuse, AdmitInfra, Send,
          Wake
  <2>2. ASSUME NEW st \in {"slotted", "skipped"}, req[Chain].st = "scheduled",
               req' = [req EXCEPT ![Chain] = [Stamped(@) EXCEPT !.st = st]]
        PROVE  Quiet
    <3>1. req'[Chain] = [Stamped(req[Chain]) EXCEPT !.st = st]
      BY <1>0, <2>2 DEF TypeOK
    <3>2. /\ req'[Chain].st = st /\ req'[Chain].page = req[Chain].page
          /\ req'[Chain].backoff = req[Chain].backoff
          /\ req'[Chain].rotation = req[Chain].rotation
          /\ req'[Chain].netRetry = req[Chain].netRetry
          /\ req'[Chain].jar \in {req[Chain].jar, bundle}
      BY <1>0, <3>1 DEF Stamped, Request
    <3> QED BY <2>1, <2>2, <3>2 DEF Quiet, Pending, InFlight
  <2>3. ASSUME NEW st \in {"slotted", "sent", "scheduled"},
               req[Chain].st \in {"scheduled", "slotted", "sleeping"},
               req' = [req EXCEPT ![Chain].st = st]
        PROVE  Quiet
    <3>1. req'[Chain] = [req[Chain] EXCEPT !.st = st]
      BY <1>0, <2>3 DEF TypeOK
    <3> QED BY <1>0, <2>1, <2>3, <3>1 DEF Quiet, Request, Pending, InFlight
  <2> QED BY <2>1, <2>2, <2>3 DEF Outbound, Admit, Refuse, AdmitInfra, Send,
            Wake
<1>2. CASE Pass
  <2>1. req'[Chain] = [req[Chain] EXCEPT !.wake = IF @ > 0 THEN @ - 1 ELSE 0]
    BY <1>0, <1>2 DEF Pass, Tick
  <2>2. /\ req'[Chain].page = req[Chain].page
        /\ req'[Chain].backoff = req[Chain].backoff
        /\ req'[Chain].rotation = req[Chain].rotation
        /\ req'[Chain].netRetry = req[Chain].netRetry
        /\ req'[Chain].jar = req[Chain].jar /\ req'[Chain].st = req[Chain].st
    BY <1>0, <2>1 DEF Request
  <2> QED BY <1>2, <2>2 DEF Quiet, Pass, Tick, siteVars
<1>3. CASE UNCHANGED crawlVars
  BY <1>3 DEF Quiet, crawlVars, vars, siteVars
<1> QED BY <1>1, <1>2, <1>3

(* A lost answer.                                                          *)
Lost ==
    /\ UNCHANGED <<site, listed, cookies, after, yielded, seen, mapped,
                   changes, always, bundle, banEvents>>
    /\ prior' \in {prior, Bump(prior, IdentityOf(req[Chain]))}
    /\ req[Chain].st = "sent"
    /\ req'[Chain].page = req[Chain].page
    /\ req'[Chain].backoff = req[Chain].backoff
    /\ req'[Chain].rotation = req[Chain].rotation
    /\ req'[Chain].jar = req[Chain].jar
    /\ \/ /\ req'[Chain].st = "scheduled"
          /\ req'[Chain].netRetry = req[Chain].netRetry + 1
       \/ req'[Chain].st = "failed" /\ req'[Chain].netRetry = req[Chain].netRetry

LEMMA LoseSteps == ASSUME TypeOK, Lose(Chain) PROVE Lost
<1>0. Chain \in Chains /\ req[Chain] \in Request
  BY OneChain DEF TypeOK
<1>1. /\ UNCHANGED <<site, listed, cookies, after, yielded, seen, mapped,
                     changes, always, bundle, banEvents>>
      /\ prior' \in {prior, Bump(prior, IdentityOf(req[Chain]))}
  BY DEF Lose, Count, NetworkRetry, NetworkFailure
<1>2. CASE NetworkRetry(Chain)
  <2>1. /\ req'[Chain] = [req[Chain] EXCEPT !.st = "scheduled",
                                            !.netRetry = @ + 1]
        /\ req[Chain].st = "sent"
    BY <1>0, <1>2 DEF NetworkRetry, TypeOK
  <2> QED BY <1>0, <1>1, <2>1 DEF Lost, Request
<1>3. CASE NetworkFailure(Chain)
  <2>1. /\ req'[Chain] = [req[Chain] EXCEPT !.st = "failed"]
        /\ req[Chain].st = "sent"
    BY <1>0, <1>3 DEF NetworkFailure, TypeOK
  <2> QED BY <1>0, <1>1, <2>1 DEF Lost, Request
<1> QED BY <1>2, <1>3 DEF Lose

(* An answer the resilience layer keeps to itself: one of four paths.      *)
Kept(r) ==
    /\ UNCHANGED <<site, listed, after, yielded, seen, mapped, changes, always>>
    /\ prior' = Bump(prior, IdentityOf(req[Chain]))
    /\ cookies' = IF r.setCookie THEN cookies \cup {req[Chain].jar} ELSE cookies
    /\ req[Chain].st = "sent"
    /\ req'[Chain].page = req[Chain].page
    /\ req'[Chain].netRetry = req[Chain].netRetry
    /\ req'[Chain].jar = req[Chain].jar

BackedOff(r) ==
    /\ r.status \in RetryableStatuses
    /\ req'[Chain].st = "sleeping"
    /\ req'[Chain].backoff = req[Chain].backoff + 1
    /\ req'[Chain].rotation = req[Chain].rotation
    /\ UNCHANGED <<bundle, banEvents>>

Replayed(r) ==
    /\ CookieWall(r) /\ AttemptsLeft(Chain)
    /\ req'[Chain].st = "scheduled"
    /\ req'[Chain].backoff = req[Chain].backoff
    /\ req'[Chain].rotation = req[Chain].rotation + 1
    /\ UNCHANGED <<bundle, banEvents>>

Escalated(r) ==
    /\ Classify(r) \in RotateOn /\ ~CookieWall(r) /\ AttemptsLeft(Chain)
    /\ req'[Chain].st = "scheduled"
    /\ req'[Chain].backoff = req[Chain].backoff
    /\ req'[Chain].rotation = req[Chain].rotation + 1
    /\ bundle' = bundle + 1 /\ banEvents' = banEvents

Gated(r) ==
    /\ ~PlansBackoff(Chain, r) /\ Classify(r) # "ok"
    /\ ~(Classify(r) \in RotateOn /\ AttemptsLeft(Chain))
    /\ req'[Chain].st = "banned"
    /\ req'[Chain].backoff = req[Chain].backoff
    /\ req'[Chain].rotation = req[Chain].rotation
    /\ bundle' = bundle /\ banEvents' = Append(banEvents, Classify(r))

LEMMA RecoverSteps ==
    ASSUME TypeOK, Recover(Chain)
    PROVE  LET r == AnswerTo(Chain)
           IN  Kept(r) /\ (BackedOff(r) \/ Replayed(r) \/ Escalated(r) \/ Gated(r))
<1> DEFINE r == AnswerTo(Chain)
           q == req[Chain]
<1>0. Chain \in Chains /\ q \in Request /\ q.st = "sent"
  BY OneChain DEF TypeOK, Recover, Answers
<1>1. /\ UNCHANGED <<site, listed, after, yielded, seen, mapped, changes, always>>
      /\ prior' = Bump(prior, IdentityOf(req[Chain]))
      /\ cookies' = IF r.setCookie THEN cookies \cup {q.jar} ELSE cookies
  BY DEF Recover, Count, KeepCookie, ParseNothing
<1>2. \/ BackoffRetry(Chain, r) \/ CookieRetry(Chain, r)
      \/ RotateRetry(Chain, r) \/ BanGate(Chain, r)
  BY DEF Recover
<1> HIDE DEF r
<1>3. CASE BackoffRetry(Chain, r)
  <2>1. PICK delay : req' = [req EXCEPT ![Chain].st = "sleeping",
                                        ![Chain].backoff = @ + 1,
                                        ![Chain].wake = delay]
    BY <1>3 DEF BackoffRetry
  <2>2. /\ req'[Chain].st = "sleeping" /\ req'[Chain].backoff = q.backoff + 1
        /\ req'[Chain].rotation = q.rotation /\ req'[Chain].page = q.page
        /\ req'[Chain].netRetry = q.netRetry /\ req'[Chain].jar = q.jar
    BY <1>0, <2>1 DEF TypeOK, Request
  <2>3. BackedOff(r)
    BY <1>3, <2>2 DEF BackoffRetry, BackedOff, PlansBackoff
  <2> QED BY <1>0, <1>1, <2>2, <2>3 DEF Kept, r
<1>4. CASE CookieRetry(Chain, r) \/ RotateRetry(Chain, r)
  <2>1. req'[Chain] = Rotated(q)
    BY <1>0, <1>4 DEF CookieRetry, RotateRetry, TypeOK
  <2>2. /\ req'[Chain].st = "scheduled" /\ req'[Chain].backoff = q.backoff
        /\ req'[Chain].rotation = q.rotation + 1 /\ req'[Chain].page = q.page
        /\ req'[Chain].netRetry = q.netRetry /\ req'[Chain].jar = q.jar
    BY <1>0, <2>1 DEF Rotated, Request
  <2>3. Replayed(r) \/ Escalated(r)
    BY <1>4, <2>2 DEF CookieRetry, RotateRetry, Replayed, Escalated
  <2> QED BY <1>0, <1>1, <2>2, <2>3 DEF Kept, r
<1>5. CASE BanGate(Chain, r)
  <2>1. req'[Chain] = [q EXCEPT !.st = "banned"]
    BY <1>0, <1>5 DEF BanGate, TypeOK
  <2>2. /\ req'[Chain].st = "banned" /\ req'[Chain].backoff = q.backoff
        /\ req'[Chain].rotation = q.rotation /\ req'[Chain].page = q.page
        /\ req'[Chain].netRetry = q.netRetry /\ req'[Chain].jar = q.jar
    BY <1>0, <2>1 DEF Request
  <2>3. Gated(r)
    BY <1>5, <2>2 DEF BanGate, Gated, Answered
  <2> QED BY <1>0, <1>1, <2>2, <2>3 DEF Kept, r
<1> QED BY <1>2, <1>3, <1>4, <1>5

(* An answer that reaches parse(), with another page to come or not.       *)
Parsed(content) ==
    /\ UNCHANGED <<site, listed, changes, always, bundle, banEvents>>
    /\ prior' = Bump(prior, IdentityOf(req[Chain]))
    /\ cookies' = IF AnswerTo(Chain).setCookie
                  THEN cookies \cup {req[Chain].jar} ELSE cookies
    /\ req[Chain].st = "sent" /\ Classify(AnswerTo(Chain)) = "ok"
    /\ Parse(content)
    /\ IF Follows(site.kind, content)
       THEN req'[Chain] = Fresh(req[Chain].page + 1)
       ELSE /\ req'[Chain].st = "delivered"
            /\ req'[Chain].page = req[Chain].page
            /\ req'[Chain].backoff = req[Chain].backoff
            /\ req'[Chain].rotation = req[Chain].rotation
            /\ req'[Chain].netRetry = req[Chain].netRetry
            /\ req'[Chain].jar = req[Chain].jar

LEMMA ReachSteps ==
    ASSUME TypeOK, Reach(Chain)
    PROVE  \E content \in Contents(req[Chain]) : Parsed(content)
<1> DEFINE r == AnswerTo(Chain)
           q == req[Chain]
<1>0. Chain \in Chains /\ q \in Request /\ q.st = "sent"
  BY OneChain DEF TypeOK, Reach, Answers
<1>1. PICK content \in Contents(q) :
        /\ IF Follows(site.kind, content) THEN FollowUp(Chain, r)
                                          ELSE Deliver(Chain, r)
        /\ Parse(content)
  BY DEF Reach
<1>2. /\ UNCHANGED <<site, listed, changes, always>>
      /\ prior' = Bump(prior, IdentityOf(q))
      /\ cookies' = IF r.setCookie THEN cookies \cup {q.jar} ELSE cookies
  BY DEF Reach, Count, KeepCookie
<1> HIDE DEF r
<1>3. CASE Follows(site.kind, content)
  <2>1. /\ req'[Chain] = Fresh(q.page + 1) /\ Classify(r) = "ok"
        /\ UNCHANGED <<bundle, banEvents>>
    BY <1>0, <1>1, <1>3 DEF FollowUp, TypeOK
  <2> QED BY <1>0, <1>1, <1>2, <1>3, <2>1 DEF Parsed, r
<1>4. CASE ~Follows(site.kind, content)
  <2>1. /\ req'[Chain] = [q EXCEPT !.st = "delivered"] /\ Classify(r) = "ok"
        /\ UNCHANGED <<bundle, banEvents>>
    BY <1>0, <1>1, <1>4 DEF Deliver, TypeOK
  <2>2. /\ req'[Chain].st = "delivered" /\ req'[Chain].page = q.page
        /\ req'[Chain].backoff = q.backoff /\ req'[Chain].rotation = q.rotation
        /\ req'[Chain].netRetry = q.netRetry /\ req'[Chain].jar = q.jar
    BY <1>0, <2>1 DEF Request
  <2> QED BY <1>0, <1>1, <1>2, <1>4, <2>1, <2>2 DEF Parsed, r
<1> QED BY <1>3, <1>4

(* The catalogue changes.                                                  *)
Changed(i) ==
    /\ UNCHANGED <<site, prior, cookies, after, yielded, seen, mapped, req,
                   bundle, banEvents>>
    /\ req[Chain].st \notin Settled
    /\ changes < MaxChanges /\ changes' = changes + 1
    /\ listed' = IF i \in listed THEN listed \ {i} ELSE listed \cup {i}
    /\ always' = always \cap listed'

(* The steps of a crawl, as the invariants see them.                       *)
LEMMA Effects ==
    ASSUME TypeOK, [SiteNext]_crawlVars
    PROVE  \/ Quiet \/ Lost
           \/ LET r == AnswerTo(Chain)
              IN  Kept(r) /\ (BackedOff(r) \/ Replayed(r) \/ Escalated(r) \/ Gated(r))
           \/ \E content \in Contents(req[Chain]) : Parsed(content)
           \/ \E i \in Items : Changed(i)
<1>1. ASSUME NEW i \in Items, Change(i) PROVE Changed(i)
  BY <1>1 DEF Change, Changed, vars, Ended
<1> QED BY <1>1, SiteSteps, QuietSteps, LoseSteps, RecoverSteps, ReachSteps

-----------------------------------------------------------------------------
(***************************************************************************)
(* What an answer holds.                                                   *)
(***************************************************************************)

LEMMA ItemsFinite ==
    ASSUME NEW S \in SUBSET Items
    PROVE  IsFiniteSet(S) /\ Cardinality(S) \in Nat /\ S \in SUBSET Nat /\ 0 \notin S
<1>1. IsFiniteSet(S)
  BY ItemsAssumption, FS_Subset
<1> QED BY <1>1, ItemsAssumption, FS_CardinalityType

LEMMA EntriesListed == EntriesOf(req[Chain]) \subseteq listed
BY DEF EntriesOf, HappyPage, Beyond

LEMMA ContentOf ==
    ASSUME NEW content \in Contents(req[Chain])
    PROVE  /\ content.entries = EntriesOf(req[Chain])
           /\ content.stated = StatedNow
           /\ content.end = EndCursor(EntriesOf(req[Chain]))
           /\ content.envelope \in BOOLEAN
           /\ site.scenario # "errors" => content.envelope
BY DEF Contents

(* The cursor of a page that others follow is its last product.            *)
LEMMA EndIsLast ==
    ASSUME listed \subseteq Items, NEW E \in SUBSET listed
    PROVE  /\ EndCursor(E) \in Items \cup {NoCursor}
           /\ EndCursor(E) # NoCursor
                => EndCursor(E) \in E /\ \A j \in E : j <= EndCursor(E)
           /\ EndCursor(E) = NoCursor
                => E = {} \/ ~ \E i \in listed : \A j \in E : i > j
<1>1. CASE E # {} /\ \E i \in listed : \A j \in E : i > j
  <2>1. E \in SUBSET Items
    OBVIOUS
  <2>2. E \in SUBSET Nat /\ IsFiniteSet(E) /\ 0 \notin E
    BY <2>1, ItemsFinite
  <2>3. \E m \in E : \A x \in E : x <= m
    BY <1>1, <2>2, GreatestOfFinite
  <2>4. EndCursor(E) \in E /\ \A j \in E : j <= EndCursor(E)
    BY <1>1, <2>3 DEF EndCursor
  <2> QED BY <2>1, <2>2, <2>4 DEF NoCursor
<1>2. CASE ~(E # {} /\ \E i \in listed : \A j \in E : i > j)
  BY <1>2 DEF EndCursor
<1> QED BY <1>1, <1>2

LEMMA SeenMapped ==
    ASSUME listed \subseteq Items, NEW content \in Contents(req[Chain])
    PROVE  /\ Seen(content) \subseteq listed /\ Mapped(content) \subseteq Seen(content)
           /\ Cardinality(Seen(content)) \in Nat
           /\ Cardinality(Mapped(content)) \in Nat
           /\ Cardinality(Mapped(content)) <= Cardinality(Seen(content))
           /\ Cardinality(Mapped(content)) = Cardinality(Seen(content))
                => Mapped(content) = Seen(content)
           /\ Mapped(content) = Seen(content) \cap Whole
<1>1. Seen(content) \in SUBSET listed
  BY ContentOf, EntriesListed DEF Seen
<1>2. Mapped(content) \in SUBSET Seen(content)
  BY DEF Mapped
<1>3. Seen(content) \in SUBSET Items /\ Mapped(content) \in SUBSET Items
  BY <1>1, <1>2
<1>4. IsFiniteSet(Seen(content)) /\ Cardinality(Seen(content)) \in Nat
      /\ Cardinality(Mapped(content)) \in Nat
  BY <1>3, ItemsFinite
<1>5. /\ Cardinality(Mapped(content)) <= Cardinality(Seen(content))
      /\ Cardinality(Seen(content)) = Cardinality(Mapped(content))
            => Seen(content) = Mapped(content)
  BY <1>2, <1>4, FS_Subset
<1>6. Mapped(content) = Seen(content) \cap Whole
  BY <1>3, ContentOf DEF Mapped, ToRawProduct, Whole
<1> QED BY <1>1, <1>2, <1>4, <1>5, <1>6

(***************************************************************************)
(* Types.                                                                  *)
(***************************************************************************)

LEMMA ProfilesLength ==
    /\ Len(Profiles) = 5
    /\ \A g \in Nat : g % 5 \in 0..4 /\ ProfileOf(g) = Profiles[(g % 5) + 1]
    /\ \A k \in 1..5 : Profiles[k] \in Identities
<1>1. Len(Profiles) = 5
  BY DEF Profiles
<1>2. \A g \in Nat : g % 5 \in 0..4
  OBVIOUS
<1> QED BY <1>1, <1>2 DEF ProfileOf, Identities

LEMMA IdentityType ==
    ASSUME TypeOK
    PROVE  IdentityOf(req[Chain]) \in Identities
<1>1. req[Chain].jar \in Nat
  BY OneChain DEF TypeOK, Request
<1>2. CASE req[Chain].jar = 0
  BY <1>2 DEF IdentityOf, Identities
<1>3. CASE req[Chain].jar # 0
  <2>1. PICK g \in Nat : g = req[Chain].jar - 1
    BY <1>1, <1>3
  <2>2. (g % 5) + 1 \in 1..5
    BY ProfilesLength
  <2>3. ProfileOf(g) \in Identities
    BY <2>2, ProfilesLength
  <2> QED BY <1>3, <2>1, <2>3 DEF IdentityOf
<1> QED BY <1>2, <1>3

LEMMA BumpType ==
    ASSUME NEW p \in [Identities -> Nat], NEW i \in Identities
    PROVE  /\ Bump(p, i) \in [Identities -> Nat]
           /\ Bump(p, i)[i] = p[i] + 1
           /\ \A j \in Identities \ {i} : Bump(p, i)[j] = p[j]
           /\ \A j \in Identities : Bump(p, i)[j] >= p[j]
BY DEF Bump

LEMMA JarStep ==
    TypeOK /\ JarInv /\ [SiteNext]_crawlVars => JarInv'
<1> SUFFICES ASSUME TypeOK, JarInv, [SiteNext]_crawlVars PROVE JarInv'
  OBVIOUS
<1>0. bundle \in Nat /\ req[Chain].jar \in Nat /\ req[Chain].jar <= bundle
  BY DEF TypeOK, JarInv
<1>1. CASE Quiet
  BY <1>0, <1>1 DEF Quiet, JarInv
<1>2. CASE Lost
  BY <1>0, <1>2 DEF Lost, JarInv
<1>3. ASSUME NEW r, Kept(r), BackedOff(r) \/ Replayed(r) \/ Escalated(r) \/ Gated(r)
      PROVE  JarInv'
  <2>1. bundle' \in {bundle, bundle + 1} /\ req'[Chain].jar = req[Chain].jar
    BY <1>3 DEF Kept, BackedOff, Replayed, Escalated, Gated
  <2> QED BY <1>0, <2>1 DEF JarInv
<1>4. ASSUME NEW content, Parsed(content) PROVE JarInv'
  BY <1>0, <1>4 DEF Parsed, Fresh, JarInv
<1>5. ASSUME NEW i \in Items, Changed(i) PROVE JarInv'
  BY <1>0, <1>5 DEF Changed, JarInv
<1> QED BY <1>1, <1>2, <1>3, <1>4, <1>5, Effects

LEMMA SiteTypeStep ==
    TypeOK /\ JarInv /\ SiteTypeOK /\ [SiteNext]_crawlVars => SiteTypeOK'
<1> SUFFICES ASSUME TypeOK, JarInv, SiteTypeOK, [SiteNext]_crawlVars
             PROVE  SiteTypeOK'
  OBVIOUS
<1>0. /\ bundle \in Nat /\ req[Chain].jar \in 0..bundle
      /\ Bump(prior, IdentityOf(req[Chain])) \in [Identities -> Nat]
      /\ listed \subseteq Items
  BY IdentityType, BumpType DEF TypeOK, JarInv, SiteTypeOK
<1>1. CASE Quiet
  BY <1>1 DEF Quiet, SiteTypeOK
<1>2. CASE Lost
  <2>1. prior' \in [Identities -> Nat]
    BY <1>0, <1>2 DEF Lost, SiteTypeOK
  <2> QED BY <1>2, <2>1 DEF Lost, SiteTypeOK
<1>3. ASSUME NEW r, Kept(r), BackedOff(r) \/ Replayed(r) \/ Escalated(r) \/ Gated(r)
      PROVE  SiteTypeOK'
  <2>1. bundle' \in {bundle, bundle + 1}
    BY <1>3 DEF BackedOff, Replayed, Escalated, Gated
  <2>2. 0..bundle \subseteq 0..bundle'
    BY <1>0, <2>1
  <2>3. cookies' \subseteq 0..bundle'
    BY <1>0, <1>3, <2>2 DEF Kept, SiteTypeOK
  <2> QED BY <1>0, <1>3, <2>3 DEF Kept, SiteTypeOK
<1>4. ASSUME NEW content \in Contents(req[Chain]), Parsed(content)
      PROVE  SiteTypeOK'
  <2>1. after' \in Items \cup {NoCursor}
    <3>1. EndCursor(EntriesOf(req[Chain])) \in Items \cup {NoCursor}
      BY <1>0, EntriesListed, EndIsLast
    <3> QED BY <1>4, <3>1, ContentOf DEF Parsed, Parse, SiteTypeOK
  <2>2. yielded' \subseteq Items
    BY <1>0, <1>4, SeenMapped DEF Parsed, Parse, SiteTypeOK
  <2>3. seen' \in Nat /\ mapped' \in 0..seen'
    <3>1. /\ seen' = seen + Cardinality(Seen(content))
          /\ mapped' = mapped + Cardinality(Mapped(content))
          /\ seen \in Nat /\ mapped \in Nat /\ mapped <= seen
      BY <1>4 DEF Parsed, Parse, SiteTypeOK
    <3>2. /\ Cardinality(Seen(content)) \in Nat
          /\ Cardinality(Mapped(content)) \in Nat
          /\ Cardinality(Mapped(content)) <= Cardinality(Seen(content))
      BY <1>0, SeenMapped
    <3> QED BY <3>1, <3>2
  <2>4. cookies' \subseteq 0..bundle' /\ prior' \in [Identities -> Nat]
    BY <1>0, <1>4 DEF Parsed, SiteTypeOK
  <2> QED BY <1>4, <2>1, <2>2, <2>3, <2>4 DEF Parsed, SiteTypeOK
<1>5. ASSUME NEW i \in Items, Changed(i) PROVE SiteTypeOK'
  <2>1. changes' \in 0..MaxChanges
    BY <1>5, SiteAssumption DEF Changed, SiteTypeOK
  <2>2. listed' \subseteq Items /\ always' \subseteq listed'
    BY <1>5 DEF Changed, SiteTypeOK
  <2> QED BY <1>5, <2>1, <2>2 DEF Changed, SiteTypeOK
<1> QED BY <1>1, <1>2, <1>3, <1>4, <1>5, Effects

LEMMA SiteTypes == SiteSpec => [](JarInv /\ SiteTypeOK)
<1>1. SiteInit => JarInv /\ SiteTypeOK
  <2> SUFFICES ASSUME SiteInit PROVE JarInv /\ SiteTypeOK
    OBVIOUS
  <2>1. req[Chain].jar = 0 /\ bundle = 0
    BY OneChain DEF SiteInit, Init, Fresh
  <2> QED BY <2>1, SiteAssumption DEF SiteInit, JarInv, SiteTypeOK, NoCursor
<1> QED BY <1>1, JarStep, SiteTypeStep, DownloaderHolds, PTL DEF SiteSpec

(* Type correctness of a whole crawl; what it rests on is that no request  *)
(* carries the jar of an identity that has not been presented yet.         *)
THEOREM SiteTypeCorrect == SiteSpec => []SiteTypeOK
BY SiteTypes, PTL

-----------------------------------------------------------------------------
(***************************************************************************)
(* Pages by rank.                                                          *)
(***************************************************************************)

LEMMA RankType ==
    ASSUME NEW S \in SUBSET Items
    PROVE  /\ \A i \in S : Rank(S, i) \in Nat /\ Rank(S, i) >= 1
                              /\ Rank(S, i) <= Cardinality(S)
           /\ \A i, j \in S : i <= j => Rank(S, i) <= Rank(S, j)
<1> DEFINE Upto(i) == {j \in S : j <= i}
<1>0. /\ IsFiniteSet(S) /\ Cardinality(S) \in Nat /\ S \in SUBSET Nat
  BY ItemsFinite
<1>1. ASSUME NEW i \in S
      PROVE  /\ IsFiniteSet(Upto(i)) /\ Cardinality(Upto(i)) \in Nat
             /\ Cardinality(Upto(i)) <= Cardinality(S)
             /\ Cardinality(Upto(i)) # 0
  <2>1. Upto(i) \in SUBSET S /\ i \in Upto(i)
    BY <1>0
  <2> HIDE DEF Upto
  <2> QED BY <1>0, <2>1, FS_Subset, FS_CardinalityType, FS_EmptySet
<1>2. ASSUME NEW i \in S, NEW j \in S, i <= j
      PROVE  Cardinality(Upto(i)) <= Cardinality(Upto(j))
  <2>1. Upto(i) \in SUBSET Upto(j)
    <3> SUFFICES ASSUME NEW k \in S, k <= i PROVE k <= j
      OBVIOUS
    <3>1. k \in Nat /\ i \in Nat /\ j \in Nat
      BY <1>0
    <3> QED BY <1>2, <3>1
  <2> HIDE DEF Upto
  <2> QED BY <1>1, <2>1, FS_Subset
<1> QED BY <1>1, <1>2 DEF Rank

(* Ranks have no gap: the product after those of rank n at most, if there  *)
(* is one, has rank n + 1.                                                 *)
LEMMA NextRank ==
    ASSUME NEW S \in SUBSET Items, NEW n \in Nat, NEW x \in S, Rank(S, x) > n
    PROVE  \E i \in S : Rank(S, i) = n + 1
<1> DEFINE Above == {j \in S : Rank(S, j) > n}
           Upto(j) == {k \in S : k <= j}
<1>0. IsFiniteSet(S) /\ S \in SUBSET Nat
  BY ItemsFinite
<1>1. PICK i \in Above : \A j \in Above : i <= j
  <2>1. Above \in SUBSET Nat /\ Above # {}
    BY <1>0
  <2> HIDE DEF Above
  <2> QED BY <2>1, LeastElement
<1>2. i \in S /\ Rank(S, i) > n /\ Rank(S, i) \in Nat
  BY RankType
<1>3. \A j \in S : j \in Upto(i) \ {i} <=> j < i
  <2> SUFFICES ASSUME NEW j \in S PROVE j <= i /\ j # i <=> j < i
    OBVIOUS
  <2>1. i \in Nat /\ j \in Nat
    BY <1>0, <1>2
  <2> QED BY <2>1
<1>4. /\ IsFiniteSet(Upto(i)) /\ Cardinality(Upto(i)) = Rank(S, i)
      /\ i \in Upto(i)
  <2>1. Upto(i) \in SUBSET S
    OBVIOUS
  <2>2. IsFiniteSet(Upto(i))
    BY <1>0, <2>1, FS_Subset
  <2> QED BY <1>0, <1>2, <2>2 DEF Rank
<1>5. Cardinality(Upto(i) \ {i}) = Rank(S, i) - 1 /\ IsFiniteSet(Upto(i) \ {i})
  <2> HIDE DEF Upto
  <2> QED BY <1>4, FS_RemoveElement
<1>6. CASE Upto(i) \ {i} = {}
  <2>1. Rank(S, i) - 1 = 0
    BY <1>5, <1>6, FS_EmptySet
  <2>2. Rank(S, i) = n + 1
    BY <1>2, <2>1
  <2> QED BY <1>2, <2>2
<1>7. CASE Upto(i) \ {i} # {}
  <2>1. PICK m \in Upto(i) \ {i} : \A j \in Upto(i) \ {i} : j <= m
    <3>1. Upto(i) \ {i} \in SUBSET Nat
      BY <1>0
    <3> HIDE DEF Upto
    <3> QED BY <1>5, <1>7, <3>1, GreatestOfFinite
  <2>2. m \in S /\ m < i
    BY <1>3
  <2>3. Upto(m) = Upto(i) \ {i}
    <3>1. ASSUME NEW k \in S, k <= m PROVE k \in Upto(i) \ {i}
      BY <1>0, <1>2, <2>2, <3>1
    <3>2. ASSUME NEW k \in Upto(i) \ {i} PROVE k \in Upto(m)
      BY <2>1
    <3> QED BY <3>1, <3>2
  <2>4. Rank(S, m) = Rank(S, i) - 1
    BY <1>5, <2>3 DEF Rank
  <2>5. ~(Rank(S, m) > n)
    BY <1>0, <1>1, <1>2, <2>2
  <2>6. Rank(S, i) = n + 1
    BY <1>2, <2>4, <2>5
  <2> QED BY <1>2, <2>6
<1> QED BY <1>6, <1>7

LEMMA Multiple ==
    ASSUME NEW a \in Nat, NEW p \in Nat \ {0}
    PROVE  a * p \in Nat /\ a <= a * p /\ (a + 1) * p = a * p + p
<1>1. a * p = a + a * (p - 1)
  OBVIOUS
<1>2. a * (p - 1) \in Nat
  OBVIOUS
<1> QED BY <1>1, <1>2

(* An empty page is past the end of the catalogue, and what a page shows   *)
(* lies beyond the pages before it.                                        *)
LEMMA PageByRank ==
    ASSUME NEW S \in SUBSET Items, NEW n \in Nat \ {0}
    PROVE  /\ HappyPage(S, n) # {} => n - 1 < Cardinality(S)
           /\ HappyPage(S, n) = {} => \A i \in S : Rank(S, i) <= (n - 1) * PageSize
           /\ \A i \in S : Rank(S, i) <= ((n + 1) - 1) * PageSize
                => Rank(S, i) <= (n - 1) * PageSize \/ i \in HappyPage(S, n)
           /\ \A i \in HappyPage(S, n) :
                /\ ~(Rank(S, i) <= (n - 1) * PageSize)
                /\ Rank(S, i) <= ((n + 1) - 1) * PageSize
           /\ \A i \in S : Rank(S, i) <= (n - 1) * PageSize
                => Rank(S, i) <= ((n + 1) - 1) * PageSize
<1>1. PICK a \in Nat : a = n - 1
  OBVIOUS
<1>2. PICK t \in Nat : t = a * PageSize /\ n * PageSize = t + PageSize /\ a <= t
  BY <1>1, HarnessAssumption, Multiple
<1>3. /\ PageSize >= 1 /\ PageSize \in Nat /\ Cardinality(S) \in Nat
      /\ \A i \in S : Rank(S, i) \in Nat /\ Rank(S, i) <= Cardinality(S)
  BY HarnessAssumption, ItemsFinite, RankType
<1>4. HappyPage(S, n) = {i \in S : t < Rank(S, i) /\ Rank(S, i) <= t + PageSize}
  BY <1>1, <1>2 DEF HappyPage
<1>5. HappyPage(S, n) # {} => n - 1 < Cardinality(S)
  BY <1>1, <1>2, <1>3, <1>4
<1>6. ASSUME HappyPage(S, n) = {}, NEW i \in S PROVE Rank(S, i) <= t
  <2> SUFFICES ASSUME Rank(S, i) > t PROVE FALSE
    BY <1>3
  <2>1. PICK j \in S : Rank(S, j) = t + 1
    BY NextRank
  <2>2. j \in HappyPage(S, n)
    BY <1>3, <1>4, <2>1
  <2> QED BY <1>6, <2>2
<1>7. \A i \in S : Rank(S, i) <= t + PageSize
        => Rank(S, i) <= t \/ i \in HappyPage(S, n)
  BY <1>3, <1>4
<1>8. ((n + 1) - 1) * PageSize = t + PageSize /\ (n - 1) * PageSize = t
  BY <1>1, <1>2
<1>9. /\ \A i \in HappyPage(S, n) : ~(Rank(S, i) <= t) /\ Rank(S, i) <= t + PageSize
      /\ \A i \in S : Rank(S, i) <= t => Rank(S, i) <= t + PageSize
  BY <1>3, <1>4
<1> QED BY <1>5, <1>6, <1>7, <1>8, <1>9

(* The first page of a set holds the first products of it.                 *)
LEMMA FirstPage ==
    ASSUME NEW S \in SUBSET Items
    PROVE  /\ HappyPage(S, 1) = {} => S = {}
           /\ \A i \in S, j \in HappyPage(S, 1) : i <= j => i \in HappyPage(S, 1)
<1>1. /\ PageSize >= 1 /\ PageSize \in Nat
      /\ \A i \in S : Rank(S, i) \in Nat /\ Rank(S, i) >= 1
      /\ \A i, j \in S : i <= j => Rank(S, i) <= Rank(S, j)
  BY HarnessAssumption, RankType
<1>2. HappyPage(S, 1) = {i \in S : 0 < Rank(S, i) /\ Rank(S, i) <= PageSize}
  BY <1>1 DEF HappyPage
<1>3. HappyPage(S, 1) = {} => S = {}
  <2>1. HappyPage(S, 1) = {} => \A i \in S : Rank(S, i) <= (1 - 1) * PageSize
    BY PageByRank
  <2> QED BY <1>1, <2>1
<1>4. ASSUME NEW i \in S, NEW j \in HappyPage(S, 1), i <= j
      PROVE  i \in HappyPage(S, 1)
  <2>1. j \in S /\ Rank(S, j) <= PageSize
    BY <1>2
  <2>2. Rank(S, i) <= Rank(S, j)
    BY <1>1, <1>4, <2>1
  <2>3. 0 < Rank(S, i) /\ Rank(S, i) <= PageSize
    BY <1>1, <2>1, <2>2
  <2> QED BY <1>2, <2>3
<1> QED BY <1>3, <1>4

-----------------------------------------------------------------------------
(***************************************************************************)
(* Paging.                                                                 *)
(***************************************************************************)

(* What every case below needs of the state.                               *)
LEMMA SiteFacts ==
    ASSUME TypeOK, SiteTypeOK
    PROVE  /\ req[Chain] \in Request /\ req[Chain].page \in Nat \ {0}
           /\ req[Chain].rotation \in Nat /\ req[Chain].backoff \in Nat
           /\ req[Chain].netRetry \in Nat /\ bundle \in Nat
           /\ site.kind \in Kinds /\ site.scenario \in Scenario \cup {"errors"}
           /\ listed \in SUBSET Items /\ always \in SUBSET listed
           /\ IsFiniteSet(listed) /\ Cardinality(listed) \in Nat
           /\ after \in Nat /\ changes \in Nat
           /\ seen \in Nat /\ mapped \in Nat /\ mapped <= seen
           /\ Cardinality(Catalogue) \in Nat
<1>1. req[Chain] \in Request
  BY OneChain DEF TypeOK
<1>2. req[Chain].page \in 1..MaxPages
  BY <1>1 DEF Request
<1>3. IsFiniteSet(listed) /\ Cardinality(listed) \in Nat
      /\ Cardinality(Catalogue) \in Nat
  BY ItemsFinite, SiteAssumption DEF SiteTypeOK
<1>4. after \in Nat
  BY ItemsAssumption DEF SiteTypeOK, NoCursor
<1>5. /\ req[Chain].rotation \in Nat /\ req[Chain].backoff \in Nat
      /\ req[Chain].netRetry \in Nat /\ req[Chain].page \in Nat \ {0}
  BY <1>1, <1>2, DownloaderAssumption DEF Request
<1>6. /\ changes \in Nat /\ seen \in Nat /\ mapped \in Nat /\ mapped <= seen
  BY SiteAssumption DEF SiteTypeOK
<1> QED BY <1>1, <1>3, <1>4, <1>5, <1>6 DEF TypeOK, SiteTypeOK, Sites

(* By cursor: the page shows the first products beyond the cursor.         *)
LEMMA CursorPage ==
    ASSUME TypeOK, SiteTypeOK, site.kind = "graphql"
    PROVE  LET E == EntriesOf(req[Chain])
           IN  /\ \A i \in E : ~(i <= after)
               /\ EndCursor(E) # NoCursor
                    => /\ EndCursor(E) \in Beyond(after)
                       /\ \A i \in E : i <= EndCursor(E)
                       /\ \A i \in listed : i <= after => i <= EndCursor(E)
                       /\ \A i \in listed : i <= EndCursor(E)
                                => i <= after \/ i \in E
               /\ EndCursor(E) = NoCursor
                    => \A i \in listed : i <= after \/ i \in E
<1> DEFINE E == EntriesOf(req[Chain])
           B == Beyond(after)
<1>1. /\ E = HappyPage(B, 1) /\ E \in SUBSET B /\ B \in SUBSET listed
      /\ B \in SUBSET Items /\ E \in SUBSET listed
      /\ \A i \in listed : i \in B <=> i > after
  BY DEF EntriesOf, HappyPage, Beyond, SiteTypeOK
<1>2. /\ listed \subseteq Items /\ listed \subseteq Nat /\ after \in Nat
  BY SiteFacts, ItemsFinite
<1>3. /\ E = {} => B = {}
      /\ \A i \in B, j \in E : i <= j => i \in E
  <2> HIDE DEF E, B
  <2> QED BY <1>1, FirstPage
<1>4. \A i \in listed : i <= after \/ i \in B
  BY <1>1, <1>2
<1> HIDE DEF E, B
<1>5. /\ EndCursor(E) # NoCursor
            => EndCursor(E) \in E /\ \A j \in E : j <= EndCursor(E)
      /\ EndCursor(E) = NoCursor
            => E = {} \/ ~ \E i \in listed : \A j \in E : i > j
  BY <1>1, <1>2, EndIsLast
<1>6. ASSUME EndCursor(E) # NoCursor
      PROVE  /\ EndCursor(E) \in B
             /\ \A i \in E : i <= EndCursor(E)
             /\ \A i \in listed : i <= after => i <= EndCursor(E)
             /\ \A i \in listed : i <= EndCursor(E) => i <= after \/ i \in E
  <2>1. EndCursor(E) \in B /\ EndCursor(E) \in listed /\ EndCursor(E) > after
    BY <1>1, <1>5, <1>6
  <2>2. PICK e \in Nat : e = EndCursor(E) /\ e > after
    BY <1>2, <2>1
  <2>3. \A i \in Nat : i <= after => i <= e
    BY <1>2, <2>2
  <2> QED BY <1>1, <1>2, <1>3, <1>4, <1>5, <1>6, <2>1, <2>2, <2>3
<1>7. ASSUME EndCursor(E) = NoCursor, NEW i \in listed
      PROVE  i <= after \/ i \in E
  <2>1. CASE E = {}
    BY <1>3, <1>4, <2>1
  <2>2. CASE ~ \E k \in listed : \A j \in E : k > j
    <3>1. PICK j \in E : ~(i > j)
      BY <2>2
    <3>2. i <= j
      BY <1>1, <1>2, <3>1
    <3> QED BY <1>3, <1>4, <3>1, <3>2
  <2> QED BY <1>5, <1>7, <2>1, <2>2
<1>8. \A i \in E : ~(i <= after)
  BY <1>1, <1>2
<1> QED BY <1>6, <1>7, <1>8 DEF E, B

(* A page in the expected envelope shows exactly what lies between what    *)
(* was behind before it and what is behind after it.                       *)
LEMMA Paging ==
    ASSUME TypeOK, SiteTypeOK, NEW content \in Contents(req[Chain]),
           content.envelope, Parsed(content)
    PROVE  /\ Passed' = Passed \cup Seen(content)
           /\ Passed \cap Seen(content) = {}
<1> DEFINE E == EntriesOf(req[Chain])
<1>0. /\ Seen(content) = E /\ content.end = EndCursor(E) /\ E \subseteq listed
      /\ listed' = listed /\ site' = site /\ req[Chain].st = "sent"
      /\ after' = IF Follows(site.kind, content) THEN content.end ELSE after
  BY ContentOf, EntriesListed DEF Seen, Parsed, Parse
<1>1. CASE site.kind = "rest"
  <2> DEFINE n == req[Chain].page
  <2>1. /\ E = HappyPage(listed, n)
        /\ Passed = {i \in listed : Rank(listed, i) <= (n - 1) * PageSize}
    BY <1>0, <1>1 DEF EntriesOf, Passed
  <2>2. /\ E = {} => \A i \in listed : Rank(listed, i) <= (n - 1) * PageSize
        /\ \A i \in listed : Rank(listed, i) <= ((n + 1) - 1) * PageSize
                => Rank(listed, i) <= (n - 1) * PageSize \/ i \in E
        /\ \A i \in E : /\ ~(Rank(listed, i) <= (n - 1) * PageSize)
                         /\ Rank(listed, i) <= ((n + 1) - 1) * PageSize
        /\ \A i \in listed : Rank(listed, i) <= (n - 1) * PageSize
                => Rank(listed, i) <= ((n + 1) - 1) * PageSize
    BY <2>1, SiteFacts, PageByRank
  <2>3. CASE Follows(site.kind, content)
    <3>1. /\ req'[Chain].st = "scheduled" /\ req'[Chain].page = n + 1
      BY <2>3 DEF Parsed, Fresh
    <3>2. Passed' = {i \in listed : Rank(listed, i) <= ((n + 1) - 1) * PageSize}
      BY <1>0, <1>1, <3>1 DEF Passed
    <3> HIDE DEF E, n
    <3> QED BY <1>0, <2>1, <2>2, <3>2
  <2>4. CASE ~Follows(site.kind, content)
    <3>1. Passed' = listed /\ E = {}
      BY <1>0, <1>1, <2>4 DEF Parsed, Passed, Follows
    <3> HIDE DEF E, n
    <3> QED BY <1>0, <2>1, <2>2, <3>1
  <2> QED BY <2>3, <2>4
<1>2. CASE site.kind = "graphql"
  <2>1. Passed = {i \in listed : i <= after}
    BY <1>0, <1>2 DEF Passed
  <2>2. /\ \A i \in E : ~(i <= after)
        /\ EndCursor(E) # NoCursor
             => /\ \A i \in E : i <= EndCursor(E)
                /\ \A i \in listed : i <= after => i <= EndCursor(E)
                /\ \A i \in listed : i <= EndCursor(E) => i <= after \/ i \in E
        /\ EndCursor(E) = NoCursor
             => \A i \in listed : i <= after \/ i \in E
    BY <1>2, CursorPage
  <2>3. CASE Follows(site.kind, content)
    <3>1. EndCursor(E) # NoCursor /\ after' = EndCursor(E)
      BY <1>0, <1>2, <2>3 DEF Follows
    <3>2. req'[Chain].st = "scheduled"
      BY <2>3 DEF Parsed, Fresh
    <3>3. Passed' = {i \in listed : i <= EndCursor(E)}
      BY <1>0, <1>2, <3>1, <3>2 DEF Passed
    <3> HIDE DEF E
    <3> QED BY <1>0, <2>1, <2>2, <3>1, <3>3
  <2>4. CASE ~Follows(site.kind, content)
    <3>1. Passed' = listed /\ EndCursor(E) = NoCursor
      BY <1>0, <1>2, <2>4 DEF Parsed, Passed, Follows
    <3> HIDE DEF E
    <3> QED BY <1>0, <2>1, <2>2, <3>1
  <2> QED BY <2>3, <2>4
<1>3. CASE site.kind = "html"
  <2>1. E = listed /\ Passed = {} /\ ~Follows(site.kind, content)
    BY <1>0, <1>3 DEF EntriesOf, Passed, Follows
  <2>2. Passed' = listed
    BY <1>0, <2>1 DEF Parsed, Passed
  <2> QED BY <1>0, <2>1, <2>2
<1> QED BY <1>1, <1>2, <1>3, SiteFacts DEF Kinds

(***************************************************************************)
(* The number of pages.                                                    *)
(***************************************************************************)

LEMMA PageStep ==
    TypeOK /\ SiteTypeOK /\ PageInv /\ [SiteNext]_crawlVars => PageInv'
<1> SUFFICES ASSUME TypeOK, SiteTypeOK, PageInv, [SiteNext]_crawlVars
             PROVE  PageInv'
  OBVIOUS
<1> DEFINE most == Cardinality(Catalogue) + changes
<1>0. /\ listed \in SUBSET Items /\ IsFiniteSet(listed)
      /\ Cardinality(listed) \in Nat /\ most \in Nat
      /\ req[Chain].page \in Nat \ {0} /\ changes \in Nat
      /\ Cardinality(Catalogue) \in Nat /\ site.kind \in Kinds
  BY SiteFacts
<1>1. /\ Cardinality(listed) <= most /\ req[Chain].page <= most + 1
      /\ site.kind = "graphql"
            => (req[Chain].page - 1) + Cardinality(Beyond(after)) <= most
      /\ site.kind = "html" => req[Chain].page = 1
  BY DEF PageInv, PagesBounded
<1>2. ASSUME UNCHANGED <<listed, changes, site, after>>,
             req'[Chain].page = req[Chain].page
      PROVE  PageInv'
  BY <1>1, <1>2 DEF PageInv, PagesBounded, Beyond
<1>3. CASE Quiet \/ Lost
  BY <1>2, <1>3 DEF Quiet, Lost
<1>4. ASSUME NEW r, Kept(r) PROVE PageInv'
  BY <1>2, <1>4 DEF Kept
<1>5. ASSUME NEW content \in Contents(req[Chain]), Parsed(content)
      PROVE  PageInv'
  <2>1. /\ UNCHANGED <<listed, changes, site>>
        /\ after' = IF Follows(site.kind, content) THEN content.end ELSE after
    BY <1>5 DEF Parsed, Parse
  <2>2. CASE ~Follows(site.kind, content)
    BY <1>2, <1>5, <2>1, <2>2 DEF Parsed
  <2>3. CASE Follows(site.kind, content) /\ site.kind = "rest"
    <3>1. req'[Chain].page = req[Chain].page + 1
      BY <1>5, <2>3 DEF Parsed, Fresh
    <3>2. HappyPage(listed, req[Chain].page) # {}
      BY <2>3, ContentOf DEF Follows, Seen, EntriesOf
    <3>3. req[Chain].page - 1 < Cardinality(listed)
      BY <1>0, <3>2, PageByRank
    <3>4. req[Chain].page + 1 <= most + 1
      BY <1>0, <1>1, <3>3
    <3> QED BY <1>1, <2>1, <2>3, <3>1, <3>4 DEF PageInv, PagesBounded
  <2>4. CASE Follows(site.kind, content) /\ site.kind = "graphql"
    <3>1. /\ req'[Chain].page = req[Chain].page + 1
          /\ after' = EndCursor(EntriesOf(req[Chain])) /\ after' # NoCursor
      BY <1>5, <2>1, <2>4, ContentOf DEF Parsed, Fresh, Follows
    <3>2. PICK e : e = EndCursor(EntriesOf(req[Chain])) /\ e \in Beyond(after)
                   /\ after' = e
      BY <2>4, <3>1, CursorPage
    <3>3. Beyond(e) \in SUBSET (Beyond(after) \ {e})
      <4> SUFFICES ASSUME NEW i \in listed, i > e PROVE i > after /\ i # e
        BY DEF Beyond
      <4>1. i \in Nat /\ e \in Nat /\ after \in Nat /\ e > after
        BY <1>0, <3>2, SiteFacts, ItemsFinite DEF Beyond
      <4> QED BY <4>1
    <3>4. /\ IsFiniteSet(Beyond(after)) /\ Cardinality(Beyond(after)) \in Nat
          /\ Cardinality(Beyond(e)) \in Nat
      <4>1. Beyond(after) \in SUBSET Items /\ Beyond(e) \in SUBSET Items
        BY <1>0 DEF Beyond
      <4> QED BY <4>1, ItemsFinite
    <3>5. /\ IsFiniteSet(Beyond(after) \ {e})
          /\ Cardinality(Beyond(after) \ {e}) = Cardinality(Beyond(after)) - 1
      BY <3>2, <3>4, FS_RemoveElement
    <3>6. Cardinality(Beyond(e)) <= Cardinality(Beyond(after)) - 1
      BY <3>3, <3>5, FS_Subset
    <3>7. Beyond(after)' = Beyond(e)
      BY <2>1, <3>2 DEF Beyond
    <3>8. req[Chain].page + Cardinality(Beyond(e)) <= most
      BY <1>0, <1>1, <2>4, <3>4, <3>6
    <3>9. req[Chain].page + 1 <= most + 1
      BY <1>0, <3>4, <3>8
    <3>10. (req'[Chain].page - 1) + Cardinality(Beyond(after)') <= most
      BY <1>0, <3>1, <3>7, <3>8
    <3> QED BY <1>1, <2>1, <2>4, <3>1, <3>9, <3>10 DEF PageInv, PagesBounded
  <2> QED BY <2>2, <2>3, <2>4 DEF Follows
<1>6. ASSUME NEW i \in Items, Changed(i) PROVE PageInv'
  <2>1. /\ changes' = changes + 1 /\ UNCHANGED <<site, after, req>>
        /\ listed' = IF i \in listed THEN listed \ {i} ELSE listed \cup {i}
    BY <1>6 DEF Changed
  <2>2. Cardinality(listed') <= Cardinality(listed) + 1
    <3>1. CASE i \in listed
      <4>1. Cardinality(listed \ {i}) = Cardinality(listed) - 1
        BY <1>0, <3>1, FS_RemoveElement
      <4> QED BY <1>0, <2>1, <3>1, <4>1
    <3>2. CASE i \notin listed
      <4>1. Cardinality(listed \cup {i}) = Cardinality(listed) + 1
        BY <1>0, <3>2, FS_AddElement
      <4> QED BY <1>0, <2>1, <3>2, <4>1
    <3> QED BY <3>1, <3>2
  <2>3. /\ IsFiniteSet(Beyond(after)) /\ Cardinality(Beyond(after)) \in Nat
    <3>1. Beyond(after) \in SUBSET Items
      BY <1>0 DEF Beyond
    <3> QED BY <3>1, ItemsFinite
  <2>4. Beyond(after)' \subseteq Beyond(after) \cup {i}
    BY <2>1 DEF Beyond
  <2>5. /\ IsFiniteSet(Beyond(after) \cup {i})
        /\ Cardinality(Beyond(after) \cup {i}) <= Cardinality(Beyond(after)) + 1
        /\ Cardinality(Beyond(after) \cup {i}) \in Nat
    <3> DEFINE B == Beyond(after)
    <3>1. IsFiniteSet(B) /\ Cardinality(B) \in Nat
      BY <2>3
    <3> HIDE DEF B
    <3>2. /\ IsFiniteSet(B \cup {i})
          /\ Cardinality(B \cup {i}) \in {Cardinality(B), Cardinality(B) + 1}
      BY ONLY <3>1, FS_AddElement
    <3> QED BY <3>1, <3>2, FS_CardinalityType DEF B
  <2>6. /\ Cardinality(Beyond(after)') <= Cardinality(Beyond(after)) + 1
        /\ Cardinality(Beyond(after)') \in Nat
    <3>1. Cardinality(Beyond(after)') <= Cardinality(Beyond(after) \cup {i})
          /\ IsFiniteSet(Beyond(after)')
      BY <2>4, <2>5, FS_Subset
    <3> QED BY <2>3, <2>5, <3>1, FS_CardinalityType
  <2>7. Cardinality(listed') \in Nat
    <3>1. IsFiniteSet(listed')
      BY <1>0, <2>1, FS_AddElement, FS_RemoveElement
    <3> QED BY <3>1, FS_CardinalityType
  <2>8. /\ Cardinality(listed') <= Cardinality(Catalogue) + changes'
        /\ req[Chain].page <= Cardinality(Catalogue) + changes' + 1
        /\ site.kind = "graphql"
            => (req[Chain].page - 1) + Cardinality(Beyond(after)')
                <= Cardinality(Catalogue) + changes'
    BY <1>0, <1>1, <2>1, <2>2, <2>3, <2>6, <2>7
  <2> QED BY <1>1, <2>1, <2>8 DEF PageInv, PagesBounded
<1> QED BY <1>3, <1>4, <1>5, <1>6, Effects

LEMMA PageAlways == SiteSpec => []PageInv
<1>1. SiteInit => PageInv
  <2> SUFFICES ASSUME SiteInit PROVE PageInv
    OBVIOUS
  <2>1. /\ req[Chain].page = 1 /\ listed = Catalogue /\ changes = 0
        /\ Beyond(after) \in SUBSET Catalogue
    BY OneChain DEF SiteInit, Init, Fresh, Beyond
  <2>2. IsFiniteSet(Catalogue) /\ Cardinality(Catalogue) \in Nat
    BY SiteAssumption, ItemsFinite
  <2>3. Cardinality(Beyond(after)) <= Cardinality(Catalogue)
        /\ Cardinality(Beyond(after)) \in Nat
    BY <2>1, <2>2, FS_Subset, FS_CardinalityType
  <2> QED BY <2>1, <2>2, <2>3 DEF PageInv, PagesBounded
<1> QED BY <1>1, PageStep, DownloaderHolds, SiteTypes, PTL DEF SiteSpec

(* A crawl is never led further than the catalogue goes, whatever the page *)
(* size and however the catalogue changes meanwhile: by number a page that *)
(* is followed is not empty, by cursor every page leaves a product less.   *)
THEOREM PagesBoundedAlways == SiteSpec => []PagesBounded
<1>1. PageInv => PagesBounded
  BY DEF PageInv
<1> QED BY <1>1, PageAlways, PTL

-----------------------------------------------------------------------------
(***************************************************************************)
(* What lies behind.                                                       *)
(***************************************************************************)

LEMMA PassedSame ==
    ASSUME UNCHANGED <<site, listed, after>>,
           req'[Chain].page = req[Chain].page,
           req'[Chain].st = "delivered" <=> req[Chain].st = "delivered"
    PROVE  Passed' = Passed
BY DEF Passed

LEMMA PassedListed == Passed \subseteq listed
BY DEF Passed

LEMMA DisjointItems ==
    ASSUME NEW S \in SUBSET Items, NEW T \in SUBSET Items, S \cap T = {}
    PROVE  Cardinality(S \cup T) = Cardinality(S) + Cardinality(T)
<1>1. /\ IsFiniteSet(S) /\ IsFiniteSet(T)
      /\ Cardinality(S) \in Nat /\ Cardinality(T) \in Nat
  BY ItemsFinite
<1>2. Cardinality(S \cup T) = Cardinality(S) + Cardinality(T) - Cardinality(S \cap T)
  BY <1>1, FS_Union
<1>3. Cardinality(S \cap T) = 0
  BY FS_EmptySet
<1> QED BY <1>1, <1>2, <1>3

LEMMA PassedParsed ==
    ASSUME TypeOK, SiteTypeOK, PassedInv,
           NEW content \in Contents(req[Chain]), Parsed(content)
    PROVE  PassedInv'
<1>0. /\ yielded' = yielded \cup Mapped(content)
      /\ seen' = seen + Cardinality(Seen(content))
      /\ mapped' = mapped + Cardinality(Mapped(content))
      /\ UNCHANGED <<site, listed, changes, always>>
  BY DEF Parsed, Parse
<1>1. /\ Seen(content) \subseteq listed /\ Mapped(content) \subseteq Seen(content)
      /\ Cardinality(Seen(content)) \in Nat
      /\ Cardinality(Mapped(content)) \in Nat
      /\ Cardinality(Mapped(content)) <= Cardinality(Seen(content))
      /\ Cardinality(Mapped(content)) = Cardinality(Seen(content))
            => Mapped(content) = Seen(content)
      /\ Mapped(content) = Seen(content) \cap Whole
  BY SeenMapped DEF SiteTypeOK
<1>2. Whole' = Whole
  BY <1>0 DEF Whole, StatedNow
<1>3. changes = 0 => always = listed /\ yielded' \subseteq listed \cap Whole
  BY <1>0, <1>1 DEF PassedInv
<1>4. CASE site.scenario # "errors"
  <2>1. Passed' = Passed \cup Seen(content) /\ Passed \cap Seen(content) = {}
    BY <1>4, ContentOf, Paging
  <2>2. changes = 0 \/ site.kind # "rest"
            => Passed' \cap always \cap Whole \subseteq yielded'
    BY <1>0, <1>1, <1>4, <2>1 DEF PassedInv
  <2>3. ASSUME changes = 0
        PROVE  /\ seen' = Cardinality(Passed')
               /\ mapped' = Cardinality(Passed' \cap Whole)
    <3>1. Passed \in SUBSET Items /\ Seen(content) \in SUBSET Items
      BY <1>1, SiteFacts, PassedListed
    <3>2. Cardinality(Passed') = Cardinality(Passed) + Cardinality(Seen(content))
      BY <2>1, <3>1, DisjointItems
    <3>3. /\ Passed' \cap Whole = (Passed \cap Whole) \cup Mapped(content)
          /\ (Passed \cap Whole) \cap Mapped(content) = {}
          /\ Passed \cap Whole \in SUBSET Items /\ Mapped(content) \in SUBSET Items
      BY <1>1, <2>1, <3>1
    <3>4. Cardinality(Passed' \cap Whole)
            = Cardinality(Passed \cap Whole) + Cardinality(Mapped(content))
      BY <3>3, DisjointItems
    <3> QED BY <1>0, <1>4, <2>3, <3>2, <3>4 DEF PassedInv
  <2> QED BY <1>0, <1>2, <1>3, <2>2, <2>3 DEF PassedInv
<1>5. CASE site.scenario = "errors"
  BY <1>0, <1>2, <1>3, <1>5 DEF PassedInv
<1> QED BY <1>4, <1>5

LEMMA PassedStep ==
    TypeOK /\ SiteTypeOK /\ PassedInv /\ [SiteNext]_crawlVars => PassedInv'
<1> SUFFICES ASSUME TypeOK, SiteTypeOK, PassedInv, [SiteNext]_crawlVars
             PROVE  PassedInv'
  OBVIOUS
<1>1. ASSUME UNCHANGED <<site, listed, after, yielded, seen, mapped, changes,
                         always>>,
             req'[Chain].page = req[Chain].page,
             req'[Chain].st = "delivered" <=> req[Chain].st = "delivered"
      PROVE  PassedInv'
  <2>1. Passed' = Passed
    BY <1>1, PassedSame
  <2>2. Whole' = Whole
    BY <1>1 DEF Whole, StatedNow
  <2> QED BY <1>1, <2>1, <2>2 DEF PassedInv
<1>2. CASE Quiet
  <2>1. req'[Chain].st = "delivered" <=> req[Chain].st = "delivered"
    BY <1>2 DEF Quiet, Pending, InFlight
  <2> QED BY <1>1, <1>2, <2>1 DEF Quiet
<1>3. CASE Lost
  <2>1. req'[Chain].st # "delivered" /\ req[Chain].st # "delivered"
    BY <1>3 DEF Lost
  <2> QED BY <1>1, <1>3, <2>1 DEF Lost
<1>4. ASSUME NEW r, Kept(r), BackedOff(r) \/ Replayed(r) \/ Escalated(r) \/ Gated(r)
      PROVE  PassedInv'
  <2>1. req'[Chain].st # "delivered" /\ req[Chain].st # "delivered"
    BY <1>4 DEF Kept, BackedOff, Replayed, Escalated, Gated
  <2> QED BY <1>1, <1>4, <2>1 DEF Kept
<1>5. ASSUME NEW i \in Items, Changed(i) PROVE PassedInv'
  <2>1. /\ changes' # 0 /\ UNCHANGED <<site, after, yielded, req>>
        /\ req[Chain].st # "delivered"
        /\ always' = always \cap listed' /\ always \subseteq listed
    BY <1>5, SiteFacts DEF Changed, Settled
  <2>2. Whole' = Whole
    BY <2>1 DEF Whole, StatedNow
  <2>3. site.kind # "rest" => Passed' \cap always' \subseteq Passed \cap always
    BY <2>1 DEF Passed
  <2> QED BY <2>1, <2>2, <2>3 DEF PassedInv
<1> QED BY <1>2, <1>3, <1>4, <1>5, PassedParsed, Effects

LEMMA PassedAlways == SiteSpec => []PassedInv
<1>1. SiteInit => PassedInv
  <2> SUFFICES ASSUME SiteInit PROVE PassedInv
    OBVIOUS
  <2>1. /\ req[Chain].page = 1 /\ req[Chain].st = "scheduled"
        /\ listed = Catalogue /\ always = listed /\ after = 0
        /\ yielded = {} /\ seen = 0 /\ mapped = 0
        /\ listed \in SUBSET Items
    BY OneChain, SiteAssumption DEF SiteInit, Init, Fresh, NoCursor
  <2>2. Passed = {}
    <3>1. \A i \in listed : i \in Nat \ {0} /\ Rank(listed, i) >= 1
                                /\ Rank(listed, i) \in Nat
      BY <2>1, RankType, ItemsAssumption
    <3>2. (1 - 1) * PageSize = 0
      BY HarnessAssumption
    <3> QED BY <2>1, <3>1, <3>2 DEF Passed
  <2>3. Cardinality(Passed) = 0 /\ Cardinality(Passed \cap Whole) = 0
    <3>1. Passed \cap Whole = {}
      BY <2>2
    <3> QED BY <2>2, <3>1, FS_EmptySet
  <2> QED BY <2>1, <2>2, <2>3 DEF PassedInv
<1> QED BY <1>1, PassedStep, DownloaderHolds, SiteTypes, PTL DEF SiteSpec

(* Paging by cursor yields whatever was listed all the time with all its   *)
(* required fields, for every page size and every change of the catalogue  *)
(* in between: a cursor does not shift with what precedes it.              *)
THEOREM CursorKeepsAll == SiteSpec => []CursorMissesNothing
<1>1. SiteTypeOK /\ PassedInv => CursorMissesNothing
  BY DEF SiteTypeOK, PassedInv, Passed, CursorMissesNothing
<1> QED BY <1>1, PassedAlways, SiteTypes, PTL

-----------------------------------------------------------------------------
(***************************************************************************)
(* What the classifier calls the answers of each scenario.                 *)
(***************************************************************************)

LEMMA Labels ==
    LET r == AnswerTo(Chain)
        n == prior[IdentityOf(req[Chain])]
    IN  /\ site.scenario = "captcha" => Classify(r) = "captcha"
        /\ site.scenario = "soft_ban" => Classify(r) = "empty"
        /\ site.scenario \in {"happy", "drift", "errors"}
            => Classify(r) = "ok"
        /\ site.scenario = "rate_limited"
            => IF n < RateLimitedBurst
               THEN Classify(r) = "rate_limited" /\ r.status = "429"
               ELSE Classify(r) = "ok"
        /\ site.scenario = "cookie_wall"
            => IF req[Chain].jar \in cookies THEN Classify(r) = "ok"
               ELSE Classify(r) = "blocked" /\ CookieWall(r)
        /\ site.scenario = "block_after_n"
            => IF n >= BlockAfter THEN Classify(r) = "blocked"
               ELSE Classify(r) = "ok"
        /\ site.scenario # "rate_limited" => r.status \notin RetryableStatuses
        /\ site.scenario # "cookie_wall" => ~CookieWall(r)
        /\ r.setCookie => site.scenario = "cookie_wall"
<1> DEFINE r == AnswerTo(Chain)
           n == prior[IdentityOf(req[Chain])]
           carries == req[Chain].jar \in cookies
<1>1. /\ r.status = IF Limits(site.scenario, n) THEN "429"
                    ELSE IF \/ Blocks(site.scenario, n)
                            \/ Walls(site.scenario, carries)
                    THEN "other" ELSE "2xx"
      /\ r.body = IF site.scenario = "captcha" THEN "challenge"
                  ELSE IF site.scenario = "soft_ban" THEN "blank" ELSE "page"
      /\ r.setCookie = Walls(site.scenario, carries)
  BY DEF AnswerTo, Respond
<1> HIDE DEF r, n, carries
<1>2. /\ site.scenario = "captcha" => Classify(r) = "captcha"
      /\ site.scenario = "soft_ban" => Classify(r) = "empty"
      /\ site.scenario \in {"happy", "drift", "errors"} => Classify(r) = "ok"
  BY <1>1 DEF Classify, Limits, Blocks, Walls
<1>3. site.scenario = "rate_limited"
        => IF n < RateLimitedBurst
           THEN Classify(r) = "rate_limited" /\ r.status = "429"
           ELSE Classify(r) = "ok"
  BY <1>1 DEF Classify, Limits, Blocks, Walls
<1>4. site.scenario = "cookie_wall"
        => IF carries THEN Classify(r) = "ok"
           ELSE Classify(r) = "blocked" /\ CookieWall(r)
  BY <1>1 DEF Classify, Limits, Blocks, Walls, CookieWall
<1>5. site.scenario = "block_after_n"
        => IF n >= BlockAfter THEN Classify(r) = "blocked"
           ELSE Classify(r) = "ok"
  BY <1>1 DEF Classify, Limits, Blocks, Walls
<1>6. /\ site.scenario # "rate_limited" => r.status \notin RetryableStatuses
      /\ site.scenario # "cookie_wall" => ~CookieWall(r)
      /\ r.setCookie => site.scenario = "cookie_wall"
  BY <1>1 DEF Limits, Walls, CookieWall, RetryableStatuses
<1> QED BY <1>2, <1>3, <1>4, <1>5, <1>6 DEF r, n, carries

-----------------------------------------------------------------------------
(***************************************************************************)
(* What an adversary can bring about.                                      *)
(***************************************************************************)

LEMMA AppendOne ==
    ASSUME NEW s \in Seq(BanKinds), NEW k
    PROVE  Append(s, k) # <<>> /\ (s = <<>> => Append(s, k) = <<k>>)
<1>1. Append(s, k) # <<>>
  <2>1. Len(Append(s, k)) = Len(s) + 1 /\ Len(s) \in Nat
    BY AppendProperties, LenProperties
  <2>2. Len(<<>>) = 0
    OBVIOUS
  <2> QED BY <2>1, <2>2
<1>2. Append(<<>>, k) = <<k>>
  OBVIOUS
<1> QED BY <1>1, <1>2

LEMMA HarmStep ==
    TypeOK /\ SiteTypeOK /\ HarmInv /\ [SiteNext]_crawlVars => HarmInv'
<1> SUFFICES ASSUME TypeOK, SiteTypeOK, HarmInv, [SiteNext]_crawlVars
             PROVE  HarmInv'
  OBVIOUS
<1>0. banEvents \in Seq(BanKinds)
  BY DEF TypeOK
<1>1. ASSUME UNCHANGED <<site, yielded, mapped, banEvents>>,
             req'[Chain].st = "banned" <=> req[Chain].st = "banned",
             req'[Chain].st = "delivered" <=> req[Chain].st = "delivered"
      PROVE  HarmInv'
  BY <1>1 DEF HarmInv, BannedAs, Unbanned
<1>2. CASE Quiet
  <2>1. /\ req'[Chain].st = "banned" <=> req[Chain].st = "banned"
        /\ req'[Chain].st = "delivered" <=> req[Chain].st = "delivered"
    BY <1>2 DEF Quiet, Pending, InFlight
  <2> QED BY <1>1, <1>2, <2>1 DEF Quiet
<1>3. CASE Lost
  <2>1. /\ req'[Chain].st \notin {"banned", "delivered"}
        /\ req[Chain].st \notin {"banned", "delivered"}
    BY <1>3 DEF Lost
  <2> QED BY <1>1, <1>3, <2>1 DEF Lost
<1>4. ASSUME NEW r, r = AnswerTo(Chain), Kept(r),
             BackedOff(r) \/ Replayed(r) \/ Escalated(r)
      PROVE  HarmInv'
  <2>1. /\ req'[Chain].st \notin {"banned", "delivered"}
        /\ req[Chain].st \notin {"banned", "delivered"}
        /\ banEvents' = banEvents
    BY <1>4 DEF Kept, BackedOff, Replayed, Escalated
  <2> QED BY <1>1, <1>4, <2>1 DEF Kept
<1>5. ASSUME NEW r, r = AnswerTo(Chain), Kept(r), Gated(r)
      PROVE  HarmInv'
  <2>1. /\ req'[Chain].st = "banned" /\ req[Chain].st = "sent"
        /\ banEvents' = Append(banEvents, Classify(r))
        /\ Classify(r) # "ok" /\ UNCHANGED <<site, yielded, mapped>>
    BY <1>5 DEF Kept, Gated
  <2>2. /\ banEvents' # <<>>
        /\ banEvents = <<>> => banEvents' = <<Classify(r)>>
    BY <1>0, <2>1, AppendOne
  <2>3. /\ site.scenario = "captcha" => Classify(r) = "captcha"
        /\ site.scenario = "soft_ban" => Classify(r) = "empty"
        /\ site.scenario # "drift"
    BY <1>5, <2>1, Labels
  <2> QED BY <2>1, <2>2, <2>3 DEF HarmInv, BannedAs
<1>6. ASSUME NEW content \in Contents(req[Chain]), Parsed(content)
      PROVE  HarmInv'
  <2>1. /\ req'[Chain].st \in {"scheduled", "delivered"}
        /\ req[Chain].st = "sent" /\ UNCHANGED <<site, banEvents>>
        /\ Classify(AnswerTo(Chain)) = "ok"
        /\ yielded' = yielded \cup Mapped(content)
        /\ mapped' = mapped + Cardinality(Mapped(content))
    BY <1>6 DEF Parsed, Fresh, Parse
  <2>2. site.scenario \notin {"captcha", "soft_ban"}
    BY <2>1, Labels
  <2>3. CASE site.scenario = "drift"
    <3>1. Whole = {}
      BY <2>3 DEF Whole, StatedNow, RequiredFields
    <3>2. Mapped(content) = {}
      BY <3>1, SeenMapped DEF SiteTypeOK
    <3>3. Cardinality(Mapped(content)) = 0
      BY <3>2, FS_EmptySet
    <3> QED BY <2>1, <2>2, <2>3, <3>2, <3>3 DEF HarmInv, Unbanned
  <2>4. CASE site.scenario # "drift"
    BY <2>1, <2>2, <2>4 DEF HarmInv
  <2> QED BY <2>3, <2>4
<1>7. ASSUME NEW i \in Items, Changed(i) PROVE HarmInv'
  BY <1>1, <1>7 DEF Changed
<1>8. ASSUME NEW r, r = AnswerTo(Chain), Kept(r),
             BackedOff(r) \/ Replayed(r) \/ Escalated(r) \/ Gated(r)
      PROVE  HarmInv'
  BY <1>4, <1>5, <1>8
<1> QED BY <1>2, <1>3, <1>6, <1>7, <1>8, Effects

LEMMA HarmAlways == SiteSpec => []HarmInv
<1>1. SiteInit => HarmInv
  <2> SUFFICES ASSUME SiteInit PROVE HarmInv
    OBVIOUS
  <2>1. req[Chain].st = "scheduled" /\ banEvents = <<>> /\ yielded = {} /\ mapped = 0
    BY OneChain DEF SiteInit, Init, Fresh
  <2> QED BY <2>1 DEF HarmInv, BannedAs, Unbanned
<1> QED BY <1>1, HarmStep, DownloaderHolds, SiteTypes, PTL DEF SiteSpec

(* Challenge pages and blank pages never yield a product and end as one    *)
(* ban event of their kind; renamed fields yield nothing, are no ban, and  *)
(* flag the run wherever the drift check applies at all, for every page    *)
(* size and however the retries and lost answers fall.                     *)
THEOREM AdversaryGainsNothing == SiteSpec => []AdversaryYieldsNothing
<1>1. TypeOK /\ SiteTypeOK /\ PassedInv /\ HarmInv => AdversaryYieldsNothing
  <2> SUFFICES ASSUME TypeOK, SiteTypeOK, PassedInv, HarmInv
               PROVE  AdversaryYieldsNothing
    OBVIOUS
  <2>1. /\ site.scenario \in {"captcha", "soft_ban", "drift"} => yielded = {}
        /\ Served(Chain) /\ site.scenario = "captcha"
            => banEvents = <<"captcha">>
        /\ Served(Chain) /\ site.scenario = "soft_ban"
            => banEvents = <<"empty">>
        /\ site.scenario = "drift" => banEvents = <<>>
    BY DEF HarmInv, BannedAs, Unbanned, Served
  <2>2. ASSUME Served(Chain), site.scenario = "drift", changes = 0, DriftJudges
        PROVE  Status = "flagged"
    <3>1. req[Chain].st = "delivered" /\ mapped = 0
      BY <2>2 DEF HarmInv, Unbanned, Served
    <3>2. Cardinality(listed) = seen
      BY <2>2, <3>1 DEF PassedInv, Passed
    <3>3. /\ seen \in Nat /\ Cardinality(listed) \in Nat
          /\ Cardinality(listed) # 0
      BY <2>2, SiteFacts, FS_EmptySet DEF DriftJudges
    <3>4. /\ DriftMinEntries <= seen /\ seen # 0
          /\ DriftMaxUnmapped \in Nat /\ DriftMaxUnmapped < 100
          /\ DriftMinEntries \in Nat
      BY <2>2, <3>2, <3>3, SiteAssumption DEF DriftJudges
    <3>5. DriftMaxUnmapped * seen < 100 * (seen - mapped)
      <4>1. PICK d \in Nat \ {0} : d = 100 - DriftMaxUnmapped
        BY <3>4
      <4>2. d * seen \in Nat /\ d * seen >= seen
        BY <3>3, <4>1, Multiple
      <4>3. 100 * seen = DriftMaxUnmapped * seen + d * seen
        BY <3>3, <3>4, <4>1
      <4>4. DriftMaxUnmapped * seen \in Nat
        BY <3>3, <3>4
      <4> QED BY <3>1, <3>3, <3>4, <4>2, <4>3, <4>4
    <3>6. Gates!AssessDrift(seen, mapped)
      BY <3>4, <3>5, <3>3, <3>1 DEF Gates!AssessDrift
    <3> QED BY <3>6 DEF Status, Gates!RunStatus
  <2> QED BY <2>1, <2>2 DEF AdversaryYieldsNothing
<1> QED BY <1>1, PassedAlways, HarmAlways, SiteTypes, DownloaderHolds, PTL

(* Where a breaker has the margin of the default settings, a crawl of a    *)
(* catalogue that did not change, recorded as a success without a ban      *)
(* event, has yielded every whole entry and is short of no more than the   *)
(* drift limit allows - unless a download failed in the network or a       *)
(* GraphQL endpoint answered with errors, the losses the ledger does not   *)
(* show; for every page size and order of retries, bans and lost answers.  *)
THEOREM NothingLostInSilence ==
    ASSUME FailureThreshold > MaxAttempts
    PROVE  SiteSpec => []NoSilentLoss
<1>1. TypeOK /\ SiteTypeOK /\ PassedInv /\ HarmInv /\ NoneRefused => NoSilentLoss
  <2> SUFFICES ASSUME TypeOK, SiteTypeOK, PassedInv, HarmInv, NoneRefused, Ended,
                      changes = 0, Status = "success", banEvents = <<>>,
                      req[Chain].st # "failed", site.scenario # "errors"
               PROVE  /\ listed \cap Whole \subseteq yielded
                      /\ DriftMinEntries <= Cardinality(listed) =>
                           100 * Cardinality(listed \ yielded)
                               <= DriftMaxUnmapped * Cardinality(listed)
    BY DEF NoSilentLoss
  <2>1. req[Chain].st # "skipped"
    BY OneChain DEF NoneRefused
  <2>2. req[Chain].st = "delivered"
    BY <2>1 DEF Ended, Settled, HarmInv
  <2>3. Passed = listed /\ always = listed /\ yielded \subseteq listed \cap Whole
    BY <2>2 DEF Passed, PassedInv
  <2>4. listed \cap Whole = yielded
    BY <2>3 DEF PassedInv
  <2>5. seen = Cardinality(listed) /\ mapped = Cardinality(yielded)
    BY <2>3, <2>4 DEF PassedInv
  <2>6. Cardinality(listed) = Cardinality(listed \ yielded) + Cardinality(yielded)
    <3>1. /\ listed \ yielded \in SUBSET Items /\ yielded \in SUBSET Items
          /\ (listed \ yielded) \cap yielded = {}
          /\ (listed \ yielded) \cup yielded = listed
      BY <2>4, SiteFacts
    <3> QED BY <3>1, DisjointItems
  <2>7. Cardinality(listed \ yielded) \in Nat
    <3>1. listed \ yielded \in SUBSET Items
      BY SiteFacts
    <3> QED BY <3>1, ItemsFinite
  <2>8. ~Gates!AssessDrift(seen, mapped)
    BY DEF Status, Gates!RunStatus
  <2>9. Cardinality(listed \ yielded) = seen - mapped
    BY <2>5, <2>6, <2>7, SiteFacts
  <2>10. seen = 0 => seen - mapped = 0
    BY SiteFacts
  <2>11. seen >= DriftMinEntries => ~(100 * (seen - mapped) > DriftMaxUnmapped * seen)
    BY <2>8, <2>10, SiteFacts, SiteAssumption DEF Gates!AssessDrift
  <2>12. 100 * (seen - mapped) \in Int /\ DriftMaxUnmapped * seen \in Int
    BY SiteFacts, SiteAssumption
  <2>13. seen >= DriftMinEntries => 100 * (seen - mapped) <= DriftMaxUnmapped * seen
    BY <2>11, <2>12
  <2> QED BY <2>4, <2>5, <2>9, <2>13, SiteFacts, SiteAssumption
<1>2. Spec => []NoneRefused
  BY NoRefusal
<1> QED BY <1>1, <1>2, SiteRefines, PassedAlways, HarmAlways, SiteTypes,
           DownloaderHolds, PTL

-----------------------------------------------------------------------------
(***************************************************************************)
(* What the resilience layer recovers from.                                *)
(***************************************************************************)

(* Within the catalogue of identities every identity has a name of its own.*)
LEMMA FiveIdentities ==
    /\ \A k \in 1..5 : Profiles[k] # "contact" /\ ProfileOf(k - 1) = Profiles[k]
    /\ \A j, k \in 1..5 : j # k => Profiles[j] # Profiles[k]
<1>1. \A k \in 1..5 : (k - 1) \in Nat /\ (k - 1) % 5 = k - 1
  OBVIOUS
<1>2. \A k \in 1..5 : ProfileOf(k - 1) = Profiles[((k - 1) % 5) + 1]
  BY <1>1, ProfilesLength
<1>3. \A k \in 1..5 : ((k - 1) % 5) + 1 = k
  BY <1>1
<1>4. \A k \in 1..5 : ProfileOf(k - 1) = Profiles[k]
  BY <1>2, <1>3
<1>5. /\ Profiles[1] = "chrome-win" /\ Profiles[2] = "chrome-mac"
      /\ Profiles[3] = "firefox-win" /\ Profiles[4] = "firefox-linux"
      /\ Profiles[5] = "safari-mac"
  BY DEF Profiles
<1>6. \A k \in 1..5 : k = 1 \/ k = 2 \/ k = 3 \/ k = 4 \/ k = 5
  OBVIOUS
<1>7. \A k \in 1..5 : Profiles[k] # "contact"
  BY <1>5, <1>6
<1>8. \A j, k \in 1..5 : j # k => Profiles[j] # Profiles[k]
  BY <1>5, <1>6
<1> QED BY <1>4, <1>7, <1>8

(* The request counted is one of an identity already presented.            *)
LEMMA CountsPresented ==
    ASSUME TypeOK, JarInv, SiteTypeOK, bundle <= 5,
           NEW k \in 1..5, k > bundle
    PROVE  /\ IdentityOf(req[Chain]) # Profiles[k]
           /\ Bump(prior, IdentityOf(req[Chain]))[Profiles[k]] = prior[Profiles[k]]
<1>1. /\ req[Chain].jar \in Nat /\ req[Chain].jar <= bundle /\ bundle \in Nat
  BY DEF JarInv, TypeOK
<1>2. IdentityOf(req[Chain]) # Profiles[k]
  <2>1. CASE req[Chain].jar = 0
    BY <2>1, FiveIdentities DEF IdentityOf
  <2>2. CASE req[Chain].jar # 0
    <3>1. PICK j \in 1..5 : j = req[Chain].jar /\ j # k
      BY <1>1, <2>2
    <3>2. IdentityOf(req[Chain]) = Profiles[j]
      BY <2>2, <3>1, FiveIdentities DEF IdentityOf
    <3> QED BY <3>1, <3>2, FiveIdentities
  <2> QED BY <2>1, <2>2
<1>3. Profiles[k] \in Identities \ {IdentityOf(req[Chain])}
  BY <1>2, ProfilesLength
<1> QED BY <1>2, <1>3, IdentityType, BumpType DEF SiteTypeOK

(* A request that is out goes out as the identity in use.                  *)
LEMMA SentAsCurrent ==
    ASSUME TypeOK, JarInv, AllCarry, req[Chain].st = "sent"
    PROVE  IdentityOf(req[Chain]) = CurrentIdentity
<1>1. Carries(req[Chain], trace[Chain])
  BY OneChain DEF AllCarry
<1>2. /\ req[Chain].jar \in Nat /\ req[Chain].jar <= bundle /\ bundle \in Nat
      /\ bundle > 0 => req[Chain].jar = bundle
  BY <1>1 DEF JarInv, TypeOK, Carries, InFlight
<1> QED BY <1>2 DEF IdentityOf, CurrentIdentity

(* What the scenario's case of RecoverInv says.                            *)
Recovers ==
    /\ Unbanned
    /\ site.scenario = "cookie_wall" =>
        bundle = 0 /\ (req[Chain].rotation > 0 => 0 \in cookies)
    /\ site.scenario = "rate_limited" =>
        bundle = 0 /\ req[Chain].backoff <= prior["contact"]
    /\ site.scenario = "block_after_n" => BudgetInv

LEMMA RecoverSame ==
    ASSUME UNCHANGED <<site, bundle, banEvents, prior, cookies>>,
           req'[Chain].rotation = req[Chain].rotation,
           req'[Chain].backoff = req[Chain].backoff,
           req'[Chain].netRetry = req[Chain].netRetry,
           req'[Chain].st = "banned" => req[Chain].st = "banned",
           req'[Chain].st \in Pending => req[Chain].st \in Pending,
           Recovers
    PROVE  Recovers'
<1>1. CurrentIdentity' = CurrentIdentity
  BY DEF CurrentIdentity
<1> QED BY <1>1 DEF Recovers, Unbanned, BudgetInv

LEMMA BeyondUnused ==
    ASSUME TypeOK, JarInv, SiteTypeOK, BudgetInv, bundle <= 5,
           prior' \in {prior, Bump(prior, IdentityOf(req[Chain]))}
    PROVE  \A k \in 1..5 : k > bundle => prior'[Profiles[k]] = 0
<1> SUFFICES ASSUME NEW k \in 1..5, k > bundle PROVE prior'[Profiles[k]] = 0
  OBVIOUS
<1>1. prior[Profiles[k]] = 0
  BY ProfilesLength DEF BudgetInv
<1> QED BY <1>1, CountsPresented

LEMMA ContactCounted ==
    ASSUME TypeOK, JarInv, SiteTypeOK, bundle = 0
    PROVE  /\ IdentityOf(req[Chain]) = "contact" /\ req[Chain].jar = 0
           /\ prior["contact"] \in Nat
           /\ Bump(prior, IdentityOf(req[Chain]))["contact"] = prior["contact"] + 1
<1>1. req[Chain].jar = 0
  BY DEF JarInv
<1>2. IdentityOf(req[Chain]) = "contact" /\ "contact" \in Identities
  BY <1>1 DEF IdentityOf, Identities
<1> QED BY <1>1, <1>2, BumpType DEF SiteTypeOK

LEMMA RecoverLost ==
    ASSUME TypeOK, JarInv, SiteTypeOK, Recoverable, Recovers, Lost
    PROVE  Recovers'
<1>0. /\ UNCHANGED <<site, bundle, banEvents, cookies>>
      /\ req'[Chain].rotation = req[Chain].rotation
      /\ req'[Chain].backoff = req[Chain].backoff
      /\ req'[Chain].st \in {"scheduled", "failed"}
      /\ prior' \in {prior, Bump(prior, IdentityOf(req[Chain]))}
  BY DEF Lost
<1>1. Unbanned'
  BY <1>0 DEF Recovers, Unbanned
<1>2. CASE site.scenario = "rate_limited"
  <2>1. prior'["contact"] >= prior["contact"]
    BY <1>0, <1>2, ContactCounted DEF Recovers
  <2>2. req[Chain].backoff <= prior["contact"] /\ bundle = 0
    BY <1>2 DEF Recovers
  <2>3. req'[Chain].backoff <= prior'["contact"]
    <3>1. prior["contact"] \in Nat /\ prior'["contact"] \in Nat
          /\ req[Chain].backoff \in Nat
      BY <1>0, <2>2, ContactCounted, SiteFacts
    <3> QED BY <1>0, <2>1, <2>2, <3>1
  <2> QED BY <1>0, <1>1, <1>2, <2>2, <2>3 DEF Recovers
<1>3. CASE site.scenario = "block_after_n"
  <2>1. BudgetInv /\ bundle <= 5
    BY <1>3, ProfilesLength DEF Recovers, Recoverable
  <2>2. \A k \in 1..5 : k > bundle => prior'[Profiles[k]] = 0
    BY <1>0, <2>1, BeyondUnused
  <2>3. /\ req[Chain].rotation \in Nat /\ req[Chain].netRetry \in Nat
        /\ req[Chain].rotation <= req[Chain].netRetry + 1
    BY <2>1, SiteFacts DEF BudgetInv
  <2>4. \/ req'[Chain].st \notin Pending /\ req'[Chain].netRetry = req[Chain].netRetry
        \/ req'[Chain].netRetry = req[Chain].netRetry + 1
    BY DEF Lost, Pending, InFlight
  <2>5. /\ req'[Chain].rotation <= req'[Chain].netRetry + 1
        /\ req'[Chain].rotation = req'[Chain].netRetry + 1
                => req'[Chain].st \notin Pending
    BY <1>0, <2>3, <2>4
  <2>6. BudgetInv'
    BY <1>0, <2>2, <2>5, ProfilesLength DEF BudgetInv
  <2> QED BY <1>0, <1>1, <1>3, <2>6 DEF Recovers
<1>4. CASE site.scenario \notin {"rate_limited", "block_after_n"}
  BY <1>0, <1>1, <1>4 DEF Recovers
<1> QED BY <1>2, <1>3, <1>4

LEMMA RecoverParsed ==
    ASSUME TypeOK, JarInv, SiteTypeOK, Recoverable, Recovers,
           NEW content, Parsed(content)
    PROVE  Recovers'
<1>0. /\ UNCHANGED <<site, bundle, banEvents>>
      /\ prior' \in {prior, Bump(prior, IdentityOf(req[Chain]))}
      /\ cookies \subseteq cookies'
  BY DEF Parsed
<1>1. \/ /\ req'[Chain].st = "scheduled" /\ req'[Chain].backoff = 0
         /\ req'[Chain].rotation = 0 /\ req'[Chain].netRetry = 0
      \/ /\ req'[Chain].st = "delivered"
         /\ req'[Chain].backoff = req[Chain].backoff
         /\ req'[Chain].rotation = req[Chain].rotation
         /\ req'[Chain].netRetry = req[Chain].netRetry
  BY DEF Parsed, Fresh
<1>2. Unbanned'
  BY <1>0, <1>1 DEF Recovers, Unbanned
<1>3. CASE site.scenario = "rate_limited"
  <2>1. /\ req[Chain].backoff <= prior["contact"] /\ bundle = 0
        /\ req[Chain].backoff \in Nat
    BY <1>3, SiteFacts DEF Recovers
  <2>2. prior["contact"] \in Nat /\ prior'["contact"] \in Nat
        /\ prior'["contact"] >= prior["contact"]
    BY <1>0, <2>1, ContactCounted
  <2>3. req'[Chain].backoff <= prior'["contact"]
    BY <1>1, <2>1, <2>2
  <2> QED BY <1>0, <1>2, <1>3, <2>1, <2>3 DEF Recovers
<1>4. CASE site.scenario = "block_after_n"
  <2>1. BudgetInv /\ bundle <= 5
    BY <1>4, ProfilesLength DEF Recovers, Recoverable
  <2>2. \A k \in 1..5 : k > bundle => prior'[Profiles[k]] = 0
    BY <1>0, <2>1, BeyondUnused
  <2>3. /\ req'[Chain].rotation <= req'[Chain].netRetry + 1
        /\ req'[Chain].rotation = req'[Chain].netRetry + 1
                => req'[Chain].st \notin Pending
    BY <1>1, <2>1 DEF BudgetInv, Pending, InFlight
  <2>4. BudgetInv'
    BY <1>0, <2>2, <2>3, ProfilesLength DEF BudgetInv
  <2> QED BY <1>0, <1>2, <1>4, <2>4 DEF Recovers
<1>5. CASE site.scenario = "cookie_wall"
  <2>1. bundle = 0 /\ (req[Chain].rotation > 0 => 0 \in cookies)
    BY <1>5 DEF Recovers
  <2>2. req'[Chain].rotation > 0 => 0 \in cookies'
    BY <1>0, <1>1, <2>1
  <2> QED BY <1>0, <1>2, <1>5, <2>1, <2>2 DEF Recovers
<1>6. CASE site.scenario \notin {"rate_limited", "block_after_n", "cookie_wall"}
  BY <1>0, <1>2, <1>6 DEF Recovers
<1> QED BY <1>3, <1>4, <1>5, <1>6

(* A retry after a 429: only a burst brings it about, and it is counted.   *)
LEMMA RecoverBackedOff ==
    ASSUME TypeOK, JarInv, SiteTypeOK, Recoverable, Recovers,
           NEW r, r = AnswerTo(Chain), Kept(r), BackedOff(r)
    PROVE  Recovers'
<1>1. site.scenario = "rate_limited"
  BY Labels DEF BackedOff
<1>2. /\ bundle = 0 /\ req[Chain].backoff <= prior["contact"]
      /\ req[Chain].backoff \in Nat
  BY <1>1, SiteFacts DEF Recovers
<1>3. prior'["contact"] = prior["contact"] + 1 /\ prior["contact"] \in Nat
  BY <1>2, ContactCounted DEF Kept
<1>4. req'[Chain].backoff <= prior'["contact"]
  BY <1>2, <1>3 DEF BackedOff
<1>5. Unbanned'
  BY DEF Recovers, Unbanned, BackedOff
<1> QED BY <1>1, <1>2, <1>4, <1>5 DEF Recovers, Kept, BackedOff

(* A cookie retry: only a wall brings it about, and it has its cookie.     *)
LEMMA RecoverReplayed ==
    ASSUME TypeOK, JarInv, SiteTypeOK, Recoverable, Recovers,
           NEW r, r = AnswerTo(Chain), Kept(r), Replayed(r)
    PROVE  Recovers'
<1>1. site.scenario = "cookie_wall"
  BY Labels DEF Replayed
<1>2. bundle = 0
  BY <1>1 DEF Recovers
<1>3. req[Chain].jar = 0
  BY <1>2, ContactCounted
<1>4. r.setCookie
  BY DEF Replayed, CookieWall
<1>5. 0 \in cookies'
  BY <1>3, <1>4 DEF Kept
<1>6. Unbanned'
  BY DEF Recovers, Unbanned, Replayed
<1> QED BY <1>1, <1>2, <1>5, <1>6 DEF Recovers, Kept, Replayed

(* A blocked request used up the budget of the identity in use, so the     *)
(* last rotation was not to a fresh one.                                   *)
LEMMA BlockedIsSpent ==
    ASSUME TypeOK, JarInv, SiteTypeOK, AllCarry, Recoverable, Recovers,
           NEW r, r = AnswerTo(Chain), Kept(r), Classify(r) # "ok",
           site.scenario = "block_after_n"
    PROVE  req[Chain].rotation <= req[Chain].netRetry
<1>1. prior[IdentityOf(req[Chain])] >= BlockAfter /\ BlockAfter > 0
  BY Labels DEF Recoverable
<1>2. prior[CurrentIdentity] # 0 /\ req[Chain].st \in Pending
  BY <1>1, SentAsCurrent, HarnessAssumption DEF Kept, Pending, InFlight
<1>3. /\ req[Chain].rotation <= req[Chain].netRetry + 1
      /\ req[Chain].rotation # req[Chain].netRetry + 1
  BY <1>2 DEF Recovers, BudgetInv
<1> QED BY <1>3, SiteFacts

(* An escalation: only a budget brings it about, and the new identity has  *)
(* made no request yet.                                                    *)
LEMMA RecoverEscalated ==
    ASSUME TypeOK, JarInv, SiteTypeOK, AllCarry, Recoverable, Recoverable',
           Recovers, NEW r, r = AnswerTo(Chain), Kept(r), Escalated(r)
    PROVE  Recovers'
<1>1. Classify(r) # "ok" /\ Classify(r) # "rate_limited" /\ ~CookieWall(r)
  BY DEF Escalated, RotateOn, CircuitFailures
<1>2. site.scenario \in {"happy", "cookie_wall", "rate_limited", "block_after_n"}
  BY DEF Recoverable
<1>3. site.scenario = "block_after_n"
  BY <1>1, <1>2, Labels
<1>4. /\ site' = site /\ bundle' = bundle + 1 /\ banEvents' = banEvents
      /\ req'[Chain].st = "scheduled"
      /\ req'[Chain].rotation = req[Chain].rotation + 1
      /\ req'[Chain].netRetry = req[Chain].netRetry
      /\ prior' = Bump(prior, IdentityOf(req[Chain]))
  BY DEF Kept, Escalated
<1>5. bundle \in Nat /\ bundle' <= 5
  BY <1>3, <1>4, ProfilesLength, SiteFacts DEF Recoverable
<1>6. BudgetInv /\ bundle <= 5
  BY <1>3, <1>4, <1>5 DEF Recovers
<1>7. \A k \in 1..5 : k > bundle => prior'[Profiles[k]] = 0
  BY <1>4, <1>6, BeyondUnused
<1>8. prior'[CurrentIdentity'] = 0
  <2>1. PICK k \in 1..5 : k = bundle'
    BY <1>4, <1>5
  <2>2. CurrentIdentity' = ProfileOf(k - 1) /\ k > bundle
    BY <1>4, <1>5, <2>1 DEF CurrentIdentity
  <2> QED BY <1>7, <2>2, FiveIdentities
<1>9. req'[Chain].rotation <= req'[Chain].netRetry + 1
  <2>1. req[Chain].rotation <= req[Chain].netRetry
    BY <1>1, <1>3, BlockedIsSpent
  <2> QED BY <1>4, <2>1, SiteFacts
<1>10. \A k \in 1..Len(Profiles) : k > bundle' => prior'[Profiles[k]] = 0
  BY <1>4, <1>5, <1>7, ProfilesLength
<1>11. BudgetInv'
  BY <1>8, <1>9, <1>10 DEF BudgetInv
<1>12. Unbanned'
  BY <1>4 DEF Recovers, Unbanned
<1> QED BY <1>3, <1>4, <1>11, <1>12 DEF Recovers

(* The ban gate has nothing to drop.                                       *)
LEMMA NeverGated ==
    ASSUME TypeOK, JarInv, SiteTypeOK, AllCarry, Recoverable, Recovers,
           NEW r, r = AnswerTo(Chain), Kept(r), Gated(r)
    PROVE  FALSE
<1>1. /\ Classify(r) # "ok" /\ ~PlansBackoff(Chain, r)
      /\ Classify(r) \in RotateOn => ~AttemptsLeft(Chain)
  BY DEF Gated
<1>2. /\ MaxAttempts \in Nat /\ MaxRetries \in Nat /\ MaxNetRetries \in Nat
      /\ RateLimitedBurst \in Nat
      /\ req[Chain].rotation \in Nat /\ req[Chain].backoff \in Nat
      /\ req[Chain].netRetry \in 0..MaxNetRetries
      /\ "blocked" \in RotateOn
  BY DownloaderAssumption, HarnessAssumption, SiteFacts
     DEF Request, RotateOn, CircuitFailures
<1>3. CASE site.scenario = "happy"
  BY <1>1, <1>3, Labels
<1>4. CASE site.scenario = "cookie_wall" /\ MaxAttempts > 0
  <2>1. bundle = 0 /\ (req[Chain].rotation > 0 => 0 \in cookies)
    BY <1>4 DEF Recovers
  <2>2. req[Chain].jar = 0
    BY <2>1, ContactCounted
  <2>3. 0 \notin cookies /\ Classify(r) = "blocked"
    BY <1>1, <1>4, <2>2, Labels
  <2> QED BY <1>1, <1>2, <1>4, <2>1, <2>3 DEF AttemptsLeft
<1>5. CASE site.scenario = "rate_limited" /\ RateLimitedBurst <= MaxRetries
  <2>1. bundle = 0 /\ req[Chain].backoff <= prior["contact"]
    BY <1>5 DEF Recovers
  <2>2. IdentityOf(req[Chain]) = "contact" /\ prior["contact"] \in Nat
    BY <2>1, ContactCounted
  <2>3. prior["contact"] < RateLimitedBurst /\ r.status = "429"
    BY <1>1, <1>5, <2>2, Labels
  <2>4. req[Chain].backoff < MaxRetries
    BY <1>2, <1>5, <2>1, <2>2, <2>3
  <2> QED BY <1>1, <2>3, <2>4 DEF PlansBackoff, RetryableStatuses
<1>6. CASE site.scenario = "block_after_n" /\ MaxNetRetries < MaxAttempts
  <2>1. req[Chain].rotation <= req[Chain].netRetry
    BY <1>1, <1>6, BlockedIsSpent
  <2>2. Classify(r) = "blocked"
    BY <1>1, <1>6, Labels
  <2>3. AttemptsLeft(Chain)
    BY <1>2, <1>6, <2>1 DEF AttemptsLeft
  <2> QED BY <1>1, <1>2, <2>2, <2>3
<1> QED BY <1>3, <1>4, <1>5, <1>6 DEF Recoverable

LEMMA RecoverStep ==
    TypeOK /\ AllCarry /\ JarInv /\ SiteTypeOK /\ RecoverInv
        /\ [SiteNext]_crawlVars => RecoverInv'
<1> SUFFICES ASSUME TypeOK, AllCarry, JarInv, SiteTypeOK, RecoverInv,
                    [SiteNext]_crawlVars, Recoverable'
             PROVE  Recovers'
  BY DEF RecoverInv, Recovers
<1>0. Recoverable /\ Recovers
  <2>1. site' = site /\ bundle \in Nat /\ bundle' \in {bundle, bundle + 1}
    <3>1. bundle \in Nat
      BY SiteFacts
    <3> QED BY <3>1, Effects DEF Quiet, Lost, Kept, BackedOff, Replayed,
              Escalated, Gated, Parsed, Changed
  <2>2. bundle' <= Len(Profiles) => bundle <= Len(Profiles)
    BY <2>1, ProfilesLength
  <2>3. Recoverable
    BY <2>1, <2>2 DEF Recoverable
  <2> QED BY <2>3 DEF RecoverInv, Recovers
<1>1. CASE Quiet
  <2>1. /\ req'[Chain].st = "banned" => req[Chain].st = "banned"
        /\ req'[Chain].st \in Pending => req[Chain].st \in Pending
    BY <1>1 DEF Quiet, Pending, InFlight
  <2> QED BY <1>0, <1>1, <2>1, RecoverSame DEF Quiet
<1>2. CASE Lost
  BY <1>0, <1>2, RecoverLost
<1>3. ASSUME NEW r, r = AnswerTo(Chain), Kept(r),
             BackedOff(r) \/ Replayed(r) \/ Escalated(r) \/ Gated(r)
      PROVE  Recovers'
  BY <1>0, <1>3, RecoverBackedOff, RecoverReplayed, RecoverEscalated, NeverGated
<1>4. ASSUME NEW content \in Contents(req[Chain]), Parsed(content)
      PROVE  Recovers'
  BY <1>0, <1>4, RecoverParsed
<1>5. ASSUME NEW i \in Items, Changed(i) PROVE Recovers'
  <2>1. /\ UNCHANGED <<site, bundle, banEvents, prior, cookies, req>>
    BY <1>5 DEF Changed
  <2> QED BY <1>0, <2>1, RecoverSame
<1> QED BY <1>1, <1>2, <1>3, <1>4, <1>5, Effects

LEMMA RecoverAlways == SiteSpec => []RecoverInv
<1>1. SiteInit => RecoverInv
  <2> SUFFICES ASSUME SiteInit PROVE RecoverInv
    OBVIOUS
  <2>1. /\ req[Chain].st = "scheduled" /\ banEvents = <<>> /\ bundle = 0
        /\ req[Chain].rotation = 0 /\ req[Chain].backoff = 0
        /\ req[Chain].netRetry = 0 /\ prior = [i \in Identities |-> 0]
    BY OneChain DEF SiteInit, Init, Fresh
  <2>2. prior["contact"] = 0 /\ \A k \in 1..5 : prior[Profiles[k]] = 0
    BY <2>1, ProfilesLength DEF Identities
  <2>3. BudgetInv
    BY <2>1, <2>2, ProfilesLength DEF BudgetInv
  <2> QED BY <2>1, <2>2, <2>3 DEF RecoverInv, Unbanned
<1> QED BY <1>1, RecoverStep, DownloaderHolds, SiteTypes, PTL DEF SiteSpec

(* What is recoverable is recovered from, in full and without a ban event: *)
(* any burst within the back-off retries, a wall with an attempt to spare, *)
(* a request budget while fresh identities last and rotations outnumber    *)
(* the answers a page may lose, for every catalogue and page size.         *)
THEOREM CatalogueAlwaysRecovered == SiteSpec => []CatalogueRecovered
<1>1. PassedInv /\ RecoverInv => CatalogueRecovered
  <2> SUFFICES ASSUME PassedInv, RecoverInv, Served(Chain), changes = 0,
                      Recoverable
               PROVE  yielded = listed \cap Whole /\ banEvents = <<>>
    BY DEF CatalogueRecovered
  <2>1. req[Chain].st = "delivered" /\ banEvents = <<>>
    BY DEF RecoverInv, Unbanned, Served
  <2>2. site.scenario # "errors"
    BY DEF Recoverable
  <2>3. Passed = listed /\ always = listed /\ yielded \subseteq listed \cap Whole
    BY <2>1 DEF Passed, PassedInv
  <2>4. Passed \cap always \cap Whole \subseteq yielded
    BY <2>2 DEF PassedInv
  <2> QED BY <2>1, <2>3, <2>4
<1> QED BY <1>1, PassedAlways, RecoverAlways, PTL

=============================================================================
