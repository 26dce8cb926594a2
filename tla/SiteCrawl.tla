----------------------------- MODULE SiteCrawl -----------------------------
(***************************************************************************)
(* A whole crawl of one shop: a shipped extractor (acquisition/sources/)   *)
(* that pages through a catalogue, the four resilience middlewares of      *)
(* Downloader, and the adversarial harness as the server.  Where           *)
(* Downloader lets a server answer anything, here every answer follows     *)
(* from the scenario, the identity of the request, its cookies and its     *)
(* page; and where Downloader lets a page ask for another or not, here the *)
(* extractor decides.                                                      *)
(*                                                                         *)
(* The shop may change its catalogue between two pages.  The harness       *)
(* serves REST only; the GraphQL connection and the rendered listing are   *)
(* external servers that answer as the extractors expect.                  *)
(***************************************************************************)
EXTENDS Downloader, Harness, Extractors

CONSTANTS
    Catalogue,         \* what the shop lists at first
    Statements,        \* the required fields its entries may state
    MaxChanges,        \* bound: changes to the catalogue during the crawl
    DriftMinEntries,   \* ACQUIRE_DRIFT_MIN_ENTRIES
    DriftMaxUnmapped   \* ACQUIRE_DRIFT_MAX_UNMAPPED_RATIO, per cent

ASSUME SiteAssumption ==
    /\ InfraChains = {} /\ \E c \in Chains : Chains = {c}
    /\ HarnessAnswers \subseteq Responses
    /\ Catalogue \subseteq Items
    /\ Statements \subseteq [Items -> SUBSET RequiredFields]
    /\ MaxChanges \in Nat
    /\ MaxPages > Cardinality(Catalogue) + MaxChanges + 1
    /\ DriftMinEntries \in Nat /\ DriftMaxUnmapped \in Nat

VARIABLES
    site,      \* the kind of source, the server's scenario and its entries
    listed,    \* the catalogue now
    prior,     \* _IdentityCounter: the requests of every identity
    cookies,   \* the jars that hold the session cookie
    after,     \* the cursor in the body of the current GraphQL request
    yielded,   \* the products parse() yielded
    seen,      \* acquire/entries_seen
    mapped,    \* acquire/entries_mapped
    changes,   \* how often the catalogue changed (history)
    always     \* what was listed all the time (history)

siteVars  == <<site, listed, prior, cookies, after, yielded, seen, mapped,
               changes, always>>
crawlVars == <<vars, siteVars>>

Gates == INSTANCE QualityGates WITH
    PriceMin <- 0, PriceMax <- 0, MaxJumpRatio <- 1,
    VolumeTolerance <- 0, VolumeMinBaseline <- 0

Chain == CHOOSE c \in Chains : TRUE
Ended == req[Chain].st \in Settled

(* The harness takes the User-Agent for the identity: the contact one, or  *)
(* that of the profile the request was stamped with.                       *)
Identities == {"contact"} \cup {Profiles[k] : k \in 1..Len(Profiles)}

IdentityOf(q) == IF q.jar = 0 THEN "contact" ELSE ProfileOf(q.jar - 1)

(* What a server of a kind may be up to; "errors" is a GraphQL endpoint    *)
(* that answers with an errors payload now and then.                       *)
ScenariosOf(kind) ==
    IF kind = "rest" THEN Scenario
    ELSE {"happy", "drift"} \cup (IF kind = "graphql" THEN {"errors"} ELSE {})

Sites == {s \in [kind : Kinds, scenario : Scenario \cup {"errors"},
                 stated : Statements] : s.scenario \in ScenariosOf(s.kind)}

SiteInit ==
    /\ Init
    /\ site \in Sites
    /\ listed   = Catalogue
    /\ prior    = [i \in Identities |-> 0]
    /\ cookies  = {}
    /\ after    = NoCursor
    /\ yielded  = {}
    /\ seen     = 0
    /\ mapped   = 0
    /\ changes  = 0
    /\ always   = Catalogue

-----------------------------------------------------------------------------
(***************************************************************************)
(* What an answer that passed the ban gate holds.                          *)
(***************************************************************************)

Beyond(cursor) == {i \in listed : i > cursor}

(* The first PageSize products beyond the cursor, or the page by number,   *)
(* or the whole listing.                                                   *)
EntriesOf(q) ==
    IF site.kind = "rest" THEN HappyPage(listed, q.page)
    ELSE IF site.kind = "graphql" THEN HappyPage(Beyond(after), 1)
    ELSE listed

(* drift_page() renames the fields an extractor maps.                      *)
StatedNow ==
    IF site.scenario = "drift" THEN [i \in Items |-> {}] ELSE site.stated

(* pageInfo: the last product of the page, if others follow it.            *)
EndCursor(entries) ==
    IF entries # {} /\ \E i \in listed : \A j \in entries : i > j
    THEN CHOOSE i \in entries : \A j \in entries : j <= i
    ELSE NoCursor

Contents(q) ==
    [envelope : IF site.scenario = "errors" THEN BOOLEAN ELSE {TRUE},
     entries  : {EntriesOf(q)},
     stated   : {StatedNow},
     end      : {EndCursor(EntriesOf(q))}]

(* Mutant: the two counts of record_parse are swapped.                     *)
ParseSwapped(content) ==
    /\ yielded' = yielded \cup Mapped(content)
    /\ seen' = seen + Cardinality(Mapped(content))
    /\ mapped' = mapped + Cardinality(Seen(content))
    /\ after' = IF Follows(site.kind, content) THEN content.end ELSE after

(* parse(): yields what maps, counts what it saw (record_parse), and asks  *)
(* for the next page or not.                                               *)
Parse(content) ==
    /\ yielded' = yielded \cup Mapped(content)
    /\ seen' = seen + Cardinality(Seen(content))
    /\ mapped' = mapped + Cardinality(Mapped(content))
    /\ after' = IF Follows(site.kind, content) THEN content.end ELSE after

ParseNothing == UNCHANGED <<yielded, seen, mapped, after>>

-----------------------------------------------------------------------------
(* The server counts a request and makes up its answer.                    *)
Count(c) == prior' = Bump(prior, IdentityOf(req[c]))

AnswerTo(c) ==
    Respond(site.scenario, prior[IdentityOf(req[c])], req[c].jar \in cookies)

(* CookiesMiddleware stores what it sees before the other middlewares.     *)
KeepCookie(c, r) ==
    cookies' = IF r.setCookie THEN cookies \cup {req[c].jar} ELSE cookies

(* The rendered listing waits for a card to appear: without one there is   *)
(* no answer, the download fails.                                          *)
Answers(c) ==
    /\ req[c].st = "sent"
    /\ site.kind = "html" => listed # {}

(* An answer the resilience layer keeps to itself ...                      *)
Recover(c) ==
    LET r == AnswerTo(c) IN
    /\ Answers(c)
    /\ BackoffRetry(c, r) \/ CookieRetry(c, r) \/ RotateRetry(c, r)
         \/ BanGate(c, r)
    /\ Count(c) /\ KeepCookie(c, r) /\ ParseNothing
    /\ UNCHANGED <<site, listed, changes, always>>

(* ... or one that reaches parse().                                        *)
Reach(c) ==
    LET r == AnswerTo(c) IN
    /\ Answers(c)
    /\ \E content \in Contents(req[c]) :
        /\ IF Follows(site.kind, content) THEN FollowUp(c, r) ELSE Deliver(c, r)
        /\ Parse(content)
    /\ Count(c) /\ KeepCookie(c, r)
    /\ UNCHANGED <<site, listed, changes, always>>

(* An answer is lost, after the server counted the request or before.      *)
Lose(c) ==
    /\ NetworkRetry(c) \/ NetworkFailure(c)
    /\ Count(c) \/ UNCHANGED prior
    /\ UNCHANGED <<site, listed, cookies, after, yielded, seen, mapped,
                   changes, always>>

(* The shop lists another product, or one less.                            *)
Change(i) ==
    /\ ~Ended
    /\ changes < MaxChanges
    /\ listed' = IF i \in listed THEN listed \ {i} ELSE listed \cup {i}
    /\ changes' = changes + 1
    /\ always' = always \cap listed'
    /\ UNCHANGED <<vars, site, prior, cookies, after, yielded, seen, mapped>>

CrawlStep(c)  == Outbound(c) /\ UNCHANGED siteVars
ServerStep(c) == Recover(c) \/ Reach(c) \/ Lose(c)
Pass          == Tick /\ UNCHANGED siteVars

SiteNext ==
    \/ \E c \in Chains : CrawlStep(c) \/ ServerStep(c)
    \/ Pass
    \/ \E i \in Items : Change(i)

SiteSpec == SiteInit /\ [][SiteNext]_crawlVars

-----------------------------------------------------------------------------
(***************************************************************************)
(* What must hold.                                                         *)
(***************************************************************************)

(* Every variable keeps its type.                                          *)
SiteTypeOK ==
    /\ site \in Sites
    /\ listed \subseteq Items /\ always \subseteq listed
    /\ prior \in [Identities -> Nat]
    /\ cookies \subseteq 0..bundle
    /\ after \in Items \cup {NoCursor}
    /\ yielded \subseteq Items
    /\ seen \in Nat /\ mapped \in 0..seen
    /\ changes \in 0..MaxChanges

(* The status run_crawl() gives the run: the extractors have no rejections *)
(* to report.                                                              *)
Status == Gates!RunStatus("finished", 0, FALSE, Gates!AssessDrift(seen, mapped))

Whole == {i \in Items : RequiredFields \subseteq StatedNow[i]}

Served(c) == req[c].st \in {"delivered", "banned"}

(* What the resilience layer can recover from: a burst within the back-off *)
(* retries, a wall, a request budget as long as rotation has not gone      *)
(* around the catalogue of identities; a lost answer uses a budget up too, *)
(* so there must be a rotation for each and one more.                      *)
Recoverable ==
    \/ site.scenario = "happy"
    \/ site.scenario = "cookie_wall" /\ MaxAttempts > 0
    \/ site.scenario = "rate_limited" /\ RateLimitedBurst <= MaxRetries
    \/ /\ site.scenario = "block_after_n" /\ BlockAfter > 0
       /\ MaxNetRetries < MaxAttempts /\ bundle <= Len(Profiles)

(* "recovery - happy / rate_limited / block_after_n all yield the full     *)
(* catalogue" and nothing is banned (test_resilience_integration.py), on   *)
(* every page, with answers lost on the way, and cookie_wall with them.    *)
CatalogueRecovered ==
    Served(Chain) /\ changes = 0 /\ Recoverable
        => yielded = listed \cap Whole /\ banEvents = <<>>

(* The catalogue is large enough for the drift check, and no limit of 100  *)
(* per cent switches it off.                                               *)
DriftJudges ==
    /\ listed # {} /\ DriftMinEntries <= Cardinality(listed)
    /\ DriftMaxUnmapped < 100

(* "zero garbage": a challenge or a blank page yields nothing and ends as  *)
(* one ban event of its kind; a renamed field yields nothing and flags the *)
(* run (test_resilience_integration.py, the other three cases).            *)
AdversaryYieldsNothing ==
    /\ site.scenario \in {"captcha", "soft_ban", "drift"} => yielded = {}
    /\ Served(Chain) /\ site.scenario = "captcha"
        => banEvents = <<"captcha">>
    /\ Served(Chain) /\ site.scenario = "soft_ban" => banEvents = <<"empty">>
    /\ Served(Chain) /\ site.scenario = "drift"
        => /\ banEvents = <<>>
           /\ changes = 0 /\ DriftJudges => Status = "flagged"

(* What the ledger shows of a loss.  Entries that were seen and not mapped *)
(* are no rejections there: run_crawl() counts only those of the pipelines,*)
(* though the extractors' docstrings and specs/extractor-interface.md have *)
(* them "counted as a rejection downstream".  A run that lacks some of its *)
(* catalogue and is recorded as a success without a ban event therefore    *)
(* has skipped entries within the limit of the drift check (or too few for *)
(* it to judge), or had a download fail in the network, or met a GraphQL   *)
(* errors payload; it has lost no whole entry any other way, and no more   *)
(* of the catalogue than that limit allows.                                *)
NoSilentLoss ==
    Ended /\ changes = 0 /\ Status = "success" /\ banEvents = <<>> =>
        \/ req[Chain].st = "failed" \/ site.scenario = "errors"
        \/ /\ listed \cap Whole \subseteq yielded
           /\ DriftMinEntries <= Cardinality(listed) =>
                100 * Cardinality(listed \ yielded)
                    <= DriftMaxUnmapped * Cardinality(listed)

(* Paging by cursor loses nothing that was there all the time, however the *)
(* catalogue changes between two pages (demo_graphql follows endCursor).   *)
CursorMissesNothing ==
    req[Chain].st = "delivered" /\ site.kind = "graphql"
        /\ site.scenario = "happy" => always \cap Whole \subseteq yielded

(* No crawl asks for more pages than there were products, but for the empty *)
(* one that ends a REST listing: a page always moves on (a server that     *)
(* repeats its pages would be followed without end, parse() has no limit). *)
PagesBounded == req[Chain].page <= Cardinality(Catalogue) + changes + 1

=============================================================================
