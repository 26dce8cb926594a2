# Verification of acquire-intel

TLA+ models of acquire-intel from the trigger of a crawl to the answer of its
API, the TLC runs that check them on small instances, and TLAPS proofs that every
safety property they check of the code as it is holds for every instance.
Paths below are relative to the repository; `…/` is `src/acquire_intel/`.

## The system

acquire-intel crawls product catalogues into a price time series. A trigger
opens ledger rows and launches one process per crawl; each process runs one
Scrapy spider behind four resilience middlewares; the items go through three
pipeline stages and are flushed at the end; a Flask API reads the tables.

| component | state it keeps | operations | what makes it correct |
|---|---|---|---|
| classifier `…/resilience/classifier.py` | none | `classify` | one label per answer; only `ok` reaches a parser |
| back-off `…/resilience/backoff.py` | none | `compute_delay` | a delay never exceeds the cap |
| circuit breaker `…/resilience/circuit.py` | state, failures, opened_at per domain | `allow`, `record_success`, `record_failure` | open means no request until the cool-down; one probe |
| proxy pool `…/resilience/proxy.py` | cursor, banned_until per proxy | `acquire`, `record_ban`, `record_success` | never hands out a proxy in quarantine |
| identity pool `…/resilience/identity.py` | index, generation | `current`, `rotate` | coherent bundles, a fresh jar per generation |
| middlewares `…/resilience/middleware.py` | the above, the current proxy, the escalation, counters in `request.meta` | `process_request`, `process_response` of four middlewares | bounded retries, every ban recorded, friendly crawls untouched |
| crawl trigger `…/acquisition/orchestrator.py` | rows it has opened and not launched | `trigger_crawl` | a row per target before any launch |
| crawl runner `…/acquisition/runner.py` | a process per run | `run_crawl`, `_close_run` | the row ends in the status and counts of what happened |
| item pipelines `…/pipeline/` | seen ids, last prices, baseline, buffer | `open_spider`, `process_item`, `close_spider` | no duplicates, no jumps, all or nothing by volume |
| ledger and series `…/storage/repositories.py` | crawl_runs, price_observations, products, ban_events | open, close, append, queries | counts match what is stored |
| drift `…/analytics/drift.py` | none | `assess_drift` | format changes flag the run |
| source health `…/analytics/health.py` | none (reads the ledger) | `classify_source`, `overall_status` | what is called healthy is fresh; stale is left by a commit only |
| normalisation `…/pipeline/normalize.py` | none | `parse_price`, `resolve_currency`, `normalize_title` | what is not a price or a currency is rejected, never guessed |
| deals `…/analytics/deals.py`, `…/api/deals.py` | none | `compute_deal`, `rank_deals`, `GET /deals` | the drops it lists are real, and the largest |
| control plane `…/api/admin.py`, `…/acquisition/scheduler.py` | rate limiter, jobs | `POST /admin/crawl`, interval jobs | at most N triggers a minute; a 202 names the runs it launched |
| extractors `…/acquisition/sources/` | page or cursor of the request | `start_requests`, `parse` | paging is bounded; what may be lost without a trace is known; a ban page yields nothing |
| read API `…/api/products.py` | none (reads the tables) | `GET /products`, `GET /products/{id}/price-history` | an answer of several statements is coherent; freshness is not misstated |
| dashboard `…/api/dashboard.py` | none | rendering | its panel agrees with the endpoint on sources with runs |
| harness `harness/` | requests per scenario and identity | seven scenarios over HTTP | what the middlewares recover from, what they must refuse |

What is hard here: requests of one crawl interleave at every await (the
download slot, the answer, the back-off sleep) and share breaker, pool and
identity; crawls of one source are separate processes that share only the
database, where what was read at `open_spider` is used at `close_spider`; the
flush is many transactions; a process may die anywhere; limits (retries,
breaker threshold, tolerance) interact; a catalogue changes between two pages;
the API answers in threads that share a limiter without a lock, and in several
statements of which each sees other commits.

## Modules

    BanClassifier   Backoff   CircuitBreaker   ProxyPool   IdentityPool
           \            \           |            /            /
            +------------------ Downloader ------------------+
                                    |  Fate == INSTANCE RequestFate
             QualityGates           |
                  \                 +-- MCDownloader
               CrawlRuns            +-- SiteCrawl -- MCSiteCrawl
                  |                       |   Harness, Extractors
                  |  Promise == INSTANCE RunLedger
                  +-- MCCrawlRuns
                  +-- ControlPlane -- MCControlPlane

               SourceHealth -- MCSourceHealth

               Normalise -- Catalogue -- ReadApi -- MCReadApi
                                           |
                                         Deals

The proofs stand beside the modules they are about:

    SetLemmas -- DownloaderProofs -- DownloaderSafetyProofs -- SiteCrawlProofs
              -- CrawlRunsProofs -- ControlPlaneProofs
              -- ReadApiProofs (Catalogue, Deals and ReadApi)
    SourceHealthProofs

* **BanClassifier, Backoff, CircuitBreaker, ProxyPool, IdentityPool,
  QualityGates** are the pure parts: one operator per function of the code, the
  object's fields as a record. Clocks are countdowns (`cooling`, `quarantine`,
  `wake`): what is left, instead of a start time and the current time. Jitter
  is the set of delays it may draw.
* **Downloader** composes the first five into the downloader of one crawl. A
  *chain* is a request of `start_requests()` with its retries and the
  follow-up pages. `req` is the current request of every chain (where it is,
  and what middlewares read of `meta` and headers), `breaker` the registry,
  `pool`, `proxy` and `bundle` the fields of `IdentityRotationMiddleware`
  (`bundle` is 0 before the first escalation, then generation + 1),
  `banEvents` the sink the runner stores. `trace` is history only. Every action
  is one path through a middleware chain, without awaits inside: `Admit` and
  `Refuse` (process_request), `Send` (the slot), `BackoffRetry` and `Wake`,
  `CookieRetry`, `RotateRetry`, `BanGate`, `Deliver` and `FollowUp`
  (process_response), the infra bypass, `NetworkRetry` and `NetworkFailure`
  (Scrapy's own), and `Tick`.
* **RequestFate** is what the downloader promises: a page is fetched at most
  `Budget` times, only a fetched page is delivered or banned, each chain has
  one final fate, and the ban ledger grows exactly when a ban ends a chain.
* **CrawlRuns** is the trigger, the crawl processes and the tables. `ledger` is
  crawl_runs, `closed` the order of finished_at, `observed`
  price_observations, `calls` the launches a `trigger_crawl()` still owes,
  `proc` the processes (what the three stages and `run_crawl` hold in memory).
  An action is one transaction or what one process does between two.
* **RunLedger** is what the ledger promises its readers: a run opens once and
  finishes at most once, observations arrive only while it runs, its count is
  what arrived, a quarantined run stored nothing.
* **SourceHealth** is `classify_source()` of the health endpoint and
  `summarize_source()` of the dashboard over the runs of one source. `runs` is
  its crawl_runs in the order of started_at, `now` the clock; runs open,
  overlap, close in any order with any terminal status, or never close
  (`CrawlRuns` shows how each of these comes about). The definitions of the
  status read only the window, the properties the whole history.
* **Harness** is `_respond()` with its counter, **Extractors** what the three
  kinds of extractor see in an answer, map, count and follow. **SiteCrawl** puts
  them around Downloader: where that lets a server answer anything and a page
  follow or not, here the answer follows from the scenario (`site`), the
  requests of the identity (`prior`), its cookies (`cookies`) and the page, and
  the extractor decides from the catalogue as it is now (`listed`), which
  `Change` alters between pages. `Recover`, `Reach` and `Lose` are the actions
  of Downloader with that answer.
* **ControlPlane** adds to CrawlRuns the threads that serve
  `POST /admin/crawl` (`handler`), the lazily built `limiter` and its calls
  (`window`), the scheduler's `jobs` and restarts of the API process. An action
  is what a thread does between two reads or writes of the limiter. The trigger,
  the launches and the crawls (`CrawlSteps`) are the actions of CrawlRuns. A call
  for all sources while none is registered opens no row and is answered 202 at
  once.
* **Normalise** and **Deals** are pure: what an item maps to, and which products
  are deals. **Catalogue** is the writers of `products` and `price_observations`:
  an item is stamped when captured, buffered, and flushed in a transaction of
  its own, in any order between crawls. **ReadApi** is a reader of both tables:
  an action is one statement of a request, so that a flush may come between two;
  `reader` is what the request has fetched, `answer` what it has answered.

Operators whose comment begins with "Mutant" are the code with a plausible bug.
Nothing uses them; each is listed in PROJECT.json with the property that fails
once it takes the place of the definition it follows.

## Runs

Fixed for all: the downloader's runs have two proxies at most and delays of at
most two ticks, enough for every order of a sleep, a cool-down and a
quarantine. Deadlock is not checked: a crawl ends, and a bounded number of
runs is used up.

| run | instance | shows |
|---|---|---|
| DownloaderShipped | one crawl chain of two pages, its robots.txt fetch, nine kinds of answers, 2 rotations, threshold 3, 2 proxies | `TypeOK`, `NoneRefused`, `CookieReplayed`, `BlamesCarrier`, and under fairness `AllSettle` |
| DownloaderConcurrent | two chains of one domain, two pages each | `WithinBudget`, `CurrentProxyHealthy`, `FriendlyUnaffected`, `ImplementsFate` |
| DownloaderCoherent | one chain, three rotations | violates `CoherentBundle` |
| DownloaderQuarantine | one chain, one proxy | violates `QuarantineSkipped` |
| CrawlRunsLedger | two runs of a source, two products, two prices a jump apart, faults of the database, reactor and process | `TypeOK`, `OncePerRun`, `SteadyAlone`, `VolumeAlone`, `KeepsPromise` |
| CrawlRunsSources | three sources: complete, without a spider, without kind and row; failing launches | `RowsCloseOrLost` under fairness |
| CrawlRunsCrash | one run that may die | violates `NoHalfRuns` |
| SourceHealthWindow | three runs, windows of two (endpoint) and three (dashboard), clock to 4, staleness after 1, ban rates below, between and above the limits | `TypeOK`, `HealthyIsFresh`, `StaleIsOld`, `PanelAgrees`, `OnlyCommitsHeal` |
| SourceHealthForgets | the same | violates `DegradedFlows` |
| SiteCrawl | each kind of extractor, each scenario; three products one to a page, a fourth that may appear, two changes, one lost answer a page, 2 back-off retries, 4 rotations, `block_after` 1 | `SiteTypeOK`, `CatalogueRecovered`, `AdversaryYieldsNothing`, `NoSilentLoss`, `CursorMissesNothing`, `PagesBounded` |
| ControlPlane | two calls, one allowed in two ticks, clock to 2, one restart, three runs; bodies for a registered source, an unregistered one, all, and one that fails the schema; sources without a spider, a kind or a row; none persistable | `ControlTypeOK`, `WithinLimitAlone`, `AnswerTrue`, `RefusedJustly` |
| ReadApi | three products of two sources, two crawls, seven kinds of entries, clock to 4, windows 1 and 3 and all, limits below and above the bounds | `TypeOK`, `LastSeenIsNewest`, `RowTrueAlone`, `AnswerCoherent`, `StaleIsAllStale`, `DealsForCause` |

Why the bounds are enough. In the downloader two chains reach every pairwise
interleaving of shared breaker, pool and identity; two rotations are the least
that leave an identity behind and three pass from Chromium to Firefox (the
catalogue begins with two Chromium bundles); two proxies allow one, two or no
healthy proxy. `BlamesCarrier` and `CookieReplayed` are checked on the shipped
shape, one crawl chain: with two chains of one domain another request may
rotate in between and neither holds. In CrawlRuns two runs suffice for a stale read, two
products with at most two items for a duplicate, a partial flush, a volume
that doubles or vanishes (tolerance 50 per cent, minimal baseline 1) and drift
(one unmapped entry beside none or one mapped). `SYMMETRY` is on product ids of
CrawlRuns, on calls and on crawls only, which the models never order, and only
where no liveness is checked.
In SourceHealth three runs push one out of the endpoint's window while the
dashboard still sees it (the code's windows are 5 and 10), and four ticks let a
commit grow old before, between and after later finishes.

In SiteCrawl four pages with `block_after` 1 take the crawl around the five
identities of the catalogue when an answer is lost, so that a scenario that is
recoverable and one that no longer is both happen; two changes remove and add a
product on either side of the cursor. In ControlPlane two calls share a limiter,
or build one each; one is refused, or waits until the other's place has expired,
and then both hold runs, with or without the run of a job beside them. None of
its sources is persistable, so that the crawls are turned down or die: longer
ones, and that refused calls do not prolong the wait over three calls, are
covered by the theorems. In ReadApi two crawls commit in the order opposite to their captures while a request is
between two statements; an earlier series gives the windows something to cut
off, and budgets of one and two ticks make an answer of both sources stale,
fresh or mixed.

### Findings

* `CoherentBundle` (`…/resilience/middleware.py:331`): headers are set one by
  one on a retry copy. A request first sent as Chrome is retried as Firefox
  with Chrome's `sec-ch-ua` headers, which identity.py calls incoherent.
* `QuarantineSkipped` (`…/resilience/middleware.py:335`): with every proxy
  cooling down the retry should go out directly (ADR-0011), but its
  `meta["proxy"]` still names the proxy just banned.
* `NoHalfRuns` (`…/pipeline/persistence.py:89`): the flush commits per item, so
  a crash inside it leaves half a run, which ADR-0012:74 rules out.
* `DegradedFlows` (`…/analytics/health.py:173`): a stale source whose last
  commit is pushed out of the window by runs that do not commit is reported as
  degraded, the milder status, though ADR-0015:31 and the docstring call a
  source stale whose freshest commit is too old.

### Where the code departs from its documents without a run of its own

Each of these follows from the code as modelled. A property that would fail for
it states the condition under which it holds instead; the condition and the
comment of the property name the case.

| code | document | condition |
|---|---|---|
| `…/analytics/health.py:134`: the last success is the commit that began last | ADR-0015:23 "newest `finished_at`" | `CommitsInOrder` in `StaleIsOld` |
| `…/analytics/health.py:79`, `:158`: a source without runs is stale for the endpoint, not for the panel | ADR-0015:57 "read the same pure logic" | `runs # <<>>` in `PanelAgrees` |
| `…/acquisition/runner.py:66`: a source without a spider or a kind is turned down, the trigger's row stays running | ADR-0016:32 "the subprocess adopts the id and closes it"; ADR-0016:55 accepts killed processes only | `TurnedDown` in `RowsCloseOrLost` |
| `…/acquisition/orchestrator.py:98`: a launch that fails leaves its row, and those of the launches after it, running | the same | `Abandoned` in `RowsCloseOrLost` |
| `…/acquisition/runner.py:119`: failed and flagged runs store what was flushed | `…/storage/repositories.py:273` and `…/analytics/health.py:25`: they committed nothing | `KeepsPromise` claims it of quarantined runs only |
| `…/acquisition/runner.py:189`: entries an extractor skips are no rejections; below the drift limit the run is a success | demo_rest.py:12 and :131, demo_graphql.py:20 and :191, `specs/extractor-interface.md:37`: they are "counted as a rejection downstream" | the disjuncts of `NoSilentLoss` |
| `…/acquisition/sources/demo_graphql.py:178`: an `errors` payload ends paging and the run is a success | `specs/extractor-interface.md:37`: "let the pipeline record a rejection" | `site.scenario = "errors"` in `NoSilentLoss` |
| `…/pipeline/quality.py:142`: of two crawls that overlap the later compares with prices that are no longer the last | ADR-0012:62 "its last committed price" | `overlapped` in `SteadyAlone` |
| `…/pipeline/quality.py:85`: a price of zero is stored and switches continuity off | ADR-0012 has the band catch "non-positive prices"; `price_min` is 0 (settings.py:83) | zero prices in `Discontinuous` |
| `…/storage/repositories.py:90`: the descriptive fields are those of whoever writes last | docs/03-data-model.md:79 "latest descriptive fields" | `overlapped` in `RowTrueAlone` |
| `…/api/admin.py:45`, `:63`: two threads may take the last place, or build a limiter each; a restart forgets | admin.py:36 "at most `max_calls` per `per_seconds`" | `~crowded`, and `passed` since the last start, in `WithinLimitAlone`, `RefusedJustly` |
| `…/analytics/deals.py:60`: a price that rose and returned is a deal while the rise is in the window | deals.py:4 says it is none; ADR-0013:37 says that it stops being one once the rise has aged out | none: `DealsForCause` states what ADR-0013 says |
| `…/resilience/middleware.py:361`: with two crawl chains the proxy in use is banned, not the carrier | ADR-0011:31 "a banned proxy is quarantined" | one crawl chain in `BlamesCarrier` |

Of paging, three limits more: by page number a shop that shrinks between two
pages makes the crawl skip a product (`CursorMissesNothing` is about the
cursor), a failed download ends it as an empty page does, and nothing limits the
pages of a server that repeats itself.

### Fairness

`Downloader`: weak fairness of `Outbound(c)` and `Inbound(c)` per chain and of
`Tick`: the reactor serves every request, a download ends (DOWNLOAD_TIMEOUT
turns silence into a failure), time passes. Which of the possible outcomes a
download has is never promised. `CrawlRuns`: weak fairness of the launches of a
trigger and of the work of each crawl process; faults and triggers are never
promised. An unfair crawl process is one that died, which is an action.
SiteCrawl, SourceHealth, ControlPlane and ReadApi have safety properties only.

## Proofs

Checked by TLAPS for every value of the constants that satisfies the named
assumptions. All 36 theorems are about the unbounded instance: any sets of
chains, runs, sources, entries, calls and products, any limit, window and
budget, any answers. No proof assumes fairness.

| module | theorems | strengthening |
|---|---|---|
| SetLemmas | lemmas only: least and greatest elements, sequences that list a set | |
| DownloaderProofs | `TypeCorrect`, `BudgetKept` | `AllPaid` |
| DownloaderSafetyProofs | `ProxyHealthy`, `FriendlyKept`, `NoRefusal`, `Implements`, `CookieKept`, `CarrierBlamed` | `Margin`, `AllCarry` |
| SiteCrawlProofs | `SiteRefines`, `SiteTypeCorrect`, `PagesBoundedAlways`, `CursorKeepsAll`, `AdversaryGainsNothing`, `NothingLostInSilence`, `CatalogueAlwaysRecovered` | `JarInv`, `PageInv`, `PassedInv`, `HarmInv`, `RecoverInv` |
| CrawlRunsProofs | `TypeCorrect`, `OncePerRunCorrect`, `LedgerKeepsPromise`, `SteadyCorrect`, `VolumeCorrect` | `BuffersInv`, `LedgerInv`, `OneCrawl`, `PricesInv`, `ClosedInv`, `VolumeInv` |
| ControlPlaneProofs | `ControlTypeCorrect`, `AnswerCorrect`, `WithinLimitCorrect`, `RefusedJustlyCorrect` | `RunsInv`, `WindowInv` |
| SourceHealthProofs | `TypeCorrect`, `HealthyCorrect`, `StaleCorrect`, `PanelCorrect`, `OnlyCommitsHealCorrect` | none needed beyond `TypeOK` |
| ReadApiProofs | `TypeCorrect`, `LastSeenCorrect`, `RowTrueCorrect`, `DealsCorrect`, `DealsForCauseCorrect`, `AnswersCoherent`, `StaleCorrect` | `OrderInv`, `CaptureInv`, `ReaderInv` |

**Downloader.** `TypeOK` is inductive as it stands, one lemma per action.
`WithinBudget` is not: a number of downloads says nothing of the retries left.
`AllPaid` says that every download but the current one is paid for by a counter
in `meta`; the bounds of the counters give the budget. `CurrentProxyHealthy`
follows from the pool's lemmas (a ban is always followed by an acquire),
`FriendlyUnaffected` is inductive with the types. For `NoneRefused`, `Margin`
says that a pending request's breaker is closed and has counted no more
failures than the request has rotated, so the threshold is out of reach.
`Implements` maps every action to a step of `RequestFate` or a stutter.
`CookieReplayed` and `BlamesCarrier` speak of the shipped shape, one crawl chain
(`OneCrawlChain`, with any number of infra requests beside it): `AllCarry` says
that a request that is out or asleep carries the jar and the proxy in use, so
that the one that a retry replays or a ban blames is the request's own.

**SiteCrawl.** `SiteRefines` comes first: dropping the site's variables, a crawl
of the shop is a behaviour of `Downloader`, which makes its theorems available
here. `PagesBounded` needs `PageInv`: a page by number is followed only if it
was not empty, and by cursor each page leaves one product less beyond it.
`CursorMissesNothing` and `NoSilentLoss` need `PassedInv`: what lies behind the
page or the cursor was yielded, or is missing from the count of what was
mapped. `AdversaryYieldsNothing` needs `HarmInv`, which ban each scenario can
bring about. `CatalogueRecovered` needs `RecoverInv`; its hardest part is
`BudgetInv` for a server that blocks an identity after some requests: one
rotation makes up for the budget that earlier pages used up, a further one for
each answer lost since, and identities not yet reached are fresh.

**CrawlRuns.** `OncePerRun` needs `BuffersInv`: ids are used one after the
other and by one process each, a buffer holds each entry once with increasing
stamps that no other buffer shares, and what is stored of a run is the prefix of
its buffer that it has flushed. `KeepsPromise` adds `LedgerInv`, that the row of
a run is open exactly while its process may write to it. `SteadyAlone` needs
`PricesInv`, that the prices a crawl loaded are still the latest of whatever it
has not flushed; `VolumeAlone` needs the same of the baseline (`VolumeInv`), and
`ClosedInv` that a closed row stays. Both rest on `OneCrawl`: a source of which
two crawls are under way is in `overlapped`.

**ControlPlane.** Every step is one of CrawlRuns or leaves its tables alone, so
`BuffersInv` carries over. `AnswerTrue` needs `RunsInv`: threads have no run in
common, the runs a thread has opened are one for each source it was asked for,
and each has a process or is still in the one launch list of its call. `WithinLimitAlone` and `RefusedJustly` need `WindowInv`:
as long as no two threads have been inside the limiter, its list is, in order,
the calls that passed but for those that have expired (`Mirrored`), and what the
thread inside has read still holds (`ThreadFits`).

**SourceHealth.** Nothing but the types is inductive here: the status is a
function of the rows and the clock. The proofs show what its operators mean
(`HealthyMeans`, `StaleMeans`, `PanelMeans`) and that only a commit leads from
stale to healthy.

**Catalogue and ReadApi.** `LastSeenIsNewest` is inductive with the types and
the fact that a flush has something to write. `RowTrueAlone` needs `OrderInv`:
stamps are in the past, buffers in order, and where one crawl writes at a time
nothing stored is newer than what it is about to write. The queries and
`rank_deals` need `CaptureInv`: a series is finite and no two captures of a
product share a time, so that the current price is one. `AnswerCoherent` needs
`ReaderInv` too: what a request fetched with its first statement still holds of
the tables at its next, as a flush only adds. `DealsCorrect` says of any histories
what sorting, filtering and cutting off keep. `DealsForCause` rests on `DealKept`
(while its high stays and its price is the latest, a deal stays and its drop
does not shrink), which is applied from before to after a step and back, and on
`DropGrows`, that rounding keeps the order of drops.

**Assumptions.** The ASSUMEs of the modules say that bounds are natural numbers
and sets what they are meant to be. Those that say more: `Earlier` series are
finite and have no two prices of a product at one time (`captured_at` has
microseconds); the limiter's period is positive (admin.py:65 says 60.0);
in SiteCrawl one chain crawls and nothing else is fetched, `Responses`
includes all that the harness answers, and the bound on pages is large enough
never to stop a crawl. Three theorems have a hypothesis: `CookieKept` and
`CarrierBlamed` the `OneCrawlChain` above, and `NothingLostInSilence` a failure
threshold above the rotation attempts, as in the settings (5 and 4).
`NoneRefused`, `SteadyAlone`, `VolumeAlone`, `WithinLimitAlone`, `RowTrueAlone` state
their conditions themselves.

**TLC first.** Each strengthening was checked as an invariant of a run before
it was proved: those of CrawlRuns on the instance of CrawlRunsLedger (1,220,259
states), of ControlPlane (2,548,544), SourceHealth (623,176), ReadApi (153,902),
SiteCrawl (150,908) and `AllCarry` on DownloaderShipped (118,324) on those of
their runs.

**What the proofs found** beyond the instances. `PanelAgrees` needs an
endpoint that looks no further back than the panel, as the shipped windows (5
and 10) have it: where it is configured to look further back
(`health_recent_runs`) than the dashboard's ten runs, the panel may show stale
what the endpoint rightly calls healthy. A scenario is `Recoverable`
only if a retry is left at all and there are more rotations than network retries.
Drift flags the run only if the catalogue has `DriftMinEntries` and the limit is
below 100 per cent (`DriftJudges`).

**Only model-checked**: `AllSettle` and `RowsCloseOrLost`, liveness under fairness; what the four violation runs refute is no theorem. Liveness, `ENABLED` and induction over
data are out of the prover's reach; no module here declares a RECURSIVE operator.

## Abstractions

* Bodies are pages, blanks or challenges; headers other than Set-Cookie,
  Retry-After and the client hints are left out. One second is one tick, and
  a tick lowers every countdown; that the clock also passes while a chain runs
  is left out, as a chain takes no noticeable time.
* Redirects, HTTP cache, playwright and robots.txt rules are Scrapy's.
* Prices are whole numbers, the thresholds ratios of whole numbers: the code's
  `Decimal(str(float))` rounding is left out.
* Ids are numbered in the order they are minted; `captured_at` is a counter and
  `finished_at` the order of the closing transactions (the code takes the time
  just before its commit).
* In Catalogue and ReadApi no two items are captured at the same tick, as
  `captured_at` has microseconds. `Earlier` is the series that crawls which did
  not overlap have left. Where RowTrueAlone speaks of the descriptive fields,
  `described` is the capture they come from. Gates, ledger and volume are those
  of CrawlRuns: here a crawl may stop anywhere.
* Prices of a series are whole numbers and drops hundredths of a per cent, an
  exact half rounded up (the code rounds a float). The comparison of budgets is
  in ticks.
* A request reads the clock with its first statement, and one thread answers one
  request after the other, since requests share nothing. The search `q` of
  `GET /products` is left out.
* In ControlPlane the lookup of the limiter and the reading of the clock are one
  step.
* The GraphQL connection and the rendered listing are external: they answer as
  the extractors expect, with a cursor past which the products follow in order.
* A non-persistable source crawls without a database; its process is
  `Bail`, as nothing it does reaches a table.

## Not modelled, and the plan

In this order:

1. **SourceHealth composed with CrawlRuns**: the rows that the crawls really
   leave, and the claim that the statuses listed as "committed no data" did
   commit none (flagged and failed runs did); the rollup over sources.
2. The rows of ban_events and the metrics of `…/api/monitoring.py`.
3. Lemmas on Backoff (a delay is within the cap) and on the gates that say more
   than the theorems above need.

Left out for good: configuration parsing, logging, payload contracts, HTML
rendering, `live_rest` (DemoRestExtractor with other constants), the no-op
spider, migrations and scripts: no state a property could be about.
