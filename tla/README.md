# Snip: specifications, model checking and proofs

Snip (`src/`) is a URL shortener in Go: an HTTP API over one MySQL database and
one Redis, with VirusTotal as the judge of URLs and a pool of goroutines that
records clicks. This directory holds TLA+ modules of its core, the TLC runs that
check them on small instances and the TLAPS proofs that hold for all instances.
`PROJECT.json` lists components, runs, mutants, hazards, theorems, and for every
definition the source lines it stands for.

## 1. The system

| Component | State | Operations |
|---|---|---|
| Hash codec (`internal/hash/base62.go`) | none | `Encode`, `Decode` |
| URL table (`internal/repository/mysql/url_repository.go`, migrations) | table `urls`, AUTO_INCREMENT | `Create`, `FindBy...`, `UpdateHash`, `UpdateVTStatus`, `UpdateVTResult`, `UpdateLastAccessed` |
| Redis cache (`internal/repository/redis/cache.go`) | `snip:url:{hash}`, `snip:meta:{hash}`, `snip:vt:{sha256}` with TTLs | `Get` (MGET), `Set` (pipeline of two SETs), `Delete`, `GetRaw`, `SetRaw` |
| Shortener (`POST /api/shorten`) | locals of each request | normalise, deduplicate, scan, create, set hash, store result, cache |
| Redirector (`GET /{hash}`) | locals of each request | cache lookup, row lookup, cache fill, eviction, click, 301 |
| Abuse reports (`POST /api/report/{hash}`) | table `url_reports` | insert, count, block, evict |
| Rescanner (`internal/scanner/rescan.go`) | the list of its current cycle | list unverified rows, scan, store, evict |
| VirusTotal client (`internal/scanner/virustotal.go`) | an analysis id | submit, poll under a context |
| Click dispatcher (`internal/analytics/dispatcher.go`) | channel, counters, workers, a daily ticker | `Submit`, `worker`, `Shutdown`, `cleanupLoop` |
| Click table and analytics queries (`click_repository.go`, `GET /api/analytics/{hash}`) | table `clicks`, locals of each request | `Insert`, `DeleteOlderThan`, `CountByURLID`, `GroupByDay`, `TopUserAgents` |
| Rate limiter (`internal/middleware/ratelimit.go`), one per endpoint | a `sync.Map` from address to token bucket and last use | `getEntry`, `Allow`, `cleanup` every five minutes |
| Normalisation and validation (`normalize.go`, `validator.go`, `blocklist.go`) | none | `NormalizeURL`, `ValidateURL`, `IsBlocked` |
| Process (`cmd/api/main.go`) | phase of `run` | serve, signal, HTTP shutdown (10 s), drain (5 s) |
| Health, other middleware, configuration, migrations | none once the server runs | see section 7 |

Every HTTP request is a goroutine. Requests, the rescanner and the workers share
MySQL and Redis and nothing in the code holds a transaction or a lock from one
call to the next: whatever one goroutine read may be out of date when it writes.
The dispatcher is connected to the redirect handlers by a channel, and to `run`
by `Shutdown`.

What is hard here, and what the properties are about:

* **Cache against table.** Redis is written by `Shorten` and by every redirect
  that missed, from a row read earlier; it is cleared by blocks. Fills, blocks,
  evictions of one key of the two and TTLs interleave.
* **A row without a hash.** `Create` inserts the row with hash `''`, because the
  hash is computed from the id. Until `UpdateHash` the row is visible, and `''`
  is subject to the UNIQUE key like any other hash.
* **Two notions of equality.** MySQL compares hashes and URLs without case (the
  default collation of the `mysql:8.0` image), Redis and Go with case.
* **Blocking.** Reports insert, count and update in three statements; the
  rescanner writes results computed from a list read minutes before.
* **Delivery of clicks.** A click must be recorded once or be counted as dropped,
  through a full buffer, a closing channel and two time limits.
* **Reads that are not one.** An answer of the analytics endpoint is three
  statements, between which workers insert and retention deletes.
* **Limits without a lock.** Requests find, make and use the bucket of their
  address in separate steps while the cleanup removes old ones.
* **Spellings.** Deduplication, the checks and the redirect must mean the same
  URL, however it was written.
* **Scans that do not end.** Deadlines race answers; one caller has no deadline.

## 2. Modules

```
Base62 <- UrlStore <- Shortener, Redirector, Reports, Rescanner <- Snip <- SnipClaims <- MCSnip
                                                                   Snip <- SnipProofs <- ServiceProofs
                                                                   Snip implements LinkBook
Dispatcher <- Server <- ServerProofs        Server implements ClickLedger
              Server <- Analytics <- MCAnalytics, AnalyticsProofs
VirusTotal <- MCVirusTotal, VirusTotalProofs      VirusTotal implements ScanOracle
RateLimiter <- MCRateLimiter, RateLimiterProofs
Base62 <- HashIds <- Base62Proofs           UrlNorm <- UrlNormProofs
          HashIds, UrlNorm <- MCFunctions
```

* `Base62`: hashes as sequences of digit positions. The word width, the
  alphabet and the minimal length are constants, so that TLC can run through
  every id of a small word; the program's values are 64, 10 + 2*26 and 7.
  `SameHash` is the collation's equality (external: MySQL). Its one assumption beyond
  sizes, `ShortHashesFit`, is that 62^7 fits the word. `HashIds` says what hashes
  promise for every id.
* `UrlStore`: the shared state and one operator per repository method. `urls`
  is a function from ids to rows, Redis keys are sets of records, time counts
  days. `Faults` says which of MySQL, Redis, foreign writers and process death
  may interfere. A failing write may have taken effect or not. `LongUrls` are the URLs
  whose VirusTotal permalink does not fit its column: MySQL's strict mode, the default of
  the image, then refuses the UPDATE that would store a verdict, without any fault.
* `Shortener`, `Redirector`, `Reports`, `Rescanner`: one action per call to
  MySQL, Redis or the scanner together with the local code up to the next call.
  `pc` names the call that comes next; the other fields are the locals that
  survive a call. A reply is the HTTP status. `cache.Set` is two actions,
  because other clients' commands may come between its two SETs.
* `Snip`: the composition, plus process death (`Crash`), which loses all
  requests in flight and the rescan cycle while MySQL and Redis keep their data.
* `LinkBook`: what the service promises about links, without table, cache, scans or
  faults: a link is entered under a hash no other link has and never changes, clients
  are told links of the book, visitors are sent where it says, and 404 is said only of
  a hash that no link has (or that no link could have). In `Snip` a row is a link from
  when it has its hash; a 201 with an empty hash (section 4) tells nobody a link.
* `VirusTotal`: the inside of the step that `Snip` takes as "a scan returns a
  status": submit, wait, fetch, under a context with a deadline (`Shorten`) or
  without one (the rescanner). VirusTotal itself is external. `ScanOracle` is that
  step: one answer per call, any of three statuses, only "unverified" once the context
  is done. It justifies that Snip's scans are one step with one of three results.
* `Dispatcher`, `Server`: channel, workers, `Submit`, `Shutdown`, and `run` around
  them. Both time limits are choices to stop waiting at any moment.
* `ClickLedger`: what the pipeline promises, without channel or workers.
* `Analytics`: `Server` composed with the table `clicks`: the foreign key (a click
  without an id is refused), the daily `DELETE ... LIMIT`, and `GetStats` with one
  action per statement. What a list of an answer says is reduced to its sum; the
  `ORDER BY` of the agents leaves ties open, and so does the model. Which row a
  redirect means is the constant `Target`, which `RedirectsGoHome` justifies: the
  row of its hash, or 0. A day passes only when no event is between `Submit` and
  its INSERT, which takes seconds.
* `RateLimiter`: one limiter. Lookup, touch, `LoadOrStore`, token, and in the
  cleanup each visit and each removal are separate actions, because only the map
  and each entry are synchronised. Time counts tokens: a unit is the time in which
  a bucket gains one. `main` gives every limiter a burst of one minute's rate, so a
  bucket is full after a minute, long before its entry is forgotten; the assumption
  `Idle >= Burst + MaxPause` says so, where `MaxPause` is how long a request may
  take from its lookup to its token (nine minutes, in the program's numbers).
* `UrlNorm`: a URL as scheme, credentials, host, path and fragment. The text of a
  host is the sequence of its pieces between colons, because `net/url` takes the
  last piece for a port when it is a number, brackets or not; that is all of
  `net/url` the two functions depend on. Case, IDNA, the private ranges and the
  blocked domains are constants. Queries, which no code touches, are left out. The
  properties range over well-formed hosts, as RFC 3986 has them: a bare name or address
  with at most a port, an IPv6 address in brackets, and a port that is a number.
* `SnipClaims`: statements of the repository's README that do not hold.

Data that no property distinguishes is left out: JSON, logging, headers,
permalinks, user agents. 413 is counted among the 400s. Rows are ordered by id
where the code orders by `created_at`. Operators marked "Mutant" are plausible
errors; each shows that one property notices it, and no specification uses them.

## 3. Properties and runs

| Run | Checks | Instance |
|---|---|---|
| `functions` | `RoundTrip`: Decode inverts Encode unless the sum with the offset wraps, and then reports an error. `OneHashPerId`: exactly one string of the accepted length decodes to an id, the one Encode gives, and none once the id needs one character more. `StoredLeadsHome`: what is stored leads where the submitted URL led and is accepted again. `OneSpellingPerTarget`: equal normal forms are equal targets. `RefusedAlike`: spelling changes no verdict | 8-bit word, 4 characters, length 3: all 256 ids, all strings; 1036 URLs, each against every other: 4 schemes, names in two cases, an IDN, a private, a blocked and the own host, three IPv6 addresses, default and other ports |
| `service` | `TypeOK`, `AnsweredHashIsStored`, `CacheAgreesWithTable`, `RedirectsGoHome`, `ServiceInv` (section 5), `KeepsBook`: the service implements `LinkBook`, so a hash that somebody was told is never answered 404 | 2 requests to shorten over 3 URLs, two of which differ only in case, and 1 redirect; an alphabet with 1 letter, so that ids 2 and 3 collide; MySQL and Redis failures, evictions, foreign cache values, crashes, 1 day; 1 440 000 states |
| `block` | `SealedForever`, `ReportInv` (section 5) | 1 unverified row, 2 reporters with threshold 1, the rescanner with any outcome, 2 redirects, Redis and MySQL failures, a hash outside the pattern; 644 000 states |
| `live` | `ThresholdBlocks`, `OneReportPerNetwork`, `ReportsLeadToBlock`, `UnverifiedGetsVerdict`, `RequestsAnswered` | 2 reporters, 3 addresses in 2 networks, threshold 2, on a clean row; 1 redirect of it, 1 request to shorten (a URL whose permalink does not fit), the rescanner with a LIMIT of 2 and a backlog of five: an expired row, one whose permalink does not fit, one that can be scanned, one whose scans may stay inconclusive, and behind these two another that can be scanned; no faults (with them, a block can be lost, section 4); 218 000 states |
| `virustotal` | `VTTypeOK`, `VerdictIsVirusTotals`, `LateVerdictIsDropped`, `AnswersOnce`: the client implements `ScanOracle`; `ScanReturns` | 1 scan with a deadline, 1 without, counts around the threshold |
| `server` | `ServerTypeOK`, `CountersAddUp`, `DeliveryInv`, `DrainedMeansRecorded`, `KeepsLedger`, `QueuedIsRecorded`, `SignalEndsProcess` | 4 clicks (one may be refused by MySQL), 2 workers, buffer of 1: enough for a full buffer, a hand-over, a drop and a late Submit |
| `analytics` | `AnalyticsTypeOK`, `StatsAreOfTheUrl`: no number of an answer exceeds the clicks queued for that row. `LaterReadsSeeMore`: until retention deletes, a later statement misses nothing an earlier one counted. `RetentionHolds`: no click is deleted early, and while no day exceeds the LIMIT and no DELETE fails, a click outlives its retention by no more than the DELETE that is due. `AnalyticsInv` (section 5) | 3 clicks, two of one row and one without an id, one of which MySQL may refuse, 1 worker, buffer of 1, 1 reader, 2 days, retention of 0 days, LIMIT 1; 4 000 000 states |
| `ratelimit` | `LimiterTypeOK`, `WindowBound`: in every window an address gets a burst and what the window refills, however first requests race and however often its entry is forgotten, except for a request that the cleanup overtakes. `ForgottenInTime`: no entry outlives its last use by more than `Idle + Interval`. `LimiterInv` (section 5) | 3 requests, 2 addresses one of which is a trusted proxy, burst 1, 5 units: an entry is made, used up, forgotten and made again |

Why these bounds are enough: every hazard is a race between two or three
actors over one or two rows, and each run has as many actors as the race it is
about; the proofs remove the bounds for every safety property. Requests are symmetric, so symmetry is used in the runs without liveness.
`CHECK_DEADLOCK FALSE` is set where the system really stops: the process exits,
all scans have returned, all requests of the rate limiter are answered and the
clock is at its bound. Snip itself never deadlocks, the rescanner's ticker
keeps firing.

Fairness (`Fairness`, `FairServerSpec`, `FairVTSpec`) is weak fairness of each
goroutine that has started: Go's scheduler is fair, the Redis client and the HTTP
client time out, `Shorten` gives its scan a deadline, and each wait of `run` has a
time limit. One assumption goes beyond the code: MySQL answers or its connection
breaks (the DSN sets no read timeout). That VirusTotal completes what it accepted is
not assumed: the rescanner's scan, which has no deadline, need never return. No client,
signal, day or fault is ever forced to come.

`UnverifiedGetsVerdict` says what the README's "fetches all `unverified` URLs" (217)
comes to. A row that waits for a scan, and whose scans give a verdict that can be
stored, gets it unless it expires, VirusTotal hangs, or as many older rows as one list
holds (`Starved`) stay unverified. Those are rows whose scans may stay inconclusive and
rows whose permalink does not fit. In the run the last row of the backlog starves while
the inconclusive row in front of it has no verdict; the row between the two that cannot
be finished gets its own whenever VirusTotal answers, although it shares its list with
one of them. (`RequestsAnswered` and `ReportsLeadToBlock` are stated over all requests
and rows at once, as is this: requests are finitely many and their replies and reports
final, so that "again and again" and "from some moment on" say it of each.)

## 4. Where code and documentation disagree

Four runs are expected to find a violation, and do:

* `clean_is_created` (README 205, clean URLs get 201): a second request that
  reaches `Create` before the first has reached `UpdateHash` is refused by the
  UNIQUE key on the empty hash and answered 500.
* `encoded_hash_is_free` (README 701, "Collision-free"): hashes that differ only in
  case collide. With the real alphabet the first such pair is ids 10 and 36. The
  refused row keeps the hash `''`, after which every `Create` is refused.
* `blocked_is_not_cached` (README 221 and 222): a redirect that read the row before
  a block writes it back to Redis after the block's DEL.
* `events_are_queued_or_counted` (README 699): a handler that outlives the HTTP
  shutdown sends on the closed channel and panics.

The model also exhibits these, for which no run is kept: a request that
deduplicates onto a row without a hash is answered 201 with an empty hash; two
requests can store one URL twice (README 707); a URL whose path differs only in
case from a stored one is answered with the other's hash; a URL flagged after it
was stored is answered 201 instead of 422 (README 424); the rescanner overwrites a
block set during its scan (README 250); a cache hit is served after the row has
expired (README 457); a hit without its meta key submits a click for id 0, which
the foreign key refuses; 100 rows whose scans stay inconclusive, or one analysis
that never completes, keep the rescanner from all other rows (README 217).

The permalink of a verdict is 45 characters and the whole URL in base64, the column
`vt_permalink` has 512, and a URL may have 2048. From 351 bytes on, no verdict is ever
stored. After `Shorten` the row stays `pending`, which the rescanner does not list,
while the cache holds the real status. A row that was `unverified` remains so: found
malicious, it is evicted from Redis but not blocked, contrary to README 220 ("`vt_status`
is updated in MySQL"), and the next redirect caches and serves it again; and it takes up
one of the hundred places in every cycle.

`NormalizeURL` strips a default port by `u.Host = u.Hostname()`, which takes the
brackets of an IPv6 address with it (README 191, "strip default ports ... This
enables correct deduplication"). `http://[2001:db8::80]:80` is stored as
`http://2001:db8::80`, whose port is 80 and whose host is no longer that address;
`http://[2001:db8::ab]:80` is refused as invalid while `http://[2001:db8::ab]` is
accepted. The properties of `functions` name this exception (`Unbracketed`), and
`StoredLeadsHome` says that it is exact: these URLs, and no others, lead elsewhere.

The daily DELETE runs 24 hours after the start of the process: `RetentionHolds` is
about one life of it, and a service that is restarted every day deletes nothing.
`ANALYTICS_RETENTION_DAYS` below 30 cuts the window of the daily counts, and a
negative number deletes every click; `RATE_LIMIT_*` of 0 refuses every request.

## 5. Proofs

`SnipProofs` proves, for every value of the constants (any number of requests,
URLs, hashes and addresses, any limits, any faults):

* `ServiceCorrect`: `Spec => [](TypeOK /\ ServiceInv)`, and from it
* `CacheCorrect` (`CacheAgreesWithTable`), `RedirectCorrect` (`RedirectsGoHome`),
  `AnswerCorrect` (`AnsweredHashIsStored`), and
* `BlockHolds`: `Spec => SealedForever`.

None of the three invariants is inductive. That a key names the right row depends
on what the request that will write the key carries, which depends on the row not
changing its hash meanwhile. `ServiceInv` says so: `TableInv` (ids and hashes are
unique; at most one request is between `Create` and `UpdateHash`, and its row has
the empty hash; later the row and the request agree), `CacheInv` and
`RedirectInv` (every key, and every redirect on its way to writing or serving
one, is `Good`: it names a row that has its final hash and holds that URL) and
`LocalsOK`. The argument is `Keeps`: a row that has its hash never changes hash
or URL, whatever step is taken; so what is `Good` stays `Good`, and only the two
writers of keys need a look. The step from the empty hash needs the UNIQUE key:
`SameHash` is used only as an equivalence, so the proofs hold for any collation.

`SealedForever` says when a block is final: the row is malicious, no cycle of the
rescanner and no request to shorten is about to write its status, Redis has no key
for it and no redirect carries it. One lemma per conjunct shows that no step
undoes it, and another that no step redirects to it: the only step that answers 301
is `Serve`, of a redirect that carries the row. The races of section 4 are those in which one of the conjuncts does
not hold yet.

`ServerProofs` proves, for any number of clicks and workers (at least one) and any
buffer, 0 included: `ServerTypeCorrect`, `Delivery` (`DeliveryInv` is inductive
with the types), `DrainRecordsAll`, `CountersCorrect` and `Refinement`
(`ServerSpec => KeepsLedger`: each step of the server is a step of `ClickLedger`
under the mapping `EntryOf`, or leaves it alone).

`ServiceProofs` holds three arguments about the whole service. The first is
`BookRefinement`: `Spec => KeepsBook`. Three facts carry it. Links
never change (`Keeps`). A row becomes a link only in `UpdateHash`, where the UNIQUE key
has compared its hash with all others, those of half-made rows included. And an answer
agrees with the book at the moment it is given: 201 and 301 by `ServiceInv` after the
step, 404 by the lookup, which sees every link. What is added to the invariant
(`AskedInv`) is that a redirect answers once and that only hashes of the pattern are
looked up; without it a lookup could find the empty hash.

The second is about reports: `ReportsCorrect` (`ReportInv`) and `OneReportCorrect`
(`OneReportPerNetwork`) under all faults: an accepted report is in the table, so the
UNIQUE key refuses the network's next one, whatever failed after the INSERT.
`ThresholdCorrect` proves `ThresholdBlocks` from two hypotheses. `Dependable`: the
threshold is at least 1, MySQL does not fail and the process does not die, for a
reporter that is lost between its INSERT and its UPDATE takes the block with it.
`StatusSticks`: nobody overwrites a block; the rescanner may (section 4), which is
why the run reports on a row that is not rescanned. Both hold in the run.

The third is `RequestsRunOut`, the half of `RequestsAnswered` that needs no fairness: each
step of a request brings it nearer to its end (`ShortenLeft`, `RedirectLeft`,
`ReportLeft`), no other step moves it but the death of the process, and it has an answer
exactly when it is done. What is left to TLC is that a request on its way can always
step and, being fair, does.

`ServerProofs` also carries over to `Analytics`: `AnalyticsKeepsServer` shows that
retention and readers leave the pipeline alone (`AnalyticsSpec => ServerSpec`), so a
queued click has one row. On that, `AnalyticsProofs` proves `AnalyticsCorrect`
(`AnalyticsTypeOK` and `AnalyticsInv` are inductive together) and from it `StatsCorrect`,
`LaterReadsCorrect` and `RetentionCorrect`. `AnalyticsInv` adds that rows are as old as
their clicks, that what a reader holds counted clicks of its row, that as long as
nothing is deleted its earlier numbers are covered by the rows there are, and that
there is never more than one DELETE due.

`RateLimiterProofs` proves `LimiterCorrect` (`LimiterTypeOK` and `LimiterInv`), and from it
`WindowsBounded` and `EntriesForgotten`, for any rate, any number of requests and every
window. The core of `LimiterInv` is `WindowInv`: in each window the requests passed plus
the tokens the address has left are at most the burst plus the window's length. Two
requests that build an entry at once keep it because `LoadOrStore` gives both the same
one; forgetting keeps it because a forgotten bucket had refilled, which is where
`Idle >= Burst + MaxPause` is used (`TokensInv`, `SweepInv`).

`UrlNormProofs` proves `StoredLeadsHomeCorrect`, `OneSpellingCorrect` and
`RefusedAlikeCorrect` for every well-formed URL, any number of pieces in a host, and any
case folding, IDNA mapping, blocklist and address ranges that `UrlNormAssumption`
admits. Hosts have three shapes (bare, bracketed, bracketed with a port). For each, the
normal form is a function of the URL's target, credentials and whether its brackets
were lost (`Unbracketed`), and one from which these can be read back.

`VirusTotalProofs` proves `VTTypeCorrect`, `VerdictCorrect`, `LateVerdictsDropped`, and
`OracleRefinement` (`VTSpec => AnswersOnce`): a scan that is made, polled and cancelled
in many steps is for its caller the one step of `Snip`, taken when the call returns.

`Base62Proofs` proves `RoundTripCorrect` and `OneHashCorrect` for any alphabet, any
minimal length and any word that holds it. `Digits`, `Power` and the loop in `Value`
are recursive functions; that they satisfy their equations follows from the existence
of a function that does, built by extending one from the numbers below n to those below
n + 1. Induction is over sets of numbers: the least number outside a set that contains
0 and the successors of its members does not exist (`Induct`), and `Descend` is its
form for the digits, whose argument shrinks by division. The rest is Horner's rule. `Value` of
the digits of n is n as long as no prefix wraps (`ValueOfDigits`), equal values mean
equal strings of one length (`ValueInjective`, by `SameDivision` from the last digit
forwards), and the number of digits grows with n exactly at the powers of the base
(`DigitCount`).

Assumptions are the named ASSUMEs of the modules: sizes are natural numbers, sets
of clicks and workers are finite, seed rows have the hashes of their ids and
distinct ones, 62^7 fits the word that holds an id. TLC evaluates them in every run.

Only model-checked: liveness (`RequestsAnswered`, `ReportsLeadToBlock`,
`UnverifiedGetsVerdict`, `ScanReturns`, `QueuedIsRecorded`, `SignalEndsProcess`),
because the prover does not handle fairness.

## 6. Plan

Done: the store, the three request handlers, the rescanner, the VirusTotal client,
the click pipeline with retention and statistics, the life of the process, the rate
limiter, normalisation and validation; the theorems of section 5, which state every
safety property the runs check.

Left: liveness, with a prover that handles fairness; the endpoints without state of
section 7.

## 7. Not modelled

* Health endpoint: two pings per request, no state. Other middleware (headers, request
  ids, body limits, logging, addresses): no state. `chimiddleware.RealIP` runs first
  (`main.go:134`) and replaces `RemoteAddr` by what the request's headers say, whoever
  sent them; README 133 mentions `TRUSTED_PROXIES` only, which `getIP` looks at
  afterwards. The addresses in `RateLimiter` and `Reports` are those that `RealIP`
  leaves: the properties are about each such address, not about each client. What `Recovery` does to a panic in `Submit` is
  part of `Server`. The no-op scanner: `ScanOutcomes` that are always clean.
* Configuration and migrations: settled before the server starts; the numbers are
  CONSTANTS, the schema is in `UrlStore`, `Reports` and `Analytics`.
* Start-up errors end the process before any of the modelled state exists.
* Percent-encoding and IPv6 zones in `UrlNorm`: they belong to `net/url`. Hosts outside
  RFC 3986 that older versions of `url.Parse` let through (`a:80:80`, brackets around
  fewer than three pieces, an empty port) are outside the properties; of the first kind
  `NormalizeURL` strips one port each time it is applied.
* How late a cached URL may be served after its row expired: a request can take any
  time between reading a row and caching it, and nothing in the code bounds that.
* Several processes on one database: the code has no notion of another instance, and
  the actors of `Snip` do not care in which process they run; rate limits and the
  click buffer are per process.
* Zero workers: `Workers # {}` is assumed, although the configuration accepts
  `ANALYTICS_WORKERS=0`.
