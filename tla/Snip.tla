-------------------------------- MODULE Snip --------------------------------
(***************************************************************************)
(* The service as cmd/api/main.go wires it: requests of the three handlers  *)
(* and the rescanner run concurrently over one store.  A request is a      *)
(* goroutine; between two of its calls every other goroutine may run.      *)
(***************************************************************************)
EXTENDS Shortener, Redirector, Reports, Rescanner

vars == << store, sh, rd, reports, rp, rs >>

TypeOK ==
  /\ StoreTypeOK
  /\ ShortenTypeOK
  /\ RedirectTypeOK
  /\ ReportTypeOK
  /\ RescanTypeOK

Init == StoreInit /\ ShortenInit /\ RedirectInit /\ ReportInit /\ RescanInit

\* The process dies: requests in flight are lost where they are, and the
\* rescan cycle with them.  MySQL and Redis keep what they have.
Lost(q) == IF q.pc \in {"idle", "done"} THEN q ELSE [q EXCEPT !.pc = "done", !.reply = "crash"]

Crash ==
  /\ "crash" \in Faults
  /\ sh' = [r \in Shorteners |-> Lost(sh[r])]
  /\ rd' = [r \in Redirectors |-> Lost(rd[r])]
  /\ rp' = [r \in Reporters |-> Lost(rp[r])]
  /\ rs' = [pc |-> "idle", todo |-> {}, id |-> 0, result |-> "pending"]
  /\ UNCHANGED << store, reports >>

Environment == Tick \/ EvictKey \/ CorruptKey

Next ==
  \/ (\E r \in Shorteners : ShortenStep(r)) /\ UNCHANGED << rd, reports, rp, rs >>
  \/ (\E r \in Redirectors : RedirectStep(r)) /\ UNCHANGED << sh, reports, rp, rs >>
  \/ (\E r \in Reporters : ReportStep(r)) /\ UNCHANGED << sh, rd, rs >>
  \/ RescanStep /\ UNCHANGED << sh, rd, reports, rp >>
  \/ Environment /\ UNCHANGED << sh, rd, reports, rp, rs >>
  \/ Crash

Spec == Init /\ [][Next]_vars

\* A goroutine that can run is eventually scheduled, and every call it waits
\* on returns: the Redis client times out, Shorten gives its scan a deadline,
\* and a MySQL server answers or its connection breaks.  The rescanner's ticker
\* keeps firing, but its scan has no deadline: it may wait for VirusTotal for
\* ever.  Nothing makes a client send a request, time pass, or a fault happen.
Fairness ==
  /\ \A r \in Shorteners :
       WF_vars(sh[r].pc # "idle" /\ ShortenStep(r) /\ UNCHANGED << rd, reports, rp, rs >>)
  /\ \A r \in Redirectors :
       WF_vars(rd[r].pc # "idle" /\ RedirectStep(r) /\ UNCHANGED << sh, reports, rp, rs >>)
  /\ \A r \in Reporters :
       WF_vars(rp[r].pc # "idle" /\ ReportStep(r) /\ UNCHANGED << sh, rd, rs >>)
  /\ WF_vars(rs.pc # "scan" /\ RescanStep /\ UNCHANGED << sh, rd, reports, rp >>)

FairSpec == Spec /\ Fairness

-----------------------------------------------------------------------------
(* Cache against table.                                                     *)

\* The row a Redis key or a client's hash means.
Names(h, id) == id \in Ids /\ SameHash(urls[id].hash, h)

\* Whatever interleaving of fills, evictions, retries and crashes wrote it, a
\* key of the service names the URL and the id of the one row its hash stands
\* for, and none ever carries the status malicious (so the branch of Resolve
\* for a malicious cache hit never runs).
CacheAgreesWithTable ==
  /\ \A k \in urlKeys : k.url # BadUrl =>
       /\ k.vt # "malicious"
       /\ \E id \in Ids : Names(k.hash, id) /\ urls[id].url = k.url
  /\ \A m \in metaKeys : Names(m.hash, m.id)

\* A redirect goes to the URL that was stored for its hash, and its click is
\* recorded for that row or, when the meta key was missing, for id 0: never
\* for another row, and never to a value that was not stored by Shorten.
RedirectsGoHome ==
  \A r \in Redirectors : rd[r].reply = "301" =>
    \E id \in Ids : /\ Names(rd[r].hash, id)
                    /\ rd[r].url = urls[id].url
                    /\ rd[r].id \in {0, id}

\* A shorten request that is answered 201 with a hash was answered with the
\* hash of a row that holds its URL (equal under the column's collation).
AnsweredHashIsStored ==
  \A r \in Shorteners : sh[r].reply = "201" /\ sh[r].hash # NoHash =>
    /\ sh[r].id \in Ids
    /\ urls[sh[r].id].hash = sh[r].hash
    /\ UrlKey[urls[sh[r].id].url] = UrlKey[sh[r].url]

\* The refinement mapping: a row is a link from when it has its hash, and the
\* answers that count are 201 with a hash, 301 and 404.
Links == {id \in Ids : urls[id].hash # NoHash}

Told(q) ==
  IF q.reply = "201" /\ q.hash # NoHash THEN {[hash |-> q.hash, url |-> q.url]} ELSE {}

Sent(q) ==
  CASE q.reply = "301" -> {[hash |-> q.hash, url |-> q.url]}
    [] q.reply = "404" -> {[hash |-> q.hash, url |-> NoUrl]}
    [] OTHER -> {}

Book == INSTANCE LinkBook WITH
  Clients <- Shorteners, Visitors <- Redirectors, Numbers <- 1 .. MaxId, Nowhere <- NoUrl,
  Askable <- {h \in ReqHashes : HashPattern(h)},
  book <- [id \in Links |-> [hash |-> urls[id].hash, url |-> urls[id].url]],
  told <- [r \in Shorteners |-> Told(sh[r])],
  sent <- [r \in Redirectors |-> Sent(rd[r])]

\* Table, cache and handlers keep the book: a link never changes, no two links
\* share a hash, and 201, 301 and 404 each say what the book says when they are
\* given.  So whoever asks for a hash that somebody was told is never answered
\* that there is no such link, whatever failed, expired or crashed in between.
KeepsBook == Book!BookSpec

-----------------------------------------------------------------------------
(* The inductive invariant behind the three.                                *)

\* Rows whose request is between Create and UpdateHash.
HashPending == {id \in Ids : \E r \in Shorteners : sh[r].pc = "hash" /\ sh[r].id = id}

\* Row id has its final hash, which means h, and holds u.
Good(h, u, id) == Names(h, id) /\ id \notin HashPending /\ urls[id].url = u

\* Locals are set before they are used, and a request answers once, last.
LocalsOK ==
  /\ \A r \in Shorteners : sh[r].pc \notin {"idle", "done"} => sh[r].url \in Urls
  /\ \A r \in Shorteners : sh[r].reply = "201" => sh[r].pc = "done"
  /\ \A r \in Redirectors : rd[r].reply = "301" => rd[r].pc = "done"
  /\ \A r \in Redirectors : rd[r].pc = "find" => rd[r].hash \in ReqHashes /\ HashPattern(rd[r].hash)
  /\ \A r \in Reporters : rp[r].pc \notin {"idle", "done"} => rp[r].ip \in AnonIPs /\ rp[r].id \in Ids
  /\ rs.todo \subseteq Ids
  /\ rs.pc \in {"scan", "store", "evict"} => rs.id \in Ids

\* Ids and hashes are unique; at most one request is between Create and
\* UpdateHash, and its row still has the empty hash; afterwards the row and
\* the request agree.
TableInv ==
  /\ \A i \in Ids : i < nextId
  /\ \A i, j \in Ids : SameHash(urls[i].hash, urls[j].hash) => i = j
  /\ \A r \in Shorteners : sh[r].pc = "hash" =>
       sh[r].id \in Ids /\ urls[sh[r].id].hash = NoHash /\ urls[sh[r].id].url = sh[r].url
  /\ \A q, r \in Shorteners : sh[q].pc = "hash" /\ sh[r].pc = "hash" => q = r
  /\ \A r \in Shorteners : sh[r].pc \in {"result", "seturl", "setmeta"} =>
       Good(sh[r].hash, sh[r].url, sh[r].id) /\ urls[sh[r].id].hash = sh[r].hash
  /\ \A r \in Shorteners : sh[r].pc \in {"create", "hash", "result", "seturl"} =>
       sh[r].result # "malicious"

CacheInv ==
  /\ \A k \in urlKeys : k.url # BadUrl =>
       k.vt # "malicious" /\ \E id \in Ids : Good(k.hash, k.url, id)
  /\ \A m \in metaKeys : Names(m.hash, m.id) /\ m.id \notin HashPending

\* What a redirect carries between its calls.
RedirectInv ==
  \A r \in Redirectors :
    /\ rd[r].pc \in {"seturl", "setmeta"} =>
         Good(rd[r].hash, rd[r].url, rd[r].id) /\ rd[r].vt # "malicious" /\ rd[r].url # BadUrl
    /\ (rd[r].pc = "serve" /\ rd[r].url # BadUrl) \/ rd[r].reply = "301" =>
         \E id \in Ids : Good(rd[r].hash, rd[r].url, id) /\ rd[r].id \in {0, id}

\* What holds between any two calls of the service, whatever is in flight.
ServiceInv == LocalsOK /\ TableInv /\ CacheInv /\ RedirectInv /\ AnsweredHashIsStored

-----------------------------------------------------------------------------
(* Blocking.                                                                *)

\* A row is sealed when it is malicious, no scan that could overwrite its
\* status is under way, Redis has no key for it and no request is on its way
\* to writing one or to serving it.
Sealed(id) ==
  /\ id \in Ids /\ urls[id].vt = "malicious"
  /\ id \notin rs.todo /\ (rs.id = id => rs.pc \notin {"scan", "store"})
  /\ \A r \in Shorteners : sh[r].id = id => sh[r].pc \notin {"hash", "result", "seturl"}
  /\ \A k \in urlKeys : k.url # BadUrl => ~Names(k.hash, id)
  /\ \A r \in Redirectors :
       rd[r].pc \in {"seturl", "setmeta", "serve"} /\ rd[r].url # BadUrl => ~Names(rd[r].hash, id)

\* Redirect r is sent on to a URL in this step.
SentOn(r) == rd[r].reply # "301" /\ rd'[r].reply = "301"

\* Once sealed, a row is never cached, rescanned or unblocked again, and nobody
\* who asks for its hash is redirected, whatever requests arrive later, in
\* whatever order.
SealedForever ==
  [][\A id \in 1 .. MaxId : Sealed(id) =>
        Sealed(id)' /\ \A r \in Redirectors : SentOn(r) => ~Names(rd'[r].hash, id)]_vars

\* No report is lost between INSERT, COUNT and UPDATE: when a clean row has
\* Threshold networks against it and no reporter is still on the way to
\* counting or blocking, it is malicious, although none of the three calls is
\* in a transaction with another.  (Fault-free; rows that no scan overwrites.)
ThresholdBlocks ==
  \A id \in Ids :
    /\ CountDistinctIPs(id) >= Threshold
    /\ \A r \in Reporters : rp[r].id = id => rp[r].pc \notin {"count", "block"}
    => urls[id].vt = "malicious"

\* A network that reported a URL is told 201 once and 409 from then on.
OneReportPerNetwork ==
  \A q, r \in Reporters :
    /\ q # r /\ rp[q].id = rp[r].id /\ rp[q].ip = rp[r].ip
    /\ rp[q].reply = "201"
    => rp[r].reply # "201"

\* The request's report was accepted.
Accepted(r) == rp[r].pc \in {"count", "block", "evict"} \/ rp[r].reply = "201"

\* Reports are of rows that exist.  An accepted report is in the table, and the
\* UNIQUE key has accepted it from one request only, whatever failed after it.
ReportInv ==
  /\ \A rep \in reports : rep.id \in Ids
  /\ \A r \in Reporters : rp[r].pc # "done" => rp[r].reply = "none"
  /\ \A r \in Reporters : Accepted(r) => [id |-> rp[r].id, ip |-> rp[r].ip] \in reports
  /\ \A q, r \in Reporters :
       Accepted(q) /\ Accepted(r) /\ rp[q].id = rp[r].id /\ rp[q].ip = rp[r].ip => q = r

\* No scan, and nothing else, overwrites the status of a blocked row.
StatusSticks == [][\A id \in Ids : urls[id].vt = "malicious" => urls'[id].vt = "malicious"]_vars

\* Every request the server has taken is answered: no step waits for another
\* request or for the rescanner, and every error path ends in a reply.  (A
\* request is made once and its reply is final: each is answered if and only if
\* again and again there is a moment at which none is left waiting.)
RequestsAnswered ==
  []<>(/\ \A r \in Shorteners : sh[r].pc # "idle" => sh[r].reply # "none"
       /\ \A r \in Redirectors : rd[r].pc # "idle" => rd[r].reply # "none"
       /\ \A r \in Reporters : rp[r].pc # "idle" => rp[r].reply # "none")

\* Enough reports lead to a block that holds.  (Reports are never withdrawn, so
\* from some moment on every row that has enough of them is blocked for good.)
ReportsLeadToBlock ==
  <>[](\A id \in Ids : CountDistinctIPs(id) >= Threshold => urls[id].vt = "malicious")

\* The row is one the rescanner has to list.
Waits(id) == id \in Ids /\ urls[id].vt = "unverified" /\ urls[id].exp > now

\* Every scan of the row ends in a verdict that can be stored.
Scannable(id) == urls[id].url \notin LongUrls /\ "unverified" \notin ScanOutcomes[urls[id].url]

\* Older rows that come back into every list fill it up.
Starved(id) == Cardinality({j \in Ids : j < id /\ Waits(j) /\ ~Scannable(j)}) >= RescanLimit

\* README.md:217: the rescanner fetches all unverified URLs.  It gets to each of
\* them, unless the row expires first, or VirusTotal never completes the
\* analysis at hand (whose scan has no deadline), or as many older rows as one
\* list holds stay unverified, because their scans do not end in a verdict or
\* because the verdict cannot be stored.  Nothing else keeps a row from its
\* verdict: no shorter backlog, no expired or newer row and no request.
UnverifiedGetsVerdict ==
  \/ <>[](rs.pc = "scan")
  \/ []<>(\A id \in Ids : Waits(id) /\ Scannable(id) => Starved(id))
=============================================================================
