----------------------------- MODULE Shortener ------------------------------
(***************************************************************************)
(* POST /api/shorten: ShortenHandler.Handle (internal/handler/shorten.go)   *)
(* and shortenerService.Shorten (internal/service/shortener.go), with the   *)
(* CachedScanner it scans through (internal/scanner/cache.go).  Each        *)
(* request runs in its own goroutine; a step is one call to MySQL, Redis    *)
(* or the scanner together with the local code up to the next call.        *)
(***************************************************************************)
EXTENDS UrlStore

CONSTANTS
  Shorteners,   \* requests to shorten; each is made at most once
  RawUrls,      \* what clients submit
  Normalize     \* raw -> its normalised URL, or Rejected

Rejected == "rejected"   \* NormalizeURL, ValidateURL or the decoder refuses

ASSUME ShortenerAssumption ==
  /\ Normalize \in [RawUrls -> Urls \cup {Rejected}]
  /\ Rejected \notin Urls

VARIABLE sh   \* request -> where it is, its locals and its reply

ShortenPC ==
  {"idle", "dedup", "vtcache", "scan", "create", "hash", "result", "seturl", "setmeta", "done"}

ShortenReply == {"none", "201", "400", "422", "500", "crash"}

ShortenState ==
  [pc : ShortenPC, url : Urls \cup {Rejected}, id : Nat,
   hash : Hash, result : VTStatus, reply : ShortenReply]

ShortenTypeOK == sh \in [Shorteners -> ShortenState]

ShortenInit ==
  sh = [r \in Shorteners |->
          [pc |-> "idle", url |-> Rejected, id |-> 0, hash |-> NoHash,
           result |-> "pending", reply |-> "none"]]

ShortenGoto(r, pc) == sh' = [sh EXCEPT ![r] = [@ EXCEPT !.pc = pc]]

ShortenAnswer(r, code) ==
  sh' = [sh EXCEPT ![r] = [@ EXCEPT !.pc = "done", !.reply = code]]

\* Decode the body, normalise and validate: refused (400, or 413 for an
\* oversize body) before any call.
ReceiveShorten(r) ==
  /\ sh[r].pc = "idle"
  /\ \E raw \in RawUrls :
       \/ Normalize[raw] = Rejected /\ ShortenAnswer(r, "400")
       \/ /\ Normalize[raw] # Rejected
          /\ sh' = [sh EXCEPT ![r] = [@ EXCEPT !.pc = "dedup", !.url = Normalize[raw]]]
  /\ UNCHANGED store

\* FindByOriginalURL: a live row is the answer, whatever its state; LIMIT 1
\* without ORDER BY picks any of several.
DedupCheck(r) ==
  /\ sh[r].pc = "dedup"
  /\ \/ \E id \in FindByOriginalURL(sh[r].url) :
          sh' = [sh EXCEPT ![r] =
                   [@ EXCEPT !.pc = "done", !.reply = "201", !.id = id,
                             !.hash = urls[id].hash, !.result = urls[id].vt]]
     \/ FindByOriginalURL(sh[r].url) = {} /\ ShortenGoto(r, "vtcache")
     \/ MySQLFails /\ ShortenAnswer(r, "500")
  /\ UNCHANGED store

\* Mutant: a malicious URL is stored like any other.
UseAnyScan(r, status) == sh' = [sh EXCEPT ![r] = [@ EXCEPT !.result = status, !.pc = "create"]]

\* What Shorten does with a scan result: refuse the URL or go on to store it.
UseScan(r, status) ==
  sh' = [sh EXCEPT ![r] =
           IF status = "malicious"
           THEN [@ EXCEPT !.result = status, !.pc = "done", !.reply = "422"]
           ELSE [@ EXCEPT !.result = status, !.pc = "create"]]

\* CachedScanner.Scan, first half: GetRaw.
LookupScan(r) ==
  /\ sh[r].pc = "vtcache"
  /\ \/ \E k \in GetRaw(sh[r].url) : UseScan(r, k.status)
     \/ (RedisFails \/ GetRaw(sh[r].url) = {}) /\ ShortenGoto(r, "scan")
  /\ UNCHANGED store

\* Second half: the inner scan, then SetRaw under the same deadline, so a
\* scan that ran into it cannot be cached.
ScanUrl(r) ==
  /\ sh[r].pc = "scan"
  /\ \E status \in ScanOutcomes[sh[r].url] :
       /\ UseScan(r, status)
       /\ \/ SetRaw(sh[r].url, status)
          \/ (RedisFails \/ status = "unverified") /\ UNCHANGED vtKeys
  /\ UNCHANGED << urls, nextId, urlKeys, metaKeys, now >>

\* Create: the row's hash is '' until UpdateHash, and '' is UNIQUE too; an
\* INSERT that reaches the server uses up an id even when it is refused.
CreateRow(r) ==
  /\ sh[r].pc = "create"
  /\ \/ /\ ~HashTaken(0, NoHash) /\ nextId <= MaxId
        /\ urls' = Inserted(sh[r].url) /\ nextId' = nextId + 1
        /\ \/ sh' = [sh EXCEPT ![r] = [@ EXCEPT !.pc = "hash", !.id = nextId]]
           \/ MySQLFails /\ ShortenAnswer(r, "500")
     \/ /\ HashTaken(0, NoHash) /\ nextId <= MaxId
        /\ ShortenAnswer(r, "500") /\ nextId' = nextId + 1 /\ UNCHANGED urls
     \/ MySQLFails /\ ShortenAnswer(r, "500") /\ UNCHANGED << urls, nextId >>
  /\ UNCHANGED << urlKeys, metaKeys, vtKeys, now >>

UpdateHash(r) ==
  LET id == sh[r].id  h == Encode(id) IN
  /\ sh[r].pc = "hash"
  /\ \/ /\ ~HashTaken(id, h)
        /\ urls' = WithHash(id, h)
        /\ \/ sh' = [sh EXCEPT ![r] = [@ EXCEPT !.pc = "result", !.hash = h]]
           \/ MySQLFails /\ ShortenAnswer(r, "500")
     \/ /\ HashTaken(id, h) \/ MySQLFails
        /\ ShortenAnswer(r, "500") /\ UNCHANGED urls
  /\ UNCHANGED << nextId, urlKeys, metaKeys, vtKeys, now >>

\* UpdateVTResult: a failure is logged, the request goes on, and the row stays
\* pending.
StoreResult(r) ==
  /\ sh[r].pc = "result"
  /\ UpdateVTResult(sh[r].id, sh[r].result)
  /\ ShortenGoto(r, "seturl")
  /\ UNCHANGED << nextId, urlKeys, metaKeys, vtKeys, now >>

\* cache.Set, as two commands; its failure does not fail the request.
CacheNewUrl(r) ==
  /\ sh[r].pc = "seturl"
  /\ \/ /\ SetUrlKey(sh[r].hash, sh[r].url, sh[r].result, ExpDays)
        /\ ShortenGoto(r, "setmeta")
     \/ RedisFails /\ ShortenAnswer(r, "201") /\ UNCHANGED urlKeys
  /\ UNCHANGED << urls, nextId, metaKeys, vtKeys, now >>

CacheNewMeta(r) ==
  /\ sh[r].pc = "setmeta"
  /\ \/ SetMetaKey(sh[r].hash, sh[r].id, ExpDays)
     \/ RedisFails /\ UNCHANGED metaKeys
  /\ ShortenAnswer(r, "201")
  /\ UNCHANGED << urls, nextId, urlKeys, vtKeys, now >>

ShortenStep(r) ==
  \/ ReceiveShorten(r) \/ DedupCheck(r) \/ LookupScan(r) \/ ScanUrl(r)
  \/ CreateRow(r) \/ UpdateHash(r) \/ StoreResult(r)
  \/ CacheNewUrl(r) \/ CacheNewMeta(r)
=============================================================================
