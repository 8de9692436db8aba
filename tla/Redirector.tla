----------------------------- MODULE Redirector -----------------------------
(***************************************************************************)
(* GET /{hash}: RedirectHandler.Handle (internal/handler/redirect.go) and   *)
(* redirectorService.Resolve (internal/service/redirector.go), the          *)
(* cache-aside read: Redis first, MySQL on a miss, then fill Redis with     *)
(* the row that was read.                                                  *)
(***************************************************************************)
EXTENDS UrlStore

CONSTANT Redirectors   \* requests to redirect; each is made at most once

NoUrl == "no url"

ASSUME RedirectorAssumption == NoUrl \notin Urls /\ NoUrl # BadUrl

VARIABLE rd   \* request -> where it is, the URL it resolved and its reply

RedirectPC == {"idle", "find", "seturl", "setmeta", "evict", "serve", "done"}

RedirectReply == {"none", "301", "403", "404", "410", "500", "crash"}

RedirectState ==
  [pc : RedirectPC, hash : Hash, url : Urls \cup {BadUrl, NoUrl},
   id : Nat, vt : VTStatus, reply : RedirectReply]

RedirectTypeOK == rd \in [Redirectors -> RedirectState]

RedirectInit ==
  rd = [r \in Redirectors |->
          [pc |-> "idle", hash |-> NoHash, url |-> NoUrl, id |-> 0,
           vt |-> "pending", reply |-> "none"]]

RedirectAnswer(r, code) ==
  rd' = [rd EXCEPT ![r] = [@ EXCEPT !.pc = "done", !.reply = code]]

\* ^[0-9A-Za-z]{7}$
HashPattern(h) == Len(h) = MinLen /\ \A i \in 1 .. Len(h) : h[i] \in 0 .. Base - 1

\* hashPattern, then cache.Get.  A hit is served without reading MySQL; any
\* error of Get is treated like a miss.
LookupCache(r, h) ==
  /\ rd[r].pc = "idle"
  /\ \/ /\ ~HashPattern(h)
        /\ rd' = [rd EXCEPT ![r] = [@ EXCEPT !.pc = "done", !.hash = h, !.reply = "404"]]
     \/ /\ HashPattern(h)
        /\ \E k \in Get(h) :
             rd' = [rd EXCEPT ![r] =
                      [@ EXCEPT !.hash = h, !.url = k.url, !.id = MetaId(h), !.vt = k.vt,
                                !.pc = IF k.vt = "malicious" THEN "evict" ELSE "serve"]]
     \/ /\ HashPattern(h)
        /\ RedisFails \/ Get(h) = {}
        /\ rd' = [rd EXCEPT ![r] = [@ EXCEPT !.pc = "find", !.hash = h]]
  /\ UNCHANGED store

\* Mutant: the status of the row is not looked at.
ResolutionByExpiry(row) == IF row.exp < now THEN "expired" ELSE "ok"

\* What Resolve does with the row it found, in the code's order.  The row's
\* URL passed ValidateURL before it was stored, so its scheme is http(s).
Resolution(row) ==
  CASE row.exp < now -> "expired"
    [] row.exp >= now /\ row.vt = "malicious" -> "malicious"
    [] OTHER -> "ok"

\* Mutant: any error of FindByHash is answered like ErrNotFound.
FindErrorAsMiss(r) == (FindByHash(rd[r].hash) = {} \/ MySQLFails) /\ RedirectAnswer(r, "404")

\* What an error of FindByHash is answered with.
FindError(r) ==
  \/ FindByHash(rd[r].hash) = {} /\ RedirectAnswer(r, "404")
  \/ MySQLFails /\ RedirectAnswer(r, "500")

FindRow(r) ==
  /\ rd[r].pc = "find"
  /\ \/ FindError(r)
     \/ \E id \in FindByHash(rd[r].hash) :
          \/ Resolution(urls[id]) = "expired" /\ RedirectAnswer(r, "410")
          \/ /\ Resolution(urls[id]) # "expired"
             /\ rd' = [rd EXCEPT ![r] =
                         [@ EXCEPT !.url = urls[id].url, !.id = id, !.vt = urls[id].vt,
                                   !.pc = IF Resolution(urls[id]) = "malicious"
                                          THEN "evict" ELSE "seturl"]]
  /\ UNCHANGED store

\* cache.Set with the row read earlier, as two commands; a failure is logged.
FillUrlKey(r) ==
  /\ rd[r].pc = "seturl"
  /\ \/ /\ SetUrlKey(rd[r].hash, rd[r].url, rd[r].vt, CacheTTL)
        /\ rd' = [rd EXCEPT ![r] = [@ EXCEPT !.pc = "setmeta"]]
     \/ /\ RedisFails /\ UNCHANGED urlKeys
        /\ rd' = [rd EXCEPT ![r] = [@ EXCEPT !.pc = "serve"]]
  /\ UNCHANGED << urls, nextId, metaKeys, vtKeys, now >>

FillMetaKey(r) ==
  /\ rd[r].pc = "setmeta"
  /\ \/ SetMetaKey(rd[r].hash, rd[r].id, CacheTTL)
     \/ RedisFails /\ UNCHANGED metaKeys
  /\ rd' = [rd EXCEPT ![r] = [@ EXCEPT !.pc = "serve"]]
  /\ UNCHANGED << urls, nextId, urlKeys, vtKeys, now >>

\* A URL with status malicious: drop its keys and answer 403.
RefuseMalicious(r) ==
  /\ rd[r].pc = "evict"
  /\ Delete(rd[r].hash)
  /\ RedirectAnswer(r, "403")
  /\ UNCHANGED << urls, nextId, vtKeys, now >>

\* Mutant: no scheme check on a cached URL.
ServeUnchecked(r) == rd[r].pc = "serve" /\ RedirectAnswer(r, "301") /\ UNCHANGED store

\* The handler's own scheme check, then Submit(ClickEvent) and the redirect.
Serve(r) ==
  /\ rd[r].pc = "serve"
  /\ \/ /\ rd[r].url = BadUrl
        /\ Delete(rd[r].hash)
        /\ RedirectAnswer(r, "500")
     \/ /\ rd[r].url # BadUrl
        /\ RedirectAnswer(r, "301")
        /\ UNCHANGED << urlKeys, metaKeys >>
  /\ UNCHANGED << urls, nextId, vtKeys, now >>

RedirectStep(r) ==
  \/ \E h \in ReqHashes : LookupCache(r, h)
  \/ FindRow(r) \/ FillUrlKey(r) \/ FillMetaKey(r) \/ RefuseMalicious(r) \/ Serve(r)
=============================================================================
