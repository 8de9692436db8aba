----------------------------- MODULE SnipProofs -----------------------------
(***************************************************************************)
(* Theorems about Snip for every set of requests, URLs, hashes and faults,  *)
(* every alphabet, and every value of the configuration.                   *)
(***************************************************************************)
EXTENDS Snip, SequenceTheorems, FiniteSetTheorems, TLAPS

-----------------------------------------------------------------------------
(* Types: what each operation of the store returns or leaves.               *)

\* A step that leaves the store alone keeps its type.
LEMMA StoreSame ==
  ASSUME StoreTypeOK, UNCHANGED store
  PROVE  StoreTypeOK'
<1> QED  BY DEF StoreTypeOK, store

\* The table keeps its type under each of its three writes.
LEMMA TableTypes ==
  ASSUME StoreTypeOK
  PROVE  /\ \A id \in Ids, h \in Hash : DOMAIN WithHash(id, h) = Ids /\ WithHash(id, h) \in [Ids -> Row]
         /\ \A id \in Ids, s \in VTStatus : DOMAIN WithVT(id, s) = Ids /\ WithVT(id, s) \in [Ids -> Row]
         /\ \A u \in Urls : /\ DOMAIN Inserted(u) = Ids \cup {nextId}
                            /\ Inserted(u) \in [Ids \cup {nextId} -> Row]
<1>1. urls \in [Ids -> Row]  BY DEF StoreTypeOK, Ids
<1>2. ASSUME NEW id \in Ids, NEW h \in Hash
      PROVE  DOMAIN WithHash(id, h) = Ids /\ WithHash(id, h) \in [Ids -> Row]
  <2>1. [urls[id] EXCEPT !.hash = h] \in Row  BY <1>1, <1>2 DEF Row
  <2> QED  BY <1>1, <1>2, <2>1 DEF WithHash
<1>3. ASSUME NEW id \in Ids, NEW s \in VTStatus
      PROVE  DOMAIN WithVT(id, s) = Ids /\ WithVT(id, s) \in [Ids -> Row]
  <2>1. [urls[id] EXCEPT !.vt = s] \in Row  BY <1>1, <1>3 DEF Row
  <2> QED  BY <1>1, <1>3, <2>1 DEF WithVT
<1>4. ASSUME NEW u \in Urls
      PROVE  DOMAIN Inserted(u) = Ids \cup {nextId} /\ Inserted(u) \in [Ids \cup {nextId} -> Row]
  <2>1. [hash |-> NoHash, url |-> u, exp |-> now + ExpDays, vt |-> "pending"] \in Row
    <3>1. now + ExpDays \in Nat  BY StoreAssumption DEF StoreTypeOK
    <3> QED  BY <1>4, <3>1 DEF Row, Hash, VTStatus
  <2> QED  BY <1>1, <2>1 DEF Inserted
<1> QED  BY <1>2, <1>3, <1>4

\* Set and Delete of the Redis cache keep the types of its keys.
LEMMA KeyTypes ==
  ASSUME StoreTypeOK, NEW h \in Hash, NEW ttl \in Nat
  PROVE  /\ \A u \in Urls \cup {BadUrl}, s \in VTStatus : SetUrlKey(h, u, s, ttl) => urlKeys' \subseteq UrlEntry
         /\ \A id \in Nat : SetMetaKey(h, id, ttl) => metaKeys' \subseteq MetaEntry
         /\ Delete(h) => urlKeys' \subseteq UrlEntry /\ metaKeys' \subseteq MetaEntry
<1>1. ExpiryOf(ttl) \in Nat  BY DEF StoreTypeOK, ExpiryOf, Never
<1>2. ASSUME NEW u \in Urls \cup {BadUrl}, NEW s \in VTStatus, SetUrlKey(h, u, s, ttl)
      PROVE  urlKeys' \subseteq UrlEntry
  <2>1. [hash |-> h, url |-> u, vt |-> s, exp |-> ExpiryOf(ttl)] \in UrlEntry  BY <1>1, <1>2 DEF UrlEntry
  <2> QED  BY <1>2, <2>1 DEF SetUrlKey, WithKey, StoreTypeOK
<1>3. ASSUME NEW id \in Nat, SetMetaKey(h, id, ttl)  PROVE  metaKeys' \subseteq MetaEntry
  <2>1. [hash |-> h, id |-> id, exp |-> ExpiryOf(ttl)] \in MetaEntry  BY <1>1, <1>3 DEF MetaEntry
  <2> QED  BY <1>3, <2>1 DEF SetMetaKey, WithKey, StoreTypeOK
<1>4. Delete(h) => urlKeys' \subseteq UrlEntry /\ metaKeys' \subseteq MetaEntry
  BY DEF Delete, Without, StoreTypeOK
<1> QED  BY <1>2, <1>3, <1>4

\* The row's status is written, or nothing is.
SetsStatus(id, s) == urls' \in {urls, WithVT(id, s)}

\* UpdateVTStatus and UpdateVTResult do that, whether or not they fail.
LEMMA StatusWrites ==
  ASSUME NEW id, NEW s
  PROVE  /\ Exec(WithVT(id, s)) => SetsStatus(id, s)
         /\ UpdateVTResult(id, s) => SetsStatus(id, s)
BY DEF Exec, UpdateVTResult, SetsStatus

\* A write of a status keeps the table's type.
LEMMA StatusType ==
  ASSUME StoreTypeOK, NEW id \in Ids, NEW s \in VTStatus, SetsStatus(id, s)
  PROVE  DOMAIN urls' \subseteq 1 .. MaxId /\ urls' \in [DOMAIN urls' -> Row]
<1>1. CASE urls' = urls  BY <1>1 DEF StoreTypeOK
<1>2. CASE urls' = WithVT(id, s)  BY <1>2, TableTypes DEF StoreTypeOK, Ids
<1> QED  BY <1>1, <1>2 DEF SetsStatus

-----------------------------------------------------------------------------
(* Types: one lemma per component.                                          *)

\* Every scan status, and the initial 'pending', can be stored.
LEMMA StatusTypes == ScanStatus \subseteq VTStatus /\ {"pending", "malicious", "unverified"} \subseteq VTStatus
<1> QED  BY DEF ScanStatus, VTStatus

\* The ways in which a request to shorten changes its locals.
LEMMA ShortenLocals ==
  ASSUME ShortenTypeOK, NEW r \in Shorteners
  PROVE  /\ \A pc \in ShortenPC : ShortenGoto(r, pc) => ShortenTypeOK'
         /\ \A code \in ShortenReply : ShortenAnswer(r, code) => ShortenTypeOK'
         /\ \A s \in ScanStatus : UseScan(r, s) => ShortenTypeOK'
         /\ \A rec \in ShortenState : sh' = [sh EXCEPT ![r] = rec] => ShortenTypeOK'
         /\ sh[r] \in ShortenState
<1>1. ASSUME NEW pc \in ShortenPC, ShortenGoto(r, pc)  PROVE ShortenTypeOK'
  BY <1>1 DEF ShortenTypeOK, ShortenState, ShortenGoto
<1>2. ASSUME NEW code \in ShortenReply, ShortenAnswer(r, code)  PROVE ShortenTypeOK'
  BY <1>2 DEF ShortenTypeOK, ShortenState, ShortenAnswer, ShortenPC
<1>3. ASSUME NEW s \in ScanStatus, UseScan(r, s)  PROVE ShortenTypeOK'
  <2>1. sh[r] \in ShortenState /\ s \in VTStatus  BY StatusTypes DEF ShortenTypeOK
  <2>2. /\ [sh[r] EXCEPT !.result = s, !.pc = "done", !.reply = "422"] \in ShortenState
        /\ [sh[r] EXCEPT !.result = s, !.pc = "create"] \in ShortenState
    BY <2>1 DEF ShortenState, ShortenPC, ShortenReply
  <2> QED  BY <1>3, <2>2 DEF ShortenTypeOK, UseScan
<1> QED  BY <1>1, <1>2, <1>3 DEF ShortenTypeOK

SameLocals(p, q) == p.url = q.url /\ p.id = q.id /\ p.hash = q.hash /\ p.result = q.result

\* What each of them leaves in the request's locals.
LEMMA ShortenWrites ==
  ASSUME ShortenTypeOK, NEW r \in Shorteners
  PROVE  /\ \A pc : ShortenGoto(r, pc) =>
              sh'[r].pc = pc /\ sh'[r].reply = sh[r].reply /\ SameLocals(sh'[r], sh[r])
         /\ \A code : ShortenAnswer(r, code) =>
              sh'[r].pc = "done" /\ sh'[r].reply = code /\ SameLocals(sh'[r], sh[r])
         /\ \A s : UseScan(r, s) =>
              /\ \/ s = "malicious" /\ sh'[r].pc = "done" /\ sh'[r].reply = "422"
                 \/ s # "malicious" /\ sh'[r].pc = "create" /\ sh'[r].reply = sh[r].reply
              /\ sh'[r].result = s /\ sh'[r].url = sh[r].url
              /\ sh'[r].id = sh[r].id /\ sh'[r].hash = sh[r].hash
<1>0. sh \in [Shorteners -> ShortenState] /\ sh[r] \in ShortenState  BY DEF ShortenTypeOK
<1>1. ASSUME NEW pc, ShortenGoto(r, pc)
      PROVE  sh'[r].pc = pc /\ sh'[r].reply = sh[r].reply /\ SameLocals(sh'[r], sh[r])
  <2>1. sh'[r] = [sh[r] EXCEPT !.pc = pc]  BY <1>0, <1>1 DEF ShortenGoto
  <2> QED  BY <1>0, <2>1 DEF ShortenState, SameLocals
<1>2. ASSUME NEW code, ShortenAnswer(r, code)
      PROVE  sh'[r].pc = "done" /\ sh'[r].reply = code /\ SameLocals(sh'[r], sh[r])
  <2>1. sh'[r] = [sh[r] EXCEPT !.pc = "done", !.reply = code]  BY <1>0, <1>2 DEF ShortenAnswer
  <2> QED  BY <1>0, <2>1 DEF ShortenState, SameLocals
<1>3. ASSUME NEW s, UseScan(r, s)
      PROVE  /\ \/ s = "malicious" /\ sh'[r].pc = "done" /\ sh'[r].reply = "422"
                \/ s # "malicious" /\ sh'[r].pc = "create" /\ sh'[r].reply = sh[r].reply
             /\ sh'[r].result = s /\ sh'[r].url = sh[r].url
             /\ sh'[r].id = sh[r].id /\ sh'[r].hash = sh[r].hash
  <2>1. CASE s = "malicious"
    <3>1. sh'[r] = [sh[r] EXCEPT !.result = s, !.pc = "done", !.reply = "422"]  BY <1>0, <1>3, <2>1 DEF UseScan
    <3> QED  BY <1>0, <2>1, <3>1 DEF ShortenState
  <2>2. CASE s # "malicious"
    <3>1. sh'[r] = [sh[r] EXCEPT !.result = s, !.pc = "create"]  BY <1>0, <1>3, <2>2 DEF UseScan
    <3> QED  BY <1>0, <2>2, <3>1 DEF ShortenState
  <2> QED  BY <2>1, <2>2
<1> QED  BY <1>1, <1>2, <1>3

\* A step of a request to shorten keeps the types of store and request.
LEMMA ShortenType ==
  ASSUME StoreTypeOK, ShortenTypeOK, LocalsOK, TableInv,
         NEW r \in Shorteners, ShortenStep(r)
  PROVE  StoreTypeOK' /\ ShortenTypeOK'
<1>0. /\ sh[r] \in ShortenState
      /\ sh[r].pc \notin {"idle", "done"} => sh[r].url \in Urls
      /\ {"201", "400", "422", "500"} \subseteq ShortenReply
      /\ {"dedup", "vtcache", "scan", "create", "hash", "result", "seturl", "setmeta", "done"} \subseteq ShortenPC
      /\ urls \in [Ids -> Row] /\ Ids \subseteq 1 .. MaxId
  BY ShortenLocals DEF LocalsOK, ShortenReply, ShortenPC, StoreTypeOK, Ids
<1>1. CASE ReceiveShorten(r)
  <2>1. PICK raw \in RawUrls :
          \/ ShortenAnswer(r, "400")
          \/ /\ Normalize[raw] # Rejected
             /\ sh' = [sh EXCEPT ![r] = [@ EXCEPT !.pc = "dedup", !.url = Normalize[raw]]]
    BY <1>1 DEF ReceiveShorten
  <2>2. [sh[r] EXCEPT !.pc = "dedup", !.url = Normalize[raw]] \in ShortenState
    BY <1>0, ShortenerAssumption DEF ShortenState
  <2>3. ShortenTypeOK'
    BY <1>0, <2>1, <2>2, ShortenLocals
  <2> QED  BY <1>1, <2>3, StoreSame DEF ReceiveShorten
<1>2. CASE DedupCheck(r)
  <2>1. ASSUME NEW id \in FindByOriginalURL(sh[r].url)
        PROVE  [sh[r] EXCEPT !.pc = "done", !.reply = "201", !.id = id,
                             !.hash = urls[id].hash, !.result = urls[id].vt] \in ShortenState
    <3>1. id \in Ids  BY <2>1 DEF FindByOriginalURL
    <3>2. id \in Nat /\ urls[id].hash \in Hash /\ urls[id].vt \in VTStatus
      BY <1>0, <3>1, StoreAssumption DEF Row
    <3> QED  BY <1>0, <3>2 DEF ShortenState
  <2>2. ShortenTypeOK'
    BY <1>0, <1>2, <2>1, ShortenLocals DEF DedupCheck
  <2> QED  BY <1>2, <2>2, StoreSame DEF DedupCheck
<1>3. CASE LookupScan(r)
  <2>1. ShortenTypeOK'
    BY <1>0, <1>3, ShortenLocals DEF LookupScan, GetRaw, StoreTypeOK, VTEntry
  <2> QED  BY <1>3, <2>1, StoreSame DEF LookupScan, GetRaw
<1>4. CASE ScanUrl(r)
  <2>1. sh[r].url \in Urls  BY <1>0, <1>4 DEF ScanUrl
  <2>2. PICK s \in ScanOutcomes[sh[r].url] : UseScan(r, s) /\ (SetRaw(sh[r].url, s) \/ UNCHANGED vtKeys)
    BY <1>4 DEF ScanUrl
  <2>3. s \in ScanStatus  BY <2>1, StoreAssumption
  <2>4. ShortenTypeOK'  BY <2>2, <2>3, ShortenLocals
  <2>5. vtKeys' \subseteq VTEntry
    <3>1. ExpiryOf(VTCacheTTL) \in Nat  BY StoreAssumption DEF StoreTypeOK, ExpiryOf, Never
    <3>2. [url |-> sh[r].url, status |-> s, exp |-> ExpiryOf(VTCacheTTL)] \in VTEntry
      BY <2>1, <2>3, <3>1 DEF VTEntry
    <3> QED  BY <2>2, <3>2 DEF SetRaw, StoreTypeOK
  <2> QED  BY <1>4, <2>4, <2>5 DEF ScanUrl, StoreTypeOK
<1>5. CASE CreateRow(r)
  <2>1. sh[r].url \in Urls  BY <1>0, <1>5 DEF CreateRow
  <2>2. [sh[r] EXCEPT !.pc = "hash", !.id = nextId] \in ShortenState
    <3>1. nextId \in Nat  BY StoreAssumption DEF StoreTypeOK
    <3> QED  BY <1>0, <3>1 DEF ShortenState
  <2>3. ShortenTypeOK'
    BY <1>0, <1>5, <2>2, ShortenLocals DEF CreateRow
  <2>4. nextId' \in 1 .. MaxId + 1
    BY <1>5, StoreAssumption DEF CreateRow, StoreTypeOK
  <2>5. DOMAIN urls' \subseteq 1 .. MaxId /\ urls' \in [DOMAIN urls' -> Row]
    <3>1. CASE urls' = urls  BY <3>1 DEF StoreTypeOK
    <3>2. CASE urls' = Inserted(sh[r].url) /\ nextId <= MaxId
      BY <1>0, <2>1, <3>2, TableTypes, StoreAssumption DEF StoreTypeOK
    <3> QED  BY <1>5, <3>1, <3>2 DEF CreateRow
  <2> QED  BY <1>5, <2>3, <2>4, <2>5 DEF CreateRow, StoreTypeOK
<1>6. CASE UpdateHash(r)
  <2>1. sh[r].id \in Ids  BY <1>6 DEF UpdateHash, TableInv
  <2>2. Encode(sh[r].id) \in Hash  BY <1>0, <2>1 DEF Hash
  <2>3. [sh[r] EXCEPT !.pc = "result", !.hash = Encode(sh[r].id)] \in ShortenState
    BY <1>0, <2>2 DEF ShortenState
  <2>4. ShortenTypeOK'
    BY <1>0, <1>6, <2>3, ShortenLocals DEF UpdateHash
  <2>5. DOMAIN urls' \subseteq 1 .. MaxId /\ urls' \in [DOMAIN urls' -> Row]
    <3>1. CASE urls' = urls  BY <3>1 DEF StoreTypeOK
    <3>2. CASE urls' = WithHash(sh[r].id, Encode(sh[r].id))
      BY <1>0, <2>1, <2>2, <3>2, TableTypes DEF StoreTypeOK
    <3> QED  BY <1>6, <3>1, <3>2 DEF UpdateHash
  <2> QED  BY <1>6, <2>4, <2>5 DEF UpdateHash, StoreTypeOK
<1>7. CASE StoreResult(r)
  <2>1. sh[r].id \in Ids /\ sh[r].result \in VTStatus
    BY <1>0, <1>7 DEF StoreResult, TableInv, Good, Names, ShortenState
  <2>2. ShortenTypeOK'  BY <1>0, <1>7, ShortenLocals DEF StoreResult
  <2>3. DOMAIN urls' \subseteq 1 .. MaxId /\ urls' \in [DOMAIN urls' -> Row]
    BY <1>7, <2>1, StatusWrites, StatusType DEF StoreResult
  <2> QED  BY <1>7, <2>2, <2>3 DEF StoreResult, StoreTypeOK
<1>8. CASE CacheNewUrl(r)
  <2>1. sh[r].url \in Urls /\ sh[r].hash \in Hash /\ sh[r].result \in VTStatus
    BY <1>0, <1>8 DEF CacheNewUrl, ShortenState
  <2>2. urlKeys' \subseteq UrlEntry
    BY <1>8, <2>1, KeyTypes, StoreAssumption DEF CacheNewUrl, StoreTypeOK
  <2>3. ShortenTypeOK'  BY <1>0, <1>8, ShortenLocals DEF CacheNewUrl
  <2> QED  BY <1>8, <2>2, <2>3 DEF CacheNewUrl, StoreTypeOK
<1>9. CASE CacheNewMeta(r)
  <2>1. sh[r].id \in Nat /\ sh[r].hash \in Hash
    BY <1>0 DEF ShortenState
  <2>2. metaKeys' \subseteq MetaEntry
    BY <1>9, <2>1, KeyTypes, StoreAssumption DEF CacheNewMeta, StoreTypeOK
  <2>3. ShortenTypeOK'  BY <1>0, <1>9, ShortenLocals DEF CacheNewMeta
  <2> QED  BY <1>9, <2>2, <2>3 DEF CacheNewMeta, StoreTypeOK
<1> QED  BY <1>1, <1>2, <1>3, <1>4, <1>5, <1>6, <1>7, <1>8, <1>9 DEF ShortenStep

\* The same for a redirect.
LEMMA RedirectLocals ==
  ASSUME RedirectTypeOK, NEW r \in Redirectors
  PROVE  /\ \A pc \in RedirectPC : rd' = [rd EXCEPT ![r] = [@ EXCEPT !.pc = pc]] => RedirectTypeOK'
         /\ \A code \in RedirectReply : RedirectAnswer(r, code) => RedirectTypeOK'
         /\ \A rec \in RedirectState : rd' = [rd EXCEPT ![r] = rec] => RedirectTypeOK'
         /\ rd[r] \in RedirectState
<1>1. ASSUME NEW pc \in RedirectPC, rd' = [rd EXCEPT ![r] = [@ EXCEPT !.pc = pc]]  PROVE RedirectTypeOK'
  BY <1>1 DEF RedirectTypeOK, RedirectState
<1>2. ASSUME NEW code \in RedirectReply, RedirectAnswer(r, code)  PROVE RedirectTypeOK'
  BY <1>2 DEF RedirectTypeOK, RedirectState, RedirectAnswer, RedirectPC
<1> QED  BY <1>1, <1>2 DEF RedirectTypeOK

\* Get returns a url id, 0 when the meta key is missing.
LEMMA MetaIdType ==
  ASSUME StoreTypeOK, NEW h
  PROVE  MetaId(h) \in Nat
<1>1. ASSUME \E m \in metaKeys : m.hash = h  PROVE (CHOOSE m \in metaKeys : m.hash = h).id \in Nat
  <2>1. (CHOOSE m \in metaKeys : m.hash = h) \in metaKeys  BY <1>1
  <2> QED  BY <2>1 DEF StoreTypeOK, MetaEntry
<1> QED  BY <1>1 DEF MetaId

\* A step of a redirect keeps the types of store and request.
LEMMA RedirectType ==
  ASSUME StoreTypeOK, RedirectTypeOK, LocalsOK, RedirectInv,
         NEW r \in Redirectors, RedirectStep(r)
  PROVE  StoreTypeOK' /\ RedirectTypeOK'
<1>0. /\ rd[r] \in RedirectState
      /\ {"301", "403", "404", "410", "500"} \subseteq RedirectReply
      /\ {"find", "seturl", "setmeta", "evict", "serve", "done"} \subseteq RedirectPC
      /\ urls \in [Ids -> Row] /\ Ids \subseteq 1 .. MaxId
  BY RedirectLocals DEF RedirectReply, RedirectPC, StoreTypeOK, Ids
<1>1. ASSUME NEW h \in ReqHashes, LookupCache(r, h)  PROVE StoreTypeOK' /\ RedirectTypeOK'
  <2>1. h \in Hash  BY DEF Hash
  <2>2. /\ [rd[r] EXCEPT !.pc = "done", !.hash = h, !.reply = "404"] \in RedirectState
        /\ [rd[r] EXCEPT !.pc = "find", !.hash = h] \in RedirectState
    BY <1>0, <2>1 DEF RedirectState
  <2>3. ASSUME NEW k \in urlKeys
        PROVE  [rd[r] EXCEPT !.hash = h, !.url = k.url, !.id = MetaId(h), !.vt = k.vt,
                             !.pc = IF k.vt = "malicious" THEN "evict" ELSE "serve"] \in RedirectState
    <3>1. k.url \in Urls \cup {BadUrl, NoUrl} /\ k.vt \in VTStatus /\ MetaId(h) \in Nat
      BY MetaIdType DEF StoreTypeOK, UrlEntry
    <3> QED  BY <1>0, <2>1, <3>1 DEF RedirectState
  <2>4. RedirectTypeOK'
    BY <1>0, <1>1, <2>2, <2>3, RedirectLocals DEF LookupCache, Get
  <2> QED  BY <1>1, <2>4, StoreSame DEF LookupCache, Get
<1>2. CASE FindRow(r)
  <2>1. ASSUME NEW id \in FindByHash(rd[r].hash)
        PROVE  [rd[r] EXCEPT !.url = urls[id].url, !.id = id, !.vt = urls[id].vt,
                             !.pc = IF Resolution(urls[id]) = "malicious" THEN "evict" ELSE "seturl"] \in RedirectState
    <3>1. id \in Ids  BY <2>1 DEF FindByHash
    <3>2. id \in Nat /\ urls[id].url \in Urls /\ urls[id].vt \in VTStatus
      BY <1>0, <3>1, StoreAssumption DEF Row
    <3> QED  BY <1>0, <3>2 DEF RedirectState
  <2>2. RedirectTypeOK'
    BY <1>0, <1>2, <2>1, RedirectLocals DEF FindRow, FindError
  <2> QED  BY <1>2, <2>2, StoreSame DEF FindRow, FindError
<1>3. CASE FillUrlKey(r)
  <2>1. rd[r].url \in Urls \cup {BadUrl} /\ rd[r].hash \in Hash /\ rd[r].vt \in VTStatus
    <3>1. Good(rd[r].hash, rd[r].url, rd[r].id)  BY <1>3 DEF FillUrlKey, RedirectInv
    <3>2. rd[r].url \in Urls  BY <1>0, <3>1 DEF Good, Names, Row
    <3> QED  BY <1>0, <3>2 DEF RedirectState
  <2>2. urlKeys' \subseteq UrlEntry
    BY <1>3, <2>1, KeyTypes, StoreAssumption DEF FillUrlKey, StoreTypeOK
  <2>3. RedirectTypeOK'  BY <1>0, <1>3, RedirectLocals DEF FillUrlKey
  <2> QED  BY <1>3, <2>2, <2>3 DEF FillUrlKey, StoreTypeOK
<1>4. CASE FillMetaKey(r)
  <2>1. rd[r].id \in Nat /\ rd[r].hash \in Hash  BY <1>0 DEF RedirectState
  <2>2. metaKeys' \subseteq MetaEntry
    BY <1>4, <2>1, KeyTypes, StoreAssumption DEF FillMetaKey, StoreTypeOK
  <2>3. RedirectTypeOK'  BY <1>0, <1>4, RedirectLocals DEF FillMetaKey
  <2> QED  BY <1>4, <2>2, <2>3 DEF FillMetaKey, StoreTypeOK
<1>5. CASE RefuseMalicious(r)
  <2>1. rd[r].hash \in Hash  BY <1>0 DEF RedirectState
  <2>2. urlKeys' \subseteq UrlEntry /\ metaKeys' \subseteq MetaEntry
    BY <1>5, <2>1, KeyTypes, StoreAssumption DEF RefuseMalicious
  <2>3. RedirectTypeOK'  BY <1>0, <1>5, RedirectLocals DEF RefuseMalicious
  <2> QED  BY <1>5, <2>2, <2>3 DEF RefuseMalicious, StoreTypeOK
<1>6. CASE Serve(r)
  <2>1. rd[r].hash \in Hash  BY <1>0 DEF RedirectState
  <2>2. urlKeys' \subseteq UrlEntry /\ metaKeys' \subseteq MetaEntry
    BY <1>6, <2>1, KeyTypes, StoreAssumption DEF Serve, StoreTypeOK
  <2>3. RedirectTypeOK'  BY <1>0, <1>6, RedirectLocals DEF Serve
  <2> QED  BY <1>6, <2>2, <2>3 DEF Serve, StoreTypeOK
<1> QED  BY <1>1, <1>2, <1>3, <1>4, <1>5, <1>6 DEF RedirectStep

\* For a report.
LEMMA ReportLocals ==
  ASSUME ReportTypeOK, NEW r \in Reporters
  PROVE  /\ \A pc \in ReportPC : rp' = [rp EXCEPT ![r] = [@ EXCEPT !.pc = pc]] => rp' \in [Reporters -> ReportState]
         /\ \A code \in ReportReply : ReportAnswer(r, code) => rp' \in [Reporters -> ReportState]
         /\ \A rec \in ReportState : rp' = [rp EXCEPT ![r] = rec] => rp' \in [Reporters -> ReportState]
         /\ rp[r] \in ReportState
<1>1. ASSUME NEW pc \in ReportPC, rp' = [rp EXCEPT ![r] = [@ EXCEPT !.pc = pc]]
      PROVE  rp' \in [Reporters -> ReportState]
  BY <1>1 DEF ReportTypeOK, ReportState
<1>2. ASSUME NEW code \in ReportReply, ReportAnswer(r, code)  PROVE rp' \in [Reporters -> ReportState]
  BY <1>2 DEF ReportTypeOK, ReportState, ReportAnswer, ReportPC
<1> QED  BY <1>1, <1>2 DEF ReportTypeOK

\* A step of a report keeps the types of store and request.
LEMMA ReportType ==
  ASSUME StoreTypeOK, ReportTypeOK, LocalsOK,
         NEW r \in Reporters, ReportStep(r)
  PROVE  StoreTypeOK' /\ ReportTypeOK'
<1>0. /\ rp[r] \in ReportState
      /\ rp[r].pc \notin {"idle", "done"} => rp[r].ip \in AnonIPs /\ rp[r].id \in Ids
      /\ {"201", "400", "404", "409", "500"} \subseteq ReportReply
      /\ {"insert", "count", "block", "evict", "done"} \subseteq ReportPC
      /\ urls \in [Ids -> Row] /\ Ids \subseteq 1 .. MaxId
  BY ReportLocals DEF LocalsOK, ReportReply, ReportPC, StoreTypeOK, Ids
<1>1. ASSUME NEW h \in ReqHashes, NEW ip \in IPs, FindReported(r, h, ip)
      PROVE  StoreTypeOK' /\ ReportTypeOK'
  <2>1. ASSUME NEW id \in FindByHash(h)
        PROVE  [rp[r] EXCEPT !.pc = "insert", !.hash = h, !.id = id, !.ip = AnonymizeIP[ip]] \in ReportState
    <3>1. id \in Nat  BY <1>0, <2>1, StoreAssumption DEF FindByHash
    <3>2. h \in Hash /\ AnonymizeIP[ip] \in AnonIPs  BY <1>1 DEF Hash, AnonIPs
    <3> QED  BY <1>0, <3>1, <3>2 DEF ReportState
  <2>2. rp' \in [Reporters -> ReportState]
    BY <1>0, <1>1, <2>1, ReportLocals DEF FindReported
  <2> QED  BY <1>1, <2>2, StoreSame DEF FindReported, ReportTypeOK
<1>2. CASE InsertReport(r)
  <2>1. rp' \in [Reporters -> ReportState]
    BY <1>0, <1>2, ReportLocals DEF InsertReport
  <2>2. [id |-> rp[r].id, ip |-> rp[r].ip] \in [id : Nat, ip : AnonIPs]
    BY <1>0, <1>2 DEF InsertReport, ReportState
  <2>3. reports' = reports \/ reports' = reports \cup {[id |-> rp[r].id, ip |-> rp[r].ip]}
    BY <1>2 DEF InsertReport
  <2>4. IsFiniteSet(reports')
    <3>1. IsFiniteSet(reports \cup {[id |-> rp[r].id, ip |-> rp[r].ip]})
      BY FS_AddElement DEF ReportTypeOK
    <3> QED  BY <2>3, <3>1 DEF ReportTypeOK
  <2> QED  BY <1>2, <2>1, <2>2, <2>3, <2>4, StoreSame DEF InsertReport, ReportTypeOK
<1>3. CASE CountReports(r)
  <2>1. CountDistinctIPs(rp[r].id) \in Nat
    BY FS_Subset, FS_CardinalityType DEF CountDistinctIPs, ReportTypeOK
  <2>2. ASSUME NEW n \in Nat
        PROVE  /\ [rp[r] EXCEPT !.count = n, !.pc = "block"] \in ReportState
               /\ [rp[r] EXCEPT !.count = n, !.pc = "done", !.reply = "201"] \in ReportState
    BY <1>0 DEF ReportState
  <2>3. rp' \in [Reporters -> ReportState]
    <3>1. CASE ReportAnswer(r, "201")  BY <1>0, <3>1, ReportLocals
    <3>2. CASE rp' = [rp EXCEPT ![r] = [@ EXCEPT !.count = CountDistinctIPs(rp[r].id), !.pc = "block"]]
      BY <2>1, <2>2, <3>2, ReportLocals
    <3>3. CASE rp' = [rp EXCEPT ![r] = [@ EXCEPT !.count = CountDistinctIPs(rp[r].id), !.pc = "done", !.reply = "201"]]
      BY <2>1, <2>2, <3>3, ReportLocals
    <3> QED  BY <1>3, <3>1, <3>2, <3>3 DEF CountReports
  <2> QED  BY <1>3, <2>3, StoreSame DEF CountReports, ReportTypeOK
<1>4. CASE BlockUrl(r)
  <2>1. rp[r].id \in Ids  BY <1>0, <1>4 DEF BlockUrl
  <2>2. DOMAIN urls' \subseteq 1 .. MaxId /\ urls' \in [DOMAIN urls' -> Row]
    BY <1>4, <2>1, StatusWrites, StatusType, StatusTypes DEF BlockUrl
  <2>3. rp' \in [Reporters -> ReportState]  BY <1>0, <1>4, ReportLocals DEF BlockUrl
  <2> QED  BY <1>4, <2>2, <2>3 DEF BlockUrl, StoreTypeOK, ReportTypeOK
<1>5. CASE EvictBlocked(r)
  <2>1. rp[r].hash \in Hash  BY <1>0 DEF ReportState
  <2>2. urlKeys' \subseteq UrlEntry /\ metaKeys' \subseteq MetaEntry
    BY <1>5, <2>1, KeyTypes, StoreAssumption DEF EvictBlocked
  <2>3. rp' \in [Reporters -> ReportState]  BY <1>0, <1>5, ReportLocals DEF EvictBlocked
  <2> QED  BY <1>5, <2>2, <2>3 DEF EvictBlocked, StoreTypeOK, ReportTypeOK
<1> QED  BY <1>1, <1>2, <1>3, <1>4, <1>5 DEF ReportStep

\* For the rescanner.
LEMMA RescanType ==
  ASSUME StoreTypeOK, RescanTypeOK, LocalsOK, RescanStep
  PROVE  StoreTypeOK' /\ RescanTypeOK'
<1>0. /\ urls \in [Ids -> Row] /\ Ids \subseteq 1 .. MaxId /\ Ids \subseteq Nat
      /\ rs.todo \subseteq Ids
      /\ rs.pc \in {"scan", "store", "evict"} => rs.id \in Ids
  BY StoreAssumption DEF LocalsOK, StoreTypeOK, Ids
<1>1. CASE StartCycle
  <2>1. FindByVTStatus("unverified", RescanLimit) \subseteq Nat
    BY <1>0 DEF FindByVTStatus
  <2>2. RescanTypeOK'
    BY <1>1, <2>1 DEF StartCycle, RescanTypeOK, RescanPC
  <2> QED  BY <1>1, <2>2, StoreSame DEF StartCycle
<1>2. CASE NextRow
  <2>1. PICK id \in rs.todo : rs' = [rs EXCEPT !.todo = @ \ {id}, !.id = id, !.pc = "scan"]
    BY <1>2 DEF NextRow
  <2>2. id \in Nat  BY <1>0
  <2>3. RescanTypeOK'
    BY <2>1, <2>2 DEF RescanTypeOK, RescanPC
  <2> QED  BY <1>2, <2>3, StoreSame DEF NextRow
<1>3. CASE Rescan
  <2>1. urls[rs.id].url \in Urls  BY <1>0, <1>3 DEF Rescan, Row
  <2>2. RescanTypeOK'
    BY <1>3, <2>1, StoreAssumption, StatusTypes DEF Rescan, RescanTypeOK, RescanPC
  <2> QED  BY <1>3, <2>2, StoreSame DEF Rescan
<1>4. CASE StoreRescan
  <2>1. rs.id \in Ids /\ rs.result \in VTStatus  BY <1>0, <1>4 DEF StoreRescan, RescanTypeOK
  <2>2. DOMAIN urls' \subseteq 1 .. MaxId /\ urls' \in [DOMAIN urls' -> Row]
    BY <1>4, <2>1, StatusWrites, StatusType DEF StoreRescan
  <2>3. RescanTypeOK'
    BY <1>4, StatusTypes DEF StoreRescan, AfterRow, RescanTypeOK, RescanPC
  <2> QED  BY <1>4, <2>2, <2>3 DEF StoreRescan, StoreTypeOK
<1>5. CASE EvictRescanned
  <2>1. urls[rs.id].hash \in Hash  BY <1>0, <1>5 DEF EvictRescanned, Row
  <2>2. urlKeys' \subseteq UrlEntry /\ metaKeys' \subseteq MetaEntry
    BY <1>5, <2>1, KeyTypes, StoreAssumption DEF EvictRescanned
  <2>3. RescanTypeOK'
    BY <1>5, StatusTypes DEF EvictRescanned, AfterRow, RescanTypeOK, RescanPC
  <2> QED  BY <1>5, <2>2, <2>3 DEF EvictRescanned, StoreTypeOK
<1> QED  BY <1>1, <1>2, <1>3, <1>4, <1>5 DEF RescanStep

\* For time, evictions and values written by others.
LEMMA EnvironmentType ==
  ASSUME StoreTypeOK, Environment
  PROVE  StoreTypeOK'
<1>1. CASE Tick  BY <1>1 DEF Tick, Alive, StoreTypeOK
<1>2. CASE EvictKey  BY <1>2 DEF EvictKey, StoreTypeOK
<1>3. CASE CorruptKey
  <2>1. PICK h \in ReqHashes : SetUrlKey(h, BadUrl, "clean", CacheTTL)  BY <1>3 DEF CorruptKey
  <2>2. h \in Hash /\ "clean" \in VTStatus  BY DEF Hash, VTStatus, ScanStatus
  <2>3. urlKeys' \subseteq UrlEntry  BY <2>1, <2>2, KeyTypes, StoreAssumption
  <2> QED  BY <1>3, <2>3 DEF CorruptKey, StoreTypeOK
<1> QED  BY <1>1, <1>2, <1>3 DEF Environment

\* For a crash.
LEMMA CrashType ==
  ASSUME TypeOK, Crash
  PROVE  TypeOK'
<1>1. StoreTypeOK'  BY StoreSame DEF TypeOK, Crash
<1>2. ShortenTypeOK'
  BY DEF TypeOK, Crash, Lost, ShortenTypeOK, ShortenState, ShortenPC, ShortenReply
<1>3. RedirectTypeOK'
  BY DEF TypeOK, Crash, Lost, RedirectTypeOK, RedirectState, RedirectPC, RedirectReply
<1>4. ReportTypeOK'
  BY DEF TypeOK, Crash, Lost, ReportTypeOK, ReportState, ReportPC, ReportReply
<1>5. RescanTypeOK'
  BY StatusTypes DEF Crash, RescanTypeOK, RescanPC
<1> QED  BY <1>1, <1>2, <1>3, <1>4, <1>5 DEF TypeOK

\* Every step of the service keeps every type.
LEMMA TypeStep ==
  ASSUME TypeOK, LocalsOK, TableInv, RedirectInv, [Next]_vars
  PROVE  TypeOK'
<1> USE DEF TypeOK
<1>1. CASE (\E r \in Shorteners : ShortenStep(r)) /\ UNCHANGED << rd, reports, rp, rs >>
  BY <1>1, ShortenType DEF RedirectTypeOK, ReportTypeOK, RescanTypeOK
<1>2. CASE (\E r \in Redirectors : RedirectStep(r)) /\ UNCHANGED << sh, reports, rp, rs >>
  BY <1>2, RedirectType DEF ShortenTypeOK, ReportTypeOK, RescanTypeOK
<1>3. CASE (\E r \in Reporters : ReportStep(r)) /\ UNCHANGED << sh, rd, rs >>
  BY <1>3, ReportType DEF ShortenTypeOK, RedirectTypeOK, RescanTypeOK
<1>4. CASE RescanStep /\ UNCHANGED << sh, rd, reports, rp >>
  BY <1>4, RescanType DEF ShortenTypeOK, RedirectTypeOK, ReportTypeOK
<1>5. CASE Environment /\ UNCHANGED << sh, rd, reports, rp, rs >>
  BY <1>5, EnvironmentType DEF ShortenTypeOK, RedirectTypeOK, ReportTypeOK, RescanTypeOK
<1>6. CASE Crash  BY <1>6, CrashType
<1>7. CASE UNCHANGED vars
  BY <1>7, StoreSame DEF vars, ShortenTypeOK, RedirectTypeOK, ReportTypeOK, RescanTypeOK
<1> QED  BY <1>1, <1>2, <1>3, <1>4, <1>5, <1>6, <1>7 DEF Next

-----------------------------------------------------------------------------
(* The table: ids and hashes stay unique, and a row that has its hash keeps *)
(* it, with its URL.                                                        *)

\* The collation's equality is reflexive ...
LEMMA SameHashReflexive == \A h : SameHash(h, h)
<1> QED  BY DEF SameHash

\* ... and two hashes equal to a third are equal.
LEMMA SameHashEuclidean == \A f, g, h : SameHash(f, h) /\ SameHash(g, h) => SameHash(f, g)
<1> QED  BY DEF SameHash

Keeps ==
  \A i \in Ids : i \notin HashPending =>
    i \in Ids' /\ i \notin HashPending' /\ urls'[i].hash = urls[i].hash /\ urls'[i].url = urls[i].url

\* A step that neither inserts a row nor gives one its hash.
SameTable ==
  /\ Ids' = Ids /\ nextId' = nextId
  /\ \A i \in Ids : urls'[i].hash = urls[i].hash /\ urls'[i].url = urls[i].url

Advances(q) ==
  /\ sh'[q].pc = "hash" => sh'[q] = sh[q]
  /\ sh'[q].pc \in {"result", "seturl", "setmeta"} =>
       /\ sh[q].pc \in {"result", "seturl", "setmeta"}
       /\ sh'[q].hash = sh[q].hash /\ sh'[q].url = sh[q].url /\ sh'[q].id = sh[q].id
  /\ sh'[q].pc \in {"create", "hash", "result", "seturl"} => sh'[q].result # "malicious"

\* Hashes and URLs are the same after a write of a status.
LEMMA StatusKeeps ==
  ASSUME StoreTypeOK, NEW id \in Ids, NEW s \in VTStatus, SetsStatus(id, s), nextId' = nextId
  PROVE  SameTable
<1>1. CASE urls' = urls  BY <1>1 DEF SameTable, Ids
<1>2. CASE urls' = WithVT(id, s)
  <2>1. Ids' = Ids  BY <1>2, TableTypes DEF Ids
  <2>2. ASSUME NEW i \in Ids  PROVE urls'[i].hash = urls[i].hash /\ urls'[i].url = urls[i].url
    <3>1. urls[i] \in Row  BY DEF StoreTypeOK, Ids
    <3> QED  BY <1>2, <3>1 DEF WithVT, Row, Ids
  <2> QED  BY <2>1, <2>2 DEF SameTable
<1> QED  BY <1>1, <1>2 DEF SetsStatus

\* A step that leaves ids, hashes and URLs alone keeps TableInv.
LEMMA SameTableKeeps ==
  ASSUME TableInv, SameTable, \A q \in Shorteners : Advances(q)
  PROVE  TableInv' /\ Keeps
<1>1. HashPending' \subseteq HashPending
  BY DEF HashPending, SameTable, Advances
<1>2. Keeps  BY <1>1 DEF Keeps, SameTable
<1>3. (\A i \in Ids : i < nextId)'
  BY DEF TableInv, SameTable
<1>4. (\A i, j \in Ids : SameHash(urls[i].hash, urls[j].hash) => i = j)'
  BY DEF TableInv, SameTable
<1>5. (\A r \in Shorteners : sh[r].pc = "hash" =>
        sh[r].id \in Ids /\ urls[sh[r].id].hash = NoHash /\ urls[sh[r].id].url = sh[r].url)'
  BY DEF TableInv, SameTable, Advances
<1>6. (\A q, r \in Shorteners : sh[q].pc = "hash" /\ sh[r].pc = "hash" => q = r)'
  BY DEF TableInv, Advances
<1>7. (\A r \in Shorteners : sh[r].pc \in {"result", "seturl", "setmeta"} =>
        Good(sh[r].hash, sh[r].url, sh[r].id) /\ urls[sh[r].id].hash = sh[r].hash)'
  <2> SUFFICES ASSUME NEW r \in Shorteners, sh'[r].pc \in {"result", "seturl", "setmeta"}
               PROVE  Good(sh[r].hash, sh[r].url, sh[r].id)' /\ urls'[sh'[r].id].hash = sh'[r].hash
    OBVIOUS
  <2>1. /\ sh[r].pc \in {"result", "seturl", "setmeta"}
        /\ sh'[r].hash = sh[r].hash /\ sh'[r].url = sh[r].url /\ sh'[r].id = sh[r].id
    BY DEF Advances
  <2>2. Good(sh[r].hash, sh[r].url, sh[r].id) /\ urls[sh[r].id].hash = sh[r].hash
    BY <2>1 DEF TableInv
  <2> QED  BY <1>1, <2>1, <2>2 DEF Good, Names, SameTable
<1>8. (\A r \in Shorteners : sh[r].pc \in {"create", "hash", "result", "seturl"} => sh[r].result # "malicious")'
  BY DEF Advances
<1> QED  BY <1>2, <1>3, <1>4, <1>5, <1>6, <1>7, <1>8 DEF TableInv

\* A step of a request to shorten, other than Create and UpdateHash.
LEMMA ShortenAdvances ==
  ASSUME TypeOK, TableInv, NEW r \in Shorteners,
         \/ ReceiveShorten(r) \/ DedupCheck(r) \/ LookupScan(r) \/ ScanUrl(r)
         \/ StoreResult(r) \/ CacheNewUrl(r) \/ CacheNewMeta(r)
  PROVE  SameTable /\ \A q \in Shorteners : Advances(q)
<1>0. /\ sh \in [Shorteners -> ShortenState] /\ sh[r] \in ShortenState
      /\ \A q \in Shorteners : sh[q].pc \in {"create", "hash", "result", "seturl"} => sh[q].result # "malicious"
  BY DEF TypeOK, ShortenTypeOK, TableInv
<1>1. ASSUME NEW q \in Shorteners, q # r  PROVE sh'[q] = sh[q]
  BY <1>0, <1>1 DEF ReceiveShorten, DedupCheck, LookupScan, GetRaw, ScanUrl, StoreResult, CacheNewUrl,
                    CacheNewMeta, UseScan, ShortenGoto, ShortenAnswer
<1>2. ASSUME NEW q \in Shorteners, q # r  PROVE Advances(q)
  BY <1>0, <1>1, <1>2 DEF Advances
<1>3. CASE ReceiveShorten(r) \/ DedupCheck(r) \/ CacheNewMeta(r)
  <2>1. sh'[r].pc \in {"dedup", "vtcache", "done"}
    <3>1. CASE ReceiveShorten(r)  BY <1>0, <3>1 DEF ReceiveShorten, ShortenAnswer, ShortenState
    <3>2. CASE DedupCheck(r)  BY <1>0, <3>2 DEF DedupCheck, ShortenGoto, ShortenAnswer, ShortenState
    <3>3. CASE CacheNewMeta(r)  BY <1>0, <3>3 DEF CacheNewMeta, ShortenGoto, ShortenAnswer, ShortenState
    <3> QED  BY <1>3, <3>1, <3>2, <3>3
  <2>2. SameTable  BY <1>3 DEF ReceiveShorten, DedupCheck, CacheNewMeta, SameTable, store, Ids
  <2> QED  BY <1>2, <2>1, <2>2 DEF Advances
<1>4. CASE LookupScan(r) \/ ScanUrl(r)
  <2>1. sh'[r].pc \in {"scan", "done"} \/ (sh'[r].pc = "create" /\ sh'[r].result # "malicious")
    <3>1. ShortenGoto(r, "scan") \/ \E s : UseScan(r, s)  BY <1>4 DEF LookupScan, GetRaw, ScanUrl
    <3>2. ShortenTypeOK  BY DEF TypeOK
    <3> QED  BY <3>1, <3>2, ShortenWrites
  <2>2. SameTable  BY <1>4 DEF LookupScan, GetRaw, ScanUrl, SameTable, store, Ids
  <2> QED  BY <1>2, <2>1, <2>2 DEF Advances
<1>5. CASE StoreResult(r)
  <2>1. /\ sh[r].pc = "result" /\ sh'[r] = [sh[r] EXCEPT !.pc = "seturl"]
    BY <1>0, <1>5 DEF StoreResult, ShortenGoto
  <2>2. sh[r].id \in Ids /\ sh[r].result \in VTStatus
    BY <1>0, <2>1 DEF TableInv, Good, Names, ShortenState
  <2>3. SameTable  BY <1>5, <2>2, StatusWrites, StatusKeeps DEF StoreResult, TypeOK
  <2>4. Advances(r)  BY <1>0, <2>1 DEF Advances, ShortenState
  <2> QED  BY <1>2, <2>3, <2>4
<1>6. CASE CacheNewUrl(r)
  <2>1. /\ sh[r].pc = "seturl"
        /\ sh'[r].pc = "done" \/ (sh'[r].pc = "setmeta" /\ SameLocals(sh'[r], sh[r]))
    <3>1. sh[r].pc = "seturl" /\ (ShortenGoto(r, "setmeta") \/ ShortenAnswer(r, "201"))
      BY <1>6 DEF CacheNewUrl
    <3> QED  BY <1>0, <3>1, ShortenWrites DEF ShortenTypeOK
  <2>2. SameTable  BY <1>6 DEF CacheNewUrl, SameTable, Ids
  <2>3. Advances(r)  BY <1>0, <2>1 DEF Advances, SameLocals
  <2> QED  BY <1>2, <2>2, <2>3
<1> QED  BY <1>3, <1>4, <1>5, <1>6

\* Create adds one row, with the empty hash, for one request.
LEMMA CreateKeeps ==
  ASSUME TypeOK, TableInv, NEW r \in Shorteners, CreateRow(r)
  PROVE  TableInv' /\ Keeps
<1>0. /\ sh \in [Shorteners -> ShortenState] /\ sh[r] \in ShortenState
      /\ sh[r].pc = "create" /\ sh[r].result # "malicious"
      /\ nextId \in Nat /\ Ids \subseteq Nat \ {0} /\ nextId \notin Ids
  BY StoreAssumption DEF TypeOK, ShortenTypeOK, StoreTypeOK, Ids, TableInv, CreateRow
<1>1. CASE ShortenAnswer(r, "500") /\ UNCHANGED urls /\ nextId' \in {nextId, nextId + 1}
  <2>1. sh'[r].pc = "done" /\ \A q \in Shorteners : q # r => sh'[q] = sh[q]
    BY <1>0, <1>1 DEF ShortenAnswer, ShortenState
  <2>2. \A q \in Shorteners : Advances(q)
    BY <2>1 DEF Advances, TableInv
  <2>3. CASE nextId' = nextId
    BY <1>1, <2>2, <2>3, SameTableKeeps DEF SameTable, Ids
  <2>4. CASE nextId' = nextId + 1
    <3>1. HashPending' \subseteq HashPending  BY <1>1, <2>1 DEF HashPending, Ids
    <3>2. (\A i \in Ids : i < nextId)'
      BY <1>0, <1>1, <2>4 DEF TableInv, Ids
    <3> QED  BY <1>1, <2>1, <3>1, <3>2 DEF TableInv, Keeps, Good, Names, Ids
  <2> QED  BY <1>1, <2>3, <2>4
<1>2. CASE /\ ~HashTaken(0, NoHash)
           /\ urls' = Inserted(sh[r].url) /\ nextId' = nextId + 1
           /\ \/ sh' = [sh EXCEPT ![r] = [@ EXCEPT !.pc = "hash", !.id = nextId]]
              \/ ShortenAnswer(r, "500")
  <2>1. /\ Ids' = Ids \cup {nextId}
        /\ urls'[nextId].hash = NoHash /\ urls'[nextId].url = sh[r].url
        /\ \A i \in Ids : urls'[i] = urls[i]
    BY <1>0, <1>2 DEF Inserted, Ids
  <2>2. /\ \A q \in Shorteners : q # r => sh'[q] = sh[q]
        /\ \/ sh'[r].pc = "done"
           \/ sh'[r].pc = "hash" /\ sh'[r].id = nextId /\ sh'[r].url = sh[r].url /\ sh'[r].result = sh[r].result
    <3>1. CASE sh' = [sh EXCEPT ![r] = [@ EXCEPT !.pc = "hash", !.id = nextId]]
      <4>1. sh'[r] = [sh[r] EXCEPT !.pc = "hash", !.id = nextId]  BY <1>0, <3>1
      <4>2. \A q \in Shorteners : q # r => sh'[q] = sh[q]  BY <1>0, <3>1
      <4> QED  BY <1>0, <4>1, <4>2 DEF ShortenState
    <3>2. CASE ShortenAnswer(r, "500")
      <4>1. sh'[r] = [sh[r] EXCEPT !.pc = "done", !.reply = "500"]  BY <1>0, <3>2 DEF ShortenAnswer
      <4>2. \A q \in Shorteners : q # r => sh'[q] = sh[q]  BY <1>0, <3>2 DEF ShortenAnswer
      <4> QED  BY <1>0, <4>1, <4>2 DEF ShortenState
    <3> QED  BY <1>2, <3>1, <3>2
  <2>3. \A i \in Ids : ~SameHash(urls[i].hash, NoHash) /\ urls[i].hash # NoHash
    BY <1>0, <1>2, SameHashReflexive DEF HashTaken
  <2>4. \A q \in Shorteners : sh[q].pc # "hash"
    BY <2>3 DEF TableInv
  <2>5. HashPending' \subseteq {nextId}
    BY <2>2, <2>4 DEF HashPending
  <2>6. Keeps
    BY <1>0, <2>1, <2>5 DEF Keeps
  <2>7. (\A i \in Ids : i < nextId)'
    BY <1>0, <1>2, <2>1 DEF TableInv
  <2>8. (\A i, j \in Ids : SameHash(urls[i].hash, urls[j].hash) => i = j)'
    <3> SUFFICES ASSUME NEW i \in Ids', NEW j \in Ids', SameHash(urls'[i].hash, urls'[j].hash)  PROVE i = j
      OBVIOUS
    <3>1. SameHash(urls'[j].hash, urls'[i].hash)  BY DEF SameHash
    <3> QED  BY <2>1, <2>3, <3>1 DEF TableInv
  <2>9. (\A q \in Shorteners : sh[q].pc = "hash" =>
          sh[q].id \in Ids /\ urls[sh[q].id].hash = NoHash /\ urls[sh[q].id].url = sh[q].url)'
    BY <2>1, <2>2, <2>4
  <2>10. (\A p, q \in Shorteners : sh[p].pc = "hash" /\ sh[q].pc = "hash" => p = q)'
    BY <2>2, <2>4
  <2>11. (\A q \in Shorteners : sh[q].pc \in {"result", "seturl", "setmeta"} =>
           Good(sh[q].hash, sh[q].url, sh[q].id) /\ urls[sh[q].id].hash = sh[q].hash)'
    <3> SUFFICES ASSUME NEW q \in Shorteners, sh'[q].pc \in {"result", "seturl", "setmeta"}
                 PROVE  Good(sh[q].hash, sh[q].url, sh[q].id)' /\ urls'[sh'[q].id].hash = sh'[q].hash
      OBVIOUS
    <3>1. sh'[q] = sh[q] /\ Good(sh[q].hash, sh[q].url, sh[q].id) /\ urls[sh[q].id].hash = sh[q].hash
      BY <2>2 DEF TableInv
    <3> QED  BY <2>1, <2>6, <3>1 DEF Good, Names, Keeps
  <2>12. (\A q \in Shorteners : sh[q].pc \in {"create", "hash", "result", "seturl"} => sh[q].result # "malicious")'
    BY <1>0, <2>2 DEF TableInv
  <2> QED  BY <2>6, <2>7, <2>8, <2>9, <2>10, <2>11, <2>12 DEF TableInv
<1> QED  BY <1>0, <1>1, <1>2 DEF CreateRow

\* UpdateHash changes one row, which had the empty hash, to a hash no other
\* row has.
LEMMA UpdateHashKeeps ==
  ASSUME TypeOK, TableInv, NEW r \in Shorteners, UpdateHash(r)
  PROVE  TableInv' /\ Keeps
<1>0. /\ sh \in [Shorteners -> ShortenState] /\ sh[r] \in ShortenState
      /\ sh[r].pc = "hash" /\ sh[r].result # "malicious"
      /\ sh[r].id \in Ids /\ urls[sh[r].id].hash = NoHash /\ urls[sh[r].id].url = sh[r].url
      /\ \A q \in Shorteners : sh[q].pc = "hash" => q = r
      /\ urls \in [Ids -> Row]
      /\ nextId' = nextId
  BY DEF TypeOK, ShortenTypeOK, StoreTypeOK, Ids, TableInv, UpdateHash
<1>1. CASE ShortenAnswer(r, "500") /\ UNCHANGED urls
  <2>1. sh'[r].pc = "done" /\ \A q \in Shorteners : q # r => sh'[q] = sh[q]
    BY <1>0, <1>1 DEF ShortenAnswer, ShortenState
  <2>2. \A q \in Shorteners : Advances(q)
    BY <2>1 DEF Advances, TableInv
  <2> QED  BY <1>0, <1>1, <2>2, SameTableKeeps DEF SameTable, Ids
<1>2. ASSUME NEW id \in Ids, id = sh[r].id, NEW h, h = Encode(id),
             ~HashTaken(id, h), urls' = WithHash(id, h),
             \/ sh' = [sh EXCEPT ![r] = [@ EXCEPT !.pc = "result", !.hash = h]]
             \/ ShortenAnswer(r, "500")
      PROVE  TableInv' /\ Keeps
  <2>1. /\ Ids' = Ids
        /\ urls'[id].hash = h /\ urls'[id].url = urls[id].url
        /\ \A i \in Ids : i # id => urls'[i] = urls[i]
    BY <1>0, <1>2 DEF WithHash, Ids, Row
  <2>2. /\ \A q \in Shorteners : q # r => sh'[q] = sh[q]
        /\ \/ sh'[r].pc = "done"
           \/ /\ sh'[r].pc = "result" /\ sh'[r].id = id /\ sh'[r].hash = h
              /\ sh'[r].url = sh[r].url /\ sh'[r].result = sh[r].result
    <3>1. CASE ShortenAnswer(r, "500")
      BY <1>0, <3>1, ShortenWrites DEF ShortenAnswer, ShortenTypeOK
    <3>2. CASE sh' = [sh EXCEPT ![r] = [@ EXCEPT !.pc = "result", !.hash = h]]
      <4>1. sh'[r] = [sh[r] EXCEPT !.pc = "result", !.hash = h]  BY <1>0, <3>2
      <4> QED  BY <1>0, <1>2, <3>2, <4>1 DEF ShortenState
    <3> QED  BY <1>2, <3>1, <3>2
  <2>3. \A i \in Ids : i # id => ~SameHash(urls[i].hash, h)
    BY <1>2 DEF HashTaken
  <2>4. HashPending' = {}
    BY <1>0, <2>2 DEF HashPending
  <2>5. id \in HashPending
    BY <1>0, <1>2 DEF HashPending
  <2>6. Keeps
    BY <2>1, <2>4, <2>5 DEF Keeps
  <2>7. (\A i \in Ids : i < nextId)'
    BY <1>0, <2>1 DEF TableInv
  <2>8. (\A i, j \in Ids : SameHash(urls[i].hash, urls[j].hash) => i = j)'
    <3> SUFFICES ASSUME NEW i \in Ids', NEW j \in Ids', SameHash(urls'[i].hash, urls'[j].hash)  PROVE i = j
      OBVIOUS
    <3>1. SameHash(urls'[j].hash, urls'[i].hash)  BY DEF SameHash
    <3> QED  BY <2>1, <2>3, <3>1 DEF TableInv
  <2>9. (\A q \in Shorteners : sh[q].pc = "hash" =>
          sh[q].id \in Ids /\ urls[sh[q].id].hash = NoHash /\ urls[sh[q].id].url = sh[q].url)'
    BY <1>0, <2>2
  <2>10. (\A p, q \in Shorteners : sh[p].pc = "hash" /\ sh[q].pc = "hash" => p = q)'
    BY <1>0, <2>2
  <2>11. (\A q \in Shorteners : sh[q].pc \in {"result", "seturl", "setmeta"} =>
           Good(sh[q].hash, sh[q].url, sh[q].id) /\ urls[sh[q].id].hash = sh[q].hash)'
    <3> SUFFICES ASSUME NEW q \in Shorteners, sh'[q].pc \in {"result", "seturl", "setmeta"}
                 PROVE  Good(sh[q].hash, sh[q].url, sh[q].id)' /\ urls'[sh'[q].id].hash = sh'[q].hash
      OBVIOUS
    <3>1. CASE q = r
      BY <1>0, <1>2, <2>1, <2>2, <2>4, <3>1, SameHashReflexive DEF Good, Names
    <3>2. CASE q # r
      <4>1. sh'[q] = sh[q] /\ Good(sh[q].hash, sh[q].url, sh[q].id) /\ urls[sh[q].id].hash = sh[q].hash
        BY <2>2, <3>2 DEF TableInv
      <4> QED  BY <2>6, <4>1 DEF Good, Names, Keeps
    <3> QED  BY <3>1, <3>2
  <2>12. (\A q \in Shorteners : sh[q].pc \in {"create", "hash", "result", "seturl"} => sh[q].result # "malicious")'
    BY <1>0, <2>2 DEF TableInv
  <2> QED  BY <2>6, <2>7, <2>8, <2>9, <2>10, <2>11, <2>12 DEF TableInv
<1> QED  BY <1>0, <1>1, <1>2 DEF UpdateHash

\* No other component inserts a row or changes a hash or a URL.
LEMMA OthersSameTable ==
  ASSUME TypeOK, LocalsOK,
         \/ \E r \in Redirectors : RedirectStep(r)
         \/ \E r \in Reporters : ReportStep(r)
         \/ RescanStep \/ Environment \/ UNCHANGED store
  PROVE  SameTable
<1>1. ASSUME UNCHANGED << urls, nextId >>  PROVE SameTable
  BY <1>1 DEF SameTable, Ids
<1>2. ASSUME NEW r \in Redirectors, RedirectStep(r)  PROVE SameTable
  BY <1>1, <1>2 DEF RedirectStep, LookupCache, Get, FindRow, FindError, FillUrlKey, FillMetaKey,
                    RefuseMalicious, Serve, store
<1>3. ASSUME NEW r \in Reporters, ReportStep(r)  PROVE SameTable
  <2>1. CASE BlockUrl(r)
    <3>1. rp[r].id \in Ids  BY <2>1 DEF BlockUrl, LocalsOK
    <3> QED  BY <2>1, <3>1, StatusWrites, StatusKeeps, StatusTypes DEF BlockUrl, TypeOK
  <2>2. CASE \/ \E h \in ReqHashes, ip \in IPs : FindReported(r, h, ip)
             \/ InsertReport(r) \/ CountReports(r) \/ EvictBlocked(r)
    BY <1>1, <2>2 DEF FindReported, InsertReport, CountReports, EvictBlocked, store
  <2> QED  BY <1>3, <2>1, <2>2 DEF ReportStep
<1>4. CASE RescanStep
  <2>1. CASE StoreRescan
    <3>1. rs.id \in Ids /\ rs.result \in VTStatus  BY <2>1 DEF StoreRescan, LocalsOK, TypeOK, RescanTypeOK
    <3> QED  BY <2>1, <3>1, StatusWrites, StatusKeeps DEF StoreRescan, TypeOK
  <2>2. CASE StartCycle \/ NextRow \/ Rescan \/ EvictRescanned
    BY <1>1, <2>2 DEF StartCycle, NextRow, Rescan, EvictRescanned, store
  <2> QED  BY <1>4, <2>1, <2>2 DEF RescanStep
<1>5. CASE Environment \/ UNCHANGED store
  BY <1>1, <1>5 DEF Environment, Tick, EvictKey, CorruptKey, store
<1> QED  BY <1>2, <1>3, <1>4, <1>5

\* Every step keeps TableInv, and a row that has its hash keeps it.
LEMMA TableStep ==
  ASSUME TypeOK, LocalsOK, TableInv, [Next]_vars
  PROVE  TableInv' /\ Keeps
<1>1. ASSUME NEW r \in Shorteners, ShortenStep(r)  PROVE TableInv' /\ Keeps
  <2>1. CASE CreateRow(r)  BY <2>1, CreateKeeps
  <2>2. CASE UpdateHash(r)  BY <2>2, UpdateHashKeeps
  <2>3. CASE \/ ReceiveShorten(r) \/ DedupCheck(r) \/ LookupScan(r) \/ ScanUrl(r)
             \/ StoreResult(r) \/ CacheNewUrl(r) \/ CacheNewMeta(r)
    BY <2>3, ShortenAdvances, SameTableKeeps
  <2> QED  BY <1>1, <2>1, <2>2, <2>3 DEF ShortenStep
<1>2. ASSUME SameTable, UNCHANGED sh  PROVE TableInv' /\ Keeps
  <2>1. \A q \in Shorteners : Advances(q)  BY <1>2 DEF Advances, TableInv
  <2> QED  BY <1>2, <2>1, SameTableKeeps
<1>3. CASE Crash
  <2>1. SameTable  BY <1>3, OthersSameTable DEF Crash
  <2>2. \A q \in Shorteners : sh'[q] = sh[q] \/ sh'[q].pc = "done"
    BY <1>3 DEF Crash, Lost, TypeOK, ShortenTypeOK, ShortenState
  <2>3. \A q \in Shorteners : Advances(q)  BY <2>2 DEF Advances, TableInv
  <2> QED  BY <2>1, <2>3, SameTableKeeps
<1>4. CASE \/ (\E r \in Redirectors : RedirectStep(r)) /\ UNCHANGED << sh, reports, rp, rs >>
           \/ (\E r \in Reporters : ReportStep(r)) /\ UNCHANGED << sh, rd, rs >>
           \/ RescanStep /\ UNCHANGED << sh, rd, reports, rp >>
           \/ Environment /\ UNCHANGED << sh, rd, reports, rp, rs >>
           \/ UNCHANGED vars
  BY <1>2, <1>4, OthersSameTable DEF vars
<1> QED  BY <1>1, <1>3, <1>4 DEF Next

-----------------------------------------------------------------------------
(* Locals.                                                                  *)

\* No step deletes a row.
LEMMA IdsGrow ==
  ASSUME TypeOK, LocalsOK, TableInv, [Next]_vars
  PROVE  Ids \subseteq Ids'
<1>1. ASSUME NEW r \in Shorteners, CreateRow(r)  PROVE Ids \subseteq Ids'
  BY <1>1 DEF CreateRow, Inserted, Ids
<1>2. ASSUME NEW r \in Shorteners, UpdateHash(r)  PROVE Ids \subseteq Ids'
  BY <1>2 DEF UpdateHash, WithHash, Ids
<1>3. ASSUME NEW r \in Shorteners,
             \/ ReceiveShorten(r) \/ DedupCheck(r) \/ LookupScan(r) \/ ScanUrl(r)
             \/ StoreResult(r) \/ CacheNewUrl(r) \/ CacheNewMeta(r)
      PROVE  Ids \subseteq Ids'
  BY <1>3, ShortenAdvances DEF SameTable
<1>4. CASE \/ \E r \in Redirectors : RedirectStep(r)
           \/ \E r \in Reporters : ReportStep(r)
           \/ RescanStep \/ Environment \/ UNCHANGED store
  BY <1>4, OthersSameTable DEF SameTable
<1> QED  BY <1>1, <1>2, <1>3, <1>4 DEF Next, ShortenStep, Crash, vars

\* The same for redirects and reports: only the acting request's locals change.
LEMMA RedirectWrites ==
  ASSUME RedirectTypeOK, NEW r \in Redirectors, RedirectStep(r)
  PROVE  /\ \A q \in Redirectors : q # r => rd'[q] = rd[q]
         /\ rd'[r].reply # rd[r].reply => rd'[r].pc = "done"
         /\ rd[r].pc # "done"
         /\ rd'[r].pc = "find" => \E h \in ReqHashes : HashPattern(h) /\ rd'[r].hash = h
<1>0. rd \in [Redirectors -> RedirectState] /\ rd[r] \in RedirectState  BY DEF RedirectTypeOK
<1>1. \A q \in Redirectors : q # r => rd'[q] = rd[q]
  BY <1>0 DEF RedirectStep, LookupCache, Get, FindRow, FindError, FillUrlKey, FillMetaKey,
              RefuseMalicious, Serve, RedirectAnswer
<1>2. ASSUME NEW h \in ReqHashes, LookupCache(r, h)
      PROVE  /\ rd'[r].reply # rd[r].reply => rd'[r].pc = "done"
             /\ rd[r].pc # "done"
             /\ rd'[r].pc = "find" => HashPattern(h) /\ rd'[r].hash = h
  <2>1. CASE rd' = [rd EXCEPT ![r] = [@ EXCEPT !.pc = "done", !.hash = h, !.reply = "404"]]
    BY <1>0, <1>2, <2>1 DEF LookupCache, Get, RedirectState
  <2>2. CASE \E k \in urlKeys :
               rd' = [rd EXCEPT ![r] =
                        [@ EXCEPT !.hash = h, !.url = k.url, !.id = MetaId(h), !.vt = k.vt,
                                  !.pc = IF k.vt = "malicious" THEN "evict" ELSE "serve"]]
    <3>1. PICK k \in urlKeys :
            rd'[r] = [rd[r] EXCEPT !.hash = h, !.url = k.url, !.id = MetaId(h), !.vt = k.vt,
                                   !.pc = IF k.vt = "malicious" THEN "evict" ELSE "serve"]
      BY <1>0, <2>2
    <3>2. rd'[r].reply = rd[r].reply /\ rd'[r].pc \in {"evict", "serve"}
      BY <1>0, <3>1 DEF RedirectState
    <3> QED  BY <1>2, <3>2 DEF LookupCache, Get
  <2>3. CASE HashPattern(h) /\ rd' = [rd EXCEPT ![r] = [@ EXCEPT !.pc = "find", !.hash = h]]
    BY <1>0, <1>2, <2>3 DEF LookupCache, Get, RedirectState
  <2> QED  BY <1>2, <2>1, <2>2, <2>3 DEF LookupCache, Get
<1>3. CASE FindRow(r)
  <2>1. \A code : RedirectAnswer(r, code) => rd'[r].pc = "done"
    BY <1>0 DEF RedirectAnswer, RedirectState
  <2>2. ASSUME NEW id, rd' = [rd EXCEPT ![r] =
                                [@ EXCEPT !.url = urls[id].url, !.id = id, !.vt = urls[id].vt,
                                          !.pc = IF Resolution(urls[id]) = "malicious" THEN "evict" ELSE "seturl"]]
        PROVE  rd'[r].reply = rd[r].reply /\ rd'[r].pc # "find"
    BY <1>0, <2>2 DEF RedirectState
  <2> QED  BY <1>1, <1>3, <2>1, <2>2 DEF FindRow, FindError
<1>4. CASE FillUrlKey(r) \/ FillMetaKey(r)
  <2>1. rd' = [rd EXCEPT ![r] = [@ EXCEPT !.pc = "setmeta"]] \/ rd' = [rd EXCEPT ![r] = [@ EXCEPT !.pc = "serve"]]
    BY <1>4 DEF FillUrlKey, FillMetaKey
  <2>2. rd'[r].reply = rd[r].reply /\ rd'[r].pc \in {"setmeta", "serve"}
    BY <1>0, <2>1 DEF RedirectState
  <2> QED  BY <1>1, <1>4, <2>2 DEF FillUrlKey, FillMetaKey
<1>5. CASE RefuseMalicious(r) \/ Serve(r)
  <2>1. \A code : RedirectAnswer(r, code) => rd'[r].pc = "done"
    BY <1>0 DEF RedirectAnswer, RedirectState
  <2> QED  BY <1>1, <1>5, <2>1 DEF RefuseMalicious, Serve
<1> QED  BY <1>1, <1>2, <1>3, <1>4, <1>5 DEF RedirectStep

\* A step of a report: what it does to the locals.
LEMMA ReportWrites ==
  ASSUME ReportTypeOK, NEW r \in Reporters, ReportStep(r)
  PROVE  /\ \A q \in Reporters : q # r => rp'[q] = rp[q]
         /\ \/ rp'[r].pc = "done"
            \/ rp[r].pc \notin {"idle", "done"} /\ rp'[r].ip = rp[r].ip /\ rp'[r].id = rp[r].id
            \/ rp'[r].ip \in AnonIPs /\ rp'[r].id \in Ids
<1>0. rp \in [Reporters -> ReportState] /\ rp[r] \in ReportState  BY DEF ReportTypeOK
<1>1. \A q \in Reporters : q # r => rp'[q] = rp[q]
  BY <1>0 DEF ReportStep, FindReported, InsertReport, CountReports, BlockUrl, EvictBlocked, ReportAnswer
<1>2. \A code : ReportAnswer(r, code) => rp'[r].pc = "done"
  BY <1>0 DEF ReportAnswer, ReportState
<1>3. ASSUME NEW h \in ReqHashes, NEW ip \in IPs, FindReported(r, h, ip)
      PROVE  rp'[r].pc = "done" \/ (rp'[r].ip \in AnonIPs /\ rp'[r].id \in Ids)
  <2>1. ASSUME NEW id \in FindByHash(h),
               rp' = [rp EXCEPT ![r] = [@ EXCEPT !.pc = "insert", !.hash = h, !.id = id, !.ip = AnonymizeIP[ip]]]
        PROVE  rp'[r].ip \in AnonIPs /\ rp'[r].id \in Ids
    <3>1. rp'[r].ip = AnonymizeIP[ip] /\ rp'[r].id = id  BY <1>0, <2>1 DEF ReportState
    <3> QED  BY <3>1 DEF AnonIPs, FindByHash
  <2> QED  BY <1>2, <1>3, <2>1 DEF FindReported
<1>4. CASE InsertReport(r) \/ BlockUrl(r) \/ EvictBlocked(r)
  <2>1. ASSUME NEW pc, rp' = [rp EXCEPT ![r] = [@ EXCEPT !.pc = pc]]
        PROVE  rp'[r].ip = rp[r].ip /\ rp'[r].id = rp[r].id
    BY <1>0, <2>1 DEF ReportState
  <2> QED  BY <1>1, <1>2, <1>4, <2>1 DEF InsertReport, BlockUrl, EvictBlocked
<1>5. CASE CountReports(r)
  <2>1. ASSUME NEW n, rp' = [rp EXCEPT ![r] = [@ EXCEPT !.count = n, !.pc = "block"]]
        PROVE  rp'[r].ip = rp[r].ip /\ rp'[r].id = rp[r].id
    BY <1>0, <2>1 DEF ReportState
  <2>2. ASSUME NEW n, rp' = [rp EXCEPT ![r] = [@ EXCEPT !.count = n, !.pc = "done", !.reply = "201"]]
        PROVE  rp'[r].pc = "done"
    BY <1>0, <2>2 DEF ReportState
  <2>3. \/ ReportAnswer(r, "201")
        \/ \E n : rp' = [rp EXCEPT ![r] = [@ EXCEPT !.count = n, !.pc = "block"]]
        \/ \E n : rp' = [rp EXCEPT ![r] = [@ EXCEPT !.count = n, !.pc = "done", !.reply = "201"]]
    BY <1>5 DEF CountReports
  <2> QED  BY <1>1, <1>2, <1>5, <2>1, <2>2, <2>3 DEF CountReports
<1> QED  BY <1>1, <1>3, <1>4, <1>5 DEF ReportStep

\* A crash either leaves a request's locals alone or ends it.
LEMMA LostState ==
  ASSUME NEW q, q \in ShortenState \/ q \in RedirectState \/ q \in ReportState
  PROVE  Lost(q) = q \/ (Lost(q).pc = "done" /\ Lost(q).reply = "crash")
<1> QED  BY DEF Lost, ShortenState, RedirectState, ReportState

\* A step of a request to shorten keeps its part of LocalsOK.
LEMMA ShortenLocalsStep ==
  ASSUME TypeOK, LocalsOK, NEW r \in Shorteners, ShortenStep(r)
  PROVE  /\ \A q \in Shorteners : q # r => sh'[q] = sh[q]
         /\ sh'[r].pc \notin {"idle", "done"} => sh'[r].url \in Urls
         /\ sh'[r].reply = "201" => sh'[r].pc = "done"
<1>0. /\ ShortenTypeOK /\ sh \in [Shorteners -> ShortenState] /\ sh[r] \in ShortenState
      /\ sh[r].pc \notin {"idle", "done"} => sh[r].url \in Urls
      /\ sh[r].reply = "201" => sh[r].pc = "done"
  BY DEF TypeOK, ShortenTypeOK, LocalsOK
<1>1. \A q \in Shorteners : q # r => sh'[q] = sh[q]
  BY <1>0 DEF ShortenStep, ReceiveShorten, DedupCheck, LookupScan, GetRaw, ScanUrl, CreateRow, UpdateHash,
              StoreResult, CacheNewUrl, CacheNewMeta, UseScan, ShortenGoto, ShortenAnswer
<1>2. CASE \E code : ShortenAnswer(r, code)
  BY <1>0, <1>1, <1>2, ShortenWrites
<1>3. ASSUME sh[r].pc \notin {"idle", "done"},
             sh'[r].url = sh[r].url, sh'[r].reply # sh[r].reply => sh'[r].pc = "done"
      PROVE  /\ sh'[r].pc \notin {"idle", "done"} => sh'[r].url \in Urls
             /\ sh'[r].reply = "201" => sh'[r].pc = "done"
  BY <1>0, <1>3
<1>4. ASSUME sh[r].pc \notin {"idle", "done"}, \E pc : ShortenGoto(r, pc)
      PROVE  /\ sh'[r].pc \notin {"idle", "done"} => sh'[r].url \in Urls
             /\ sh'[r].reply = "201" => sh'[r].pc = "done"
  BY <1>0, <1>3, <1>4, ShortenWrites DEF SameLocals
<1>5. CASE ReceiveShorten(r)
  <2>1. ASSUME NEW raw \in RawUrls, Normalize[raw] # Rejected,
               sh' = [sh EXCEPT ![r] = [@ EXCEPT !.pc = "dedup", !.url = Normalize[raw]]]
        PROVE  sh'[r].url \in Urls /\ sh'[r].reply = sh[r].reply
    <3>1. sh'[r].url = Normalize[raw] /\ sh'[r].reply = sh[r].reply  BY <1>0, <2>1 DEF ShortenState
    <3> QED  BY <2>1, <3>1, ShortenerAssumption
  <2> QED  BY <1>0, <1>1, <1>2, <1>5, <2>1 DEF ReceiveShorten
<1>6. CASE DedupCheck(r)
  <2>1. ASSUME NEW id, sh' = [sh EXCEPT ![r] =
                                [@ EXCEPT !.pc = "done", !.reply = "201", !.id = id,
                                          !.hash = urls[id].hash, !.result = urls[id].vt]]
        PROVE  sh'[r].pc = "done"
    BY <1>0, <2>1 DEF ShortenState
  <2> QED  BY <1>1, <1>2, <1>4, <1>6, <2>1 DEF DedupCheck
<1>7. CASE LookupScan(r) \/ ScanUrl(r)
  <2>1. ASSUME NEW s, UseScan(r, s)  PROVE sh'[r].url = sh[r].url /\ (sh'[r].reply # sh[r].reply => sh'[r].pc = "done")
    BY <1>0, <2>1, ShortenWrites
  <2>2. sh[r].pc \notin {"idle", "done"} /\ (ShortenGoto(r, "scan") \/ \E s : UseScan(r, s))
    BY <1>7 DEF LookupScan, GetRaw, ScanUrl
  <2> QED  BY <1>1, <1>3, <1>4, <2>1, <2>2
<1>8. CASE CreateRow(r)
  <2>1. ASSUME sh' = [sh EXCEPT ![r] = [@ EXCEPT !.pc = "hash", !.id = nextId]]
        PROVE  sh'[r].url = sh[r].url /\ sh'[r].reply = sh[r].reply
    BY <1>0, <2>1 DEF ShortenState
  <2> QED  BY <1>1, <1>2, <1>3, <1>8, <2>1 DEF CreateRow
<1>9. CASE UpdateHash(r)
  <2>1. ASSUME sh' = [sh EXCEPT ![r] = [@ EXCEPT !.pc = "result", !.hash = Encode(sh[r].id)]]
        PROVE  sh'[r].url = sh[r].url /\ sh'[r].reply = sh[r].reply
    BY <1>0, <2>1 DEF ShortenState
  <2> QED  BY <1>1, <1>2, <1>3, <1>9, <2>1 DEF UpdateHash
<1>10. CASE StoreResult(r) \/ CacheNewUrl(r) \/ CacheNewMeta(r)
  BY <1>1, <1>2, <1>4, <1>10 DEF StoreResult, CacheNewUrl, CacheNewMeta
<1> QED  BY <1>5, <1>6, <1>7, <1>8, <1>9, <1>10 DEF ShortenStep

\* The rescanner only takes up rows of the table.
LEMMA RescanLocalsStep ==
  ASSUME TypeOK, LocalsOK, Ids \subseteq Ids', RescanStep
  PROVE  /\ rs'.todo \subseteq Ids'
         /\ rs'.pc \in {"scan", "store", "evict"} => rs'.id \in Ids'
<1>0. /\ rs \in [pc : RescanPC, todo : SUBSET Nat, id : Nat, result : VTStatus]
      /\ rs.todo \subseteq Ids /\ (rs.pc \in {"scan", "store", "evict"} => rs.id \in Ids)
  BY DEF TypeOK, RescanTypeOK, LocalsOK
<1>1. CASE StartCycle
  <2>1. FindByVTStatus("unverified", RescanLimit) \subseteq Ids  BY DEF FindByVTStatus
  <2> QED  BY <1>0, <1>1, <2>1 DEF StartCycle
<1>2. CASE NextRow  BY <1>0, <1>2 DEF NextRow
<1>3. CASE Rescan  BY <1>0, <1>3 DEF Rescan
<1>4. CASE StoreRescan  BY <1>0, <1>4 DEF StoreRescan, AfterRow
<1>5. CASE EvictRescanned  BY <1>0, <1>5 DEF EvictRescanned, AfterRow
<1> QED  BY <1>1, <1>2, <1>3, <1>4, <1>5 DEF RescanStep

\* Every step keeps LocalsOK.
LEMMA LocalsStep ==
  ASSUME TypeOK, LocalsOK, TableInv, [Next]_vars
  PROVE  LocalsOK'
<1>0. Ids \subseteq Ids'  BY IdsGrow
<1>1. CASE (\E r \in Shorteners : ShortenStep(r)) /\ UNCHANGED << rd, reports, rp, rs >>
  <2>1. PICK r \in Shorteners : ShortenStep(r)  BY <1>1
  <2> QED  BY <1>0, <1>1, <2>1, ShortenLocalsStep DEF LocalsOK
<1>2. CASE (\E r \in Redirectors : RedirectStep(r)) /\ UNCHANGED << sh, reports, rp, rs >>
  <2>1. PICK r \in Redirectors : RedirectStep(r)  BY <1>2
  <2> QED  BY <1>0, <1>2, <2>1, RedirectWrites DEF LocalsOK, TypeOK
<1>3. CASE (\E r \in Reporters : ReportStep(r)) /\ UNCHANGED << sh, rd, rs >>
  <2>1. PICK r \in Reporters : ReportStep(r)  BY <1>3
  <2> QED  BY <1>0, <1>3, <2>1, ReportWrites DEF LocalsOK, TypeOK
<1>4. CASE RescanStep /\ UNCHANGED << sh, rd, reports, rp >>
  BY <1>0, <1>4, RescanLocalsStep DEF LocalsOK
<1>5. CASE Environment /\ UNCHANGED << sh, rd, reports, rp, rs >>
  BY <1>0, <1>5 DEF LocalsOK
<1>6. CASE Crash
  <2>1. /\ \A r \in Shorteners : sh'[r] = sh[r] \/ (sh'[r].pc = "done" /\ sh'[r].reply = "crash")
        /\ \A r \in Redirectors : rd'[r] = rd[r] \/ (rd'[r].pc = "done" /\ rd'[r].reply = "crash")
        /\ \A r \in Reporters : rp'[r] = rp[r] \/ (rp'[r].pc = "done" /\ rp'[r].reply = "crash")
    BY <1>6, LostState DEF Crash, TypeOK, ShortenTypeOK, RedirectTypeOK, ReportTypeOK
  <2>2. rs'.pc = "idle" /\ rs'.todo = {}
    BY <1>6 DEF Crash, TypeOK, RescanTypeOK
  <2> QED  BY <1>0, <2>1, <2>2 DEF LocalsOK
<1>7. CASE UNCHANGED vars
  BY <1>0, <1>7 DEF LocalsOK, vars
<1> QED  BY <1>1, <1>2, <1>3, <1>4, <1>5, <1>6, <1>7 DEF Next

-----------------------------------------------------------------------------
(* The cache.                                                               *)

\* What a key or a redirect says of a row stays true of it.
LEMMA GoodKeeps ==
  ASSUME Keeps, NEW h, NEW u, NEW id, Good(h, u, id)
  PROVE  Good(h, u, id)'
<1> QED  BY DEF Keeps, Good, Names

\* New keys that name rows, and no others, keep the cache in agreement.
LEMMA CacheKeeps ==
  ASSUME CacheInv, Keeps,
         \A k \in urlKeys' \ urlKeys : k.url # BadUrl =>
           k.vt # "malicious" /\ \E id \in Ids : Good(k.hash, k.url, id),
         \A m \in metaKeys' \ metaKeys : Names(m.hash, m.id) /\ m.id \notin HashPending
  PROVE  CacheInv'
<1>1. ASSUME NEW k \in urlKeys', k.url # BadUrl
      PROVE  k.vt # "malicious" /\ \E id \in Ids' : Good(k.hash, k.url, id)'
  <2>1. k.vt # "malicious" /\ \E id \in Ids : Good(k.hash, k.url, id)
    BY <1>1 DEF CacheInv
  <2>2. PICK id \in Ids : Good(k.hash, k.url, id)  BY <2>1
  <2>3. Good(k.hash, k.url, id)'  BY <2>2, GoodKeeps
  <2>4. id \in Ids'  BY <2>3 DEF Good, Names
  <2> QED  BY <2>1, <2>3, <2>4
<1>2. ASSUME NEW m \in metaKeys'  PROVE (Names(m.hash, m.id) /\ m.id \notin HashPending)'
  <2>1. Names(m.hash, m.id) /\ m.id \notin HashPending
    BY <1>2 DEF CacheInv
  <2> QED  BY <2>1 DEF Keeps, Names
<1> QED  BY <1>1, <1>2 DEF CacheInv

\* Everything but the two fills only removes keys, or writes a bad value.
LEMMA CacheShrinks ==
  ASSUME TypeOK,
         \/ \E r \in Shorteners : \/ ReceiveShorten(r) \/ DedupCheck(r) \/ LookupScan(r) \/ ScanUrl(r)
                                  \/ CreateRow(r) \/ UpdateHash(r) \/ StoreResult(r)
         \/ \E r \in Redirectors : \/ \E h \in ReqHashes : LookupCache(r, h)
                                   \/ FindRow(r) \/ RefuseMalicious(r) \/ Serve(r)
         \/ \E r \in Reporters : ReportStep(r)
         \/ RescanStep \/ Tick \/ EvictKey \/ UNCHANGED store
  PROVE  urlKeys' \subseteq urlKeys /\ metaKeys' \subseteq metaKeys
<1>0. \A h : Delete(h) => urlKeys' \subseteq urlKeys /\ metaKeys' \subseteq metaKeys
  BY DEF Delete, Without
<1>1. ASSUME UNCHANGED << urlKeys, metaKeys >>  PROVE urlKeys' \subseteq urlKeys /\ metaKeys' \subseteq metaKeys
  BY <1>1
<1>2. CASE \E r \in Shorteners : \/ ReceiveShorten(r) \/ DedupCheck(r) \/ LookupScan(r) \/ ScanUrl(r)
                                 \/ CreateRow(r) \/ UpdateHash(r) \/ StoreResult(r)
  BY <1>1, <1>2 DEF ReceiveShorten, DedupCheck, LookupScan, GetRaw, ScanUrl, CreateRow, UpdateHash,
                    StoreResult, store
<1>3. CASE \E r \in Redirectors : \/ \E h \in ReqHashes : LookupCache(r, h)
                                  \/ FindRow(r) \/ RefuseMalicious(r) \/ Serve(r)
  BY <1>0, <1>1, <1>3 DEF LookupCache, Get, FindRow, FindError, RefuseMalicious, Serve, store
<1>4. CASE \E r \in Reporters : ReportStep(r)
  BY <1>0, <1>1, <1>4 DEF ReportStep, FindReported, InsertReport, CountReports, BlockUrl, EvictBlocked, store
<1>5. CASE RescanStep
  BY <1>0, <1>1, <1>5 DEF RescanStep, StartCycle, NextRow, Rescan, StoreRescan, EvictRescanned, store
<1>6. CASE Tick \/ EvictKey \/ UNCHANGED store
  BY <1>6 DEF Tick, EvictKey, Alive, store
<1> QED  BY <1>2, <1>3, <1>4, <1>5, <1>6

\* Every step keeps CacheInv: only Shorten and Resolve write keys, both
\* from a row that has its hash.
LEMMA CacheStep ==
  ASSUME TypeOK, TableInv, CacheInv, RedirectInv, Keeps, [Next]_vars
  PROVE  CacheInv'
<1>1. ASSUME urlKeys' \subseteq urlKeys, metaKeys' \subseteq metaKeys  PROVE CacheInv'
  BY <1>1, CacheKeeps
<1>2. ASSUME NEW h, NEW u, NEW vt, NEW ttl, NEW id,
             SetUrlKey(h, u, vt, ttl) \/ UNCHANGED urlKeys, UNCHANGED metaKeys,
             u # BadUrl => vt # "malicious" /\ Good(h, u, id)
      PROVE  CacheInv'
  <2> DEFINE k0 == [hash |-> h, url |-> u, vt |-> vt, exp |-> ExpiryOf(ttl)]
  <2>1. urlKeys' \ urlKeys \subseteq {k0}  BY <1>2 DEF SetUrlKey, WithKey
  <2>2. k0.url # BadUrl => k0.vt # "malicious" /\ \E i \in Ids : Good(k0.hash, k0.url, i)
    BY <1>2 DEF Good, Names
  <2> HIDE DEF k0
  <2>3. /\ \A k \in urlKeys' \ urlKeys : k.url # BadUrl =>
             k.vt # "malicious" /\ \E i \in Ids : Good(k.hash, k.url, i)
        /\ \A m \in metaKeys' \ metaKeys : Names(m.hash, m.id) /\ m.id \notin HashPending
    BY <1>2, <2>1, <2>2
  <2> QED  BY <2>3, CacheKeeps
<1>3. ASSUME NEW h, NEW id, NEW u, NEW ttl,
             SetMetaKey(h, id, ttl) \/ UNCHANGED metaKeys, UNCHANGED urlKeys, Good(h, u, id)
      PROVE  CacheInv'
  <2> DEFINE m0 == [hash |-> h, id |-> id, exp |-> ExpiryOf(ttl)]
  <2>1. metaKeys' \ metaKeys \subseteq {m0}  BY <1>3 DEF SetMetaKey, WithKey
  <2>2. Names(m0.hash, m0.id) /\ m0.id \notin HashPending
    BY <1>3 DEF Good
  <2> HIDE DEF m0
  <2> QED  BY <1>3, <2>1, <2>2, CacheKeeps
<1>4. ASSUME NEW r \in Shorteners, CacheNewUrl(r)  PROVE CacheInv'
  <2>1. sh[r].result # "malicious" /\ Good(sh[r].hash, sh[r].url, sh[r].id)
    BY <1>4 DEF CacheNewUrl, TableInv
  <2> QED  BY <1>2, <1>4, <2>1 DEF CacheNewUrl
<1>5. ASSUME NEW r \in Shorteners, CacheNewMeta(r)  PROVE CacheInv'
  <2>1. Good(sh[r].hash, sh[r].url, sh[r].id)
    BY <1>5 DEF CacheNewMeta, TableInv
  <2> QED  BY <1>3, <1>5, <2>1 DEF CacheNewMeta
<1>6. ASSUME NEW r \in Redirectors, FillUrlKey(r)  PROVE CacheInv'
  <2>1. rd[r].vt # "malicious" /\ Good(rd[r].hash, rd[r].url, rd[r].id)
    BY <1>6 DEF FillUrlKey, RedirectInv
  <2> QED  BY <1>2, <1>6, <2>1 DEF FillUrlKey
<1>7. ASSUME NEW r \in Redirectors, FillMetaKey(r)  PROVE CacheInv'
  <2>1. Good(rd[r].hash, rd[r].url, rd[r].id)
    BY <1>7 DEF FillMetaKey, RedirectInv
  <2> QED  BY <1>3, <1>7, <2>1 DEF FillMetaKey
<1>8. CASE CorruptKey
  <2>1. PICK h \in ReqHashes : SetUrlKey(h, BadUrl, "clean", CacheTTL)  BY <1>8 DEF CorruptKey
  <2> QED  BY <1>2, <1>8, <2>1 DEF CorruptKey
<1> QED
  BY <1>1, <1>4, <1>5, <1>6, <1>7, <1>8, CacheShrinks
     DEF Next, ShortenStep, RedirectStep, Environment, Crash, vars

-----------------------------------------------------------------------------
(* Redirects.                                                               *)

\* A hash of the form the handler accepts is not the empty one.
LEMMA PatternNotEmpty ==
  ASSUME NEW h \in ReqHashes, HashPattern(h)
  PROVE  ~SameHash(NoHash, h)
<1>1. h \in Seq(Nat) /\ Len(h) = MinLen  BY StoreAssumption DEF HashPattern
<1>2. 1 \in DOMAIN h  BY <1>1, LenProperties, Base62Assumption
<1>3. 1 \in DOMAIN FoldHash(h)  BY <1>2 DEF FoldHash
<1>4. DOMAIN FoldHash(NoHash) = DOMAIN NoHash  BY DEF FoldHash
<1>5. DOMAIN NoHash = {}  BY EmptySeq, LenProperties DEF NoHash
<1> QED  BY <1>3, <1>4, <1>5 DEF SameHash

\* What RedirectInv says of one redirect.
Carries(q) ==
  /\ rd[q].pc \in {"seturl", "setmeta"} =>
       Good(rd[q].hash, rd[q].url, rd[q].id) /\ rd[q].vt # "malicious" /\ rd[q].url # BadUrl
  /\ (rd[q].pc = "serve" /\ rd[q].url # BadUrl) \/ rd[q].reply = "301" =>
       \E id \in Ids : Good(rd[q].hash, rd[q].url, id) /\ rd[q].id \in {0, id}

\* What a redirect carries stays true while others run.
LEMMA CarriesKeeps ==
  ASSUME Keeps, NEW q \in Redirectors, Carries(q), rd'[q] = rd[q]
  PROVE  Carries(q)'
<1>1. ASSUME rd[q].pc \in {"seturl", "setmeta"}
      PROVE  Good(rd[q].hash, rd[q].url, rd[q].id)'
  <2>1. Good(rd[q].hash, rd[q].url, rd[q].id)  BY <1>1 DEF Carries
  <2> QED  BY <2>1 DEF Good, Names, Keeps
<1>2. ASSUME (rd[q].pc = "serve" /\ rd[q].url # BadUrl) \/ rd[q].reply = "301"
      PROVE  \E id \in Ids' : Good(rd[q].hash, rd[q].url, id)' /\ rd'[q].id \in {0, id}
  <2>1. PICK id \in Ids : Good(rd[q].hash, rd[q].url, id) /\ rd[q].id \in {0, id}
    BY <1>2 DEF Carries
  <2>2. id \in Ids' /\ Good(rd[q].hash, rd[q].url, id)'
    BY <2>1 DEF Good, Names, Keeps
  <2> QED  BY <2>1, <2>2
<1> QED  BY <1>1, <1>2 DEF Carries

\* A cache hit: the URL key and the meta key name the same row.
LEMMA HitCarries ==
  ASSUME TypeOK, LocalsOK, TableInv, CacheInv, Keeps,
         NEW r \in Redirectors, NEW h \in ReqHashes, NEW k \in urlKeys, k.hash = h,
         rd[r].pc = "idle",
         rd' = [rd EXCEPT ![r] =
                  [@ EXCEPT !.hash = h, !.url = k.url, !.id = MetaId(h), !.vt = k.vt,
                            !.pc = IF k.vt = "malicious" THEN "evict" ELSE "serve"]]
  PROVE  Carries(r)'
<1>0. rd \in [Redirectors -> RedirectState] /\ rd[r] \in RedirectState  BY DEF TypeOK, RedirectTypeOK
<1>1. /\ rd'[r].pc \in {"evict", "serve"} /\ rd'[r].hash = h /\ rd'[r].url = k.url
      /\ rd'[r].id = MetaId(h) /\ rd'[r].reply = rd[r].reply
  <2>1. rd'[r] = [rd[r] EXCEPT !.hash = h, !.url = k.url, !.id = MetaId(h), !.vt = k.vt,
                               !.pc = IF k.vt = "malicious" THEN "evict" ELSE "serve"]
    BY <1>0
  <2> QED  BY <1>0, <2>1 DEF RedirectState
<1>2. rd'[r].reply # "301"  BY <1>1 DEF LocalsOK
<1>3. ASSUME k.url # BadUrl
      PROVE  \E id \in Ids' : Good(h, k.url, id)' /\ MetaId(h) \in {0, id}
  <2>1. PICK id \in Ids : Good(h, k.url, id)  BY <1>3 DEF CacheInv
  <2>2. MetaId(h) \in {0, id}
    <3>1. ASSUME NEW m \in metaKeys, m.hash = h  PROVE m.id = id
      <4>1. m.id \in Ids /\ SameHash(urls[m.id].hash, h)  BY <3>1 DEF CacheInv, Names
      <4>2. SameHash(urls[id].hash, h)  BY <2>1 DEF Good, Names
      <4> QED  BY <4>1, <4>2, SameHashEuclidean DEF TableInv
    <3> QED  BY <3>1 DEF MetaId
  <2>3. Good(h, k.url, id)'  BY <2>1, GoodKeeps
  <2> QED  BY <2>2, <2>3 DEF Good, Names
<1> QED  BY <1>1, <1>2, <1>3 DEF Carries, Good

\* A miss: the row that FindByHash returns has its final hash.
LEMMA MissCarries ==
  ASSUME TypeOK, LocalsOK, TableInv, Keeps, NEW r \in Redirectors, rd[r].pc = "find",
         NEW id \in FindByHash(rd[r].hash), Resolution(urls[id]) # "expired",
         rd' = [rd EXCEPT ![r] =
                  [@ EXCEPT !.url = urls[id].url, !.id = id, !.vt = urls[id].vt,
                            !.pc = IF Resolution(urls[id]) = "malicious" THEN "evict" ELSE "seturl"]]
  PROVE  Carries(r)'
<1>0. rd \in [Redirectors -> RedirectState] /\ rd[r] \in RedirectState  BY DEF TypeOK, RedirectTypeOK
<1>1. /\ rd'[r].pc = IF Resolution(urls[id]) = "malicious" THEN "evict" ELSE "seturl"
      /\ rd'[r].hash = rd[r].hash /\ rd'[r].url = urls[id].url
      /\ rd'[r].id = id /\ rd'[r].vt = urls[id].vt /\ rd'[r].reply = rd[r].reply
  <2>1. rd'[r] = [rd[r] EXCEPT !.url = urls[id].url, !.id = id, !.vt = urls[id].vt,
                               !.pc = IF Resolution(urls[id]) = "malicious" THEN "evict" ELSE "seturl"]
    BY <1>0
  <2> QED  BY <1>0, <2>1 DEF RedirectState
<1>2. id \in Ids /\ SameHash(urls[id].hash, rd[r].hash)  BY DEF FindByHash
<1>3. id \notin HashPending
  <2>1. ~SameHash(NoHash, rd[r].hash)  BY PatternNotEmpty DEF LocalsOK
  <2> QED  BY <1>2, <2>1 DEF HashPending, TableInv
<1>4. urls[id].url \in Urls /\ urls[id].exp \in Nat /\ now \in Nat
  BY <1>2 DEF TypeOK, StoreTypeOK, Ids, Row
<1>5. Resolution(urls[id]) # "malicious" => urls[id].vt # "malicious"
  BY <1>4 DEF Resolution
<1>6. rd'[r].reply # "301"  BY <1>1 DEF LocalsOK
<1>7. Good(rd[r].hash, urls[id].url, id)  BY <1>2, <1>3 DEF Good, Names
<1>8. urls[id].url # BadUrl  BY <1>4, StoreAssumption
<1>9. ASSUME NEW h, h = rd[r].hash, NEW u, u = urls[id].url  PROVE Good(h, u, id)'
  BY <1>7, <1>9, GoodKeeps
<1>10. Good(rd[r].hash, rd[r].url, rd[r].id)'  BY <1>1, <1>9
<1> QED  BY <1>1, <1>5, <1>6, <1>8, <1>10 DEF Carries

\* Every step keeps RedirectInv.
LEMMA RedirectInvStep ==
  ASSUME TypeOK, LocalsOK, TableInv, CacheInv, RedirectInv, Keeps, [Next]_vars
  PROVE  RedirectInv'
<1>0. /\ \A q \in Redirectors : Carries(q)
      /\ ((\A q \in Redirectors : Carries(q)) => RedirectInv)'
  BY DEF RedirectInv, Carries
<1>1. ASSUME UNCHANGED rd  PROVE RedirectInv'
  BY <1>0, <1>1, CarriesKeeps
<1>2. ASSUME NEW r \in Redirectors, RedirectStep(r)  PROVE RedirectInv'
  <2>0. rd \in [Redirectors -> RedirectState] /\ rd[r] \in RedirectState  BY DEF TypeOK, RedirectTypeOK
  <2>1. ASSUME NEW q \in Redirectors, q # r  PROVE Carries(q)'
    <3>1. rd'[q] = rd[q]  BY <1>2, <2>1, RedirectWrites DEF TypeOK
    <3> QED  BY <1>0, <3>1, CarriesKeeps
  <2>2. ASSUME NEW code, code # "301", RedirectAnswer(r, code)  PROVE Carries(r)'
    <3>1. rd'[r].pc = "done" /\ rd'[r].reply = code  BY <2>0, <2>2 DEF RedirectAnswer, RedirectState
    <3> QED  BY <2>2, <3>1 DEF Carries
  <2>3. ASSUME NEW h \in ReqHashes, LookupCache(r, h)  PROVE Carries(r)'
    <3>1. CASE \/ rd' = [rd EXCEPT ![r] = [@ EXCEPT !.pc = "done", !.hash = h, !.reply = "404"]]
               \/ rd' = [rd EXCEPT ![r] = [@ EXCEPT !.pc = "find", !.hash = h]]
      <4>1. /\ rd'[r].pc \in {"done", "find"}
            /\ rd'[r].reply \in {rd[r].reply, "404"}
        BY <2>0, <3>1 DEF RedirectState
      <4>2. rd[r].reply # "301"  BY <2>3 DEF LookupCache, Get, LocalsOK
      <4> QED  BY <4>1, <4>2 DEF Carries
    <3>2. CASE \E k \in urlKeys :
                 /\ k.hash = h
                 /\ rd' = [rd EXCEPT ![r] =
                             [@ EXCEPT !.hash = h, !.url = k.url, !.id = MetaId(h), !.vt = k.vt,
                                       !.pc = IF k.vt = "malicious" THEN "evict" ELSE "serve"]]
      BY <2>3, <3>2, HitCarries DEF LookupCache, Get
    <3> QED  BY <2>3, <3>1, <3>2 DEF LookupCache, Get
  <2>4. ASSUME FindRow(r)  PROVE Carries(r)'
    BY <2>2, <2>4, MissCarries DEF FindRow, FindError
  <2>5. ASSUME FillUrlKey(r) \/ FillMetaKey(r)  PROVE Carries(r)'
    <3>1. /\ rd[r].pc \in {"seturl", "setmeta"}
          /\ rd' = [rd EXCEPT ![r] = [@ EXCEPT !.pc = "setmeta"]] \/ rd' = [rd EXCEPT ![r] = [@ EXCEPT !.pc = "serve"]]
      BY <2>5 DEF FillUrlKey, FillMetaKey
    <3>2. /\ rd'[r].hash = rd[r].hash /\ rd'[r].url = rd[r].url /\ rd'[r].id = rd[r].id
          /\ rd'[r].vt = rd[r].vt /\ rd'[r].reply = rd[r].reply /\ rd'[r].pc \in {"setmeta", "serve"}
      BY <2>0, <3>1 DEF RedirectState
    <3>3. Good(rd[r].hash, rd[r].url, rd[r].id) /\ rd[r].vt # "malicious" /\ rd[r].url # BadUrl
      BY <1>0, <3>1 DEF Carries
    <3>4. rd[r].id \in Ids' /\ Good(rd[r].hash, rd[r].url, rd[r].id)'
      BY <3>2, <3>3 DEF Good, Names, Keeps
    <3> QED  BY <3>2, <3>3, <3>4 DEF Carries
  <2>6. ASSUME RefuseMalicious(r)  PROVE Carries(r)'
    BY <2>2, <2>6 DEF RefuseMalicious
  <2>7. ASSUME Serve(r)  PROVE Carries(r)'
    <3>1. CASE RedirectAnswer(r, "500")  BY <2>2, <3>1
    <3>2. CASE rd[r].url # BadUrl /\ RedirectAnswer(r, "301")
      <4>1. /\ rd'[r].hash = rd[r].hash /\ rd'[r].url = rd[r].url /\ rd'[r].id = rd[r].id
            /\ rd'[r].pc = "done"
        BY <2>0, <3>2 DEF RedirectAnswer, RedirectState
      <4>2. PICK id \in Ids : Good(rd[r].hash, rd[r].url, id) /\ rd[r].id \in {0, id}
        BY <1>0, <2>7, <3>2 DEF Carries, Serve
      <4>3. id \in Ids' /\ Good(rd[r].hash, rd[r].url, id)'
        BY <4>1, <4>2 DEF Good, Names, Keeps
      <4> QED  BY <4>1, <4>2, <4>3 DEF Carries
    <3> QED  BY <2>7, <3>1, <3>2 DEF Serve
  <2>8. Carries(r)'  BY <1>2, <2>3, <2>4, <2>5, <2>6, <2>7 DEF RedirectStep
  <2> QED  BY <1>0, <2>1, <2>8
<1>3. CASE Crash
  <2>1. ASSUME NEW q \in Redirectors  PROVE Carries(q)'
    <3>1. rd'[q] = rd[q] \/ (rd'[q].pc = "done" /\ rd'[q].reply = "crash")
      BY <1>3, LostState DEF Crash, TypeOK, RedirectTypeOK
    <3>2. CASE rd'[q] = rd[q]  BY <1>0, <3>2, CarriesKeeps
    <3>3. CASE rd'[q].pc = "done" /\ rd'[q].reply = "crash"  BY <3>3 DEF Carries
    <3> QED  BY <3>1, <3>2, <3>3
  <2> QED  BY <1>0, <2>1
<1> QED  BY <1>1, <1>2, <1>3 DEF Next, vars

-----------------------------------------------------------------------------
(* Answers of Shorten.                                                      *)

AnswerStored(q) ==
  sh[q].reply = "201" /\ sh[q].hash # NoHash =>
    /\ sh[q].id \in Ids
    /\ urls[sh[q].id].hash = sh[q].hash
    /\ UrlKey[urls[sh[q].id].url] = UrlKey[sh[q].url]

\* Every step keeps AnsweredHashIsStored.
LEMMA AnsweredStep ==
  ASSUME TypeOK, LocalsOK, TableInv, AnsweredHashIsStored, Keeps, [Next]_vars
  PROVE  AnsweredHashIsStored'
<1>0. /\ \A q \in Shorteners : AnswerStored(q)
      /\ ((\A q \in Shorteners : AnswerStored(q)) => AnsweredHashIsStored)'
  BY DEF AnsweredHashIsStored, AnswerStored
<1>1. \A i \in Ids : urls[i].hash # NoHash => i \notin HashPending
  BY DEF TableInv, HashPending
<1>2. ASSUME NEW q \in Shorteners, sh'[q] = sh[q]  PROVE AnswerStored(q)'
  <2> SUFFICES ASSUME sh[q].reply = "201", sh[q].hash # NoHash  PROVE AnswerStored(q)'
    BY <1>2 DEF AnswerStored
  <2>1. /\ sh[q].id \in Ids /\ urls[sh[q].id].hash = sh[q].hash
        /\ UrlKey[urls[sh[q].id].url] = UrlKey[sh[q].url]
    BY <1>0 DEF AnswerStored
  <2>2. /\ sh[q].id \in Ids' /\ urls'[sh[q].id].hash = urls[sh[q].id].hash
        /\ urls'[sh[q].id].url = urls[sh[q].id].url
    BY <1>1, <2>1 DEF Keeps
  <2> QED  BY <1>2, <2>1, <2>2 DEF AnswerStored
<1>3. ASSUME UNCHANGED sh  PROVE AnsweredHashIsStored'
  BY <1>0, <1>2, <1>3
<1>4. ASSUME NEW r \in Shorteners, ShortenStep(r)  PROVE AnsweredHashIsStored'
  <2>0. ShortenTypeOK /\ sh \in [Shorteners -> ShortenState] /\ sh[r] \in ShortenState
    BY DEF TypeOK, ShortenTypeOK
  <2>1. ASSUME NEW q \in Shorteners, q # r  PROVE AnswerStored(q)'
    BY <1>2, <1>4, <2>1, ShortenLocalsStep
  <2>2. ASSUME sh'[r].reply # "201"  PROVE AnswerStored(r)'
    BY <2>2 DEF AnswerStored
  <2>3. sh[r].pc # "done" => sh[r].reply # "201"  BY DEF LocalsOK
  <2>4. ASSUME DedupCheck(r)  PROVE AnswerStored(r)'
    <3>1. CASE ShortenGoto(r, "vtcache") \/ ShortenAnswer(r, "500")
      <4>1. sh'[r].reply = sh[r].reply \/ sh'[r].reply = "500"  BY <2>0, <3>1, ShortenWrites
      <4>2. sh[r].reply # "201"  BY <2>3, <2>4 DEF DedupCheck
      <4> QED  BY <2>2, <4>1, <4>2
    <3>2. ASSUME NEW id \in FindByOriginalURL(sh[r].url),
                 sh' = [sh EXCEPT ![r] =
                          [@ EXCEPT !.pc = "done", !.reply = "201", !.id = id,
                                    !.hash = urls[id].hash, !.result = urls[id].vt]]
          PROVE  AnswerStored(r)'
      <4>1. sh'[r].id = id /\ sh'[r].hash = urls[id].hash /\ sh'[r].url = sh[r].url
        BY <2>0, <3>2 DEF ShortenState
      <4>2. id \in Ids /\ UrlKey[urls[id].url] = UrlKey[sh[r].url]
        BY <3>2 DEF FindByOriginalURL
      <4>3. urls' = urls  BY <2>4 DEF DedupCheck, store
      <4> QED  BY <4>1, <4>2, <4>3 DEF AnswerStored, Ids
    <3> QED  BY <2>4, <3>1, <3>2 DEF DedupCheck
  <2>5. ASSUME CacheNewUrl(r) \/ CacheNewMeta(r)  PROVE AnswerStored(r)'
    <3>1. /\ sh[r].pc \in {"seturl", "setmeta"} /\ urls' = urls
          /\ ShortenGoto(r, "setmeta") \/ ShortenAnswer(r, "201")
      BY <2>5 DEF CacheNewUrl, CacheNewMeta
    <3>2. SameLocals(sh'[r], sh[r])  BY <2>0, <3>1, ShortenWrites
    <3>3. Good(sh[r].hash, sh[r].url, sh[r].id) /\ urls[sh[r].id].hash = sh[r].hash
      BY <3>1 DEF TableInv
    <3> QED  BY <3>1, <3>2, <3>3 DEF AnswerStored, SameLocals, Good, Names, Ids
  <2>6. ASSUME sh[r].pc # "done",
               \/ \E pc : ShortenGoto(r, pc)
               \/ \E code : code # "201" /\ ShortenAnswer(r, code)
               \/ \E s : UseScan(r, s)
        PROVE  AnswerStored(r)'
    BY <2>0, <2>2, <2>3, <2>6, ShortenWrites
  <2>7. ASSUME LookupScan(r) \/ ScanUrl(r) \/ StoreResult(r)  PROVE AnswerStored(r)'
    BY <2>6, <2>7 DEF LookupScan, GetRaw, ScanUrl, StoreResult
  <2>8. ASSUME ReceiveShorten(r)  PROVE AnswerStored(r)'
    <3>1. ASSUME NEW u, sh' = [sh EXCEPT ![r] = [@ EXCEPT !.pc = "dedup", !.url = u]]
          PROVE  sh'[r].reply = sh[r].reply
      BY <2>0, <3>1 DEF ShortenState
    <3> QED  BY <2>2, <2>3, <2>6, <2>8, <3>1 DEF ReceiveShorten
  <2>9. ASSUME CreateRow(r)  PROVE AnswerStored(r)'
    <3>1. ASSUME sh' = [sh EXCEPT ![r] = [@ EXCEPT !.pc = "hash", !.id = nextId]]
          PROVE  sh'[r].reply = sh[r].reply
      BY <2>0, <3>1 DEF ShortenState
    <3> QED  BY <2>2, <2>3, <2>6, <2>9, <3>1 DEF CreateRow
  <2>10. ASSUME UpdateHash(r)  PROVE AnswerStored(r)'
    <3>1. ASSUME sh' = [sh EXCEPT ![r] = [@ EXCEPT !.pc = "result", !.hash = Encode(sh[r].id)]]
          PROVE  sh'[r].reply = sh[r].reply
      BY <2>0, <3>1 DEF ShortenState
    <3> QED  BY <2>2, <2>3, <2>6, <2>10, <3>1 DEF UpdateHash
  <2>11. AnswerStored(r)'
    BY <1>4, <2>4, <2>5, <2>7, <2>8, <2>9, <2>10 DEF ShortenStep
  <2> QED  BY <1>0, <2>1, <2>11
<1>5. CASE Crash
  <2>1. ASSUME NEW q \in Shorteners  PROVE AnswerStored(q)'
    <3>1. sh'[q] = sh[q] \/ (sh'[q].pc = "done" /\ sh'[q].reply = "crash")
      BY <1>5, LostState DEF Crash, TypeOK, ShortenTypeOK
    <3>2. CASE sh'[q].reply = "crash"  BY <3>2 DEF AnswerStored
    <3> QED  BY <1>2, <3>1, <3>2
  <2> QED  BY <1>0, <2>1
<1> QED  BY <1>3, <1>4, <1>5 DEF Next, vars

-----------------------------------------------------------------------------
(* Theorems.                                                                *)

\* The invariant holds of the rows and the cold cache at start-up ...
LEMMA InitInv == Init => TypeOK /\ ServiceInv
<1> SUFFICES ASSUME Init  PROVE TypeOK /\ ServiceInv
  OBVIOUS
<1>1. /\ DOMAIN SeedRows = 1 .. Len(SeedRows) /\ Len(SeedRows) \in Nat
      /\ SeedRows \in [1 .. Len(SeedRows) -> Row] /\ Len(SeedRows) <= MaxId /\ MaxId \in Nat
  BY StoreAssumption, LenProperties
<1>2. StoreTypeOK
  BY <1>1 DEF Init, StoreInit, StoreTypeOK
<1>3. ShortenTypeOK /\ RedirectTypeOK /\ RescanTypeOK
  BY DEF Init, ShortenInit, ShortenTypeOK, ShortenState, ShortenPC, ShortenReply,
         RedirectInit, RedirectTypeOK, RedirectState, RedirectPC, RedirectReply,
         RescanInit, RescanTypeOK, RescanPC, Hash, VTStatus
<1>4. ReportTypeOK
  BY FS_EmptySet DEF Init, ReportInit, ReportTypeOK, ReportState, ReportPC, ReportReply, Hash, Uncounted
<1>5. /\ \A r \in Shorteners : sh[r].pc = "idle" /\ sh[r].reply = "none"
      /\ \A r \in Redirectors : rd[r].pc = "idle" /\ rd[r].reply = "none"
      /\ \A r \in Reporters : rp[r].pc = "idle"
      /\ rs.pc = "idle" /\ rs.todo = {}
      /\ urls = SeedRows /\ nextId = Len(SeedRows) + 1 /\ urlKeys = {} /\ metaKeys = {}
  BY DEF Init, StoreInit, ShortenInit, RedirectInit, ReportInit, RescanInit
<1>6. LocalsOK  BY <1>5 DEF LocalsOK
<1>7. TableInv  BY <1>1, <1>5, StoreAssumption DEF TableInv, Ids
<1>8. CacheInv /\ RedirectInv /\ AnsweredHashIsStored
  BY <1>5 DEF CacheInv, RedirectInv, AnsweredHashIsStored
<1> QED  BY <1>2, <1>3, <1>4, <1>6, <1>7, <1>8 DEF TypeOK, ServiceInv

\* ... and every step of the service keeps it.
LEMMA InvStep == TypeOK /\ ServiceInv /\ [Next]_vars => TypeOK' /\ ServiceInv' /\ Keeps
<1> SUFFICES ASSUME TypeOK, ServiceInv, [Next]_vars  PROVE TypeOK' /\ ServiceInv' /\ Keeps
  OBVIOUS
<1>0. LocalsOK /\ TableInv /\ CacheInv /\ RedirectInv /\ AnsweredHashIsStored  BY DEF ServiceInv
<1>1. TypeOK'  BY <1>0, TypeStep
<1>2. TableInv' /\ Keeps  BY <1>0, TableStep
<1>3. LocalsOK'  BY <1>0, LocalsStep
<1>4. CacheInv'  BY <1>0, <1>2, CacheStep
<1>5. RedirectInv'  BY <1>0, <1>2, RedirectInvStep
<1>6. AnsweredHashIsStored'  BY <1>0, <1>2, AnsweredStep
<1> QED  BY <1>1, <1>2, <1>3, <1>4, <1>5, <1>6 DEF ServiceInv

\* Types are kept, and between any two calls of the service the table, the
\* cache and the locals of every request agree, whatever fails or crashes.
THEOREM ServiceCorrect == Spec => [](TypeOK /\ ServiceInv)
<1>1. TypeOK /\ ServiceInv /\ [Next]_vars => (TypeOK /\ ServiceInv)'
  BY InvStep
<1> QED  BY <1>1, InitInv, PTL DEF Spec

\* Every table, key and local of every request keeps its type: in particular
\* no id outgrows AUTO_INCREMENT, and no status is stored that the column's
\* readers do not know.
THEOREM TypeCorrect == Spec => []TypeOK
BY ServiceCorrect, PTL

\* Every key in Redis names the URL and id of the row its hash stands for.
THEOREM CacheCorrect == Spec => []CacheAgreesWithTable
<1>1. ServiceInv => CacheAgreesWithTable
  BY DEF ServiceInv, CacheInv, Good, CacheAgreesWithTable
<1> QED  BY <1>1, ServiceCorrect, PTL

\* Every redirect goes to the URL stored for the hash it was asked for.
THEOREM RedirectCorrect == Spec => []RedirectsGoHome
<1>1. ServiceInv => RedirectsGoHome
  BY DEF ServiceInv, RedirectInv, Good, RedirectsGoHome
<1> QED  BY <1>1, ServiceCorrect, PTL

\* Every hash that Shorten answers with, but the empty one, is that of a row whose
\* URL equals the request's under the collation.
THEOREM AnswerCorrect == Spec => []AnsweredHashIsStored
<1>1. ServiceInv => AnsweredHashIsStored
  BY DEF ServiceInv
<1> QED  BY <1>1, ServiceCorrect, PTL

-----------------------------------------------------------------------------
(* Blocking.  Each part of Sealed is kept by every step.                    *)

\* The status stays malicious: whoever could overwrite it is not about to.
LEMMA SealedStatus ==
  ASSUME TypeOK, LocalsOK, TableInv, NEW id, Sealed(id), [Next]_vars
  PROVE  id \in Ids' /\ urls'[id].vt = "malicious"
<1>0. /\ id \in Ids /\ urls[id].vt = "malicious" /\ id # nextId
      /\ urls \in [Ids -> Row] /\ urls[id] \in Row
  BY StoreAssumption DEF Sealed, TableInv, TypeOK, StoreTypeOK, Ids
<1>1. ASSUME UNCHANGED urls  PROVE id \in Ids' /\ urls'[id].vt = "malicious"
  BY <1>0, <1>1 DEF Ids
<1>2. ASSUME NEW j \in Ids, NEW s, j # id \/ s = "malicious", SetsStatus(j, s)
      PROVE  id \in Ids' /\ urls'[id].vt = "malicious"
  <2>1. CASE urls' = WithVT(j, s)
    <3>1. DOMAIN urls' = Ids  BY <1>0, <2>1 DEF WithVT
    <3>2. CASE j # id
      <4>1. urls'[id] = urls[id]  BY <1>0, <2>1, <3>2 DEF WithVT
      <4> QED  BY <1>0, <3>1, <4>1 DEF Ids
    <3>3. CASE j = id /\ s = "malicious"
      <4>1. urls'[id] = [urls[id] EXCEPT !.vt = "malicious"]  BY <1>0, <2>1, <3>3 DEF WithVT
      <4>2. urls'[id].vt = "malicious"  BY <1>0, <4>1 DEF Row
      <4> QED  BY <1>0, <3>1, <4>2 DEF Ids
    <3> QED  BY <1>2, <3>2, <3>3
  <2> QED  BY <1>1, <1>2, <2>1 DEF SetsStatus
<1>3. ASSUME NEW r \in Shorteners, ShortenStep(r)  PROVE id \in Ids' /\ urls'[id].vt = "malicious"
  <2>1. CASE CreateRow(r)
    <3>1. CASE urls' = Inserted(sh[r].url)  BY <1>0, <3>1 DEF Inserted, Ids
    <3> QED  BY <1>1, <2>1, <3>1 DEF CreateRow
  <2>2. CASE UpdateHash(r)
    <3>1. sh[r].id # id  BY <2>2 DEF UpdateHash, Sealed
    <3>2. CASE urls' = WithHash(sh[r].id, Encode(sh[r].id))
      BY <1>0, <3>1, <3>2 DEF WithHash, Ids
    <3> QED  BY <1>1, <2>2, <3>2 DEF UpdateHash
  <2>3. CASE StoreResult(r)
    <3>1. sh[r].id # id  BY <2>3 DEF StoreResult, Sealed
    <3>2. sh[r].id \in Ids  BY <2>3 DEF StoreResult, TableInv, Good, Names
    <3> QED  BY <1>2, <2>3, <3>1, <3>2, StatusWrites DEF StoreResult
  <2>4. CASE \/ ReceiveShorten(r) \/ DedupCheck(r) \/ LookupScan(r) \/ ScanUrl(r)
             \/ CacheNewUrl(r) \/ CacheNewMeta(r)
    BY <1>1, <2>4 DEF ReceiveShorten, DedupCheck, LookupScan, GetRaw, ScanUrl, CacheNewUrl,
                      CacheNewMeta, store
  <2> QED  BY <1>3, <2>1, <2>2, <2>3, <2>4 DEF ShortenStep
<1>4. ASSUME NEW r \in Redirectors, RedirectStep(r)  PROVE id \in Ids' /\ urls'[id].vt = "malicious"
  BY <1>1, <1>4 DEF RedirectStep, LookupCache, Get, FindRow, FindError, FillUrlKey, FillMetaKey,
                    RefuseMalicious, Serve, store
<1>5. ASSUME NEW r \in Reporters, ReportStep(r)  PROVE id \in Ids' /\ urls'[id].vt = "malicious"
  <2>1. CASE BlockUrl(r)
    <3>1. rp[r].id \in Ids  BY <2>1 DEF BlockUrl, LocalsOK
    <3> QED  BY <1>2, <2>1, <3>1, StatusWrites DEF BlockUrl
  <2>2. CASE \/ \E h \in ReqHashes, ip \in IPs : FindReported(r, h, ip)
             \/ InsertReport(r) \/ CountReports(r) \/ EvictBlocked(r)
    BY <1>1, <2>2 DEF FindReported, InsertReport, CountReports, EvictBlocked, store
  <2> QED  BY <1>5, <2>1, <2>2 DEF ReportStep
<1>6. CASE RescanStep
  <2>1. CASE StoreRescan
    <3>1. rs.id \in Ids /\ rs.id # id  BY <2>1 DEF StoreRescan, LocalsOK, Sealed
    <3> QED  BY <1>2, <2>1, <3>1, StatusWrites DEF StoreRescan
  <2>2. CASE StartCycle \/ NextRow \/ Rescan \/ EvictRescanned
    BY <1>1, <2>2 DEF StartCycle, NextRow, Rescan, EvictRescanned, store
  <2> QED  BY <1>6, <2>1, <2>2 DEF RescanStep
<1>7. CASE Environment \/ Crash \/ UNCHANGED vars
  BY <1>1, <1>7 DEF Environment, Tick, EvictKey, CorruptKey, Crash, vars, store
<1> QED  BY <1>3, <1>4, <1>5, <1>6, <1>7 DEF Next

\* The rescanner never takes the row up again.
LEMMA SealedRescan ==
  ASSUME TypeOK, NEW id, Sealed(id), [Next]_vars
  PROVE  id \notin rs'.todo /\ (rs'.id = id => rs'.pc \notin {"scan", "store"})
<1>0. /\ rs \in [pc : RescanPC, todo : SUBSET Nat, id : Nat, result : VTStatus]
      /\ id \notin rs.todo /\ (rs.id = id => rs.pc \notin {"scan", "store"})
      /\ urls[id].vt = "malicious"
  BY DEF TypeOK, RescanTypeOK, Sealed
<1>1. CASE StartCycle
  <2>1. id \notin FindByVTStatus("unverified", RescanLimit)  BY <1>0 DEF FindByVTStatus
  <2> QED  BY <1>0, <1>1, <2>1 DEF StartCycle
<1>2. CASE NextRow  BY <1>0, <1>2 DEF NextRow
<1>3. CASE Rescan  BY <1>0, <1>3 DEF Rescan
<1>4. CASE StoreRescan  BY <1>0, <1>4 DEF StoreRescan, AfterRow
<1>5. CASE EvictRescanned  BY <1>0, <1>5 DEF EvictRescanned, AfterRow
<1>6. CASE Crash  BY <1>0, <1>6 DEF Crash
<1>7. CASE UNCHANGED rs  BY <1>0, <1>7
<1> QED  BY <1>1, <1>2, <1>3, <1>4, <1>5, <1>6, <1>7 DEF Next, RescanStep, vars

\* No request to shorten is, or gets, on its way to overwriting it.
LEMMA SealedShorten ==
  ASSUME TypeOK, LocalsOK, TableInv, NEW id, Sealed(id), [Next]_vars
  PROVE  \A r \in Shorteners : sh'[r].id = id => sh'[r].pc \notin {"hash", "result", "seturl"}
<1>0. /\ id # nextId /\ ShortenTypeOK /\ sh \in [Shorteners -> ShortenState]
      /\ \A r \in Shorteners : sh[r].id = id => sh[r].pc \notin {"hash", "result", "seturl"}
  BY StoreAssumption DEF Sealed, TableInv, TypeOK, ShortenTypeOK, StoreTypeOK, Ids
<1>1. ASSUME NEW r \in Shorteners, ShortenStep(r)
      PROVE  \A q \in Shorteners : sh'[q].id = id => sh'[q].pc \notin {"hash", "result", "seturl"}
  <2>0. sh[r] \in ShortenState  BY <1>0
  <2>1. \A q \in Shorteners : q # r => sh'[q] = sh[q]  BY <1>1, ShortenLocalsStep
  <2>2. ASSUME sh'[r].id = id  PROVE sh'[r].pc \notin {"hash", "result", "seturl"}
    <3>1. CASE CreateRow(r)
      <4>1. CASE sh' = [sh EXCEPT ![r] = [@ EXCEPT !.pc = "hash", !.id = nextId]]
        BY <1>0, <2>0, <2>2, <4>1 DEF ShortenState
      <4>2. CASE ShortenAnswer(r, "500")  BY <1>0, <4>2, ShortenWrites
      <4> QED  BY <3>1, <4>1, <4>2 DEF CreateRow
    <3>2. CASE UpdateHash(r)
      <4>1. sh[r].id # id  BY <1>0, <3>2 DEF UpdateHash
      <4>2. CASE sh' = [sh EXCEPT ![r] = [@ EXCEPT !.pc = "result", !.hash = Encode(sh[r].id)]]
        BY <1>0, <2>0, <2>2, <4>1, <4>2 DEF ShortenState
      <4>3. CASE ShortenAnswer(r, "500")  BY <1>0, <4>3, ShortenWrites
      <4> QED  BY <3>2, <4>2, <4>3 DEF UpdateHash
    <3>3. CASE StoreResult(r)
      <4>1. sh[r].id # id  BY <1>0, <3>3 DEF StoreResult
      <4>2. sh'[r].id = sh[r].id  BY <1>0, <3>3, ShortenWrites DEF StoreResult, SameLocals
      <4> QED  BY <2>2, <4>1, <4>2
    <3>4. CASE LookupScan(r) \/ ScanUrl(r)
      <4>1. ShortenGoto(r, "scan") \/ \E s : UseScan(r, s)  BY <3>4 DEF LookupScan, GetRaw, ScanUrl
      <4>2. sh'[r].pc \in {"scan", "done", "create"}  BY <1>0, <4>1, ShortenWrites
      <4> QED  BY <4>2
    <3>5. CASE CacheNewUrl(r) \/ CacheNewMeta(r)
      <4>1. ShortenGoto(r, "setmeta") \/ ShortenAnswer(r, "201")  BY <3>5 DEF CacheNewUrl, CacheNewMeta
      <4>2. sh'[r].pc \in {"setmeta", "done"}  BY <1>0, <4>1, ShortenWrites
      <4> QED  BY <4>2
    <3>6. CASE ReceiveShorten(r)
      <4>1. ASSUME NEW u, sh' = [sh EXCEPT ![r] = [@ EXCEPT !.pc = "dedup", !.url = u]]
            PROVE  sh'[r].pc = "dedup"
        BY <1>0, <2>0, <4>1 DEF ShortenState
      <4>2. sh'[r].pc = "dedup" \/ ShortenAnswer(r, "400")  BY <3>6, <4>1 DEF ReceiveShorten
      <4> QED  BY <1>0, <4>2, ShortenWrites
    <3>7. CASE DedupCheck(r)
      <4>1. ASSUME NEW i, sh' = [sh EXCEPT ![r] =
                                   [@ EXCEPT !.pc = "done", !.reply = "201", !.id = i,
                                             !.hash = urls[i].hash, !.result = urls[i].vt]]
            PROVE  sh'[r].pc = "done"
        BY <1>0, <2>0, <4>1 DEF ShortenState
      <4>2. sh'[r].pc = "done" \/ ShortenGoto(r, "vtcache") \/ ShortenAnswer(r, "500")
        BY <3>7, <4>1 DEF DedupCheck
      <4> QED  BY <1>0, <4>2, ShortenWrites
    <3> QED  BY <1>1, <3>1, <3>2, <3>3, <3>4, <3>5, <3>6, <3>7 DEF ShortenStep
  <2> QED  BY <1>0, <2>1, <2>2
<1>2. CASE Crash
  <2>1. \A r \in Shorteners : sh'[r] = sh[r] \/ (sh'[r].pc = "done" /\ sh'[r].reply = "crash")
    BY <1>0, <1>2, LostState DEF Crash
  <2> QED  BY <1>0, <2>1
<1>3. CASE UNCHANGED sh  BY <1>0, <1>3
<1> QED  BY <1>1, <1>2, <1>3 DEF Next, vars

\* No key is written for it.
LEMMA SealedKeys ==
  ASSUME TypeOK, TableInv, RedirectInv, NEW id, Sealed(id), [Next]_vars,
         id \in Ids', urls'[id].hash = urls[id].hash
  PROVE  \A k \in urlKeys' : k.url # BadUrl => ~Names(k.hash, id)'
<1>0. \A h : Names(h, id)' <=> Names(h, id)  BY DEF Names, Sealed
<1>1. \A k \in urlKeys : k.url # BadUrl => ~Names(k.hash, id)  BY DEF Sealed
<1>2. ASSUME urlKeys' \subseteq urlKeys
      PROVE  \A k \in urlKeys' : k.url # BadUrl => ~Names(k.hash, id)'
  BY <1>0, <1>1, <1>2
<1>3. ASSUME NEW h, NEW u, NEW vt, NEW ttl, SetUrlKey(h, u, vt, ttl) \/ UNCHANGED urlKeys,
             u # BadUrl => ~Names(h, id)
      PROVE  \A k \in urlKeys' : k.url # BadUrl => ~Names(k.hash, id)'
  <2> DEFINE k0 == [hash |-> h, url |-> u, vt |-> vt, exp |-> ExpiryOf(ttl)]
  <2>1. urlKeys' \subseteq urlKeys \cup {k0}  BY <1>3 DEF SetUrlKey, WithKey
  <2>2. k0.url # BadUrl => ~Names(k0.hash, id)  BY <1>3
  <2> HIDE DEF k0
  <2> QED  BY <1>0, <1>1, <2>1, <2>2
<1>4. ASSUME NEW r \in Shorteners, CacheNewUrl(r)
      PROVE  \A k \in urlKeys' : k.url # BadUrl => ~Names(k.hash, id)'
  <2>1. sh[r].id # id  BY <1>4 DEF CacheNewUrl, Sealed
  <2>2. sh[r].id \in Ids /\ SameHash(urls[sh[r].id].hash, sh[r].hash)
    BY <1>4 DEF CacheNewUrl, TableInv, Good, Names
  <2>3. ~Names(sh[r].hash, id)
    BY <2>1, <2>2, SameHashEuclidean DEF Names, TableInv
  <2> QED  BY <1>3, <1>4, <2>3 DEF CacheNewUrl
<1>5. ASSUME NEW r \in Redirectors, FillUrlKey(r)
      PROVE  \A k \in urlKeys' : k.url # BadUrl => ~Names(k.hash, id)'
  <2>1. ~Names(rd[r].hash, id)  BY <1>5 DEF FillUrlKey, Sealed, RedirectInv
  <2> QED  BY <1>3, <1>5, <2>1 DEF FillUrlKey
<1>6. CASE CorruptKey
  <2>1. PICK h \in ReqHashes : SetUrlKey(h, BadUrl, "clean", CacheTTL)  BY <1>6 DEF CorruptKey
  <2> QED  BY <1>3, <2>1
<1>7. CASE UNCHANGED urlKeys  BY <1>2, <1>7
<1> QED
  BY <1>2, <1>4, <1>5, <1>6, <1>7, CacheShrinks
     DEF Next, ShortenStep, RedirectStep, CacheNewMeta, FillMetaKey, Environment, Crash, vars, store

\* No redirect picks it up.
LEMMA SealedRedirect ==
  ASSUME TypeOK, TableInv, NEW id, Sealed(id), [Next]_vars,
         id \in Ids', urls'[id].hash = urls[id].hash
  PROVE  \A q \in Redirectors :
           rd'[q].pc \in {"seturl", "setmeta", "serve"} /\ rd'[q].url # BadUrl => ~Names(rd[q].hash, id)'
<1>0. /\ \A h : Names(h, id)' <=> Names(h, id)
      /\ id \in Ids /\ urls[id].vt = "malicious"
      /\ rd \in [Redirectors -> RedirectState]
  BY DEF Names, Sealed, TypeOK, RedirectTypeOK
<1>1. \A q \in Redirectors :
        rd[q].pc \in {"seturl", "setmeta", "serve"} /\ rd[q].url # BadUrl => ~Names(rd[q].hash, id)
  BY DEF Sealed
<1>2. ASSUME NEW q \in Redirectors, rd'[q] = rd[q] \/ rd'[q].pc = "done"
      PROVE  rd'[q].pc \in {"seturl", "setmeta", "serve"} /\ rd'[q].url # BadUrl => ~Names(rd[q].hash, id)'
  <2>1. CASE rd'[q] = rd[q]
    <3>1. ASSUME NEW h, h = rd[q].hash  PROVE Names(h, id)' <=> Names(rd[q].hash, id)
      BY <1>0, <3>1
    <3> QED  BY <1>1, <2>1, <3>1 DEF Names
  <2>2. CASE rd'[q].pc = "done"  BY <2>2
  <2> QED  BY <1>2, <2>1, <2>2
<1>3. ASSUME NEW r \in Redirectors, RedirectStep(r),
             rd'[r].pc \in {"seturl", "setmeta", "serve"}, rd'[r].url # BadUrl
      PROVE  ~Names(rd'[r].hash, id)
  <2>0. rd[r] \in RedirectState  BY <1>0
  <2>1. \A code : RedirectAnswer(r, code) => rd'[r].pc = "done"
    BY <1>0, <2>0 DEF RedirectAnswer, RedirectState
  <2>2. ASSUME NEW h \in ReqHashes, LookupCache(r, h)  PROVE ~Names(rd'[r].hash, id)
    <3>1. CASE \/ rd' = [rd EXCEPT ![r] = [@ EXCEPT !.pc = "done", !.hash = h, !.reply = "404"]]
               \/ rd' = [rd EXCEPT ![r] = [@ EXCEPT !.pc = "find", !.hash = h]]
      <4>1. rd'[r].pc \in {"done", "find"}  BY <1>0, <2>0, <3>1 DEF RedirectState
      <4> QED  BY <1>3, <4>1
    <3>2. ASSUME NEW k \in urlKeys, k.hash = h,
                 rd' = [rd EXCEPT ![r] =
                          [@ EXCEPT !.hash = h, !.url = k.url, !.id = MetaId(h), !.vt = k.vt,
                                    !.pc = IF k.vt = "malicious" THEN "evict" ELSE "serve"]]
          PROVE  ~Names(rd'[r].hash, id)
      <4>1. rd'[r] = [rd[r] EXCEPT !.hash = h, !.url = k.url, !.id = MetaId(h), !.vt = k.vt,
                                   !.pc = IF k.vt = "malicious" THEN "evict" ELSE "serve"]
        BY <1>0, <3>2
      <4>2. rd'[r].hash = h /\ rd'[r].url = k.url
        BY <2>0, <4>1 DEF RedirectState
      <4> QED  BY <1>3, <3>2, <4>2 DEF Sealed
    <3> QED  BY <2>2, <3>1, <3>2 DEF LookupCache, Get
  <2>3. CASE FindRow(r)
    <3>1. PICK j \in FindByHash(rd[r].hash) :
            /\ Resolution(urls[j]) # "expired"
            /\ rd' = [rd EXCEPT ![r] =
                        [@ EXCEPT !.url = urls[j].url, !.id = j, !.vt = urls[j].vt,
                                  !.pc = IF Resolution(urls[j]) = "malicious" THEN "evict" ELSE "seturl"]]
      BY <1>3, <2>1, <2>3 DEF FindRow, FindError
    <3>2. rd'[r] = [rd[r] EXCEPT !.url = urls[j].url, !.id = j, !.vt = urls[j].vt,
                                 !.pc = IF Resolution(urls[j]) = "malicious" THEN "evict" ELSE "seturl"]
      BY <1>0, <3>1
    <3>3. /\ rd'[r].hash = rd[r].hash
          /\ rd'[r].pc = IF Resolution(urls[j]) = "malicious" THEN "evict" ELSE "seturl"
      BY <2>0, <3>2 DEF RedirectState
    <3>4. Resolution(urls[j]) # "malicious"  BY <1>3, <3>3
    <3>5. urls[id].exp \in Nat /\ now \in Nat  BY <1>0 DEF TypeOK, StoreTypeOK, Ids, Row
    <3>6. Resolution(urls[id]) \in {"expired", "malicious"}
      BY <1>0, <3>5 DEF Resolution
    <3>7. j \in Ids /\ j # id /\ SameHash(urls[j].hash, rd[r].hash)
      BY <3>1, <3>4, <3>6 DEF FindByHash
    <3>8. ~Names(rd[r].hash, id)
      BY <1>0, <3>7, SameHashEuclidean DEF Names, TableInv
    <3> QED  BY <3>3, <3>8
  <2>4. CASE FillUrlKey(r) \/ FillMetaKey(r)
    <3>1. /\ rd[r].pc \in {"seturl", "setmeta"}
          /\ rd' = [rd EXCEPT ![r] = [@ EXCEPT !.pc = "setmeta"]] \/ rd' = [rd EXCEPT ![r] = [@ EXCEPT !.pc = "serve"]]
      BY <2>4 DEF FillUrlKey, FillMetaKey
    <3>2. rd'[r].hash = rd[r].hash /\ rd'[r].url = rd[r].url
      BY <1>0, <2>0, <3>1 DEF RedirectState
    <3> QED  BY <1>1, <1>3, <3>1, <3>2
  <2>5. CASE RefuseMalicious(r) \/ Serve(r)
    BY <1>3, <2>1, <2>5 DEF RefuseMalicious, Serve
  <2> QED  BY <1>3, <2>2, <2>3, <2>4, <2>5 DEF RedirectStep
<1>4. ASSUME NEW r \in Redirectors, RedirectStep(r)
      PROVE  \A q \in Redirectors :
               rd'[q].pc \in {"seturl", "setmeta", "serve"} /\ rd'[q].url # BadUrl => ~Names(rd[q].hash, id)'
  <2>1. ASSUME NEW q \in Redirectors, q # r  PROVE rd'[q] = rd[q]
    BY <1>4, <2>1, RedirectWrites DEF TypeOK
  <2>2. ASSUME NEW h, h = rd'[r].hash, rd'[r].pc \in {"seturl", "setmeta", "serve"}, rd'[r].url # BadUrl
        PROVE  ~Names(h, id)'
    BY <1>0, <1>3, <1>4, <2>2
  <2>3. rd'[r].pc \in {"seturl", "setmeta", "serve"} /\ rd'[r].url # BadUrl => ~Names(rd[r].hash, id)'
    BY <2>2
  <2> QED  BY <1>2, <2>1, <2>3
<1>5. CASE Crash
  <2>1. \A q \in Redirectors : rd'[q] = rd[q] \/ rd'[q].pc = "done"
    BY <1>0, <1>5, LostState DEF Crash
  <2> QED  BY <1>2, <2>1
<1>6. CASE UNCHANGED rd  BY <1>2, <1>6
<1> QED  BY <1>4, <1>5, <1>6 DEF Next, vars

\* Serve alone answers 301, and with a URL that passed its scheme check.
LEMMA SentOnServes ==
  ASSUME TypeOK, NEW r \in Redirectors, RedirectStep(r), SentOn(r)
  PROVE  rd[r].pc = "serve" /\ rd[r].url # BadUrl /\ rd'[r].hash = rd[r].hash
<1>0. rd \in [Redirectors -> RedirectState] /\ rd[r] \in RedirectState
  BY DEF TypeOK, RedirectTypeOK
<1>1. ASSUME NEW code, RedirectAnswer(r, code)
      PROVE  rd'[r].reply = code /\ rd'[r].hash = rd[r].hash
  BY <1>0, <1>1 DEF RedirectAnswer, RedirectState
<1>2. ASSUME NEW h \in ReqHashes, LookupCache(r, h)  PROVE FALSE
  <2>1. CASE rd' = [rd EXCEPT ![r] = [@ EXCEPT !.pc = "done", !.hash = h, !.reply = "404"]]
    <3>1. rd'[r].reply = "404"  BY <1>0, <2>1 DEF RedirectState
    <3> QED  BY <3>1 DEF SentOn
  <2>2. ASSUME NEW k \in Get(h),
               rd' = [rd EXCEPT ![r] =
                        [@ EXCEPT !.hash = h, !.url = k.url, !.id = MetaId(h), !.vt = k.vt,
                                  !.pc = IF k.vt = "malicious" THEN "evict" ELSE "serve"]]
        PROVE  FALSE
    <3>1. rd'[r].reply = rd[r].reply  BY <1>0, <2>2 DEF RedirectState
    <3> QED  BY <3>1 DEF SentOn
  <2>3. CASE rd' = [rd EXCEPT ![r] = [@ EXCEPT !.pc = "find", !.hash = h]]
    <3>1. rd'[r].reply = rd[r].reply  BY <1>0, <2>3 DEF RedirectState
    <3> QED  BY <3>1 DEF SentOn
  <2> QED  BY <1>2, <2>1, <2>2, <2>3 DEF LookupCache
<1>3. ASSUME FindRow(r)  PROVE FALSE
  <2>1. CASE FindError(r)  BY <1>1, <2>1 DEF FindError, SentOn
  <2>2. ASSUME NEW id \in FindByHash(rd[r].hash), RedirectAnswer(r, "410")  PROVE FALSE
    BY <1>1, <2>2 DEF SentOn
  <2>3. ASSUME NEW id \in FindByHash(rd[r].hash),
               rd' = [rd EXCEPT ![r] =
                        [@ EXCEPT !.url = urls[id].url, !.id = id, !.vt = urls[id].vt,
                                  !.pc = IF Resolution(urls[id]) = "malicious" THEN "evict" ELSE "seturl"]]
        PROVE  FALSE
    <3>1. rd'[r].reply = rd[r].reply  BY <1>0, <2>3 DEF RedirectState
    <3> QED  BY <3>1 DEF SentOn
  <2> QED  BY <1>3, <2>1, <2>2, <2>3 DEF FindRow
<1>4. ~FillUrlKey(r) /\ ~FillMetaKey(r)
  BY <1>0 DEF FillUrlKey, FillMetaKey, SentOn, RedirectState
<1>5. ~RefuseMalicious(r)  BY <1>1 DEF RefuseMalicious, SentOn
<1>6. CASE Serve(r)  BY <1>1, <1>6 DEF Serve, SentOn
<1> QED  BY <1>2, <1>3, <1>4, <1>5, <1>6 DEF RedirectStep

\* No redirect is sent on under the hash of a sealed row.
LEMMA SealedUnserved ==
  ASSUME TypeOK, NEW id, Sealed(id), [Next]_vars, NEW r \in Redirectors, SentOn(r)
  PROVE  ~Names(rd'[r].hash, id)
<1>1. ASSUME NEW q \in Redirectors, RedirectStep(q)  PROVE ~Names(rd'[r].hash, id)
  <2>1. q = r  BY <1>1, RedirectWrites DEF TypeOK, SentOn
  <2>2. rd[r].pc = "serve" /\ rd[r].url # BadUrl /\ rd'[r].hash = rd[r].hash
    BY <1>1, <2>1, SentOnServes
  <2> QED  BY <2>2 DEF Sealed
<1>2. ~UNCHANGED rd  BY DEF SentOn
<1>3. ~Crash
  <2>1. rd[r] \in RedirectState  BY DEF TypeOK, RedirectTypeOK
  <2>2. Lost(rd[r]) = rd[r] \/ Lost(rd[r]).reply = "crash"  BY <2>1, LostState
  <2> QED  BY <2>2 DEF Crash, SentOn
<1> QED  BY <1>1, <1>2, <1>3 DEF Next, vars

\* Once a malicious row is out of the cache and out of every request's hands,
\* no step of any request, of the rescanner, of a crash or of a fault brings
\* it back, and no redirect answers with it.
THEOREM BlockHolds == Spec => SealedForever
<1>1. TypeOK /\ ServiceInv /\ [Next]_vars
      => [\A id \in 1 .. MaxId : Sealed(id) =>
            Sealed(id)' /\ \A r \in Redirectors : SentOn(r) => ~Names(rd'[r].hash, id)]_vars
  <2> SUFFICES ASSUME TypeOK, ServiceInv, [Next]_vars, NEW id \in 1 .. MaxId, Sealed(id)
               PROVE  Sealed(id)' /\ \A r \in Redirectors : SentOn(r) => ~Names(rd'[r].hash, id)
    OBVIOUS
  <2>0. LocalsOK /\ TableInv /\ CacheInv /\ RedirectInv  BY DEF ServiceInv
  <2>1. Keeps  BY InvStep
  <2>2. id \in Ids /\ id \notin HashPending  BY DEF Sealed, HashPending
  <2>3. urls'[id].hash = urls[id].hash  BY <2>1, <2>2 DEF Keeps
  <2>4. id \in Ids' /\ urls'[id].vt = "malicious"  BY <2>0, SealedStatus
  <2>5. id \notin rs'.todo /\ (rs'.id = id => rs'.pc \notin {"scan", "store"})  BY SealedRescan
  <2>6. \A r \in Shorteners : sh'[r].id = id => sh'[r].pc \notin {"hash", "result", "seturl"}
    BY <2>0, SealedShorten
  <2>7. \A k \in urlKeys' : k.url # BadUrl => ~Names(k.hash, id)'
    BY <2>0, <2>3, <2>4, SealedKeys
  <2>8. \A r \in Redirectors :
          rd'[r].pc \in {"seturl", "setmeta", "serve"} /\ rd'[r].url # BadUrl => ~Names(rd[r].hash, id)'
    BY <2>0, <2>3, <2>4, SealedRedirect
  <2>9. \A r \in Redirectors : SentOn(r) => ~Names(rd'[r].hash, id)
    BY SealedUnserved
  <2> QED  BY <2>4, <2>5, <2>6, <2>7, <2>8, <2>9 DEF Sealed
<1> QED  BY <1>1, ServiceCorrect, PTL DEF Spec, SealedForever
====
