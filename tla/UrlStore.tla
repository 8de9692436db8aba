------------------------------ MODULE UrlStore ------------------------------
(***************************************************************************)
(* The state every request of the service shares: the MySQL table `urls`   *)
(* (internal/repository/mysql/url_repository.go, migrations 1, 3 and 5),    *)
(* the Redis keys snip:url:{hash}, snip:meta:{hash} and snip:vt:{sha256}    *)
(* (internal/repository/redis/cache.go) and the clock, in days.  The        *)
(* services call the repository methods defined here from their actions;   *)
(* every call is a step of its own, because nothing in the code holds a    *)
(* transaction or a lock from one call to the next.                        *)
(***************************************************************************)
EXTENDS Base62, FiniteSets

CONSTANTS
  Urls,          \* normalised URLs that pass ValidateURL
  BadUrl,        \* a Redis value whose scheme is not http or https
  UrlKey,        \* original_url -> its sort key under the column's collation
  ReqHashes,     \* hashes that clients put in the path of a request
  ExpDays,       \* URL_EXPIRATION_DAYS
  CacheTTL,      \* REDIS_TTL_DAYS
  VTCacheTTL,    \* VT_CACHE_TTL_HOURS, in the clock's unit
  ScanOutcomes,  \* url -> the statuses its scans may return
  LongUrls,      \* URLs whose VirusTotal permalink exceeds VARCHAR(512)
  Faults,        \* what can go wrong: "mysql", "redis", "corrupt", "crash"
  SeedRows,      \* rows 1, 2, ... that an earlier run left in the table
  MaxId,         \* bound on AUTO_INCREMENT
  MaxTime        \* bound on the clock

VARIABLES
  urls,      \* the table: id -> row (no row is ever deleted)
  nextId,    \* AUTO_INCREMENT; a refused INSERT uses up an id too
  urlKeys,   \* snip:url:{hash}  -> original URL and VT status
  metaKeys,  \* snip:meta:{hash} -> url id
  vtKeys,    \* snip:vt:{sha256(url)} -> scan result
  now        \* the clock

store == << urls, nextId, urlKeys, metaKeys, vtKeys, now >>

ScanStatus == {"clean", "malicious", "unverified"}
VTStatus == ScanStatus \cup {"pending"}

NoHash == << >>    \* the empty hash with which Create inserts a row
Never == 0         \* expiry of a Redis key that was set without a TTL

Hash == {NoHash} \cup {Encode(i) : i \in 1 .. MaxId} \cup ReqHashes

Row == [hash : Hash, url : Urls, exp : Nat, vt : VTStatus]
UrlEntry == [hash : Hash, url : Urls \cup {BadUrl}, vt : VTStatus, exp : Nat]
MetaEntry == [hash : Hash, id : Nat, exp : Nat]
VTEntry == [url : Urls, status : ScanStatus, exp : Nat]

ASSUME StoreAssumption ==
  /\ BadUrl \notin Urls
  /\ DOMAIN UrlKey = Urls
  /\ ReqHashes \subseteq Seq(Nat)
  /\ ExpDays \in Nat /\ CacheTTL \in Nat /\ VTCacheTTL \in Nat
  /\ ScanOutcomes \in [Urls -> SUBSET ScanStatus]
  /\ LongUrls \subseteq Urls
  /\ MaxId \in Nat /\ MaxTime \in Nat
  /\ SeedRows \in Seq(Row)
  /\ Len(SeedRows) <= MaxId
  /\ \A i \in DOMAIN SeedRows : SeedRows[i].hash = Encode(i)
  /\ \A i, j \in DOMAIN SeedRows :
       SameHash(SeedRows[i].hash, SeedRows[j].hash) => i = j

StoreTypeOK ==
  /\ DOMAIN urls \subseteq 1 .. MaxId
  /\ urls \in [DOMAIN urls -> Row]
  /\ nextId \in 1 .. MaxId + 1
  /\ urlKeys \subseteq UrlEntry
  /\ metaKeys \subseteq MetaEntry
  /\ vtKeys \subseteq VTEntry
  /\ now \in Nat

\* Redis starts cold: after a restart it holds nothing the table does not.
StoreInit ==
  /\ urls = SeedRows
  /\ nextId = Len(SeedRows) + 1
  /\ urlKeys = {}
  /\ metaKeys = {}
  /\ vtKeys = {}
  /\ now = 0

-----------------------------------------------------------------------------
(* MySQL.  A method that fails returns an error; a write that fails may     *)
(* have reached the server or not (connection lost, context cancelled).     *)

MySQLFails == "mysql" \in Faults

Ids == DOMAIN urls

FindByHash(h) == {id \in Ids : SameHash(urls[id].hash, h)}

\* Mutant: any live row deduplicates.
FindAnyLive(u) == {id \in Ids : urls[id].exp > now}

FindByOriginalURL(u) ==
  {id \in Ids : UrlKey[urls[id].url] = UrlKey[u] /\ urls[id].exp > now}

\* The oldest `limit` rows of the given status that have not expired.
FindByVTStatus(status, limit) ==
  LET match == {id \in Ids : urls[id].vt = status /\ urls[id].exp > now}
  IN  {id \in match : Cardinality({j \in match : j < id}) < limit}

\* Mutant: the statement does not name a status.
InsertedWithoutStatus(u) ==
  [i \in Ids \cup {nextId} |->
     IF i = nextId THEN [hash |-> NoHash, url |-> u, exp |-> now + ExpDays, vt |-> ""]
     ELSE urls[i]]

\* INSERT ... VALUES ('', url, expires_at, 'pending').
Inserted(u) ==
  [i \in Ids \cup {nextId} |->
     IF i = nextId THEN [hash |-> NoHash, url |-> u, exp |-> now + ExpDays, vt |-> "pending"]
     ELSE urls[i]]

WithHash(id, h) == [urls EXCEPT ![id] = [@ EXCEPT !.hash = h]]

WithVT(id, status) == [urls EXCEPT ![id] = [@ EXCEPT !.vt = status]]

\* Mutant: the key distinguishes case, the lookup does not.
HashTakenExactly(id, h) == \E j \in Ids \ {id} : urls[j].hash = h

\* The UNIQUE key on urls.hash refuses h for row id (0: for a new row).
HashTaken(id, h) == \E j \in Ids \ {id} : SameHash(urls[j].hash, h)

\* One UPDATE of the table to `table`, as seen by a caller that goes on
\* whether or not it fails.
Exec(table) ==
  \/ urls' = table
  \/ MySQLFails /\ UNCHANGED urls

\* A verdict carries a permalink in which the whole URL is encoded, longer by
\* a third; an inconclusive result carries none.
PermalinkFits(id, status) == status = "unverified" \/ urls[id].url \notin LongUrls

\* The permalink is written with the status: when it is too long for its
\* column, strict mode refuses the whole UPDATE.
UpdateVTResult(id, status) ==
  Exec(IF PermalinkFits(id, status) THEN WithVT(id, status) ELSE urls)

-----------------------------------------------------------------------------
(* Redis.  Set is a pipeline of two SET commands, which other clients'      *)
(* commands may separate; Get (MGET) and Delete (DEL of both keys) are      *)
(* single commands.                                                        *)

RedisFails == "redis" \in Faults

\* SET ... ttl: a TTL of 0 sets no expiry.
ExpiryOf(ttl) == IF ttl = 0 THEN Never ELSE now + ttl

WithKey(keys, k) == {j \in keys : j.hash # k.hash} \cup {k}

Without(keys, h) == {k \in keys : k.hash # h}

MetaId(h) ==
  IF \E m \in metaKeys : m.hash = h
  THEN (CHOOSE m \in metaKeys : m.hash = h).id
  ELSE 0

\* Get and GetRaw: the entry of a key, {} when there is none.
Get(h) == {k \in urlKeys : k.hash = h}

GetRaw(u) == {k \in vtKeys : k.url = u}

SetUrlKey(h, u, vt, ttl) ==
  urlKeys' = WithKey(urlKeys, [hash |-> h, url |-> u, vt |-> vt, exp |-> ExpiryOf(ttl)])

SetMetaKey(h, id, ttl) ==
  metaKeys' = WithKey(metaKeys, [hash |-> h, id |-> id, exp |-> ExpiryOf(ttl)])

\* DEL, whose error the callers only log.
Delete(h) ==
  \/ urlKeys' = Without(urlKeys, h) /\ metaKeys' = Without(metaKeys, h)
  \/ RedisFails /\ UNCHANGED << urlKeys, metaKeys >>

SetRaw(u, status) ==
  vtKeys' = {k \in vtKeys : k.url # u}
              \cup {[url |-> u, status |-> status, exp |-> ExpiryOf(VTCacheTTL)]}

-----------------------------------------------------------------------------
Alive(keys, t) == {k \in keys : k.exp = Never \/ k.exp > t}

\* A day passes; Redis drops the keys whose TTL has run out.
Tick ==
  /\ now < MaxTime
  /\ now' = now + 1
  /\ urlKeys' = Alive(urlKeys, now + 1)
  /\ metaKeys' = Alive(metaKeys, now + 1)
  /\ vtKeys' = Alive(vtKeys, now + 1)
  /\ UNCHANGED << urls, nextId >>

\* Redis evicts a key before its TTL (memory pressure, FLUSHALL, restart).
EvictKey ==
  /\ RedisFails
  /\ \/ \E k \in urlKeys : urlKeys' = urlKeys \ {k} /\ UNCHANGED metaKeys
     \/ \E m \in metaKeys : metaKeys' = metaKeys \ {m} /\ UNCHANGED urlKeys
  /\ UNCHANGED << urls, nextId, vtKeys, now >>

\* Another program writes a value that no Set of this service writes: the
\* case the redirect handler calls cache poisoning.
CorruptKey ==
  /\ "corrupt" \in Faults
  /\ \E h \in ReqHashes : SetUrlKey(h, BadUrl, "clean", CacheTTL)
  /\ UNCHANGED << urls, nextId, metaKeys, vtKeys, now >>
=============================================================================
