------------------------------ MODULE Reports -------------------------------
(***************************************************************************)
(* POST /api/report/{hash}: ReportHandler.Handle                            *)
(* (internal/handler/report.go), reportService.Report                       *)
(* (internal/service/report.go) and the table url_reports                   *)
(* (internal/repository/mysql/report_repository.go, migration 4).           *)
(***************************************************************************)
EXTENDS UrlStore

CONSTANTS
  Reporters,     \* report requests; each is made at most once
  IPs,           \* client addresses
  AnonymizeIP,   \* address -> the network that is stored
  Threshold      \* REPORT_AUTO_BLOCK_THRESHOLD

ASSUME ReportsAssumption ==
  /\ DOMAIN AnonymizeIP = IPs
  /\ Threshold \in Int

AnonIPs == {AnonymizeIP[ip] : ip \in IPs}

VARIABLES
  reports,   \* url_reports: which networks reported which url id
  rp         \* request -> where it is, its locals and its reply

ReportPC == {"idle", "insert", "count", "block", "evict", "done"}

ReportReply == {"none", "201", "400", "404", "409", "500", "crash"}

Uncounted == -1   \* CountDistinctIPsByURLID not (successfully) called

ReportState ==
  [pc : ReportPC, hash : Hash, id : Nat, ip : AnonIPs \cup {"none"},
   count : Nat \cup {Uncounted}, reply : ReportReply]

ReportTypeOK ==
  /\ reports \subseteq [id : Nat, ip : AnonIPs] /\ IsFiniteSet(reports)
  /\ rp \in [Reporters -> ReportState]

ReportInit ==
  /\ reports = {}
  /\ rp = [r \in Reporters |->
             [pc |-> "idle", hash |-> NoHash, id |-> 0, ip |-> "none",
              count |-> Uncounted, reply |-> "none"]]

ReportAnswer(r, code) ==
  rp' = [rp EXCEPT ![r] = [@ EXCEPT !.pc = "done", !.reply = code]]

\* Decode the body; FindByHash, which also finds expired and blocked rows;
\* only then is the reason checked.
FindReported(r, h, ip) ==
  /\ rp[r].pc = "idle"
  /\ \/ FindByHash(h) = {} /\ ReportAnswer(r, "404")
     \/ ReportAnswer(r, "400")
     \/ MySQLFails /\ ReportAnswer(r, "500")
     \/ \E id \in FindByHash(h) :
          rp' = [rp EXCEPT ![r] = [@ EXCEPT !.pc = "insert", !.hash = h, !.id = id,
                                            !.ip = AnonymizeIP[ip]]]
  /\ UNCHANGED << store, reports >>

\* Mutant: INSERT IGNORE.
InsertReportIgnore(r) ==
  /\ rp[r].pc = "insert"
  /\ reports' = reports \cup {[id |-> rp[r].id, ip |-> rp[r].ip]}
  /\ rp' = [rp EXCEPT ![r] = [@ EXCEPT !.pc = "count"]]
  /\ UNCHANGED store

\* Mutant: a failed INSERT is logged, and the reports are counted all the same.
InsertReportLogged(r) ==
  LET rep == [id |-> rp[r].id, ip |-> rp[r].ip] IN
  /\ rp[r].pc = "insert"
  /\ \/ rep \in reports /\ ReportAnswer(r, "409") /\ UNCHANGED reports
     \/ /\ rep \notin reports /\ reports' = reports \cup {rep}
        /\ rp' = [rp EXCEPT ![r] = [@ EXCEPT !.pc = "count"]]
     \/ MySQLFails /\ rp' = [rp EXCEPT ![r] = [@ EXCEPT !.pc = "count"]] /\ UNCHANGED reports
  /\ UNCHANGED store

\* INSERT under UNIQUE (url_id, reporter_ip).
InsertReport(r) ==
  LET rep == [id |-> rp[r].id, ip |-> rp[r].ip] IN
  /\ rp[r].pc = "insert"
  /\ \/ rep \in reports /\ ReportAnswer(r, "409") /\ UNCHANGED reports
     \/ /\ rep \notin reports
        /\ reports' = reports \cup {rep}
        /\ \/ rp' = [rp EXCEPT ![r] = [@ EXCEPT !.pc = "count"]]
           \/ MySQLFails /\ ReportAnswer(r, "500")
     \/ MySQLFails /\ ReportAnswer(r, "500") /\ UNCHANGED reports
  /\ UNCHANGED store

CountDistinctIPs(id) == Cardinality({rep \in reports : rep.id = id})

\* Mutant: one report too many is needed.
BlocksAbove(count) == count > Threshold

Blocks(count) == count >= Threshold

CountReports(r) ==
  LET n == CountDistinctIPs(rp[r].id) IN
  /\ rp[r].pc = "count"
  /\ \/ rp' = [rp EXCEPT ![r] =
                 IF Blocks(n) THEN [@ EXCEPT !.count = n, !.pc = "block"]
                 ELSE [@ EXCEPT !.count = n, !.pc = "done", !.reply = "201"]]
     \/ MySQLFails /\ ReportAnswer(r, "201")
  /\ UNCHANGED << store, reports >>

\* Mutant: the cache is cleared but the row is not marked.
BlockInCacheOnly(r) ==
  /\ rp[r].pc = "block"
  /\ rp' = [rp EXCEPT ![r] = [@ EXCEPT !.pc = "evict"]]
  /\ UNCHANGED << store, reports >>

\* UpdateVTStatus(malicious): a failure is logged, eviction follows anyway.
BlockUrl(r) ==
  /\ rp[r].pc = "block"
  /\ Exec(WithVT(rp[r].id, "malicious"))
  /\ rp' = [rp EXCEPT ![r] = [@ EXCEPT !.pc = "evict"]]
  /\ UNCHANGED << nextId, urlKeys, metaKeys, vtKeys, now, reports >>

\* Mutant: waits for a key to delete.
EvictPresent(r) ==
  /\ rp[r].pc = "evict" /\ \E k \in urlKeys : k.hash = rp[r].hash
  /\ Delete(rp[r].hash)
  /\ ReportAnswer(r, "201")
  /\ UNCHANGED << urls, nextId, vtKeys, now, reports >>

\* The keys deleted are those of the hash in the request.
EvictBlocked(r) ==
  /\ rp[r].pc = "evict"
  /\ Delete(rp[r].hash)
  /\ ReportAnswer(r, "201")
  /\ UNCHANGED << urls, nextId, vtKeys, now, reports >>

ReportStep(r) ==
  \/ \E h \in ReqHashes, ip \in IPs : FindReported(r, h, ip)
  \/ InsertReport(r) \/ CountReports(r) \/ BlockUrl(r) \/ EvictBlocked(r)
=============================================================================
