----------------------------- MODULE Rescanner ------------------------------
(***************************************************************************)
(* The background goroutine Rescanner.Run (internal/scanner/rescan.go): on  *)
(* every tick it lists unverified rows and, for one after the other, scans  *)
(* the URL, stores the result and evicts the URL when it is malicious.     *)
(***************************************************************************)
EXTENDS UrlStore

CONSTANT RescanLimit   \* LIMIT 100 of FindByVTStatus

ASSUME RescannerAssumption == RescanLimit \in Nat

VARIABLE rs   \* the cycle: rows still to do, the current row and its result

RescanPC == {"idle", "next", "scan", "store", "evict"}

RescanTypeOK ==
  rs \in [pc : RescanPC, todo : SUBSET Nat, id : Nat, result : VTStatus]

RescanInit == rs = [pc |-> "idle", todo |-> {}, id |-> 0, result |-> "pending"]

\* RunCycle: the list is a snapshot; nothing re-reads a row's status later.
StartCycle ==
  /\ rs.pc = "idle"
  /\ \/ rs' = [rs EXCEPT !.todo = FindByVTStatus("unverified", RescanLimit),
                         !.pc = IF FindByVTStatus("unverified", RescanLimit) = {}
                                THEN "idle" ELSE "next"]
     \/ MySQLFails /\ UNCHANGED rs
  /\ UNCHANGED store

\* Rows are taken oldest first (created_at grows with the id).
NextRow ==
  /\ rs.pc = "next"
  /\ \E id \in rs.todo :
       /\ \A j \in rs.todo : id <= j
       /\ rs' = [rs EXCEPT !.todo = @ \ {id}, !.id = id, !.pc = "scan"]
  /\ UNCHANGED store

\* Scan, on the scanner itself and not through its cache.
Rescan ==
  /\ rs.pc = "scan"
  /\ \E status \in ScanOutcomes[urls[rs.id].url] :
       rs' = [rs EXCEPT !.result = status, !.pc = "store"]
  /\ UNCHANGED store

\* Mutant: a result that cannot be stored ends the cycle.
StopWhenRefused ==
  [rs EXCEPT !.pc = IF rs.todo = {} \/ ~PermalinkFits(rs.id, rs.result) THEN "idle" ELSE "next",
             !.id = 0, !.result = "pending"]

\* After a row: pause for the API quota, then the next row or the end.
AfterRow ==
  [rs EXCEPT !.pc = IF rs.todo = {} THEN "idle" ELSE "next", !.id = 0, !.result = "pending"]

\* UpdateVTResult, whatever the row's status is by now; a failure is logged,
\* and a malicious URL is evicted all the same.
StoreRescan ==
  /\ rs.pc = "store"
  /\ UpdateVTResult(rs.id, rs.result)
  /\ rs' = IF rs.result = "malicious" THEN [rs EXCEPT !.pc = "evict"] ELSE AfterRow
  /\ UNCHANGED << nextId, urlKeys, metaKeys, vtKeys, now >>

EvictRescanned ==
  /\ rs.pc = "evict"
  /\ Delete(urls[rs.id].hash)
  /\ rs' = AfterRow
  /\ UNCHANGED << urls, nextId, vtKeys, now >>

RescanStep == StartCycle \/ NextRow \/ Rescan \/ StoreRescan \/ EvictRescanned
=============================================================================
