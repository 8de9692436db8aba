----------------------------- MODULE ServiceProofs ----------------------------
(***************************************************************************)
(* Arguments about the whole service, from the invariant of SnipProofs,     *)
(* for any number of requests, networks and rows, any threshold and any     *)
(* collation:                                                               *)
(*   - abuse reports: INSERT, COUNT and UPDATE are three calls without a    *)
(*     transaction, between which every other request may run;              *)
(*   - the service implements LinkBook, with every fault of the model;      *)
(*   - every request runs out of steps, and has its answer then.            *)
(***************************************************************************)
EXTENDS SnipProofs

-----------------------------------------------------------------------------
(* What a step of a report does to its own locals and to the table.         *)

Same(r) == rp'[r].id = rp[r].id /\ rp'[r].ip = rp[r].ip

Starts(r) ==
  /\ rp[r].pc = "idle" /\ rp'[r].pc = "insert" /\ rp'[r].reply = rp[r].reply
  /\ UNCHANGED << urls, reports >>

Refused(r) ==
  /\ rp[r].pc \in {"idle", "insert"} /\ rp'[r].pc = "done" /\ rp'[r].reply \in {"400", "404", "409", "500"} /\ Same(r)
  /\ UNCHANGED urls
  /\ \/ UNCHANGED reports
     \/ MySQLFails /\ rp[r].pc = "insert" /\ reports' = reports \cup {[id |-> rp[r].id, ip |-> rp[r].ip]}

Recorded(r) ==
  /\ rp[r].pc = "insert" /\ rp'[r].pc = "count" /\ rp'[r].reply = rp[r].reply /\ Same(r)
  /\ [id |-> rp[r].id, ip |-> rp[r].ip] \notin reports
  /\ reports' = reports \cup {[id |-> rp[r].id, ip |-> rp[r].ip]}
  /\ UNCHANGED urls

Counted(r) ==
  /\ rp[r].pc = "count" /\ Same(r) /\ UNCHANGED << urls, reports >>
  /\ \/ Blocks(CountDistinctIPs(rp[r].id)) /\ rp'[r].pc = "block" /\ rp'[r].reply = rp[r].reply
     \/ ~Blocks(CountDistinctIPs(rp[r].id)) /\ rp'[r].pc = "done"
     \/ MySQLFails /\ rp'[r].pc = "done"

Blocked(r) ==
  /\ rp[r].pc = "block" /\ rp'[r].pc = "evict" /\ rp'[r].reply = rp[r].reply /\ Same(r)
  /\ Exec(WithVT(rp[r].id, "malicious")) /\ UNCHANGED reports

Evicted(r) ==
  rp[r].pc = "evict" /\ rp'[r].pc = "done" /\ Same(r) /\ UNCHANGED << urls, reports >>

\* These are all the steps a report takes.
LEMMA ReportCases ==
  ASSUME ReportTypeOK, NEW r \in Reporters, ReportStep(r)
  PROVE  /\ \A q \in Reporters : q # r => rp'[q] = rp[q]
         /\ Starts(r) \/ Refused(r) \/ Recorded(r) \/ Counted(r) \/ Blocked(r) \/ Evicted(r)
<1>0. rp \in [Reporters -> ReportState] /\ rp[r] \in ReportState  BY DEF ReportTypeOK
<1>1. \A q \in Reporters : q # r => rp'[q] = rp[q]  BY ReportWrites
<1> SUFFICES Starts(r) \/ Refused(r) \/ Recorded(r) \/ Counted(r) \/ Blocked(r) \/ Evicted(r)
  BY <1>1
<1>2. ASSUME NEW code, ReportAnswer(r, code)
      PROVE  rp'[r].pc = "done" /\ rp'[r].reply = code /\ Same(r)
  BY <1>0, <1>2 DEF ReportAnswer, ReportState, Same
<1>3. ASSUME NEW pc, rp' = [rp EXCEPT ![r] = [@ EXCEPT !.pc = pc]]
      PROVE  rp'[r].pc = pc /\ rp'[r].reply = rp[r].reply /\ Same(r)
  BY <1>0, <1>3 DEF ReportState, Same
<1>4. ASSUME NEW h \in ReqHashes, NEW ip \in IPs, FindReported(r, h, ip)
      PROVE  Starts(r) \/ Refused(r)
  <2>1. rp[r].pc = "idle" /\ UNCHANGED << urls, reports >>  BY <1>4 DEF FindReported, store
  <2>2. ASSUME NEW id, rp' = [rp EXCEPT ![r] = [@ EXCEPT !.pc = "insert", !.hash = h, !.id = id,
                                                         !.ip = AnonymizeIP[ip]]]
        PROVE  rp'[r].pc = "insert" /\ rp'[r].reply = rp[r].reply
    BY <1>0, <2>2 DEF ReportState
  <2>3. \/ ReportAnswer(r, "404") \/ ReportAnswer(r, "400") \/ ReportAnswer(r, "500")
        \/ \E id : rp' = [rp EXCEPT ![r] = [@ EXCEPT !.pc = "insert", !.hash = h, !.id = id,
                                                     !.ip = AnonymizeIP[ip]]]
    BY <1>4 DEF FindReported
  <2> QED  BY <1>2, <2>1, <2>2, <2>3 DEF Starts, Refused
<1>5. CASE InsertReport(r)
  <2> DEFINE rep == [id |-> rp[r].id, ip |-> rp[r].ip]
  <2>1. rp[r].pc = "insert" /\ UNCHANGED urls  BY <1>5 DEF InsertReport, store
  <2>2. CASE rep \in reports /\ ReportAnswer(r, "409") /\ UNCHANGED reports
    <3>1. rp'[r].pc = "done" /\ rp'[r].reply = "409" /\ Same(r)  BY <1>2, <2>2
    <3>2. UNCHANGED reports  BY <2>2
    <3> QED  BY <2>1, <3>1, <3>2 DEF Refused
  <2>3. CASE rep \notin reports /\ reports' = reports \cup {rep} /\ rp' = [rp EXCEPT ![r] = [@ EXCEPT !.pc = "count"]]
    <3>1. rp'[r].pc = "count" /\ rp'[r].reply = rp[r].reply /\ Same(r)  BY <1>3, <2>3
    <3> QED  BY <2>1, <2>3, <3>1 DEF Recorded
  <2>4. CASE MySQLFails /\ ReportAnswer(r, "500") /\ (reports' = reports \cup {rep} \/ UNCHANGED reports)
    <3>1. rp'[r].pc = "done" /\ rp'[r].reply = "500" /\ Same(r)  BY <1>2, <2>4
    <3>2. MySQLFails /\ (reports' = reports \cup {rep} \/ UNCHANGED reports)  BY <2>4
    <3> QED  BY <2>1, <3>1, <3>2 DEF Refused
  <2> QED  BY <1>5, <2>2, <2>3, <2>4 DEF InsertReport
<1>6. CASE CountReports(r)
  <2> DEFINE n == CountDistinctIPs(rp[r].id)
  <2>1. rp[r].pc = "count" /\ UNCHANGED << urls, reports >>  BY <1>6 DEF CountReports, store
  <2>2. CASE Blocks(n) /\ rp' = [rp EXCEPT ![r] = [@ EXCEPT !.count = n, !.pc = "block"]]
    <3>1. rp'[r].pc = "block" /\ rp'[r].reply = rp[r].reply /\ Same(r)
      BY <1>0, <2>2 DEF ReportState, Same
    <3> QED  BY <2>1, <2>2, <3>1 DEF Counted
  <2>3. CASE ~Blocks(n) /\ rp' = [rp EXCEPT ![r] = [@ EXCEPT !.count = n, !.pc = "done", !.reply = "201"]]
    <3>1. rp'[r].pc = "done" /\ Same(r)  BY <1>0, <2>3 DEF ReportState, Same
    <3> QED  BY <2>1, <2>3, <3>1 DEF Counted
  <2>4. CASE MySQLFails /\ ReportAnswer(r, "201")
    <3>1. rp'[r].pc = "done" /\ Same(r)  BY <1>2, <2>4
    <3>2. MySQLFails  BY <2>4
    <3> QED  BY <2>1, <3>1, <3>2 DEF Counted
  <2> QED  BY <1>6, <2>2, <2>3, <2>4 DEF CountReports
<1>7. CASE BlockUrl(r)
  <2>1. rp' = [rp EXCEPT ![r] = [@ EXCEPT !.pc = "evict"]]  BY <1>7 DEF BlockUrl
  <2>2. rp'[r].pc = "evict" /\ rp'[r].reply = rp[r].reply /\ Same(r)  BY <1>3, <2>1
  <2> QED  BY <1>7, <2>2 DEF BlockUrl, Blocked
<1>8. CASE EvictBlocked(r)
  <2>1. ReportAnswer(r, "201")  BY <1>8 DEF EvictBlocked
  <2>2. rp'[r].pc = "done" /\ Same(r)  BY <1>2, <2>1
  <2>3. rp[r].pc = "evict" /\ UNCHANGED << urls, reports >>  BY <1>8 DEF EvictBlocked
  <2> QED  BY <2>2, <2>3 DEF Evicted
<1> QED  BY <1>4, <1>5, <1>6, <1>7, <1>8 DEF ReportStep

-----------------------------------------------------------------------------
(* One report per network.                                                  *)

RepOf(r) == [id |-> rp[r].id, ip |-> rp[r].ip]

\* What every step of the service does to the accepted reports: none goes, and
\* at most one request has a report accepted that was not there.
AcceptsOne ==
  /\ reports \subseteq reports' /\ \A rep \in reports' : rep.id \in Ids'
  /\ \A r \in Reporters : rp'[r].pc # "done" => rp'[r].reply = "none"
  /\ \A r \in Reporters : Accepted(r)' => Same(r) /\ (Accepted(r) \/ (RepOf(r) \notin reports /\ RepOf(r) \in reports'))
  /\ \A q, r \in Reporters : Accepted(q)' /\ Accepted(r)' /\ ~Accepted(q) /\ ~Accepted(r) => q = r

\* A report's own step.
LEMMA ReportAccepts ==
  ASSUME ReportTypeOK, LocalsOK, ReportInv, Ids \subseteq Ids', NEW r \in Reporters, ReportStep(r)
  PROVE  AcceptsOne
<1>0. /\ \A rep \in reports : rep.id \in Ids
      /\ \A q \in Reporters : rp[q].pc # "done" => rp[q].reply = "none"
      /\ rp[r].pc \notin {"idle", "done"} => rp[r].id \in Ids
      /\ \A q \in Reporters : Accepted(q) => RepOf(q) \in reports
  BY DEF ReportInv, LocalsOK, RepOf
<1>1. /\ \A q \in Reporters : q # r => rp'[q] = rp[q]
      /\ Starts(r) \/ Refused(r) \/ Recorded(r) \/ Counted(r) \/ Blocked(r) \/ Evicted(r)
  BY ReportCases
<1>2. \A q \in Reporters : q # r => Same(q) /\ (Accepted(q)' <=> Accepted(q))
  BY <1>1 DEF Same, Accepted
<1>3. /\ reports' = reports \/ (rp[r].pc = "insert" /\ reports' = reports \cup {RepOf(r)})
      /\ rp'[r].pc # "done" => rp'[r].reply = "none"
      /\ Accepted(r)' => Same(r) /\ (Accepted(r) \/ (RepOf(r) \notin reports /\ RepOf(r) \in reports'))
  <2>1. CASE Starts(r)  BY <1>0, <2>1 DEF Starts, Accepted
  <2>2. CASE Refused(r)  BY <1>0, <2>2 DEF Refused, Accepted, RepOf
  <2>3. CASE Recorded(r)  BY <1>0, <2>3 DEF Recorded, Accepted, RepOf
  <2>4. CASE Counted(r)  BY <1>0, <2>4 DEF Counted, Accepted
  <2>5. CASE Blocked(r)  BY <1>0, <2>5 DEF Blocked, Accepted
  <2>6. CASE Evicted(r)  BY <1>0, <2>6 DEF Evicted, Accepted
  <2> QED  BY <1>1, <2>1, <2>2, <2>3, <2>4, <2>5, <2>6
<1>4. reports \subseteq reports' /\ \A rep \in reports' : rep.id \in Ids'
  <2>1. rp[r].pc = "insert" => RepOf(r).id \in Ids  BY <1>0 DEF RepOf
  <2> QED  BY <1>0, <1>3, <2>1
<1>5. \A q \in Reporters : rp'[q].pc # "done" => rp'[q].reply = "none"  BY <1>0, <1>1, <1>3
<1>6. \A q \in Reporters : Accepted(q)' => Same(q) /\ (Accepted(q) \/ (RepOf(q) \notin reports /\ RepOf(q) \in reports'))
  BY <1>2, <1>3
<1>7. \A p, q \in Reporters : Accepted(p)' /\ Accepted(q)' /\ ~Accepted(p) /\ ~Accepted(q) => p = q
  BY <1>2
<1> QED  BY <1>4, <1>5, <1>6, <1>7 DEF AcceptsOne

\* Every other step, the crash included, accepts nothing.
LEMMA OthersAccept ==
  ASSUME ReportTypeOK, ReportInv, Ids \subseteq Ids', UNCHANGED reports, UNCHANGED rp \/ Crash
  PROVE  AcceptsOne
<1>0. \A r \in Reporters : rp[r] \in ReportState /\ (rp[r].pc # "done" => rp[r].reply = "none")
  BY DEF ReportTypeOK, ReportInv
<1>1. ASSUME NEW r \in Reporters
      PROVE  rp'[r] = rp[r] \/ (rp'[r].pc = "done" /\ rp'[r].reply = "crash")
  <2>1. rp'[r] = rp[r] \/ rp'[r] = Lost(rp[r])  BY <1>1 DEF Crash
  <2> QED  BY <1>0, <2>1, LostState
<1>2. ASSUME NEW r \in Reporters
      PROVE  (rp'[r].pc # "done" => rp'[r].reply = "none") /\ (Accepted(r)' => Same(r) /\ Accepted(r))
  <2>1. CASE rp'[r] = rp[r]  BY <1>0, <2>1 DEF Accepted, Same
  <2>2. CASE rp'[r].pc = "done" /\ rp'[r].reply = "crash"  BY <2>2 DEF Accepted
  <2> QED  BY <1>1, <2>1, <2>2
<1>3. \A rep \in reports' : rep.id \in Ids'  BY DEF ReportInv
<1> QED  BY <1>2, <1>3 DEF AcceptsOne

\* The invariant of reports is inductive.
LEMMA ReportInvStep ==
  ASSUME TypeOK, LocalsOK, TableInv, ReportInv, [Next]_vars
  PROVE  ReportInv'
<1>1. Ids \subseteq Ids'  BY IdsGrow
<1>2. AcceptsOne
  <2>1. ReportTypeOK  BY DEF TypeOK
  <2>2. \/ \E r \in Reporters : ReportStep(r)
        \/ UNCHANGED reports /\ (UNCHANGED rp \/ Crash)
    BY DEF Next, Crash, vars
  <2> QED  BY <1>1, <2>1, <2>2, ReportAccepts, OthersAccept
<1>3. \A r \in Reporters : Accepted(r) => RepOf(r) \in reports  BY DEF ReportInv, RepOf
<1>4. \A r \in Reporters : Same(r) => RepOf(r)' = RepOf(r)  BY DEF Same, RepOf
<1>5. \A r \in Reporters : Accepted(r)' => RepOf(r)' \in reports'
  BY <1>2, <1>3, <1>4 DEF AcceptsOne
<1>6. ASSUME NEW q \in Reporters, NEW r \in Reporters, Accepted(q)', Accepted(r)', RepOf(q)' = RepOf(r)'
      PROVE  q = r
  <2>1. RepOf(q) = RepOf(r)  BY <1>2, <1>4, <1>6 DEF AcceptsOne
  <2>2. CASE Accepted(q) /\ Accepted(r)
    <3>1. rp[q].id = rp[r].id /\ rp[q].ip = rp[r].ip  BY <2>1 DEF RepOf
    <3> QED  BY <2>2, <3>1 DEF ReportInv
  <2>3. CASE ~Accepted(q) /\ ~Accepted(r)  BY <1>2, <1>6, <2>3 DEF AcceptsOne
  <2>4. CASE Accepted(q) /\ ~Accepted(r)  BY <1>2, <1>3, <1>6, <2>1, <2>4 DEF AcceptsOne
  <2>5. CASE ~Accepted(q) /\ Accepted(r)  BY <1>2, <1>3, <1>6, <2>1, <2>5 DEF AcceptsOne
  <2> QED  BY <2>2, <2>3, <2>4, <2>5
<1>7. \A q, r \in Reporters : rp'[q].id = rp'[r].id /\ rp'[q].ip = rp'[r].ip => RepOf(q)' = RepOf(r)'
  BY DEF RepOf
<1>8. \A r \in Reporters : RepOf(r)' = [id |-> rp'[r].id, ip |-> rp'[r].ip]  BY DEF RepOf
<1> QED  BY <1>2, <1>5, <1>6, <1>7, <1>8 DEF ReportInv, AcceptsOne

\* Whatever fails or crashes, an accepted report is in the table, and it was
\* accepted from one request only.
THEOREM ReportsCorrect == Spec => []ReportInv
<1>1. Init => ReportInv  BY DEF Init, ReportInit, ReportInv, Accepted
<1>2. TypeOK /\ ServiceInv /\ ReportInv /\ [Next]_vars => ReportInv'
  BY ReportInvStep DEF ServiceInv
<1> QED  BY <1>1, <1>2, ServiceCorrect, PTL DEF Spec

\* Of all the requests that report a row from a network, one is answered 201.
THEOREM OneReportCorrect == Spec => []OneReportPerNetwork
<1>1. ReportInv => OneReportPerNetwork  BY DEF ReportInv, Accepted, OneReportPerNetwork
<1> QED  BY <1>1, ReportsCorrect, PTL

-----------------------------------------------------------------------------
(* Enough reports block.                                                    *)

\* The circumstances in which the threshold is promised to block: it is a
\* number of reports, MySQL answers, and the process lives.  (A COUNT that
\* fails is answered 201 without a block, and a crash after the INSERT loses
\* the COUNT.)
Dependable == Threshold >= 1 /\ ~MySQLFails /\ "crash" \notin Faults

\* Requests that have reported the row and have not yet counted or blocked.
Pending(id) == \E r \in Reporters : rp[r].id = id /\ rp[r].pc \in {"count", "block"}

\* A report's own step: the request that adds the last report counts it, the
\* request that counts enough of them blocks.
LEMMA ReportBlocks ==
  ASSUME Dependable, TypeOK, LocalsOK, ThresholdBlocks, NEW r \in Reporters, ReportStep(r),
         NEW id \in Ids, urls[id].vt = "malicious" => urls'[id].vt = "malicious",
         CountDistinctIPs(id)' >= Threshold, ~Pending(id)'
  PROVE  urls'[id].vt = "malicious"
<1>0. /\ urls \in [Ids -> Row] /\ rp[r] \in ReportState /\ ReportTypeOK
      /\ rp[r].pc \notin {"idle", "done"} => rp[r].id \in Ids
  BY DEF TypeOK, StoreTypeOK, Ids, ReportTypeOK, LocalsOK
<1>1. /\ \A q \in Reporters : q # r => rp'[q] = rp[q]
      /\ Starts(r) \/ Refused(r) \/ Recorded(r) \/ Counted(r) \/ Blocked(r) \/ Evicted(r)
  BY <1>0, ReportCases
<1>2. ASSUME ~Pending(id), reports' = reports  PROVE urls'[id].vt = "malicious"
  <2>1. CountDistinctIPs(id) >= Threshold  BY <1>2 DEF CountDistinctIPs
  <2>2. urls[id].vt = "malicious"  BY <1>2, <2>1 DEF ThresholdBlocks, Pending
  <2> QED  BY <2>2
<1>3. ASSUME rp[r].pc \notin {"count", "block"}  PROVE ~Pending(id)
  <2>1. ASSUME NEW q \in Reporters, rp[q].id = id, rp[q].pc \in {"count", "block"}  PROVE FALSE
    <3>1. rp'[q] = rp[q]  BY <1>1, <1>3, <2>1
    <3> QED  BY <2>1, <3>1 DEF Pending
  <2> QED  BY <2>1 DEF Pending
<1>4. ASSUME rp[r].id # id  PROVE ~Pending(id)
  <2>1. ASSUME NEW q \in Reporters, rp[q].id = id, rp[q].pc \in {"count", "block"}  PROVE FALSE
    <3>1. rp'[q] = rp[q]  BY <1>1, <1>4, <2>1
    <3> QED  BY <2>1, <3>1 DEF Pending
  <2> QED  BY <2>1 DEF Pending
<1>5. CASE Starts(r)  BY <1>2, <1>3, <1>5 DEF Starts
<1>6. CASE Refused(r)  BY <1>2, <1>3, <1>6 DEF Refused, Dependable
<1>7. CASE Recorded(r)
  <2>1. rp[r].id # id  BY <1>7 DEF Recorded, Same, Pending
  <2>2. ~Pending(id)  BY <1>4, <2>1
  <2>3. {rep \in reports' : rep.id = id} = {rep \in reports : rep.id = id}  BY <1>7, <2>1 DEF Recorded
  <2>4. CountDistinctIPs(id) >= Threshold  BY <2>3 DEF CountDistinctIPs
  <2> QED  BY <2>2, <2>4 DEF ThresholdBlocks, Pending
<1>8. CASE Counted(r)
  <2>1. CASE rp[r].id # id  BY <1>2, <1>4, <1>8, <2>1 DEF Counted
  <2>2. CASE rp[r].id = id
    <3>1. rp'[r].id = id /\ reports' = reports  BY <1>8, <2>2 DEF Counted, Same
    <3>2. rp'[r].pc # "block"  BY <3>1 DEF Pending
    <3>3. ~Blocks(CountDistinctIPs(id))  BY <1>8, <2>2, <3>2 DEF Counted, Dependable
    <3>4. CountDistinctIPs(id)' = CountDistinctIPs(id)  BY <3>1 DEF CountDistinctIPs
    <3> QED  BY <3>3, <3>4 DEF Blocks
  <2> QED  BY <2>1, <2>2
<1>9. CASE Blocked(r)
  <2>1. CASE rp[r].id # id  BY <1>2, <1>4, <1>9, <2>1 DEF Blocked
  <2>2. CASE rp[r].id = id
    <3>1. urls' = WithVT(id, "malicious")  BY <1>9, <2>2 DEF Blocked, Exec, Dependable
    <3>2. urls'[id] = [urls[id] EXCEPT !.vt = "malicious"]  BY <1>0, <3>1 DEF WithVT
    <3> QED  BY <1>0, <3>2 DEF Row
  <2> QED  BY <2>1, <2>2
<1>10. CASE Evicted(r)  BY <1>2, <1>3, <1>10 DEF Evicted
<1> QED  BY <1>1, <1>5, <1>6, <1>7, <1>8, <1>9, <1>10

\* INSERT, COUNT and UPDATE lose no report between them: as long as no scan
\* overwrites a block, a row with enough networks against it is malicious once
\* the requests that reported it have counted and blocked, in whatever order
\* these ran, and whatever Redis does.
THEOREM ThresholdCorrect ==
  ASSUME Dependable
  PROVE  Spec /\ StatusSticks => []ThresholdBlocks
<1>1. Init => ThresholdBlocks
  <2> SUFFICES ASSUME Init, NEW id \in Ids, CountDistinctIPs(id) >= Threshold  PROVE FALSE
    BY DEF ThresholdBlocks
  <2>1. {rep \in reports : rep.id = id} = {}  BY DEF Init, ReportInit
  <2>2. CountDistinctIPs(id) = 0  BY <2>1, FS_EmptySet DEF CountDistinctIPs
  <2> QED  BY <2>2, ReportsAssumption DEF Dependable
<1>2. ASSUME TypeOK, ServiceInv, ReportInv, ThresholdBlocks, [Next]_vars,
             [\A id \in Ids : urls[id].vt = "malicious" => urls'[id].vt = "malicious"]_vars
      PROVE  ThresholdBlocks'
  <2>0. LocalsOK /\ TableInv  BY <1>2 DEF ServiceInv
  <2>1. Ids \subseteq Ids' /\ ReportInv'  BY <1>2, <2>0, IdsGrow, ReportInvStep
  <2> SUFFICES ASSUME NEW id \in Ids', CountDistinctIPs(id)' >= Threshold, ~Pending(id)'
               PROVE  urls'[id].vt = "malicious"
    BY DEF ThresholdBlocks, Pending
  <2>2. CASE \E r \in Reporters : ReportStep(r)
    <3>1. Ids' = Ids  BY <1>2, <2>0, <2>2, OthersSameTable DEF SameTable
    <3>2. urls[id].vt = "malicious" => urls'[id].vt = "malicious"
      BY <1>2, <3>1 DEF vars, store
    <3> QED  BY <1>2, <2>0, <2>2, <3>1, <3>2, ReportBlocks
  <2>3. CASE UNCHANGED << reports, rp >>
    <3>1. id \in Ids
      <4>1. PICK rep \in reports : rep.id = id
        <5>1. CASE {rep \in reports : rep.id = id} = {}
          <6>1. CountDistinctIPs(id)' = 0  BY <2>3, <5>1, FS_EmptySet DEF CountDistinctIPs
          <6> QED  BY <6>1, ReportsAssumption DEF Dependable
        <5> QED  BY <5>1
      <4> QED  BY <1>2, <4>1 DEF ReportInv
    <3>2. urls[id].vt = "malicious"
      <4>1. CountDistinctIPs(id) >= Threshold /\ ~Pending(id)  BY <2>3 DEF CountDistinctIPs, Pending
      <4> QED  BY <1>2, <3>1, <4>1 DEF ThresholdBlocks, Pending
    <3> QED  BY <1>2, <3>1, <3>2 DEF vars, store
  <2>4. ~Crash  BY DEF Crash, Dependable
  <2> QED  BY <1>2, <2>2, <2>3, <2>4 DEF Next, vars
<1> QED  BY <1>1, <1>2, ServiceCorrect, ReportsCorrect, PTL DEF Spec, StatusSticks

-------------------------------------------------------------------------------
(* The service implements LinkBook.                                         *)

Asks(h) == h \in ReqHashes /\ HashPattern(h)

\* A redirect answers once, and only a hash of the pattern reaches Resolve.
AskedInv ==
  \A r \in Redirectors :
    /\ rd[r].pc # "done" => rd[r].reply = "none"
    /\ rd[r].pc \notin {"idle", "done"} => Asks(rd[r].hash)

\* What a step of a redirect does with the hash and the answer.
RedirectOnce(r) ==
  /\ rd'[r].pc # "done" => rd'[r].reply = "none" /\ Asks(rd'[r].hash)
  /\ rd'[r].reply = "301" => Asks(rd'[r].hash)
  /\ rd'[r].reply = "404" => ~Asks(rd'[r].hash) \/ FindByHash(rd'[r].hash) = {}

\* The handler answers 404 to a hash outside the pattern without a lookup, and
\* Resolve to one that FindByHash does not find.
LEMMA RedirectOnceStep ==
  ASSUME RedirectTypeOK, AskedInv, NEW r \in Redirectors, RedirectStep(r)
  PROVE  RedirectOnce(r)
<1>0. /\ rd \in [Redirectors -> RedirectState] /\ rd[r] \in RedirectState
      /\ rd[r].pc # "done" => rd[r].reply = "none"
      /\ rd[r].pc \notin {"idle", "done"} => Asks(rd[r].hash)
  BY DEF RedirectTypeOK, AskedInv
<1>1. ASSUME NEW pc, rd' = [rd EXCEPT ![r] = [@ EXCEPT !.pc = pc]]
      PROVE  rd'[r].pc = pc /\ rd'[r].reply = rd[r].reply /\ rd'[r].hash = rd[r].hash
  BY <1>0, <1>1 DEF RedirectState
<1>2. ASSUME NEW code, RedirectAnswer(r, code)
      PROVE  rd'[r].pc = "done" /\ rd'[r].reply = code /\ rd'[r].hash = rd[r].hash
  BY <1>0, <1>2 DEF RedirectAnswer, RedirectState
<1>3. ASSUME NEW h \in ReqHashes, LookupCache(r, h)  PROVE RedirectOnce(r)
  <2>0. rd[r].pc = "idle" /\ rd[r].reply = "none"  BY <1>0, <1>3 DEF LookupCache, Get
  <2>1. CASE ~HashPattern(h) /\ rd' = [rd EXCEPT ![r] = [@ EXCEPT !.pc = "done", !.hash = h, !.reply = "404"]]
    <3>1. rd'[r].pc = "done" /\ rd'[r].reply = "404" /\ rd'[r].hash = h  BY <1>0, <2>1 DEF RedirectState
    <3> QED  BY <2>1, <3>1 DEF RedirectOnce, Asks
  <2>2. CASE HashPattern(h) /\ \E k \in urlKeys :
               rd' = [rd EXCEPT ![r] =
                        [@ EXCEPT !.hash = h, !.url = k.url, !.id = MetaId(h), !.vt = k.vt,
                                  !.pc = IF k.vt = "malicious" THEN "evict" ELSE "serve"]]
    <3>1. PICK k \in urlKeys :
            rd'[r] = [rd[r] EXCEPT !.hash = h, !.url = k.url, !.id = MetaId(h), !.vt = k.vt,
                                   !.pc = IF k.vt = "malicious" THEN "evict" ELSE "serve"]
      BY <1>0, <2>2
    <3>2. rd'[r].reply = "none" /\ rd'[r].hash = h  BY <1>0, <2>0, <3>1 DEF RedirectState
    <3> QED  BY <2>2, <3>2 DEF RedirectOnce, Asks
  <2>3. CASE HashPattern(h) /\ rd' = [rd EXCEPT ![r] = [@ EXCEPT !.pc = "find", !.hash = h]]
    <3>1. rd'[r].reply = "none" /\ rd'[r].hash = h  BY <1>0, <2>0, <2>3 DEF RedirectState
    <3> QED  BY <2>3, <3>1 DEF RedirectOnce, Asks
  <2> QED  BY <1>3, <2>1, <2>2, <2>3 DEF LookupCache, Get
<1>4. CASE FindRow(r)
  <2>0. rd[r].reply = "none" /\ Asks(rd[r].hash)  BY <1>0, <1>4 DEF FindRow, FindError
  <2>1. ASSUME NEW id, rd' = [rd EXCEPT ![r] =
                                [@ EXCEPT !.url = urls[id].url, !.id = id, !.vt = urls[id].vt,
                                          !.pc = IF Resolution(urls[id]) = "malicious" THEN "evict" ELSE "seturl"]]
        PROVE  rd'[r].reply = rd[r].reply /\ rd'[r].hash = rd[r].hash
    BY <1>0, <2>1 DEF RedirectState
  <2>2. CASE FindByHash(rd[r].hash) = {} /\ RedirectAnswer(r, "404")
    <3>1. rd'[r].pc = "done" /\ rd'[r].reply = "404" /\ rd'[r].hash = rd[r].hash  BY <1>2, <2>2
    <3>2. FindByHash(rd'[r].hash) = {}  BY <2>2, <3>1
    <3> QED  BY <3>1, <3>2 DEF RedirectOnce
  <2>3. ASSUME NEW code \in {"410", "500"}, RedirectAnswer(r, code)  PROVE RedirectOnce(r)
    BY <1>2, <2>3 DEF RedirectOnce
  <2>4. CASE rd'[r].reply = "none" /\ rd'[r].hash = rd[r].hash
    BY <2>0, <2>4 DEF RedirectOnce
  <2> QED  BY <1>4, <2>0, <2>1, <2>2, <2>3, <2>4 DEF FindRow, FindError
<1>5. CASE FillUrlKey(r) \/ FillMetaKey(r)
  <2>1. /\ rd[r].reply = "none" /\ Asks(rd[r].hash)
        /\ \E pc : rd' = [rd EXCEPT ![r] = [@ EXCEPT !.pc = pc]]
    BY <1>0, <1>5 DEF FillUrlKey, FillMetaKey
  <2> QED  BY <1>1, <2>1 DEF RedirectOnce
<1>6. CASE RefuseMalicious(r) \/ Serve(r)
  <2>0. Asks(rd[r].hash)  BY <1>0, <1>6 DEF RefuseMalicious, Serve
  <2>1. RedirectAnswer(r, "403") \/ RedirectAnswer(r, "500") \/ RedirectAnswer(r, "301")
    BY <1>6 DEF RefuseMalicious, Serve
  <2> QED  BY <1>2, <2>0, <2>1 DEF RedirectOnce
<1> QED  BY <1>3, <1>4, <1>5, <1>6 DEF RedirectStep

\* Every step keeps AskedInv.
LEMMA AskedStep ==
  ASSUME TypeOK, AskedInv, [Next]_vars
  PROVE  AskedInv'
<1>1. ASSUME NEW r \in Redirectors, RedirectStep(r)  PROVE AskedInv'
  <2>1. \A q \in Redirectors : q # r => rd'[q] = rd[q]  BY <1>1, RedirectWrites DEF TypeOK
  <2>2. RedirectOnce(r)  BY <1>1, RedirectOnceStep DEF TypeOK
  <2>3. ASSUME NEW h  PROVE Asks(h)' <=> Asks(h)  BY DEF Asks, HashPattern
  <2>4. ASSUME NEW q \in Redirectors
        PROVE  /\ rd'[q].pc # "done" => rd'[q].reply = "none"
               /\ rd'[q].pc \notin {"idle", "done"} => Asks(rd'[q].hash)
    BY <2>1, <2>2 DEF AskedInv, RedirectOnce
  <2> QED  BY <2>4 DEF AskedInv, Asks, HashPattern
<1>2. CASE Crash
  <2>1. ASSUME NEW q \in Redirectors  PROVE rd'[q] = rd[q] \/ rd'[q].pc = "done"
    BY <1>2, LostState DEF Crash, TypeOK, RedirectTypeOK
  <2> QED  BY <2>1 DEF AskedInv, Asks, HashPattern
<1>3. CASE UNCHANGED rd  BY <1>3 DEF AskedInv, Asks, HashPattern
<1> QED  BY <1>1, <1>2, <1>3 DEF Next, vars

-----------------------------------------------------------------------------
(* The refinement.                                                          *)

BookOf == [id \in Links |-> [hash |-> urls[id].hash, url |-> urls[id].url]]
ToldTo == [r \in Shorteners |-> Told(sh[r])]
SentTo == [r \in Redirectors |-> Sent(rd[r])]

\* A step that leaves hashes and URLs alone leaves the book alone.
LEMMA SameBook ==
  ASSUME SameTable
  PROVE  Links' = Links /\ BookOf' = BookOf
<1>1. Links' = Links  BY DEF SameTable, Links
<1>2. \A id \in Links : urls'[id].hash = urls[id].hash /\ urls'[id].url = urls[id].url
  BY DEF SameTable, Links
<1> QED  BY <1>1, <1>2 DEF BookOf

\* A row that Create inserts has no hash yet.
LEMMA CreateSameBook ==
  ASSUME TypeOK, TableInv, NEW r \in Shorteners, CreateRow(r)
  PROVE  BookOf' = BookOf
<1>1. CASE UNCHANGED urls  BY <1>1 DEF BookOf, Links, Ids
<1>2. CASE urls' = Inserted(sh[r].url)
  <2>1. nextId \notin Ids  BY DEF TableInv, TypeOK, StoreTypeOK, Ids
  <2>2. /\ Ids' = Ids \cup {nextId} /\ urls'[nextId].hash = NoHash
        /\ \A id \in Ids : urls'[id] = urls[id]
    BY <1>2, <2>1 DEF Inserted, Ids
  <2>3. Links' = Links  BY <2>1, <2>2 DEF Links
  <2> QED  BY <2>2, <2>3 DEF BookOf, Links
<1> QED  BY <1>1, <1>2 DEF CreateRow

\* UpdateHash enters a link: its row had no hash, and the UNIQUE key has
\* compared the new hash with those of all other rows.
LEMMA UpdateHashEnters ==
  ASSUME TypeOK, TableInv, NEW r \in Shorteners, UpdateHash(r), BookOf' # BookOf
  PROVE  /\ sh[r].id \in 1 .. MaxId /\ sh[r].id \notin Links
         /\ Links' = Links \cup {sh[r].id}
         /\ \A i \in Links : BookOf'[i] = BookOf[i] /\ ~SameHash(BookOf[i].hash, BookOf'[sh[r].id].hash)
<1> DEFINE id == sh[r].id  h == Encode(id)
<1>0. /\ id \in Ids /\ urls[id].hash = NoHash /\ urls[id] \in Row /\ id \in 1 .. MaxId
      /\ urls \in [Ids -> Row]
  BY DEF UpdateHash, TableInv, TypeOK, StoreTypeOK, Ids
<1>1. urls' # urls  BY DEF BookOf, Links, Ids
<1>2. ~HashTaken(id, h) /\ urls' = WithHash(id, h)  BY <1>1 DEF UpdateHash
<1>3. /\ Ids' = Ids /\ urls'[id].hash = h /\ urls'[id].url = urls[id].url
      /\ \A i \in Ids : i # id => urls'[i] = urls[i]
  BY <1>0, <1>2 DEF WithHash, Ids, Row
<1>4. id \notin Links  BY <1>0 DEF Links
<1>5. h # NoHash
  <2> SUFFICES ASSUME h = NoHash  PROVE FALSE
    OBVIOUS
  <2>1. \A i \in Ids : urls'[i].hash = urls[i].hash /\ urls'[i].url = urls[i].url
    BY <1>0, <1>3
  <2> QED  BY <1>3, <2>1 DEF BookOf, Links
<1>6. Links' = Links \cup {id}  BY <1>0, <1>3, <1>5 DEF Links
<1>7. ASSUME NEW i \in Links  PROVE BookOf'[i] = BookOf[i] /\ ~SameHash(BookOf[i].hash, BookOf'[id].hash)
  <2>1. i \in Ids /\ i # id  BY <1>4 DEF Links
  <2>2. urls'[i] = urls[i] /\ ~SameHash(urls[i].hash, h)  BY <1>2, <1>3, <2>1 DEF HashTaken
  <2>3. BookOf'[i] = BookOf[i] /\ BookOf[i].hash = urls[i].hash  BY <1>6, <2>2 DEF BookOf
  <2>4. BookOf'[id].hash = h  BY <1>3, <1>6 DEF BookOf
  <2> QED  BY <2>2, <2>3, <2>4
<1> QED  BY <1>0, <1>4, <1>6, <1>7

\* A step of a request to shorten enters a link, tells one, or does neither.
LEMMA ShortenKeepsBook ==
  ASSUME TypeOK, LocalsOK, TableInv, AnsweredHashIsStored, AnsweredHashIsStored',
         NEW r \in Shorteners, ShortenStep(r), SentTo' = SentTo
  PROVE  [Book!BookNext]_(Book!bookVars)
<1>0. /\ sh \in [Shorteners -> ShortenState] /\ sh[r] \in ShortenState /\ ShortenTypeOK
      /\ \A q \in Shorteners : q # r => sh'[q] = sh[q]
      /\ sh[r].reply = "201" => sh[r].pc = "done"
  BY ShortenLocalsStep DEF TypeOK, ShortenTypeOK, LocalsOK
<1>1. Told(sh[r]) = {}
  <2>1. sh[r].pc # "done"
    BY DEF ShortenStep, ReceiveShorten, DedupCheck, LookupScan, GetRaw, ScanUrl, CreateRow, UpdateHash,
           StoreResult, CacheNewUrl, CacheNewMeta
  <2> QED  BY <1>0, <2>1 DEF Told
<1>2. ASSUME sh'[r].reply # "201"  PROVE ToldTo' = ToldTo
  BY <1>0, <1>1, <1>2 DEF ToldTo, Told
<1>3. CASE CreateRow(r)
  <2>1. sh'[r].reply # "201"
    <3>1. ASSUME sh' = [sh EXCEPT ![r] = [@ EXCEPT !.pc = "hash", !.id = nextId]]
          PROVE  sh'[r].reply = sh[r].reply
      BY <1>0, <3>1 DEF ShortenState
    <3>2. sh[r].reply # "201"  BY <1>0, <1>3 DEF CreateRow
    <3> QED  BY <1>0, <1>3, <3>1, <3>2, ShortenWrites DEF CreateRow
  <2>2. BookOf' = BookOf  BY <1>3, CreateSameBook
  <2> QED  BY <1>2, <2>1, <2>2 DEF Book!bookVars, BookOf, ToldTo, SentTo
<1>4. CASE UpdateHash(r)
  <2>1. sh'[r].reply # "201"
    <3>1. ASSUME sh' = [sh EXCEPT ![r] = [@ EXCEPT !.pc = "result", !.hash = Encode(sh[r].id)]]
          PROVE  sh'[r].reply = sh[r].reply
      BY <1>0, <3>1 DEF ShortenState
    <3>2. sh[r].reply # "201"  BY <1>0, <1>4 DEF UpdateHash
    <3> QED  BY <1>0, <1>4, <3>1, <3>2, ShortenWrites DEF UpdateHash
  <2>2. ToldTo' = ToldTo  BY <1>2, <2>1
  <2>3. CASE BookOf' = BookOf
    BY <2>2, <2>3 DEF Book!bookVars, BookOf, ToldTo, SentTo
  <2>4. CASE BookOf' # BookOf
    <3>1. PICK n \in 1 .. MaxId : n = sh[r].id  BY <1>4, <2>4, UpdateHashEnters
    <3>2. Book!Enter(n)
      BY <1>4, <2>2, <2>4, <3>1, UpdateHashEnters DEF Book!Enter, BookOf, ToldTo, SentTo
    <3> QED  BY <3>2 DEF Book!BookNext
  <2> QED  BY <2>3, <2>4
<1>5. CASE \/ ReceiveShorten(r) \/ DedupCheck(r) \/ LookupScan(r) \/ ScanUrl(r)
           \/ StoreResult(r) \/ CacheNewUrl(r) \/ CacheNewMeta(r)
  <2>1. BookOf' = BookOf /\ Links' = Links /\ SameTable  BY <1>5, ShortenAdvances, SameBook
  <2>2. CASE Told(sh'[r]) = {}
    <3>1. ToldTo' = ToldTo  BY <1>0, <1>1, <2>2 DEF ToldTo
    <3> QED  BY <2>1, <3>1 DEF Book!bookVars, BookOf, ToldTo, SentTo
  <2>3. CASE Told(sh'[r]) # {}
    <3> DEFINE answer == [hash |-> sh'[r].hash, url |-> sh'[r].url]  id == sh'[r].id
    <3>1. sh'[r].reply = "201" /\ sh'[r].hash # NoHash /\ Told(sh'[r]) = {answer}
      BY <2>3 DEF Told
    <3>2. /\ id \in Ids' /\ urls'[id].hash = sh'[r].hash
          /\ UrlKey[urls'[id].url] = UrlKey[sh'[r].url]
      BY <3>1 DEF AnsweredHashIsStored
    <3>3. id \in Links /\ BookOf[id].hash = answer.hash /\ UrlKey[answer.url] = UrlKey[BookOf[id].url]
      BY <2>1, <3>1, <3>2 DEF SameTable, Links, BookOf
    <3>4. ToldTo[r] = {} /\ ToldTo'[r] = {answer} /\ ToldTo' = [ToldTo EXCEPT ![r] = {answer}]
      BY <1>0, <1>1, <3>1 DEF ToldTo
    <3>5. DOMAIN BookOf = Links  BY DEF BookOf
    <3> HIDE DEF answer, id
    <3>6. Book!Tell(r, answer)
      BY <2>1, <3>3, <3>4, <3>5 DEF Book!Tell, BookOf, ToldTo, SentTo
    <3> QED  BY <3>4, <3>6 DEF Book!BookNext, ToldTo
  <2> QED  BY <2>2, <2>3
<1> QED  BY <1>3, <1>4, <1>5 DEF ShortenStep

\* A step of a redirect leaves the book alone, and answers by it.
LEMMA RedirectKeepsBook ==
  ASSUME TypeOK, LocalsOK, AskedInv, RedirectInv',
         NEW r \in Redirectors, RedirectStep(r), ToldTo' = ToldTo
  PROVE  [Book!BookNext]_(Book!bookVars)
<1>0. /\ \A q \in Redirectors : q # r => rd'[q] = rd[q]
      /\ rd[r].reply = "none" /\ urls' = urls
      /\ RedirectOnce(r)
  <2>1. rd[r].pc # "done" /\ \A q \in Redirectors : q # r => rd'[q] = rd[q]
    BY RedirectWrites DEF TypeOK
  <2>2. urls' = urls
    BY DEF RedirectStep, LookupCache, Get, FindRow, FindError, FillUrlKey, FillMetaKey,
           RefuseMalicious, Serve, store
  <2>3. RedirectOnce(r)  BY RedirectOnceStep DEF TypeOK
  <2> QED  BY <2>1, <2>2, <2>3 DEF AskedInv
<1>1. Links' = Links /\ BookOf' = BookOf  BY <1>0 DEF Links, BookOf, Ids
<1>2. Sent(rd[r]) = {}  BY <1>0 DEF Sent
<1>3. CASE rd'[r].reply \notin {"301", "404"}
  <2>1. Sent(rd'[r]) = {}  BY <1>3 DEF Sent
  <2>2. SentTo' = SentTo  BY <1>0, <1>2, <2>1 DEF SentTo
  <2> QED  BY <1>1, <2>2 DEF Book!bookVars, BookOf, ToldTo, SentTo
<1>4. ASSUME NEW answer, Sent(rd'[r]) = {answer},
             \/ \E i \in Links : SameHash(BookOf[i].hash, answer.hash) /\ answer.url = BookOf[i].url
             \/ /\ answer.url = NoUrl
                /\ Asks(answer.hash) => \A i \in Links : ~SameHash(BookOf[i].hash, answer.hash)
      PROVE  [Book!BookNext]_(Book!bookVars)
  <2>1. SentTo[r] = {} /\ SentTo'[r] = {answer} /\ SentTo' = [SentTo EXCEPT ![r] = {answer}]
    BY <1>0, <1>2, <1>4 DEF SentTo
  <2>2. DOMAIN BookOf = Links  BY DEF BookOf
  <2>3. Book!Send(r, answer)
    BY <1>1, <1>4, <2>1, <2>2 DEF Book!Send, BookOf, ToldTo, SentTo, Asks
  <2> QED  BY <2>1, <2>3 DEF Book!BookNext, SentTo
<1>5. CASE rd'[r].reply = "301"
  <2> DEFINE h == rd'[r].hash  u == rd'[r].url
  <2>1. Sent(rd'[r]) = {[hash |-> h, url |-> u]}  BY <1>5 DEF Sent
  <2>2. PICK i \in Ids' : Good(rd[r].hash, rd[r].url, i)'  BY <1>5 DEF RedirectInv
  <2>3. i \in Ids /\ SameHash(urls[i].hash, h) /\ urls[i].url = u
    BY <1>0, <2>2 DEF Good, Names, Ids
  <2>4. h \in ReqHashes /\ HashPattern(h)  BY <1>0, <1>5 DEF RedirectOnce, Asks
  <2>5. i \in Links  BY <2>3, <2>4, PatternNotEmpty DEF Links
  <2>6. SameHash(BookOf[i].hash, h) /\ u = BookOf[i].url  BY <2>3, <2>5 DEF BookOf
  <2> HIDE DEF h, u
  <2> QED  BY <1>4, <2>1, <2>5, <2>6
<1>6. CASE rd'[r].reply = "404"
  <2> DEFINE h == rd'[r].hash
  <2>1. Sent(rd'[r]) = {[hash |-> h, url |-> NoUrl]}  BY <1>6 DEF Sent
  <2>2. ~Asks(h) \/ FindByHash(h) = {}  BY <1>0, <1>6 DEF RedirectOnce
  <2> HIDE DEF h
  <2>3. Asks(h) => \A i \in Links : ~SameHash(BookOf[i].hash, h)
    BY <2>2 DEF FindByHash, Links, BookOf
  <2> QED  BY <1>4, <2>1, <2>3
<1> QED  BY <1>3, <1>5, <1>6

\* No other step is seen in the book: reports, rescans, time, evictions and
\* other programs leave hashes and URLs alone, and a crash answers nobody.
LEMMA OthersKeepBook ==
  ASSUME TypeOK, LocalsOK, AskedInv,
         \/ (\E r \in Reporters : ReportStep(r)) /\ UNCHANGED << sh, rd, rs >>
         \/ RescanStep /\ UNCHANGED << sh, rd, reports, rp >>
         \/ Environment /\ UNCHANGED << sh, rd, reports, rp, rs >>
         \/ Crash \/ UNCHANGED vars
  PROVE  UNCHANGED << BookOf, ToldTo, SentTo >>
<1>1. SameTable  BY OthersSameTable DEF Crash, vars
<1>2. CASE UNCHANGED << sh, rd >>
  BY <1>1, <1>2, SameBook DEF ToldTo, SentTo
<1>3. CASE Crash
  <2>1. ASSUME NEW r \in Shorteners  PROVE Told(sh'[r]) = Told(sh[r])
    <3>1. sh'[r] = Lost(sh[r]) /\ sh[r] \in ShortenState  BY <1>3 DEF Crash, TypeOK, ShortenTypeOK
    <3>2. sh[r].reply = "201" => sh[r].pc = "done"  BY DEF LocalsOK
    <3>3. CASE sh[r].pc \in {"idle", "done"}  BY <3>1, <3>3 DEF Lost
    <3>4. CASE sh[r].pc \notin {"idle", "done"}
      <4>1. Lost(sh[r]).reply = "crash"  BY <3>1, <3>4 DEF Lost, ShortenState
      <4> QED  BY <3>1, <3>2, <3>4, <4>1 DEF Told
    <3> QED  BY <3>3, <3>4
  <2>2. ASSUME NEW r \in Redirectors  PROVE Sent(rd'[r]) = Sent(rd[r])
    <3>1. rd'[r] = Lost(rd[r]) /\ rd[r] \in RedirectState  BY <1>3 DEF Crash, TypeOK, RedirectTypeOK
    <3>2. rd[r].pc # "done" => rd[r].reply = "none"  BY DEF AskedInv
    <3>3. CASE rd[r].pc \in {"idle", "done"}  BY <3>1, <3>3 DEF Lost
    <3>4. CASE rd[r].pc \notin {"idle", "done"}
      <4>1. Lost(rd[r]).reply = "crash"  BY <3>1, <3>4 DEF Lost, RedirectState
      <4> QED  BY <3>1, <3>2, <3>4, <4>1 DEF Sent
    <3> QED  BY <3>3, <3>4
  <2>3. ToldTo' = ToldTo /\ SentTo' = SentTo  BY <2>1, <2>2 DEF ToldTo, SentTo
  <2> QED  BY <1>1, <2>3, SameBook
<1> QED  BY <1>2, <1>3 DEF vars

\* The table, the cache and the handlers implement the book: links are entered
\* once and for ever under hashes of their own, and every 201 with a hash, 301
\* and 404 says what the book says at that moment.
THEOREM BookRefinement == Spec => KeepsBook
<1>1. Init => Book!BookInit /\ AskedInv
  <2> SUFFICES ASSUME Init  PROVE Book!BookInit /\ AskedInv
    OBVIOUS
  <2>1. /\ \A r \in Shorteners : sh[r].reply = "none"
        /\ \A r \in Redirectors : rd[r].pc = "idle" /\ rd[r].reply = "none"
    BY DEF Init, ShortenInit, RedirectInit
  <2>2. ToldTo = [r \in Shorteners |-> {}] /\ SentTo = [r \in Redirectors |-> {}]
    BY <2>1 DEF ToldTo, SentTo, Told, Sent
  <2>3. \A i, j \in Links : SameHash(urls[i].hash, urls[j].hash) => i = j
    BY InitInv DEF ServiceInv, TableInv, Links
  <2>4. \A i, j \in DOMAIN BookOf : SameHash(BookOf[i].hash, BookOf[j].hash) => i = j
    BY <2>3 DEF BookOf
  <2> QED  BY <2>1, <2>2, <2>4 DEF Book!BookInit, BookOf, ToldTo, SentTo, AskedInv
<1>2. TypeOK /\ AskedInv /\ [Next]_vars => AskedInv'
  BY AskedStep
<1>3. TypeOK /\ ServiceInv /\ AskedInv /\ TypeOK' /\ ServiceInv' /\ [Next]_vars
      => [Book!BookNext]_(Book!bookVars)
  <2> SUFFICES ASSUME TypeOK, ServiceInv, AskedInv, TypeOK', ServiceInv', [Next]_vars
               PROVE  [Book!BookNext]_(Book!bookVars)
    OBVIOUS
  <2>0. /\ LocalsOK /\ TableInv /\ AnsweredHashIsStored /\ AnsweredHashIsStored' /\ RedirectInv'
    BY DEF ServiceInv
  <2>1. CASE (\E r \in Shorteners : ShortenStep(r)) /\ UNCHANGED << rd, reports, rp, rs >>
    <3>1. SentTo' = SentTo  BY <2>1 DEF SentTo
    <3> QED  BY <2>0, <2>1, <3>1, ShortenKeepsBook
  <2>2. CASE (\E r \in Redirectors : RedirectStep(r)) /\ UNCHANGED << sh, reports, rp, rs >>
    <3>1. ToldTo' = ToldTo  BY <2>2 DEF ToldTo
    <3> QED  BY <2>0, <2>2, <3>1, RedirectKeepsBook
  <2>3. CASE UNCHANGED << BookOf, ToldTo, SentTo >>
    BY <2>3 DEF Book!bookVars, BookOf, ToldTo, SentTo
  <2> QED  BY <2>0, <2>1, <2>2, <2>3, OthersKeepBook DEF Next
<1> QED  BY <1>1, <1>2, <1>3, ServiceCorrect, PTL DEF Spec, KeepsBook, Book!BookSpec

-----------------------------------------------------------------------------
(* Requests run out of steps: the half of RequestsAnswered that needs no    *)
(* fairness.                                                                *)

\* Calls a request may still make, by the call that comes next.
ShortenLeft(pc) ==
  CASE pc = "idle" -> 9 [] pc = "dedup" -> 8 [] pc = "vtcache" -> 7 [] pc = "scan" -> 6
    [] pc = "create" -> 5 [] pc = "hash" -> 4 [] pc = "result" -> 3 [] pc = "seturl" -> 2
    [] pc = "setmeta" -> 1 [] pc = "done" -> 0

RedirectLeft(pc) ==
  CASE pc = "idle" -> 5 [] pc = "find" -> 4 [] pc = "seturl" -> 3 [] pc = "setmeta" -> 2
    [] pc \in {"evict", "serve"} -> 1 [] pc = "done" -> 0

ReportLeft(pc) ==
  CASE pc = "idle" -> 5 [] pc = "insert" -> 4 [] pc = "count" -> 3 [] pc = "block" -> 2
    [] pc = "evict" -> 1 [] pc = "done" -> 0

\* A request has its answer when, and only when, it is done.
Answered(q) == q.pc = "done" <=> q.reply # "none"

AnsweredWhenDone ==
  /\ \A r \in Shorteners : Answered(sh[r])
  /\ \A r \in Redirectors : Answered(rd[r])
  /\ \A r \in Reporters : Answered(rp[r])

\* Every step of a request, and every step that changes its locals, brings it
\* nearer to the end.
RequestsAdvance ==
  [][/\ \A r \in Shorteners : ShortenStep(r) \/ sh'[r] # sh[r] => ShortenLeft(sh'[r].pc) < ShortenLeft(sh[r].pc)
     /\ \A r \in Redirectors : RedirectStep(r) \/ rd'[r] # rd[r] => RedirectLeft(rd'[r].pc) < RedirectLeft(rd[r].pc)
     /\ \A r \in Reporters : ReportStep(r) \/ rp'[r] # rp[r] => ReportLeft(rp'[r].pc) < ReportLeft(rp[r].pc)]_vars

\* The longest way goes through every call of Shorten, and none is made twice.
LEMMA ShortenNearer ==
  ASSUME ShortenTypeOK, NEW r \in Shorteners, Answered(sh[r]), ShortenStep(r)
  PROVE  /\ ShortenLeft(sh'[r].pc) < ShortenLeft(sh[r].pc) /\ Answered(sh'[r])
         /\ \A q \in Shorteners : q # r => sh'[q] = sh[q]
<1>0. sh \in [Shorteners -> ShortenState] /\ sh[r] \in ShortenState
  BY DEF ShortenTypeOK
<1>1. \A q \in Shorteners : q # r => sh'[q] = sh[q]
  BY <1>0 DEF ShortenStep, ReceiveShorten, DedupCheck, LookupScan, GetRaw, ScanUrl, CreateRow, UpdateHash,
              StoreResult, CacheNewUrl, CacheNewMeta, UseScan, ShortenGoto, ShortenAnswer
<1> SUFFICES ShortenLeft(sh'[r].pc) < ShortenLeft(sh[r].pc) /\ Answered(sh'[r])
  BY <1>1
<1>2. ASSUME sh[r].pc \in ShortenPC \ {"done"}, sh'[r].pc = "done", sh'[r].reply # "none"
      PROVE  ShortenLeft(sh'[r].pc) < ShortenLeft(sh[r].pc) /\ Answered(sh'[r])
  BY <1>2 DEF ShortenPC, ShortenLeft, Answered
<1>3. ASSUME NEW code \in {"201", "400", "422", "500"}, sh[r].pc \in ShortenPC \ {"done"}, ShortenAnswer(r, code)
      PROVE  ShortenLeft(sh'[r].pc) < ShortenLeft(sh[r].pc) /\ Answered(sh'[r])
  BY <1>2, <1>3, ShortenWrites
<1>4. ASSUME sh'[r].reply = sh[r].reply, sh[r].pc # "done", sh'[r].pc # "done",
             ShortenLeft(sh'[r].pc) < ShortenLeft(sh[r].pc)
      PROVE  ShortenLeft(sh'[r].pc) < ShortenLeft(sh[r].pc) /\ Answered(sh'[r])
  BY <1>4 DEF Answered
<1>5. CASE ReceiveShorten(r)
  <2>1. sh[r].pc = "idle" /\ "idle" \in ShortenPC \ {"done"}  BY <1>5 DEF ReceiveShorten, ShortenPC
  <2>2. ASSUME NEW raw, sh' = [sh EXCEPT ![r] = [@ EXCEPT !.pc = "dedup", !.url = Normalize[raw]]]
        PROVE  ShortenLeft(sh'[r].pc) < ShortenLeft(sh[r].pc) /\ Answered(sh'[r])
    <3>1. sh'[r].pc = "dedup" /\ sh'[r].reply = sh[r].reply  BY <1>0, <2>2 DEF ShortenState
    <3> QED  BY <1>4, <2>1, <3>1 DEF ShortenLeft
  <2> QED  BY <1>3, <1>5, <2>1, <2>2 DEF ReceiveShorten
<1>6. CASE DedupCheck(r)
  <2>1. sh[r].pc = "dedup" /\ "dedup" \in ShortenPC \ {"done"}  BY <1>6 DEF DedupCheck, ShortenPC
  <2>2. ASSUME NEW id, sh' = [sh EXCEPT ![r] =
                                [@ EXCEPT !.pc = "done", !.reply = "201", !.id = id,
                                          !.hash = urls[id].hash, !.result = urls[id].vt]]
        PROVE  ShortenLeft(sh'[r].pc) < ShortenLeft(sh[r].pc) /\ Answered(sh'[r])
    <3>1. sh'[r].pc = "done" /\ sh'[r].reply = "201"  BY <1>0, <2>2 DEF ShortenState
    <3> QED  BY <1>2, <2>1, <3>1
  <2>3. ASSUME ShortenGoto(r, "vtcache")
        PROVE  ShortenLeft(sh'[r].pc) < ShortenLeft(sh[r].pc) /\ Answered(sh'[r])
    <3>1. sh'[r].pc = "vtcache" /\ sh'[r].reply = sh[r].reply  BY <2>3, ShortenWrites
    <3> QED  BY <1>4, <2>1, <3>1 DEF ShortenLeft
  <2> QED  BY <1>3, <1>6, <2>1, <2>2, <2>3 DEF DedupCheck
<1>7. CASE LookupScan(r) \/ ScanUrl(r)
  <2>1. /\ sh[r].pc \in {"vtcache", "scan"} /\ sh[r].pc \in ShortenPC \ {"done"}
        /\ (sh[r].pc = "vtcache" /\ ShortenGoto(r, "scan")) \/ \E s : UseScan(r, s)
    BY <1>7 DEF LookupScan, ScanUrl, ShortenPC
  <2>2. \/ sh'[r].pc = "done" /\ sh'[r].reply = "422"
        \/ sh'[r].pc = "create" /\ sh'[r].reply = sh[r].reply
        \/ sh[r].pc = "vtcache" /\ sh'[r].pc = "scan" /\ sh'[r].reply = sh[r].reply
    BY <2>1, ShortenWrites
  <2>3. CASE sh'[r].pc = "done" /\ sh'[r].reply = "422"  BY <1>2, <2>1, <2>3
  <2>4. CASE sh'[r].pc = "create" /\ sh'[r].reply = sh[r].reply  BY <1>4, <2>1, <2>4 DEF ShortenLeft
  <2>5. CASE sh[r].pc = "vtcache" /\ sh'[r].pc = "scan" /\ sh'[r].reply = sh[r].reply
    BY <1>4, <2>5 DEF ShortenLeft
  <2> QED  BY <2>2, <2>3, <2>4, <2>5
<1>8. CASE CreateRow(r)
  <2>1. sh[r].pc = "create" /\ "create" \in ShortenPC \ {"done"}  BY <1>8 DEF CreateRow, ShortenPC
  <2>2. ASSUME sh' = [sh EXCEPT ![r] = [@ EXCEPT !.pc = "hash", !.id = nextId]]
        PROVE  ShortenLeft(sh'[r].pc) < ShortenLeft(sh[r].pc) /\ Answered(sh'[r])
    <3>1. sh'[r].pc = "hash" /\ sh'[r].reply = sh[r].reply  BY <1>0, <2>2 DEF ShortenState
    <3> QED  BY <1>4, <2>1, <3>1 DEF ShortenLeft
  <2> QED  BY <1>3, <1>8, <2>1, <2>2 DEF CreateRow
<1>9. CASE UpdateHash(r)
  <2>1. sh[r].pc = "hash" /\ "hash" \in ShortenPC \ {"done"}  BY <1>9 DEF UpdateHash, ShortenPC
  <2>2. ASSUME sh' = [sh EXCEPT ![r] = [@ EXCEPT !.pc = "result", !.hash = Encode(sh[r].id)]]
        PROVE  ShortenLeft(sh'[r].pc) < ShortenLeft(sh[r].pc) /\ Answered(sh'[r])
    <3>1. sh'[r].pc = "result" /\ sh'[r].reply = sh[r].reply  BY <1>0, <2>2 DEF ShortenState
    <3> QED  BY <1>4, <2>1, <3>1 DEF ShortenLeft
  <2> QED  BY <1>3, <1>9, <2>1, <2>2 DEF UpdateHash
<1>10. CASE StoreResult(r) \/ CacheNewUrl(r) \/ CacheNewMeta(r)
  <2>1. \/ sh[r].pc \in {"seturl", "setmeta"} /\ ShortenAnswer(r, "201")
        \/ sh[r].pc = "result" /\ ShortenGoto(r, "seturl")
        \/ sh[r].pc = "seturl" /\ ShortenGoto(r, "setmeta")
    BY <1>10 DEF StoreResult, CacheNewUrl, CacheNewMeta
  <2>2. ASSUME sh[r].pc \in {"seturl", "setmeta"}, ShortenAnswer(r, "201")
        PROVE  ShortenLeft(sh'[r].pc) < ShortenLeft(sh[r].pc) /\ Answered(sh'[r])
    BY <1>3, <2>2 DEF ShortenPC
  <2>3. ASSUME NEW pc \in {"seturl", "setmeta"}, ShortenGoto(r, pc)
        PROVE  sh'[r].pc = pc /\ sh'[r].reply = sh[r].reply
    BY <2>3, ShortenWrites
  <2>4. CASE sh[r].pc = "result" /\ ShortenGoto(r, "seturl")
    BY <1>4, <2>3, <2>4 DEF ShortenLeft
  <2>5. CASE sh[r].pc = "seturl" /\ ShortenGoto(r, "setmeta")
    BY <1>4, <2>3, <2>5 DEF ShortenLeft
  <2> QED  BY <2>1, <2>2, <2>4, <2>5
<1> QED  BY <1>5, <1>6, <1>7, <1>8, <1>9, <1>10 DEF ShortenStep

\* A miss goes through both stores, a hit or an error leaves early.
LEMMA RedirectNearer ==
  ASSUME RedirectTypeOK, NEW r \in Redirectors, Answered(rd[r]), RedirectStep(r)
  PROVE  RedirectLeft(rd'[r].pc) < RedirectLeft(rd[r].pc) /\ Answered(rd'[r])
<1>0. rd \in [Redirectors -> RedirectState] /\ rd[r] \in RedirectState
  BY DEF RedirectTypeOK
<1>1. ASSUME NEW code \in {"301", "403", "404", "410", "500"}, RedirectAnswer(r, code),
             rd[r].pc \in {"find", "evict", "serve"}
      PROVE  RedirectLeft(rd'[r].pc) < RedirectLeft(rd[r].pc) /\ Answered(rd'[r])
  <2>1. rd'[r].pc = "done" /\ rd'[r].reply = code  BY <1>0, <1>1 DEF RedirectAnswer, RedirectState
  <2> QED  BY <1>1, <2>1 DEF RedirectLeft, Answered
<1>2. ASSUME rd'[r].reply = rd[r].reply, rd[r].pc # "done", rd'[r].pc # "done",
             RedirectLeft(rd'[r].pc) < RedirectLeft(rd[r].pc)
      PROVE  RedirectLeft(rd'[r].pc) < RedirectLeft(rd[r].pc) /\ Answered(rd'[r])
  BY <1>2 DEF Answered
<1>3. ASSUME NEW h \in ReqHashes, LookupCache(r, h)
      PROVE  RedirectLeft(rd'[r].pc) < RedirectLeft(rd[r].pc) /\ Answered(rd'[r])
  <2>0. rd[r].pc = "idle"  BY <1>3 DEF LookupCache
  <2>1. CASE rd' = [rd EXCEPT ![r] = [@ EXCEPT !.pc = "done", !.hash = h, !.reply = "404"]]
    <3>1. rd'[r].pc = "done" /\ rd'[r].reply = "404"  BY <1>0, <2>1 DEF RedirectState
    <3> QED  BY <2>0, <3>1 DEF RedirectLeft, Answered
  <2>2. ASSUME NEW k \in Get(h),
               rd' = [rd EXCEPT ![r] =
                        [@ EXCEPT !.hash = h, !.url = k.url, !.id = MetaId(h), !.vt = k.vt,
                                  !.pc = IF k.vt = "malicious" THEN "evict" ELSE "serve"]]
        PROVE  RedirectLeft(rd'[r].pc) < RedirectLeft(rd[r].pc) /\ Answered(rd'[r])
    <3>1. rd'[r].reply = rd[r].reply /\ rd'[r].pc \in {"evict", "serve"}  BY <1>0, <2>2 DEF RedirectState
    <3> QED  BY <1>2, <2>0, <3>1 DEF RedirectLeft
  <2>3. CASE rd' = [rd EXCEPT ![r] = [@ EXCEPT !.pc = "find", !.hash = h]]
    <3>1. rd'[r].reply = rd[r].reply /\ rd'[r].pc = "find"  BY <1>0, <2>3 DEF RedirectState
    <3> QED  BY <1>2, <2>0, <3>1 DEF RedirectLeft
  <2> QED  BY <1>3, <2>1, <2>2, <2>3 DEF LookupCache
<1>4. CASE FindRow(r)
  <2>0. rd[r].pc = "find"  BY <1>4 DEF FindRow
  <2>1. CASE FindError(r)  BY <1>1, <2>0, <2>1 DEF FindError
  <2>2. ASSUME NEW id \in FindByHash(rd[r].hash),
               rd' = [rd EXCEPT ![r] =
                        [@ EXCEPT !.url = urls[id].url, !.id = id, !.vt = urls[id].vt,
                                  !.pc = IF Resolution(urls[id]) = "malicious" THEN "evict" ELSE "seturl"]]
        PROVE  RedirectLeft(rd'[r].pc) < RedirectLeft(rd[r].pc) /\ Answered(rd'[r])
    <3>1. rd'[r].reply = rd[r].reply /\ rd'[r].pc \in {"evict", "seturl"}  BY <1>0, <2>2 DEF RedirectState
    <3> QED  BY <1>2, <2>0, <3>1 DEF RedirectLeft
  <2>3. CASE RedirectAnswer(r, "410")  BY <1>1, <2>0, <2>3
  <2> QED  BY <1>4, <2>1, <2>2, <2>3 DEF FindRow
<1>5. CASE FillUrlKey(r) \/ FillMetaKey(r)
  <2>1. \/ rd[r].pc = "seturl" /\ rd' = [rd EXCEPT ![r] = [@ EXCEPT !.pc = "setmeta"]]
        \/ rd[r].pc \in {"seturl", "setmeta"} /\ rd' = [rd EXCEPT ![r] = [@ EXCEPT !.pc = "serve"]]
    BY <1>5 DEF FillUrlKey, FillMetaKey
  <2>2. /\ rd'[r].reply = rd[r].reply
        /\ \/ rd[r].pc = "seturl" /\ rd'[r].pc = "setmeta"
           \/ rd[r].pc \in {"seturl", "setmeta"} /\ rd'[r].pc = "serve"
    BY <1>0, <2>1 DEF RedirectState
  <2> QED  BY <1>2, <2>2 DEF RedirectLeft
<1>6. CASE RefuseMalicious(r) \/ Serve(r)
  <2>1. /\ rd[r].pc \in {"evict", "serve"}
        /\ RedirectAnswer(r, "403") \/ RedirectAnswer(r, "500") \/ RedirectAnswer(r, "301")
    BY <1>6 DEF RefuseMalicious, Serve
  <2> QED  BY <1>1, <2>1
<1> QED  BY <1>3, <1>4, <1>5, <1>6 DEF RedirectStep

\* A failure after the INSERT is answered like a success, or goes on to the next call.
LEMMA ReportNearer ==
  ASSUME ReportTypeOK, NEW r \in Reporters, Answered(rp[r]), ReportStep(r)
  PROVE  ReportLeft(rp'[r].pc) < ReportLeft(rp[r].pc) /\ Answered(rp'[r])
<1>0. rp \in [Reporters -> ReportState] /\ rp[r] \in ReportState
  BY DEF ReportTypeOK
<1>1. ASSUME NEW code \in {"201", "400", "404", "409", "500"}, ReportAnswer(r, code),
             rp[r].pc \in {"idle", "insert", "count", "evict"}
      PROVE  ReportLeft(rp'[r].pc) < ReportLeft(rp[r].pc) /\ Answered(rp'[r])
  <2>1. rp'[r].pc = "done" /\ rp'[r].reply = code  BY <1>0, <1>1 DEF ReportAnswer, ReportState
  <2> QED  BY <1>1, <2>1 DEF ReportLeft, Answered
<1>2. ASSUME rp'[r].reply = rp[r].reply, rp[r].pc # "done", rp'[r].pc # "done",
             ReportLeft(rp'[r].pc) < ReportLeft(rp[r].pc)
      PROVE  ReportLeft(rp'[r].pc) < ReportLeft(rp[r].pc) /\ Answered(rp'[r])
  BY <1>2 DEF Answered
<1>3. ASSUME NEW h \in ReqHashes, NEW ip \in IPs, FindReported(r, h, ip)
      PROVE  ReportLeft(rp'[r].pc) < ReportLeft(rp[r].pc) /\ Answered(rp'[r])
  <2>1. rp[r].pc = "idle"  BY <1>3 DEF FindReported
  <2>2. ASSUME NEW id, rp' = [rp EXCEPT ![r] = [@ EXCEPT !.pc = "insert", !.hash = h, !.id = id,
                                                         !.ip = AnonymizeIP[ip]]]
        PROVE  ReportLeft(rp'[r].pc) < ReportLeft(rp[r].pc) /\ Answered(rp'[r])
    <3>1. rp'[r].pc = "insert" /\ rp'[r].reply = rp[r].reply  BY <1>0, <2>2 DEF ReportState
    <3> QED  BY <1>2, <2>1, <3>1 DEF ReportLeft
  <2> QED  BY <1>1, <1>3, <2>1, <2>2 DEF FindReported
<1>4. CASE InsertReport(r)
  <2>1. rp[r].pc = "insert"  BY <1>4 DEF InsertReport
  <2>2. CASE rp' = [rp EXCEPT ![r] = [@ EXCEPT !.pc = "count"]]
    <3>1. rp'[r].pc = "count" /\ rp'[r].reply = rp[r].reply  BY <1>0, <2>2 DEF ReportState
    <3> QED  BY <1>2, <2>1, <3>1 DEF ReportLeft
  <2> QED  BY <1>1, <1>4, <2>1, <2>2 DEF InsertReport
<1>5. CASE CountReports(r)
  <2>0. rp[r].pc = "count"  BY <1>5 DEF CountReports
  <2>1. ASSUME NEW n, rp'[r] = [rp[r] EXCEPT !.count = n, !.pc = "block"]
        PROVE  ReportLeft(rp'[r].pc) < ReportLeft(rp[r].pc) /\ Answered(rp'[r])
    <3>1. rp'[r].pc = "block" /\ rp'[r].reply = rp[r].reply  BY <1>0, <2>1 DEF ReportState
    <3> QED  BY <1>2, <2>0, <3>1 DEF ReportLeft
  <2>2. ASSUME NEW n, rp'[r] = [rp[r] EXCEPT !.count = n, !.pc = "done", !.reply = "201"]
        PROVE  ReportLeft(rp'[r].pc) < ReportLeft(rp[r].pc) /\ Answered(rp'[r])
    <3>1. rp'[r].pc = "done" /\ rp'[r].reply = "201"  BY <1>0, <2>2 DEF ReportState
    <3> QED  BY <2>0, <3>1 DEF ReportLeft, Answered
  <2>3. CASE ReportAnswer(r, "201")  BY <1>1, <2>0, <2>3
  <2>4. CASE ~ReportAnswer(r, "201")
    <3>1. \E n : \/ rp'[r] = [rp[r] EXCEPT !.count = n, !.pc = "block"]
                 \/ rp'[r] = [rp[r] EXCEPT !.count = n, !.pc = "done", !.reply = "201"]
      BY <1>0, <1>5, <2>4 DEF CountReports
    <3> QED  BY <2>1, <2>2, <3>1
  <2> QED  BY <2>3, <2>4
<1>6. CASE BlockUrl(r)
  <2>1. rp[r].pc = "block" /\ rp' = [rp EXCEPT ![r] = [@ EXCEPT !.pc = "evict"]]  BY <1>6 DEF BlockUrl
  <2>2. rp'[r].pc = "evict" /\ rp'[r].reply = rp[r].reply  BY <1>0, <2>1 DEF ReportState
  <2> QED  BY <1>2, <2>1, <2>2 DEF ReportLeft
<1>7. CASE EvictBlocked(r)
  BY <1>1, <1>7 DEF EvictBlocked
<1> QED  BY <1>3, <1>4, <1>5, <1>6, <1>7 DEF ReportStep
\* A crash ends a request, or had nothing to end.
LEMMA LostNearer ==
  /\ \A q \in ShortenState : Lost(q) # q => ShortenLeft(Lost(q).pc) < ShortenLeft(q.pc)
  /\ \A q \in RedirectState : Lost(q) # q => RedirectLeft(Lost(q).pc) < RedirectLeft(q.pc)
  /\ \A q \in ReportState : Lost(q) # q => ReportLeft(Lost(q).pc) < ReportLeft(q.pc)
  /\ \A q \in ShortenState \cup RedirectState \cup ReportState : Answered(q) => Answered(Lost(q))
<1>1. ASSUME NEW q \in ShortenState, Lost(q) # q  PROVE ShortenLeft(Lost(q).pc) < ShortenLeft(q.pc)
  <2>1. q.pc \in ShortenPC \ {"idle", "done"}  BY <1>1 DEF Lost, ShortenState
  <2>2. Lost(q).pc = "done"  BY <1>1, LostState
  <2> QED  BY <2>1, <2>2 DEF ShortenPC, ShortenLeft
<1>2. ASSUME NEW q \in RedirectState, Lost(q) # q  PROVE RedirectLeft(Lost(q).pc) < RedirectLeft(q.pc)
  <2>1. q.pc \in RedirectPC \ {"idle", "done"}  BY <1>2 DEF Lost, RedirectState
  <2>2. Lost(q).pc = "done"  BY <1>2, LostState
  <2> QED  BY <2>1, <2>2 DEF RedirectPC, RedirectLeft
<1>3. ASSUME NEW q \in ReportState, Lost(q) # q  PROVE ReportLeft(Lost(q).pc) < ReportLeft(q.pc)
  <2>1. q.pc \in ReportPC \ {"idle", "done"}  BY <1>3 DEF Lost, ReportState
  <2>2. Lost(q).pc = "done"  BY <1>3, LostState
  <2> QED  BY <2>1, <2>2 DEF ReportPC, ReportLeft
<1>4. ASSUME NEW q \in ShortenState \cup RedirectState \cup ReportState, Answered(q)
      PROVE  Answered(Lost(q))
  <2>1. Lost(q) = q \/ (Lost(q).pc = "done" /\ Lost(q).reply = "crash")  BY LostState
  <2> QED  BY <1>4, <2>1 DEF Answered
<1> QED  BY <1>1, <1>2, <1>3, <1>4

\* A request takes at most nine steps (a redirect or a report five), whatever
\* the others do and whatever fails, and has its answer exactly when it stops.
THEOREM RequestsRunOut == Spec => []AnsweredWhenDone /\ RequestsAdvance
<1> DEFINE Nearer ==
      /\ \A r \in Shorteners : ShortenStep(r) \/ sh'[r] # sh[r] => ShortenLeft(sh'[r].pc) < ShortenLeft(sh[r].pc)
      /\ \A r \in Redirectors : RedirectStep(r) \/ rd'[r] # rd[r] => RedirectLeft(rd'[r].pc) < RedirectLeft(rd[r].pc)
      /\ \A r \in Reporters : ReportStep(r) \/ rp'[r] # rp[r] => ReportLeft(rp'[r].pc) < ReportLeft(rp[r].pc)
<1>1. Init => AnsweredWhenDone
  BY DEF Init, ShortenInit, RedirectInit, ReportInit, AnsweredWhenDone, Answered
<1>2. TypeOK /\ AnsweredWhenDone /\ [Next]_vars => AnsweredWhenDone' /\ [Nearer]_vars
  <2> SUFFICES ASSUME TypeOK, AnsweredWhenDone, [Next]_vars  PROVE AnsweredWhenDone' /\ Nearer
    OBVIOUS
  <2>0. /\ ShortenTypeOK /\ RedirectTypeOK /\ ReportTypeOK
        /\ \A r \in Shorteners : sh[r] \in ShortenState /\ Answered(sh[r])
        /\ \A r \in Redirectors : rd[r] \in RedirectState /\ Answered(rd[r])
        /\ \A r \in Reporters : rp[r] \in ReportState /\ Answered(rp[r])
    BY DEF TypeOK, ShortenTypeOK, RedirectTypeOK, ReportTypeOK, AnsweredWhenDone
  <2>1. \A r \in Shorteners : /\ Answered(sh'[r])
                              /\ sh'[r] # sh[r] => ShortenLeft(sh'[r].pc) < ShortenLeft(sh[r].pc)
    <3>1. ASSUME NEW r \in Shorteners, ShortenStep(r), NEW q \in Shorteners
          PROVE  Answered(sh'[q]) /\ (sh'[q] # sh[q] => ShortenLeft(sh'[q].pc) < ShortenLeft(sh[q].pc))
      BY <2>0, <3>1, ShortenNearer
    <3>2. CASE Crash  BY <2>0, <3>2, LostNearer DEF Crash
    <3>3. CASE UNCHANGED sh  BY <2>0, <3>3
    <3> QED  BY <3>1, <3>2, <3>3 DEF Next, vars
  <2>2. \A r \in Redirectors : /\ Answered(rd'[r])
                               /\ rd'[r] # rd[r] => RedirectLeft(rd'[r].pc) < RedirectLeft(rd[r].pc)
    <3>1. ASSUME NEW r \in Redirectors, RedirectStep(r), NEW q \in Redirectors
          PROVE  Answered(rd'[q]) /\ (rd'[q] # rd[q] => RedirectLeft(rd'[q].pc) < RedirectLeft(rd[q].pc))
      BY <2>0, <3>1, RedirectNearer, RedirectWrites
    <3>2. CASE Crash  BY <2>0, <3>2, LostNearer DEF Crash
    <3>3. CASE UNCHANGED rd  BY <2>0, <3>3
    <3> QED  BY <3>1, <3>2, <3>3 DEF Next, vars
  <2>3. \A r \in Reporters : /\ Answered(rp'[r])
                             /\ rp'[r] # rp[r] => ReportLeft(rp'[r].pc) < ReportLeft(rp[r].pc)
    <3>1. ASSUME NEW r \in Reporters, ReportStep(r), NEW q \in Reporters
          PROVE  Answered(rp'[q]) /\ (rp'[q] # rp[q] => ReportLeft(rp'[q].pc) < ReportLeft(rp[q].pc))
      BY <2>0, <3>1, ReportNearer, ReportWrites
    <3>2. CASE Crash  BY <2>0, <3>2, LostNearer DEF Crash
    <3>3. CASE UNCHANGED rp  BY <2>0, <3>3
    <3> QED  BY <3>1, <3>2, <3>3 DEF Next, vars
  <2>4. AnsweredWhenDone'  BY <2>1, <2>2, <2>3 DEF AnsweredWhenDone
  <2>5. Nearer  BY <2>0, <2>1, <2>2, <2>3, ShortenNearer, RedirectNearer, ReportNearer
  <2> QED  BY <2>4, <2>5
<1> QED  BY <1>1, <1>2, ServiceCorrect, PTL DEF Spec, RequestsAdvance
=============================================================================
