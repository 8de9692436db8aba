-------------------------- MODULE VirusTotalProofs --------------------------
(***************************************************************************)
(* What a scan returns, for any number of calls, any threshold and any      *)
(* behaviour of VirusTotal.                                                *)
(***************************************************************************)
EXTENDS VirusTotal, TLAPS

\* Every value stays in its type; in particular no call returns the zero
\* ScanResult of an analysis that is not completed.
THEOREM VTTypeCorrect == VTSpec => []VTTypeOK
<1>1. VTInit => VTTypeOK
  BY DEF VTInit, VTTypeOK, NoResult
<1>2. VTTypeOK /\ [VTNext]_vtVars => VTTypeOK'
  <2> SUFFICES ASSUME VTTypeOK, [VTNext]_vtVars PROVE VTTypeOK'
    OBVIOUS
  <2> USE DEF VTTypeOK
  <2>1. ASSUME NEW s \in Scans, Call(s) PROVE VTTypeOK'
    BY <2>1 DEF Call, Goto
  <2>2. ASSUME NEW s \in Scans, Deadline(s) PROVE VTTypeOK'
    BY <2>2 DEF Deadline
  <2>3. ASSUME NEW s \in Scans, SubmitUrl(s) PROVE VTTypeOK'
    <3>1. scan' \in [Scans -> [pc : {"idle", "submit", "wait", "fetch", "done"},
                                result : {NoResult, "clean", "malicious", "unverified"}]]
      BY <2>3 DEF SubmitUrl, Goto, Return
    <3>2. CASE UNCHANGED analysis  BY <2>3, <3>1, <3>2 DEF SubmitUrl
    <3>3. CASE Queued(s)  BY <2>3, <3>1, <3>3 DEF SubmitUrl, Queued
    <3> QED  BY <2>3, <3>2, <3>3 DEF SubmitUrl
  <2>4. ASSUME NEW s \in Scans, PollWait(s) PROVE VTTypeOK'
    BY <2>4 DEF PollWait, Goto, Return
  <2>5. ASSUME NEW s \in Scans, FetchAnalysis(s) PROVE VTTypeOK'
    BY <2>5 DEF FetchAnalysis, Goto, Return, Verdict
  <2>6. ASSUME NEW s \in Scans, Complete(s) PROVE VTTypeOK'
    BY <2>6 DEF Complete
  <2>7. CASE Stop
    BY <2>7, VirusTotalAssumption DEF Stop
  <2>8. CASE UNCHANGED vtVars
    BY <2>8 DEF vtVars
  <2> QED  BY <2>1, <2>2, <2>3, <2>4, <2>5, <2>6, <2>7, <2>8 DEF VTNext, ScanStep
<1> QED  BY <1>1, <1>2, PTL DEF VTSpec

\* A verdict is VirusTotal's: Complete runs once per analysis, and only
\* FetchAnalysis of a completed one returns clean or malicious.
THEOREM VerdictCorrect == VTSpec => []VerdictIsVirusTotals
<1>1. VTInit => VerdictIsVirusTotals
  <2> SUFFICES ASSUME VTInit  PROVE VerdictIsVirusTotals
    OBVIOUS
  <2>1. ASSUME NEW s \in Scans  PROVE scan[s] = [pc |-> "idle", result |-> NoResult]
    BY DEF VTInit
  <2>2. ASSUME NEW s \in Scans  PROVE scan[s].pc # "done" /\ scan[s].result = NoResult
    BY <2>1 DEF NoResult
  <2> QED  BY <2>2, Zenon DEF VerdictIsVirusTotals
<1>2. VTTypeOK /\ VerdictIsVirusTotals /\ [VTNext]_vtVars => VerdictIsVirusTotals'
  <2> SUFFICES ASSUME VTTypeOK, VerdictIsVirusTotals, [VTNext]_vtVars PROVE VerdictIsVirusTotals'
    OBVIOUS
  <2> USE DEF VTTypeOK, VerdictIsVirusTotals, NoResult
  <2>1. ASSUME NEW s \in Scans, Call(s) PROVE VerdictIsVirusTotals'
    BY <2>1 DEF Call, Goto
  <2>2. ASSUME NEW s \in Scans, Deadline(s) PROVE VerdictIsVirusTotals'
    BY <2>2 DEF Deadline
  <2>3. ASSUME NEW s \in Scans, SubmitUrl(s) PROVE VerdictIsVirusTotals'
    BY <2>3 DEF SubmitUrl, Goto, Return, Queued
  <2>4. ASSUME NEW s \in Scans, PollWait(s) PROVE VerdictIsVirusTotals'
    BY <2>4 DEF PollWait, Goto, Return
  <2>5. ASSUME NEW s \in Scans, FetchAnalysis(s) PROVE VerdictIsVirusTotals'
    BY <2>5, VirusTotalAssumption DEF FetchAnalysis, Goto, Return, Verdict
  <2>6. ASSUME NEW s \in Scans, Complete(s) PROVE VerdictIsVirusTotals'
    BY <2>6 DEF Complete
  <2>7. CASE Stop
    BY <2>7 DEF Stop
  <2>8. CASE UNCHANGED vtVars
    BY <2>8 DEF vtVars
  <2> QED  BY <2>1, <2>2, <2>3, <2>4, <2>5, <2>6, <2>7, <2>8 DEF VTNext, ScanStep
<1> QED  BY <1>1, <1>2, VTTypeCorrect, PTL DEF VTSpec

\* A call whose context is done never returns a verdict.
THEOREM LateVerdictsDropped == VTSpec => LateVerdictIsDropped
<1>1. VTTypeOK /\ [VTNext]_vtVars
      => [\A s \in cancelled : scan'[s].result \in {scan[s].result, "unverified"}]_vtVars
  <2> SUFFICES ASSUME VTTypeOK, VTNext, NEW s \in cancelled
               PROVE  scan'[s].result \in {scan[s].result, "unverified"}
    OBVIOUS
  <2> USE DEF VTTypeOK
  <2>1. ASSUME NEW t \in Scans, Call(t) \/ PollWait(t)
        PROVE  scan'[s].result \in {scan[s].result, "unverified"}
    BY <2>1 DEF Call, PollWait, Goto, Return
  <2>2. ASSUME NEW t \in Scans, SubmitUrl(t) \/ FetchAnalysis(t)
        PROVE  scan'[s].result \in {scan[s].result, "unverified"}
    BY <2>2 DEF SubmitUrl, FetchAnalysis, Goto, Return
  <2>3. ASSUME UNCHANGED scan  PROVE scan'[s].result \in {scan[s].result, "unverified"}
    BY <2>3
  <2> QED  BY <2>1, <2>2, <2>3 DEF VTNext, ScanStep, Deadline, Complete, Stop
<1> QED  BY <1>1, VTTypeCorrect, PTL DEF VTSpec, LateVerdictIsDropped

\* The client implements ScanOracle: every action but the last of a call leaves
\* its answer alone, and the last gives one the oracle allows.  So a scan may be
\* taken as one step, with the status chosen when the call returns.
THEOREM OracleRefinement == VTSpec => AnswersOnce
<1> DEFINE answers == [s \in Scans |-> scan[s].result]
<1>1. VTInit => Oracle!OracleInit
  BY DEF VTInit, Oracle!OracleInit, NoResult
<1>2. VTTypeOK /\ VerdictIsVirusTotals /\ [VTNext]_vtVars => [Oracle!OracleNext]_(Oracle!oracleVars)
  <2> SUFFICES ASSUME VTTypeOK, VerdictIsVirusTotals, [VTNext]_vtVars
               PROVE  Oracle!OracleNext \/ UNCHANGED << answers, cancelled >>
    BY DEF Oracle!oracleVars
  <2>0. scan \in [Scans -> [pc : {"idle", "submit", "wait", "fetch", "done"},
                            result : {NoResult, "clean", "malicious", "unverified"}]]
    BY DEF VTTypeOK
  <2>1. ASSUME NEW s \in Scans, NEW pc, Goto(s, pc)  PROVE UNCHANGED answers
    BY <2>0, <2>1 DEF Goto
  <2>2. ASSUME NEW s \in Scans, scan[s].pc # "done", UNCHANGED cancelled, NEW status, Return(s, status),
               status = "unverified" \/ (s \notin cancelled /\ \E n \in Positives : status = Verdict(n))
        PROVE  Oracle!OracleNext
    <3>1. answers[s] = "none"  BY <2>2 DEF VerdictIsVirusTotals, NoResult
    <3>2. answers' = [answers EXCEPT ![s] = status]  BY <2>0, <2>2 DEF Return
    <3> QED  BY <2>2, <3>1, <3>2 DEF Oracle!OracleNext, Oracle!Answer
  <2>3. ASSUME NEW s \in Scans, Call(s) \/ SubmitUrl(s) \/ PollWait(s)
        PROVE  Oracle!OracleNext \/ UNCHANGED << answers, cancelled >>
    BY <2>1, <2>2, <2>3 DEF Call, SubmitUrl, PollWait
  <2>4. ASSUME NEW s \in Scans, FetchAnalysis(s)
        PROVE  Oracle!OracleNext \/ UNCHANGED << answers, cancelled >>
    <3>1. analysis[s].status = "completed" => analysis[s].malicious \in Positives
      BY DEF VTTypeOK
    <3> QED  BY <2>1, <2>2, <2>4, <3>1 DEF FetchAnalysis
  <2>5. ASSUME UNCHANGED scan, cancelled \subseteq cancelled', cancelled' \subseteq Scans
        PROVE  Oracle!OracleNext
    BY <2>5 DEF Oracle!OracleNext, Oracle!Cancel
  <2>6. CASE (\E s \in Scans : Deadline(s) \/ Complete(s)) \/ Stop \/ UNCHANGED vtVars
    BY <2>5, <2>6 DEF Deadline, Complete, Stop, vtVars, VTTypeOK
  <2> QED  BY <2>3, <2>4, <2>6 DEF VTNext, ScanStep
<1> QED  BY <1>1, <1>2, VTTypeCorrect, VerdictCorrect, PTL DEF VTSpec, AnswersOnce, Oracle!OracleSpec
=============================================================================
