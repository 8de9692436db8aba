----------------------------- MODULE VirusTotal -----------------------------
(***************************************************************************)
(* VirusTotalScanner.Scan (internal/scanner/virustotal.go): submit the URL, *)
(* then poll the analysis until it is completed.  Snip takes a scan as one  *)
(* step that returns a status; this module is what happens inside.         *)
(*                                                                         *)
(* Shorten calls Scan with a deadline (VT_TIMEOUT_SECONDS), the rescanner   *)
(* with the context of the process, which only a signal cancels.           *)
(***************************************************************************)
EXTENDS Integers

CONSTANTS
  Scans,          \* calls of Scan; each is made at most once
  Bounded,        \* those made by Shorten
  MinPositives,   \* VT_MIN_POSITIVES
  Positives       \* numbers of engines that may find a URL malicious

ASSUME VirusTotalAssumption ==
  /\ Bounded \subseteq Scans
  /\ MinPositives \in Int
  /\ Positives \subseteq Nat

VARIABLES
  scan,       \* call -> where it is and the status it returned
  cancelled,  \* calls whose context is done
  analysis    \* VirusTotal's analysis of the call's URL

vtVars == << scan, cancelled, analysis >>

NoResult == "none"

VTTypeOK ==
  /\ scan \in [Scans -> [pc : {"idle", "submit", "wait", "fetch", "done"},
                         result : {NoResult, "clean", "malicious", "unverified"}]]
  /\ cancelled \subseteq Scans
  /\ analysis \in [Scans -> [status : {"none", "queued"}, malicious : {0}]
                         \cup [status : {"completed"}, malicious : Positives]]

VTInit ==
  /\ scan = [s \in Scans |-> [pc |-> "idle", result |-> NoResult]]
  /\ cancelled = {}
  /\ analysis = [s \in Scans |-> [status |-> "none", malicious |-> 0]]

Goto(s, pc) == scan' = [scan EXCEPT ![s] = [@ EXCEPT !.pc = pc]]

Return(s, status) == scan' = [scan EXCEPT ![s] = [pc |-> "done", result |-> status]]

Call(s) ==
  /\ scan[s].pc = "idle"
  /\ Goto(s, "submit")
  /\ UNCHANGED << cancelled, analysis >>

-----------------------------------------------------------------------------
(* Contexts.                                                                *)

\* The deadline of Shorten's context.
Deadline(s) ==
  /\ s \in Bounded \ cancelled /\ scan[s].pc \notin {"idle", "done"}
  /\ cancelled' = cancelled \cup {s}
  /\ UNCHANGED << scan, analysis >>

\* SIGINT or SIGTERM, for the calls of the rescanner; later ones find the
\* context done.
Stop ==
  /\ cancelled' = cancelled \cup (Scans \ Bounded)
  /\ UNCHANGED << scan, analysis >>

-----------------------------------------------------------------------------
(* Scan.  A request can fail at any time (transport, status outside 2xx,    *)
(* body that does not decode), and does under a context that is done.      *)

Queued(s) == analysis' = [analysis EXCEPT ![s] = [status |-> "queued", malicious |-> 0]]

\* submit.  A request that failed may have been accepted all the same.
SubmitUrl(s) ==
  /\ scan[s].pc = "submit"
  /\ \/ s \notin cancelled /\ Queued(s) /\ Goto(s, "wait")
     \/ Return(s, "unverified") /\ (Queued(s) \/ UNCHANGED analysis)
  /\ UNCHANGED cancelled

\* The select of poll: the next round, or the context.  When both are ready
\* either may be taken.
PollWait(s) ==
  /\ scan[s].pc = "wait"
  /\ \/ Goto(s, "fetch")
     \/ s \in cancelled /\ Return(s, "unverified")
  /\ UNCHANGED << cancelled, analysis >>

\* Mutant: one engine more than configured is needed.
VerdictAbove(n) == IF n > MinPositives THEN "malicious" ELSE "clean"

Verdict(n) == IF n >= MinPositives THEN "malicious" ELSE "clean"

\* Mutant: a failed request is tried again.
FetchRetrying(s) ==
  /\ scan[s].pc = "fetch"
  /\ \/ Goto(s, "wait")
     \/ /\ s \notin cancelled /\ analysis[s].status = "completed"
        /\ Return(s, Verdict(analysis[s].malicious))
  /\ UNCHANGED << cancelled, analysis >>

\* Mutant: the requests do not carry the context.
FetchIgnoringContext(s) ==
  /\ scan[s].pc = "fetch"
  /\ \/ analysis[s].status # "completed" /\ Goto(s, "wait")
     \/ analysis[s].status = "completed" /\ Return(s, Verdict(analysis[s].malicious))
  /\ UNCHANGED << cancelled, analysis >>

\* Mutant: the zero ScanResult of an unfinished analysis is returned.
FetchOnce(s) ==
  /\ scan[s].pc = "fetch"
  /\ Return(s, IF analysis[s].status = "completed" THEN Verdict(analysis[s].malicious) ELSE "")
  /\ UNCHANGED << cancelled, analysis >>

\* fetchAnalysis: only an analysis that is not completed is polled again.
FetchAnalysis(s) ==
  /\ scan[s].pc = "fetch"
  /\ \/ Return(s, "unverified")
     \/ s \notin cancelled /\ analysis[s].status # "completed" /\ Goto(s, "wait")
     \/ /\ s \notin cancelled /\ analysis[s].status = "completed"
        /\ Return(s, Verdict(analysis[s].malicious))
  /\ UNCHANGED << cancelled, analysis >>

ScanStep(s) == SubmitUrl(s) \/ PollWait(s) \/ FetchAnalysis(s)

\* VirusTotal completes an analysis, or never does.
Complete(s) ==
  /\ analysis[s].status = "queued"
  /\ \E n \in Positives : analysis' = [analysis EXCEPT ![s] = [status |-> "completed", malicious |-> n]]
  /\ UNCHANGED << scan, cancelled >>

VTNext ==
  \/ \E s \in Scans : Call(s) \/ Deadline(s) \/ ScanStep(s) \/ Complete(s)
  \/ Stop

VTSpec == VTInit /\ [][VTNext]_vtVars

\* Each request has the client's timeout, the timer of poll fires, and so
\* does a deadline.  Nothing makes VirusTotal complete an analysis.
FairVTSpec ==
  /\ VTSpec
  /\ \A s \in Scans : WF_vtVars(ScanStep(s)) /\ WF_vtVars(Deadline(s))

-----------------------------------------------------------------------------
\* A call that has not returned has no status; one that returned clean or
\* malicious says what the completed analysis of its URL says, by the
\* configured number of engines.  Every failure on the way, in whatever round
\* of the polling, is unverified.
VerdictIsVirusTotals ==
  \A s \in Scans :
    IF scan[s].pc # "done" THEN scan[s].result = NoResult
    ELSE \/ scan[s].result = "unverified"
         \/ /\ analysis[s].status = "completed"
            /\ scan[s].result = "malicious" <=> analysis[s].malicious >= MinPositives
            /\ scan[s].result # NoResult

\* A call whose context is done returns, and returns unverified: a verdict
\* that arrives after the deadline is not used.
LateVerdictIsDropped ==
  [][\A s \in cancelled : scan'[s].result \in {scan[s].result, "unverified"}]_vtVars

\* Submitting, waiting and fetching add up to one answer, and never to one that
\* the counts VirusTotal may report do not give: what Snip takes as one step.
Oracle == INSTANCE ScanOracle WITH
  Calls <- Scans, Verdicts <- {Verdict(n) : n \in Positives}, answer <- [s \in Scans |-> scan[s].result]

AnswersOnce == Oracle!OracleSpec

\* Shorten's scan returns although VirusTotal may never complete the analysis,
\* and every scan returns once its context is done: a request to shorten is
\* not held up by the scan, nor is the end of the process.
ScanReturns ==
  \A s \in Scans :
    (s \in Bounded \cup cancelled /\ scan[s].pc # "idle") ~> (scan[s].pc = "done")
=============================================================================
