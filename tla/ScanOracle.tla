----------------------------- MODULE ScanOracle ------------------------------
(***************************************************************************)
(* What a scan promises its callers, without requests or polling: one       *)
(* answer, given in one step, as Shortener and Rescanner take it.  Any scan *)
(* may be inconclusive, and one whose context is done can be nothing else.  *)
(***************************************************************************)
CONSTANTS
  Calls,      \* calls of Scan
  Verdicts    \* what a conclusive scan may say

VARIABLES
  answer,     \* call -> what it was answered
  cancelled   \* calls whose context is done

oracleVars == << answer, cancelled >>

OracleInit ==
  /\ answer = [c \in Calls |-> "none"]
  /\ cancelled = {}

Answer(c) ==
  /\ answer[c] = "none"
  /\ \E status \in {"unverified"} \cup IF c \in cancelled THEN {} ELSE Verdicts :
       answer' = [answer EXCEPT ![c] = status]
  /\ UNCHANGED cancelled

Cancel ==
  /\ cancelled \subseteq cancelled' /\ cancelled' \subseteq Calls
  /\ UNCHANGED answer

OracleNext == Cancel \/ \E c \in Calls : Answer(c)

OracleSpec == OracleInit /\ [][OracleNext]_oracleVars
=============================================================================
