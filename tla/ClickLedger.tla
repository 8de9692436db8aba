---------------------------- MODULE ClickLedger -----------------------------
(***************************************************************************)
(* What the click pipeline promises, without its channel and its workers:   *)
(* a click that is taken is owed a row; an owed click gets one row or is    *)
(* lost, once and for all; and the books close only when nothing is owed.  *)
(***************************************************************************)
CONSTANTS
  Clicks,
  MayFail    \* clicks that may be lost after they were taken

VARIABLES
  ledger,    \* click -> its entry
  books      \* "open", or "closed" with nothing owed

ledgerVars == << ledger, books >>

Entry == {"none", "owed", "recorded", "lost"}

LedgerInit == ledger = [c \in Clicks |-> "none"] /\ books = "open"

Enter(c, from, to) ==
  /\ books = "open"
  /\ ledger[c] = from
  /\ ledger' = [ledger EXCEPT ![c] = to]
  /\ UNCHANGED books

Take(c) == Enter(c, "none", "owed")
Refuse(c) == Enter(c, "none", "lost")
Record(c) == Enter(c, "owed", "recorded")
Lose(c) == c \in MayFail /\ Enter(c, "owed", "lost")

Balance ==
  /\ \A c \in Clicks : ledger[c] # "owed"
  /\ books' = "closed"
  /\ UNCHANGED ledger

LedgerNext ==
  \/ \E c \in Clicks : Take(c) \/ Refuse(c) \/ Record(c) \/ Lose(c)
  \/ Balance

LedgerSpec == LedgerInit /\ [][LedgerNext]_ledgerVars
=============================================================================
