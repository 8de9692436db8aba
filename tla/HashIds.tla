------------------------------ MODULE HashIds -------------------------------
(***************************************************************************)
(* What the short hash of an id promises, for every id a word can hold: ids  *)
(* are the AUTO_INCREMENT keys of table urls, and hashes arrive in requests. *)
(***************************************************************************)
EXTENDS Base62

VARIABLE id   \* the id at hand

HashSpec == id \in 0 .. Word - 1 /\ [][id' \in 0 .. Word - 1]_id

\* Decode inverts Encode for every id whose sum with offset fits the word; for
\* the Offset ids above that, whose sum wraps, Decode reports an error rather
\* than another id.
RoundTrip == Decode(Encode(id)) = IF id + Offset < Word THEN id ELSE DecodeError

\* Among the strings of MinLen characters (the only ones the redirect handler
\* accepts) one and only one decodes to an id, the one Encode gives; none does
\* once the id needs one character more.
OneHashPerId ==
  LET short == id < Power[MinLen] - Offset
      found == {s \in [1 .. MinLen -> 0 .. Base - 1] : Decode(s) = id}
  IN  /\ found = IF short THEN {Encode(id)} ELSE {}
      /\ id + Offset < Word => (Len(Encode(id)) = MinLen <=> short)
=============================================================================
