------------------------------- MODULE Base62 -------------------------------
(***************************************************************************)
(* Short hashes: internal/hash/base62.go, and the equality that the MySQL   *)
(* column urls.hash applies to them.                                       *)
(*                                                                         *)
(* A hash is the sequence of its digits' positions in `alphabet`: first    *)
(* NumDigits caseless digits, then NumLetters upper-case letters, then the *)
(* same letters in lower case.  The program has NumDigits = 10,            *)
(* NumLetters = 26, MinLen = 7 and WordBits = 64; model checking uses the  *)
(* same code with a smaller alphabet, because 62^6 exceeds TLC's integers. *)
(***************************************************************************)
EXTENDS Integers, Sequences

CONSTANTS
  NumDigits,    \* caseless characters of the alphabet
  NumLetters,   \* letters, present in upper and in lower case
  MinLen,       \* characters of the shortest hash
  WordBits      \* width of the unsigned word that holds an id

ASSUME Base62Assumption ==
  /\ NumDigits \in Nat \ {0}
  /\ NumLetters \in Nat \ {0}
  /\ MinLen \in Nat \ {0}
  /\ WordBits \in Nat \ {0}

Base == NumDigits + 2 * NumLetters

Word == 2 ^ WordBits

\* Powers of 62, as a function: proofs can unfold it.
Power[k \in Nat] == IF k = 0 THEN 1 ELSE Base * Power[k - 1]

\* offset = 62^6: the smallest number with MinLen digits.
Offset == Power[MinLen - 1]

\* 62^7 < 2^64: decoding a string of the accepted length does not wrap.
ASSUME ShortHashesFit == Power[MinLen] <= Word

\* The digits of n, most significant first; no digit for 0.
Digits[n \in Nat] ==
  IF n = 0 THEN << >> ELSE Append(Digits[n \div Base], n % Base)

\* Mutant: the offset is forgotten.
EncodeUnpadded(id) == IF id = 0 THEN << 0 >> ELSE Digits[id]

Encode(id) ==
  LET n == (id + Offset) % Word
  IN  IF n = 0 THEN << 0 >> ELSE Digits[n]

\* The loop of Decode: n = n*62 + idx, in a word that wraps.
Value(s) ==
  LET v[i \in 0 .. Len(s)] ==
        IF i = 0 THEN 0 ELSE (v[i - 1] * Base + s[i]) % Word
  IN  v[Len(s)]

DecodeError == -1

\* Mutant: no check that the value reaches the offset.
DecodeUnchecked(s) ==
  IF s = << >> \/ \E i \in 1 .. Len(s) : s[i] \notin 0 .. Base - 1
  THEN DecodeError ELSE Value(s) - Offset

\* A character outside the alphabet is any "digit" that is not below Base.
Decode(s) ==
  IF \/ s = << >>
     \/ \E i \in 1 .. Len(s) : s[i] \notin 0 .. Base - 1
     \/ Value(s) < Offset
  THEN DecodeError
  ELSE Value(s) - Offset

(***************************************************************************)
(* urls.hash is VARCHAR ... CHARSET=utf8mb4 without a COLLATE clause, so   *)
(* MySQL 8 compares it with its default utf8mb4_0900_ai_ci: letters of     *)
(* different case are equal, for WHERE hash = ? and for the UNIQUE key.    *)
(***************************************************************************)
FoldChar(d) == IF d >= NumDigits + NumLetters THEN d - NumLetters ELSE d

FoldHash(h) == [i \in DOMAIN h |-> FoldChar(h[i])]

SameHash(g, h) == FoldHash(g) = FoldHash(h)
=============================================================================
