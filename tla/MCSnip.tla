------------------------------- MODULE MCSnip -------------------------------
(* Constant values with which TLC checks Snip.                              *)
EXTENDS SnipClaims, TLC

RequestSymmetry == Permutations(Shorteners) \cup Permutations(Redirectors) \cup Permutations(Reporters)

\* "a" and "A" are two URLs whose paths differ only in case.
MCUrls == {"a", "b"}
MCCaseUrls == {"a", "A", "b"}
MCLiveUrls == {"a", "b", "c", "d", "e"}
MCUrlKey == [u \in Urls |-> IF u = "A" THEN "a" ELSE u]

\* What clients send; "x" stands for everything that is refused with 400.
MCRawUrls == Urls \cup {"x"}
MCRawC == {"c"}
MCNormalize == [raw \in RawUrls |-> IF raw = "x" THEN Rejected ELSE raw]

\* Hashes clients ask for: those of the first rows, and one of no row.
OutOfPattern == << 1 >>
MCHashes == {Encode(1), Encode(2), OutOfPattern}
MCHash1 == {Encode(1)}
MCHash1or0 == {Encode(1), OutOfPattern}
\* With one letter and two digits, rows 2 and 3 differ only in case.
MCHashes23 == {Encode(2), Encode(3)}

MCAnyOutcome == [u \in Urls |-> ScanStatus]
MCOneOutcome == [u \in Urls |-> {CASE u = "a" -> "clean" [] u = "A" -> "unverified" [] OTHER -> "malicious"}]
MCClean == [u \in Urls |-> {"clean"}]
MCLiveOutcomes ==
  [u \in Urls |-> CASE u = "b" -> {"malicious"} [] u = "d" -> {"unverified", "clean"} [] OTHER -> {"clean"}]

SeedRow(i, u, vt) == [hash |-> Encode(i), url |-> u, exp |-> ExpDays, vt |-> vt]
ExpiredRow(i, u, vt) == [SeedRow(i, u, vt) EXCEPT !.exp = 0]
MCNoSeed == << >>
MCSeedExpiring == << ExpiredRow(1, "a", "clean"), ExpiredRow(2, "b", "clean") >>
MCSeedOneExpiring == << ExpiredRow(1, "a", "clean") >>
MCSeedUnverified == << SeedRow(1, "a", "unverified") >>
\* A clean row and a backlog: a row that has expired, one whose permalink is
\* too long, one that can be scanned, one whose scans may stay inconclusive, and
\* one more that can be scanned.
MCSeedLive ==
  << SeedRow(1, "a", "clean"), ExpiredRow(2, "b", "unverified"), SeedRow(3, "e", "unverified"),
     SeedRow(4, "b", "unverified"), SeedRow(5, "d", "unverified"), SeedRow(6, "b", "unverified") >>

\* Three addresses in two networks.
MCIPs == {"n1.1", "n1.2", "n2.1"}
MCAnonymizeIP == [ip \in IPs |-> IF ip = "n2.1" THEN "n2" ELSE "n1"]
MCOneIP == {"n1.1"}
=============================================================================
