---------------------------- MODULE MCVirusTotal ----------------------------
(* Constant values with which TLC checks VirusTotal.                        *)
EXTENDS VirusTotal

\* No engine, one too few, just enough and one more.
MCPositives == {0, MinPositives - 1, MinPositives, MinPositives + 1}
=============================================================================
