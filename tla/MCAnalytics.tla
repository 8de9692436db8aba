---------------------------- MODULE MCAnalytics -----------------------------
(* Constant values with which TLC checks Analytics: two clicks on one of   *)
(* two URLs, by different agents, and one whose id Redis had lost.          *)
EXTENDS Analytics, TLC

MCTarget == [c \in Clicks |-> IF c \in {"c1", "c2"} THEN 1 ELSE 0]
MCAgent == [c \in Clicks |-> IF c = "c1" THEN "curl" ELSE "browser"]
=============================================================================
