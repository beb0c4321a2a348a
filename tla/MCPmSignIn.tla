----------------------------- MODULE MCPmSignIn -----------------------------
(* Two people at three tabs; both run organisation 1, whose name is the    *)
(* second choice of organisation 2.                                        *)
EXTENDS PmSignIn

MCWho == [t \in Tabs |-> IF t = "t3" THEN "q" ELSE "p"]
MCBelongs == [p \in People |-> IF p = "p" THEN {1} ELSE {1, 2}]
MCCandidates == [o \in Orgs |-> IF o = 1 THEN <<1, 3>> ELSE <<2, 1, 4>>]
MCAddress == [p \in People |-> IF p = "p" THEN "e" ELSE "f"]
=============================================================================
