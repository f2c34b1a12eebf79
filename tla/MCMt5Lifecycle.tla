--------------------------- MODULE MCMt5Lifecycle ---------------------------
(* Small instances of Mt5Lifecycle for TLC. *)
EXTENDS Mt5Lifecycle, TLC

CONSTANTS a1, a2, v1, v2, w1, w2

OneAccount == {a1}
TwoAccounts == {a1, a2}
OneVm == <<v1>>
TwoVms == <<v1, v2>>
OneSession == {w1}
TwoSessions == {w1, w2}
AllOperations == UserOps \cup AdminOps
Archival == {"link", "archive"}
=============================================================================
