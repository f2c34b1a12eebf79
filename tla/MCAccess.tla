------------------------------ MODULE MCAccess ------------------------------
(* Small instances of Access for TLC. *)
EXTENDS Access, TLC

CONSTANTS t1, t2, r1, r2, b1, w1, w2

TwoTradeAccounts == {t1, t2}
TwoRequests == {r1, r2}
OneBatch == {b1}
TwoSessions == {w1, w2}
OneDay == {1}

\* Slots and trials are explored side by side, not multiplied: with batches the
\* trial has not started, and a trial runs under open access.
MCNext == Next /\ (BatchesEnabled' => trial' = None /\ ~privileged')
MCSpec == /\ Init /\ [][MCNext]_vars
          /\ WF_vars(Worker)
          /\ \A t \in TradeAccounts : WF_vars(GateRefuses(t)) /\ WF_vars(Pause(t))
=============================================================================
