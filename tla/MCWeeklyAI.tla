----------------------------- MODULE MCWeeklyAI -----------------------------
(* Small instances of WeeklyAI for TLC. *)
EXTENDS WeeklyAI, TLC

CONSTANTS k1, k2, p1, p2, s1

TwoWorkers == {k1, k2}
TwoTabs == {p1, p2}
OneSync == {s1}

\* The chat is explored about the first review, while nothing else goes on; check-ins
\* without faults.  The second fault is that of a retried task.
Chatting == asking' \cup unstarted' # {} \/ made' > 0 \/ trial' # "not_started"
NoCheckin == checkin' = [w \in Weeks |-> None]
MCNext ==
    /\ Next
    /\ Chatting => queue' = <<>> /\ Busy = {} /\ now' = 0 /\ status' = status
    /\ Chatting \/ faults' > 0 => NoCheckin
    /\ ~(Chatting /\ faults' > 0)
    /\ faults' = 2 /\ faults = 1 =>
         \E k \in Busy : running[k].task.retries > 0 /\ ~running[k].saved /\ running'[k] = Idle
MCSpec == Init /\ [][MCNext]_vars /\ Fairness
=============================================================================
