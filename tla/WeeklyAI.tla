------------------------------ MODULE WeeklyAI ------------------------------
(***************************************************************************)
(* The weekly review of one trade account: who may queue it, the claim in  *)
(* Redis that keeps it from being queued twice, the task that generates it *)
(* and the follow-up chat about it.                                        *)
(*                                                                         *)
(* Time is counted in half weeks: week w begins at 2w - 2, its market      *)
(* closes (Friday 17:30 in New York) at 2w - 1.  The claim is a key of the *)
(* week that the producer saw; the task finds its week anew.               *)
(*                                                                         *)
(* Bounds: MaxWeek weeks and MaxFaults deletions of trades, failures,      *)
(* crashes, regenerations and claims that end while their task is pending. *)
(***************************************************************************)
EXTENDS Naturals, Sequences, FiniteSets, FiniteSetsExt

CONSTANTS
    Workers,     \* processes of the Celery worker
    Tabs,        \* requests of the chat that may be in progress at once
    Syncs,       \* sync tasks of the member's accounts that may run at once
    None,
    MaxWeek, MaxFaults,
    MinClosed,   \* MIN_CLOSED_TRADES_FOR_ADVICE
    MaxRetries,  \* max_retries of generate_weekly_ai_task
    KeepWeeks,   \* weeks a check-in is kept
    ChatLimit,   \* WEEKLY_FOLLOWUP_TRIAL_MESSAGE_LIMIT
    MinuteLimit  \* WEEKLY_FOLLOWUP_MAX_USER_MESSAGES_PER_MINUTE

ASSUME WeeklyAssumption ==
    /\ {MaxWeek, MaxFaults, MaxRetries, KeepWeeks} \subseteq Nat
    /\ {MinClosed, ChatLimit, MinuteLimit} \subseteq Nat \ {0}
    /\ IsFiniteSet(Tabs) /\ Tabs # {} /\ IsFiniteSet(Syncs) /\ Tabs \cap Syncs = {}
    /\ None \notin {"queued", "running", "failed"}

Weeks == 1 .. MaxWeek

VARIABLES
    now,      \* half weeks
    closed,   \* closed[w]: closed trade ideas of week w, counted up to MinClosed
    checkin,  \* checkin[w]: the check-in of week w: None, "skipped" or "answered"
    reviews,  \* reviews[w]: automatic reviews of week w
    forced,   \* forced[w]: reviews of week w an administrator asked for
    status,   \* status[w]: the key ai_status of week w, None when there is none
    up,       \* whether Redis answers the commands on these keys
    queue,    \* tasks sent
    running,  \* running[k]: the task of worker k
    mails,    \* mails[w]: emails that announced a review of week w
    trial,    \* state of the premium trial
    asking,   \* tabs that wait for an answer of the chat
    unstarted, \* tabs and syncs that loaded the user before the trial had a start
    sent, recent, \* user messages since the trial's start, and of the last minute
    made,     \* history: all user messages of the trial
    restarts, \* history: times the trial's start was overwritten by a later one
    lapsed,   \* history: weeks whose key ended while a task of theirs was pending
    crossed,  \* history: weeks generated by a task that was queued for another week
    orphan,   \* history: weeks whose task was lost, or could not write its status
    faults

trades == <<now, closed, checkin>>
chat == <<trial, asking, unstarted, sent, recent, made, restarts>>
history == <<lapsed, crossed, orphan>>
vars == <<trades, reviews, forced, status, up, queue, running, mails, chat, history, faults>>

-----------------------------------------------------------------------------
Begins(w) == 2 * w - 2
Cutoff(w) == 2 * w - 1

\* get_weekly_dashboard_period: the last week whose market has closed, 0 for none.
DashboardWeek == (now + 1) \div 2

\* get_latest_trade_week_period: the last week with trades up to the dashboard's,
\* or else the last week with trades; 0 for none.
TradeWeeks == {w \in Weeks : closed[w] > 0}
Latest == LET past == {w \in TradeWeeks : w <= DashboardWeek}
          IN  Max({0} \cup IF past # {} THEN past ELSE TradeWeeks)

Reviewed(w) == reviews[w] + forced[w] > 0
Prior == \E w \in Weeks : Reviewed(w)

\* The first review may be generated at any time, later ones after the market closed.
PastCutoff(w) == ~Prior \/ now >= Cutoff(w)

Ready(w) == w # 0 /\ ~Reviewed(w) /\ PastCutoff(w) /\ closed[w] >= MinClosed

Tasks == [key : Weeks, email : BOOLEAN, force : BOOLEAN, retries : 0 .. MaxRetries]
\* week: the week the task generates, or 0 for a task that skips.
Runs == [task : Tasks, week : 0 .. MaxWeek, saved : BOOLEAN]
Idle == [week |-> 0]
Busy == {k \in Workers : running[k] # Idle}

Pending(w) == \/ \E i \in DOMAIN queue : queue[i].key = w
              \/ \E k \in Busy : running[k].task.key = w

Fault == faults < MaxFaults /\ faults' = faults + 1

-----------------------------------------------------------------------------
(* Trades, check-ins and time *)

\* Trades of a week that has begun are entered, imported or synced, in any order.
Close(w) ==
    /\ Begins(w) <= now /\ closed[w] < MinClosed
    /\ closed' = [closed EXCEPT ![w] = @ + 1]
    /\ UNCHANGED <<now, checkin, reviews, forced, status, up, queue, running, mails, chat, history, faults>>

Delete(w) ==
    /\ closed[w] > 0 /\ Fault
    /\ closed' = [closed EXCEPT ![w] = 0]
    /\ UNCHANGED <<now, checkin, reviews, forced, status, up, queue, running, mails, chat, history>>

Tick ==
    /\ now < 2 * MaxWeek - 1
    /\ now' = now + 1
    /\ UNCHANGED <<closed, checkin, reviews, forced, status, up, queue, running, mails, chat, history, faults>>

\* The check-in is about the dashboard's week; skipping it makes an empty row.
CheckIn(answer) ==
    LET w == DashboardWeek
    IN  /\ w # 0 /\ closed[w] > 0
        /\ \/ answer = "answered"
           \/ answer = "skipped" /\ checkin[w] = None
        /\ checkin' = [checkin EXCEPT ![w] = answer]
        /\ UNCHANGED <<now, closed, reviews, forced, status, up, queue, running, mails, chat, history, faults>>

CleanUp ==
    /\ checkin' = [w \in Weeks |-> IF 2 * (w + KeepWeeks) < now THEN None ELSE checkin[w]]
    /\ checkin' # checkin
    /\ UNCHANGED <<now, closed, reviews, forced, status, up, queue, running, mails, chat, history, faults>>

CheckinComplete == DashboardWeek \in TradeWeeks => checkin[DashboardWeek] = "answered"

-----------------------------------------------------------------------------
(* Producers *)

\* Mutant of Claimable: SETEX instead of SET NX.
ClaimableAlways(w) == up

\* SET NX succeeds.
Claimable(w) == up /\ status[w] = None

Send(t) == queue' = Append(queue, t)
Task(w, email, force) == [key |-> w, email |-> email, force |-> force, retries |-> 0]

\* An import or a sync (email = FALSE), or a visit of the dashboard, whose check-in
\* is complete or that asks for the review.
Produce(email) ==
    LET w == Latest
    IN  /\ Ready(w) /\ Claimable(w)
        /\ status' = [status EXCEPT ![w] = "queued"]
        /\ Send(Task(w, email, FALSE))
        /\ UNCHANGED <<trades, reviews, forced, up, running, mails, chat, history, faults>>

Ingest == Produce(FALSE)
Dashboard(asked) == (~asked => CheckinComplete) /\ Produce(TRUE)

\* The claim succeeds and the task cannot be sent; then "failed" may not be written.
DispatchFails ==
    LET w == Latest
    IN  /\ Ready(w) /\ Claimable(w) /\ Fault
        /\ \/ status' = [status EXCEPT ![w] = "failed"] /\ UNCHANGED orphan
           \/ status' = [status EXCEPT ![w] = "queued"] /\ orphan' = orphan \cup {w}
        /\ UNCHANGED <<trades, reviews, forced, up, queue, running, mails, chat, lapsed, crossed>>

\* An administrator clears the key and sends a task without a claim.
Regenerate ==
    LET w == Latest
    IN  /\ w # 0 /\ Fault
        /\ status' = IF up THEN [status EXCEPT ![w] = None] ELSE status
        /\ lapsed' = IF up /\ Pending(w) THEN lapsed \cup {w} ELSE lapsed
        /\ Send(Task(w, FALSE, TRUE))
        /\ UNCHANGED <<trades, reviews, forced, up, running, mails, chat, crossed, orphan>>

-----------------------------------------------------------------------------
(* The task *)

\* What maybe_generate_weekly_dashboard_advice decides for task t: a week or 0.
Generates(t) ==
    LET w == Latest
    IN  IF w # 0 /\ (t.force \/ (~Reviewed(w) /\ PastCutoff(w))) THEN w ELSE 0

TaskStart(k) ==
    /\ queue # <<>> /\ running[k] = Idle
    /\ LET t == Head(queue)
           w == Generates(t)
       IN  /\ queue' = Tail(queue)
           /\ running' = [running EXCEPT ![k] = [task |-> t, week |-> w, saved |-> FALSE]]
           /\ status' = IF up THEN [status EXCEPT ![t.key] = "running"] ELSE status
           /\ crossed' = IF w # 0 /\ w # t.key THEN crossed \cup {w} ELSE crossed
    /\ UNCHANGED <<trades, reviews, forced, up, mails, chat, lapsed, orphan, faults>>

\* The model answered; the review is committed.
TaskSaves(k) ==
    /\ running[k] # Idle /\ ~running[k].saved /\ running[k].week # 0
    /\ LET w == running[k].week
       IN  IF running[k].task.force
           THEN forced' = [forced EXCEPT ![w] = @ + 1] /\ UNCHANGED reviews
           ELSE reviews' = [reviews EXCEPT ![w] = @ + 1] /\ UNCHANGED forced
    /\ running' = [running EXCEPT ![k].saved = TRUE]
    /\ UNCHANGED <<trades, status, up, queue, mails, chat, history, faults>>

\* Mutant of Cleared: a task that generated nothing leaves its key alone.
ClearedIfSaved(k) == IF running[k].saved THEN None ELSE status[running[k].task.key]

\* The key of a task that ends.
Cleared(k) == None

\* The review is mailed if it was generated for a visit, and the key is deleted.
TaskEnds(k) ==
    /\ running[k] # Idle /\ (running[k].saved \/ running[k].week = 0)
    /\ LET t == running[k].task
           w == running[k].week
           others == \/ \E i \in DOMAIN queue : queue[i].key = t.key
                     \/ \E j \in Busy \ {k} : running[j].task.key = t.key
       IN  /\ mails' = IF t.email /\ running[k].saved THEN [mails EXCEPT ![w] = @ + 1] ELSE mails
           /\ status' = IF up THEN [status EXCEPT ![t.key] = Cleared(k)] ELSE status
           /\ orphan' = IF up THEN orphan ELSE orphan \cup {t.key}
           /\ lapsed' = IF up /\ others THEN lapsed \cup {t.key} ELSE lapsed
    /\ running' = [running EXCEPT ![k] = Idle]
    /\ UNCHANGED <<trades, reviews, forced, up, queue, chat, crossed, faults>>

Exhausted(t) == t.retries >= MaxRetries

\* The model or the database fails before the commit: the task is sent again, or
\* gives up.
TaskFails(k) ==
    /\ running[k] # Idle /\ ~running[k].saved /\ Fault
    /\ LET t == running[k].task
       IN  IF ~Exhausted(t)
           THEN /\ Send([t EXCEPT !.retries = @ + 1])
                /\ UNCHANGED <<status, orphan>>
           ELSE /\ status' = IF up THEN [status EXCEPT ![t.key] = "failed"] ELSE status
                /\ orphan' = IF up THEN orphan ELSE orphan \cup {t.key}
                /\ UNCHANGED queue
    /\ running' = [running EXCEPT ![k] = Idle]
    /\ UNCHANGED <<trades, reviews, forced, up, mails, chat, lapsed, crossed>>

\* The message is acknowledged when the task starts: a worker that dies loses it.
Crash(k) ==
    /\ running[k] # Idle /\ Fault
    /\ running' = [running EXCEPT ![k] = Idle]
    /\ orphan' = orphan \cup {running[k].task.key}
    /\ UNCHANGED <<trades, reviews, forced, status, up, queue, mails, chat, lapsed, crossed>>

-----------------------------------------------------------------------------
(* Redis *)

\* Mutant of Expires: a failure is written without a TTL.
ExpiresUnlessFailed(w) == status[w] \in {"queued", "running"}

Expires(w) == status[w] # None

\* The TTL of a key ends.
Lapse(w) ==
    /\ Expires(w)
    /\ status' = [status EXCEPT ![w] = None]
    /\ orphan' = orphan \ {w}
    /\ IF Pending(w) THEN Fault /\ lapsed' = lapsed \cup {w} ELSE UNCHANGED <<faults, lapsed>>
    /\ UNCHANGED <<trades, reviews, forced, up, queue, running, mails, chat, crossed>>

CacheFails ==
    /\ up /\ Fault /\ up' = FALSE
    /\ UNCHANGED <<trades, reviews, forced, status, queue, running, mails, chat, history>>

CacheReturns ==
    /\ ~up /\ up' = TRUE
    /\ UNCHANGED <<trades, reviews, forced, status, queue, running, mails, chat, history, faults>>

-----------------------------------------------------------------------------
(* The follow-up chat *)

\* What the chat leaves alone.
unchatted == <<trades, reviews, forced, status, up, queue, running, mails, history, faults>>

\* Mutant of Used: only messages that have an answer yet to come are counted.
UsedByOthers == IF trial = "not_started" THEN 0 ELSE Cardinality(asking)

\* User messages counted against the trial.
Used == IF trial = "not_started" THEN 0 ELSE sent

\* The user is loaded for the gate and kept until the answer.
Ask(t) ==
    /\ Prior /\ t \notin asking
    /\ trial # "over" /\ Used < ChatLimit /\ recent < MinuteLimit
    /\ asking' = asking \cup {t}
    /\ unstarted' = IF trial = "not_started" THEN unstarted \cup {t} ELSE unstarted
    /\ UNCHANGED <<trial, sent, recent, made, restarts, unchatted>>

\* start_premium_trial_if_needed looks at the user as x loaded it: without a start it
\* writes the present time, over a start written meanwhile, and of the messages
\* answered before only those inserted since then still count.  more: whether x
\* inserts a message of its own.
StartTrial(x, more) ==
    /\ unstarted' = unstarted \ {x}
    /\ made' = made + more
    /\ IF x \in unstarted
         THEN /\ trial' = "active"
              /\ restarts' = IF trial = "not_started" THEN restarts ELSE restarts + 1
              /\ \E kept \in 0 .. sent : sent' = kept + more
         ELSE sent' = sent + more /\ UNCHANGED <<trial, restarts>>

\* The trial starts with the first answer; question and answer are inserted.
Answer(t) ==
    /\ t \in asking
    /\ asking' = asking \ {t}
    /\ StartTrial(t, 1)
    /\ recent' = recent + 1
    /\ UNCHANGED unchatted

NoAnswer(t) ==
    /\ t \in asking
    /\ asking' = asking \ {t} /\ unstarted' = unstarted \ {t}
    /\ UNCHANGED <<trial, sent, recent, made, restarts, unchatted>>

\* A sync loads the user, and starts the trial when it has succeeded.
SyncLoads(x) ==
    /\ trial = "not_started" /\ x \notin unstarted
    /\ unstarted' = unstarted \cup {x}
    /\ UNCHANGED <<trial, asking, sent, recent, made, restarts, unchatted>>

SyncEnds(x) ==
    /\ x \in unstarted
    /\ \/ StartTrial(x, 0)
       \/ unstarted' = unstarted \ {x} /\ UNCHANGED <<trial, sent, made, restarts>>
    /\ UNCHANGED <<asking, recent, unchatted>>

\* The oldest message leaves the window of a minute.
Ages ==
    /\ recent > 0 /\ recent' = recent - 1
    /\ UNCHANGED <<trial, asking, unstarted, sent, made, restarts, unchatted>>

\* No request and no sync takes the days of a trial.
TrialEnds ==
    /\ trial = "active" /\ unstarted = {}
    /\ trial' = "over"
    /\ UNCHANGED <<asking, unstarted, sent, recent, made, restarts, unchatted>>

-----------------------------------------------------------------------------
Zero == [w \in Weeks |-> 0]

Init ==
    /\ now = 0 /\ closed = Zero /\ checkin = [w \in Weeks |-> None]
    /\ reviews = Zero /\ forced = Zero /\ mails = Zero
    /\ status = [w \in Weeks |-> None] /\ up = TRUE
    /\ queue = <<>> /\ running = [k \in Workers |-> Idle]
    /\ trial \in {"not_started", "active"} /\ asking = {} /\ unstarted = {}
    /\ sent = 0 /\ recent = 0 /\ made = 0 /\ restarts = 0
    /\ lapsed = {} /\ crossed = {} /\ orphan = {} /\ faults = 0

Trader ==
    \/ \E w \in Weeks : Close(w) \/ Delete(w)
    \/ Tick \/ CleanUp \/ \E a \in {"answered", "skipped"} : CheckIn(a)

Producer == \/ Ingest \/ DispatchFails \/ Regenerate
            \/ \E asked \in BOOLEAN : Dashboard(asked)

Worker(k) == TaskStart(k) \/ TaskSaves(k) \/ TaskEnds(k)

Redis == CacheFails \/ CacheReturns \/ \E w \in Weeks : Lapse(w)

Chat == \/ Ages \/ TrialEnds
        \/ \E t \in Tabs : Ask(t) \/ Answer(t) \/ NoAnswer(t)
        \/ \E x \in Syncs : SyncLoads(x) \/ SyncEnds(x)

Next == \/ Trader \/ Producer \/ Redis \/ Chat
        \/ \E k \in Workers : Worker(k) \/ TaskFails(k) \/ Crash(k)

Spec == Init /\ [][Next]_vars

\* Workers go on, keys have a TTL, Redis returns, and the member comes back to the
\* dashboard and asks for the review.
Fairness ==
    /\ \A k \in Workers : WF_vars(Worker(k))
    /\ WF_vars(CacheReturns) /\ \A w \in Weeks : WF_vars(Lapse(w))
    /\ WF_vars(Dashboard(TRUE))
FairSpec == Spec /\ Fairness

-----------------------------------------------------------------------------
(* Properties *)

TypeOK ==
    /\ now \in Nat /\ closed \in [Weeks -> 0 .. MinClosed]
    /\ checkin \in [Weeks -> {None, "skipped", "answered"}]
    /\ reviews \in [Weeks -> Nat] /\ forced \in [Weeks -> Nat] /\ mails \in [Weeks -> Nat]
    /\ status \in [Weeks -> {None, "queued", "running", "failed"}] /\ up \in BOOLEAN
    /\ queue \in Seq(Tasks) /\ running \in [Workers -> Runs \cup {Idle}]
    /\ trial \in {"not_started", "active", "over"} /\ asking \subseteq Tabs
    /\ unstarted \subseteq Tabs \cup Syncs
    /\ sent \in Nat /\ recent \in Nat /\ made \in Nat /\ restarts \in Nat
    /\ lapsed \subseteq Weeks /\ crossed \subseteq Weeks /\ orphan \subseteq Weeks
    /\ faults \in 0 .. MaxFaults

\* However imports, syncs and visits of the dashboard overlap, a week gets one
\* automatic review -- unless its key ended while a task of the week was pending,
\* or a task that was queued for another week found this one.
NoDuplicateReview == \A w \in Weeks : reviews[w] > 1 => w \in lapsed \cup crossed

\* The dashboard shows a review as being generated ("queued" or "running") only
\* while a task for the week is pending -- until the key ends when the task was
\* lost, could not be sent, or could not write its status.
GeneratingIsPending ==
    \A w \in Weeks : status[w] \in {"queued", "running"} /\ w \notin orphan => Pending(w)

\* The limits of the follow-up chat, for the trial and for a minute, are exceeded by
\* at most the requests that were in progress beside the last one that was counted.
\* What is counted is what came after the trial's start.  A request or a sync that
\* loaded the user before there was a start overwrites it, and the count begins anew:
\* the trial as a whole has one more such allowance for each of them, and there are
\* fewer than the requests and syncs that run at once.
Allowance == ChatLimit + Cardinality(Tabs) - 1
ChatWithinLimit ==
    /\ sent <= Allowance
    /\ recent <= MinuteLimit + Cardinality(Tabs) - 1
    /\ made <= (restarts + 1) * Allowance
    /\ restarts < Cardinality(Tabs \cup Syncs)

\* A week that may be reviewed is reviewed in the end, or is not the latest week
\* with trades any more: no failure, lost task or stale key blocks it for good.
ReviewInTheEnd ==
    \A w \in Weeks : (Latest = w /\ Ready(w)) ~> (Reviewed(w) \/ Latest # w \/ ~Ready(w))
=============================================================================
