-------------------------------- MODULE Bars --------------------------------
(***************************************************************************)
(* The price bars behind the replay of a closed MT5 trade.  A sync that    *)
(* changed something queues one batch task for the newest trades whose     *)
(* bars are incomplete, an administrator queues one task per trade; a      *)
(* worker fetches the bars from the terminal and posts them, and the       *)
(* handler replaces the rows of the trade.                                 *)
(*   routes/mt5_internal.py:75-174, 668-690     what a sync queues         *)
(*   celery_workers/mt5_sync_tasks.py:1312-1770 the two tasks              *)
(*   routes/mt5_internal.py:779-949             the two handlers           *)
(*   helpers/trade_bars.py                      when bars are complete     *)
(*   auth_account.py:5298-5336, 6260-6547       the administrator          *)
(* Bars are wanted from 36 h before the entry to 12 h after the exit, but  *)
(* no further than now: while these 12 h run ("young"), bars that were     *)
(* complete are not any more a quarter of an hour later.                   *)
(***************************************************************************)
EXTENDS Naturals, FiniteSets

CONSTANTS Trades,       \* \subseteq Nat: closed in this order
          Gapped,       \* trades after whose exit the market closed: the
                        \* terminal has no bars for the end of their window
          Batches,      \* messages of the batch task, with their execution and handler
          Singles,      \* messages of the task for one trade, likewise
          MaxBatch,     \* max_tasks_per_sync (20)
          MaxShift,     \* bound: recalibrations that move a trade's times
          MaxInterventions \* bound: other acts of the administrator and the user

ASSUME BarsAssumption ==
    /\ Trades \subseteq Nat /\ IsFiniteSet(Trades) /\ Gapped \subseteq Trades
    /\ MaxBatch \in Nat \ {0} /\ MaxShift \in Nat /\ MaxInterventions \in Nat

Jobs == Batches \cup Singles

VARIABLES auto,         \* setting mt5_auto_bar_sync_public_users
          account,      \* "active", "inactive" or "tombstone"
          plan,         \* does the user have replay without an age limit?
          life,         \* life[t]: see Lives
          times,        \* times[t]: how often opened_at and closed_at moved
          bars,         \* bars[t]: the windows the stored M5 rows come from
          job,          \* job[j]
          beat,         \* flips with every sync that may queue bars
          interventions \* acts of the administrator and the user so far

barsVars == <<auto, account, plan, life, times, bars, job, beat, interventions>>

\* A trade is closed, its 12 h after the exit pass, then the 90 days or so
\* for which the free plan generates bars (FREE_REPLAY_MAX_TRADE_AGE_DAYS).
Lives == {"open", "young", "settled", "old", "deleted"}
Ended(t) == life[t] \in {"young", "settled", "old"}

\* A window that was fetched: for which times of the trade, and whether it
\* ends more than 15 minutes before the end that is wanted by now.
Windows == [of : 0..MaxShift, short : BOOLEAN]

NoJob == [at |-> "none", of |-> {}, got |-> [t \in Trades |-> {}], late |-> {}]

\* has_complete_m5_chart_coverage.  The times of a trade move forward here:
\* bars that reach a later end cover an earlier one, too.
Complete(t) == \E w \in bars[t] : ~w.short /\ w.of >= times[t]

\* Mutant: the batch is filled before the trades with complete bars are left out.
MissingOrNot == {t \in Trades : Ended(t)}

\* _filter_trades_missing_complete_m5_bars
Missing == {t \in Trades : Ended(t) /\ ~Complete(t)}

\* can_generate_replay_bars
Allowed(t) == plan \/ life[t] # "old"

\* The newest ones first, at most MaxBatch.
Newest(ts) == {t \in ts : Cardinality({u \in ts : u > t}) < MaxBatch}

Queue(j, ts) ==
    /\ job[j].at = "none"
    /\ job' = [job EXCEPT ![j] = [NoJob EXCEPT !.at = "queued", !.of = ts]]

BarsInit ==
    /\ auto \in BOOLEAN /\ plan \in BOOLEAN
    /\ account = "active"
    /\ \E closed \in SUBSET Trades :
          /\ \A t \in closed, u \in Trades : u < t => u \in closed
          /\ life = [t \in Trades |-> IF t \in closed THEN "settled" ELSE "open"]
    /\ times = [t \in Trades |-> 0]
    /\ bars = [t \in Trades |-> {}]
    /\ job = [j \in Jobs |-> NoJob]
    /\ beat = FALSE
    /\ interventions = 0
-----------------------------------------------------------------------------
(* What queues tasks. *)

Intervene == interventions < MaxInterventions /\ interventions' = interventions + 1

\* A sync that changed a trade, or that somebody asked for, has committed:
\* _queue_auto_trade_bar_sync.  (A beat without changes queues nothing.)
Sync ==
    /\ account = "active"
    /\ LET ts == Newest({t \in Missing : Allowed(t)}) IN
       IF auto /\ ts # {}
       THEN \E j \in Batches : Queue(j, ts)
       ELSE UNCHANGED job
    /\ beat' = ~beat
    /\ UNCHANGED <<auto, account, plan, life, times, bars, interventions>>

\* The administrator's backfill dispatches one task per trade that misses
\* bars; "force" dispatches for the others as well.
Backfill(t, force) ==
    /\ Intervene
    /\ account = "active"
    /\ Ended(t)
    /\ force \/ ~Complete(t)
    /\ \E j \in Singles : Queue(j, {t})
    /\ UNCHANGED <<auto, account, plan, life, times, bars, beat>>

\* The switch of the automatic queueing.
SetAuto ==
    /\ Intervene
    /\ auto' = ~auto
    /\ UNCHANGED <<account, plan, life, times, bars, job, beat>>
-----------------------------------------------------------------------------
(* The worker. *)

\* What a fetch returns for a trade: the bars up to the end that is wanted
\* now, or up to the gap.
Fetched(t) == [of |-> times[t], short |-> t \in Gapped]

\* The trades a task fetches: those that are closed and still miss bars.  The
\* batch task passes over the others, the single one ends.
ToFetch(j) == job[j].of \cap Missing

\* The trades whose bars a task has fetched.
Items(j) == {t \in Trades : job[j].got[t] # {}}

\* The terminal logs in and has rates for the trades in "ts".
Fetch(j, ts) ==
    /\ job[j].at = "queued" /\ account = "active"
    /\ ts # {} /\ ts \subseteq ToFetch(j)
    /\ job' = [job EXCEPT ![j].at = "fetched",
                   ![j].got = [t \in Trades |-> IF t \in ts THEN {Fetched(t)} ELSE {}]]
    /\ UNCHANGED <<auto, account, plan, life, times, bars, beat, interventions>>

\* The account is gone or paused, nothing misses bars, there are no rates, or
\* the terminal does not log in: the task ends, and nothing retries it.
GiveUp(j) ==
    /\ job[j].at = "queued"
    /\ job' = [job EXCEPT ![j] = NoJob]
    /\ UNCHANGED <<auto, account, plan, life, times, bars, beat, interventions>>

\* The worker dies before its POST: acks_late delivers the message again.
Redeliver(j) ==
    /\ job[j].at = "fetched"
    /\ job' = [job EXCEPT ![j].at = "queued", ![j].got = NoJob.got]
    /\ UNCHANGED <<auto, account, plan, life, times, bars, beat, interventions>>
-----------------------------------------------------------------------------
(* The handlers. *)

\* The handler checks the account and the trades, and executes its DELETEs.
Post(j) ==
    /\ job[j].at = "fetched"
    /\ account # "tombstone" /\ \A t \in Items(j) : life[t] # "deleted"
    /\ job' = [job EXCEPT ![j].at = "posted"]
    /\ UNCHANGED <<auto, account, plan, life, times, bars, beat, interventions>>

\* 404 or 409, for the whole batch; or the request fails.
Refuse(j) ==
    /\ job[j].at \in {"fetched", "posted"}
    /\ job' = [job EXCEPT ![j] = NoJob]
    /\ UNCHANGED <<auto, account, plan, life, times, bars, beat, interventions>>

\* The rows are inserted and committed.  Rows that another handler committed
\* after this one's DELETE, or a deleted trade, make the INSERT fail: every
\* window of a trade shares bars with every other one (unique index).
Store(j) ==
    /\ job[j].at = "posted"
    /\ \A t \in Items(j) : t \notin job[j].late /\ life[t] # "deleted"
    /\ bars' = [t \in Trades |-> IF t \in Items(j) THEN job[j].got[t] ELSE bars[t]]
    /\ job' = [k \in Jobs |->
                 IF k = j THEN NoJob
                 ELSE [job[k] EXCEPT !.late = IF job[k].at = "posted" THEN @ \cup Items(j) ELSE @]]
    /\ UNCHANGED <<auto, account, plan, life, times, beat, interventions>>
-----------------------------------------------------------------------------
(* The trades, the account and the clock. *)

\* A sync closes the trade.
Close(t) ==
    /\ life[t] = "open" /\ \A u \in Trades : u < t => life[u] # "open"
    /\ life' = [life EXCEPT ![t] = "young"]
    /\ UNCHANGED <<auto, account, plan, times, bars, job, beat, interventions>>

Shorten(ws) == {[w EXCEPT !.short = TRUE] : w \in ws}

\* A quarter of an hour passes while the window of the trade still grows.
Elapse(t) ==
    /\ life[t] = "young"
    /\ bars' = [bars EXCEPT ![t] = Shorten(@)]
    /\ job' = [j \in Jobs |-> [job[j] EXCEPT !.got[t] = Shorten(@)]]
    /\ UNCHANGED <<auto, account, plan, life, times, beat, interventions>>

\* The 12 h after the exit are over; later, the age limit is reached.
Mature(t) ==
    /\ life[t] \in {"young", "settled"}
    /\ life' = [life EXCEPT ![t] = IF @ = "young" THEN "settled" ELSE "old"]
    /\ UNCHANGED <<auto, account, plan, times, bars, job, beat, interventions>>

\* A full-history sync with recalibrate_trade_timestamps, or an edit, moves
\* the times of a closed trade.
MoveTimes(t) ==
    /\ Ended(t) /\ times[t] < MaxShift
    /\ times' = [times EXCEPT ![t] = @ + 1]
    /\ UNCHANGED <<auto, account, plan, life, bars, job, beat, interventions>>

\* The rows of a deleted trade go by cascade.
DeleteTrade(t) ==
    /\ life[t] # "deleted"
    /\ life' = [life EXCEPT ![t] = "deleted"]
    /\ bars' = [bars EXCEPT ![t] = {}]
    /\ UNCHANGED <<auto, account, plan, times, job, beat, interventions>>

\* Clear Bars.
Clear ==
    /\ Intervene
    /\ bars' = [t \in Trades |-> {}]
    /\ UNCHANGED <<auto, account, plan, life, times, job, beat>>

\* The account is paused, resumed or unlinked.
SetAccount(s) ==
    /\ Intervene
    /\ account # "tombstone"
    /\ account' = s
    /\ UNCHANGED <<auto, plan, life, times, bars, job, beat>>
-----------------------------------------------------------------------------
JobStep(j) ==
    \/ \E ts \in SUBSET Trades : Fetch(j, ts)
    \/ GiveUp(j) \/ Redeliver(j) \/ Post(j) \/ Refuse(j) \/ Store(j)

BarsNext ==
    \/ Sync \/ SetAuto \/ Clear
    \/ \E t \in Trades : \/ \E force \in BOOLEAN : Backfill(t, force)
                         \/ Close(t) \/ Elapse(t) \/ Mature(t) \/ MoveTimes(t) \/ DeleteTrade(t)
    \/ \E j \in Jobs : JobStep(j)
    \/ \E s \in {"active", "inactive", "tombstone"} : SetAccount(s)

\* A worker takes its messages and a handler ends; now and then the terminal
\* has all the rates a batch asks for, and the POST and the commit of bars of
\* a given trade succeed.  The 12 h after an exit pass.
BarsFairness ==
    /\ \A j \in Jobs : WF_barsVars(JobStep(j))
    /\ \A j \in Batches : SF_barsVars(Fetch(j, ToFetch(j)))
    /\ \A j \in Batches, t \in Trades \ Gapped :
          SF_barsVars(t \in Items(j) /\ Post(j)) /\ SF_barsVars(t \in Items(j) /\ Store(j))
    /\ \A t \in Trades : WF_barsVars(life[t] = "young" /\ Mature(t))

BarsSpec == BarsInit /\ [][BarsNext]_barsVars /\ BarsFairness
-----------------------------------------------------------------------------
BarsTypeOK ==
    /\ auto \in BOOLEAN /\ plan \in BOOLEAN /\ beat \in BOOLEAN
    /\ interventions \in 0..MaxInterventions
    /\ account \in {"active", "inactive", "tombstone"}
    /\ life \in [Trades -> Lives]
    /\ times \in [Trades -> 0..MaxShift]
    /\ bars \in [Trades -> SUBSET Windows]
    /\ job \in [Jobs -> [at : {"none", "queued", "fetched", "posted"},
                         of : SUBSET Trades, got : [Trades -> SUBSET Windows], late : SUBSET Trades]]

\* Who is in the way of a trade: newer ones that never become complete.
InTheWay(t) == {u \in Gapped : u > t}

\* A closed trade ends up with complete bars for good, however its earlier
\* fetches failed, came late, were overtaken or were aimed at other times: if
\* syncs go on, its window is over and it is not too old, and fewer than
\* MaxBatch newer trades can never be completed (mt5_internal.py:110-174; as
\* many of them starve every older trade).
BarsInTheEnd ==
    \A t \in Trades \ Gapped :
        Cardinality(InTheWay(t)) < MaxBatch =>
          (<>[](auto /\ account = "active" /\ life[t] = "settled") /\ []<>beat /\ []<>(~beat)
             => <>[]Complete(t))
=============================================================================
