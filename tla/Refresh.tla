------------------------------ MODULE Refresh ------------------------------
(***************************************************************************)
(* The broker discovery refresh: an administrator queues a job for one VM, *)
(* a setup worker drives the window of an MT5 terminal that it launched,   *)
(* and the page polls for the stored result.                               *)
(*   auth_account.py:5800-5917                 the route and its poll      *)
(*   celery_workers/mt5_setup_tasks.py:1505    the task                    *)
(*   helpers/mt5_dispatch.py:455               the wrong-VM guard          *)
(*   helpers/mt5_broker_discovery_refresh.py   the job and the automation  *)
(*   celery_workers/cache.py:348-440           locks and results           *)
(* A job owns two locks with a TTL: one per VM for the window (120 s) and  *)
(* one for every MT5 runtime (600 s).  Redis may refuse any call, a worker *)
(* may die at any step (the task is acknowledged when it starts, so it is  *)
(* lost), and either lock may expire at any moment.                        *)
(***************************************************************************)
EXTENDS Naturals

CONSTANTS Requests,     \* clicks of the administrator
          Workers,      \* setup workers (--pool=solo: one task at a time)
          Machines,     \* VMs
          Home,         \* Home[w] : the VM a worker runs on (current_vm_queue_slug)
          Listens,      \* Listens[w] : the VMs whose setup queue it consumes
          Nobody        \* no token under a lock key

ASSUME RefreshAssumption ==
    /\ Home \in [Workers -> Machines]
    /\ Listens \in [Workers -> SUBSET Machines]
    /\ Workers # {} /\ Machines # {}
    /\ Nobody \notin Requests \X {0, 1}

\* A task id: the published task, or the copy that the wrong-VM guard
\* publishes once (max_redispatch = 1), which gets an id of its own.
Jobs == Requests \X {0, 1}
Copy(j) == <<j[1], 1>>

\* Where a job stands.  Driving: the terminal's window is being driven.
Driving == {"snapshot", "window", "dialog", "search", "press", "verdict"}
Active == Driving \cup {"started", "gui", "leaving", "closing"}
Phases == Active \cup {"new", "queued", "over"}

VARIABLES enabled,      \* app setting mt5_broker_discovery_refresh_enabled
          phase,        \* phase[j]
          job,          \* job[j]: target VM, dry run?, the worker that runs it
          terminal,     \* the jobs whose terminal process runs
          gui,          \* gui[v]: the token under the VM's window lock
          global,       \* the token under mt5_global_lock
          answered,     \* jobs whose answer is stored, which the page polls
          lost,         \* jobs that a crash or a refusal of Redis cut short
          lapsed        \* did the global lock ever expire under a running job?

refreshVars == <<enabled, phase, job, terminal, gui, global, answered, lost, lapsed>>

Ticket == [vm : Machines, dry : BOOLEAN, by : Workers]

RefreshInit ==
    /\ enabled \in BOOLEAN
    /\ phase = [j \in Jobs |-> "new"]
    /\ job = [j \in Jobs |-> [vm |-> CHOOSE v \in Machines : TRUE, dry |-> FALSE,
                              by |-> CHOOSE w \in Workers : TRUE]]
    /\ terminal = {}
    /\ gui = [v \in Machines |-> Nobody]
    /\ global = Nobody
    /\ answered = {}
    /\ lost = {}
    /\ lapsed = FALSE

\* set_mt5_broker_refresh_result: the answer is stored, or Redis refuses
\* (CacheUnavailableError leaves the task).  Which answer it is, every caller
\* of this operator says in its comment: no step reads it again.
Answer(j) ==
    \/ answered' = answered \cup {j} /\ UNCHANGED lost
    \/ lost' = lost \cup {j} /\ UNCHANGED answered

Move(j, p) == phase' = [phase EXCEPT ![j] = p]

\* The terminal process ends with the automation (the finally block).
Terminate(j) == terminal' = terminal \ {j}

Idle(w) == \A j \in Jobs : phase[j] \in Active => job[j].by # w
-----------------------------------------------------------------------------
(* The administrator. *)

\* POST broker-discovery-refresh: refused when the feature is off and this is
\* not a dry run; otherwise published on the VM's setup queue.
Request(r, v, dry) ==
    LET j == <<r, 0>> IN
    /\ phase[j] = "new"
    /\ dry \/ enabled
    /\ Move(j, "queued")
    /\ job' = [job EXCEPT ![j].vm = v, ![j].dry = dry]
    /\ UNCHANGED <<enabled, terminal, gui, global, answered, lost, lapsed>>

\* The feature switch of the settings page.
Switch ==
    /\ enabled' = ~enabled
    /\ UNCHANGED <<phase, job, terminal, gui, global, answered, lost, lapsed>>
-----------------------------------------------------------------------------
(* The worker: guard, feature flag, locks. *)

\* guard_wrong_vm_task on a worker of another VM: the first time the task is
\* published again, under a new id, for the right queue ("requeued"); the
\* second time it is refused ("wrong_vm_max_redispatch").
WrongVm(w, j) ==
    /\ phase[j] = "queued" /\ Idle(w)
    /\ job[j].vm \in Listens[w] /\ Home[w] # job[j].vm
    /\ Answer(j)
    /\ phase' = [k \in Jobs |-> CASE k = j -> "over"
                                  [] k = Copy(j) /\ k # j -> "queued"
                                  [] OTHER -> phase[k]]
    /\ job' = [job EXCEPT ![Copy(j)] = job[j]]
    /\ UNCHANGED <<enabled, terminal, gui, global, lapsed>>

\* The worker of the VM starts the job, unless the feature was switched off
\* since it was queued ("feature_disabled").
Start(w, j) ==
    /\ phase[j] = "queued" /\ Idle(w)
    /\ job[j].vm \in Listens[w] /\ Home[w] = job[j].vm
    /\ job' = [job EXCEPT ![j].by = w]
    /\ IF job[j].dry \/ enabled
       THEN Move(j, "started") /\ UNCHANGED <<answered, lost>>
       ELSE Move(j, "over") /\ Answer(j)
    /\ UNCHANGED <<enabled, terminal, gui, global, lapsed>>

\* claim_lock on the VM's window lock; if taken, "lock_unavailable".
ClaimGui(j) ==
    /\ phase[j] = "started"
    /\ IF gui[job[j].vm] = Nobody
       THEN gui' = [gui EXCEPT ![job[j].vm] = j] /\ Move(j, "gui") /\ UNCHANGED <<answered, lost>>
       ELSE Answer(j) /\ Move(j, "over") /\ UNCHANGED gui
    /\ UNCHANGED <<enabled, job, terminal, global, lapsed>>

\* A dry run answers and goes straight to the release of the window lock.
DryRun(j) ==
    /\ phase[j] = "gui" /\ job[j].dry
    /\ Answer(j)
    /\ Move(j, "closing")
    /\ UNCHANGED <<enabled, job, terminal, gui, global, lapsed>>

\* Mutant: it returns before the finally block that gives the window back.
BusyKeepsWindow(j) ==
    /\ phase[j] = "gui" /\ ~job[j].dry
    /\ IF global = Nobody
       THEN global' = j /\ Move(j, "snapshot") /\ UNCHANGED <<answered, lost>>
       ELSE Answer(j) /\ Move(j, "over") /\ UNCHANGED global
    /\ UNCHANGED <<enabled, job, terminal, gui, lapsed>>

\* acquire_mt5_global_lock with wait_seconds = 0; if taken,
\* "mt5_global_lock_busy".
ClaimGlobal(j) ==
    /\ phase[j] = "gui" /\ ~job[j].dry
    /\ IF global = Nobody
       THEN global' = j /\ Move(j, "snapshot") /\ UNCHANGED <<answered, lost>>
       ELSE Answer(j) /\ Move(j, "closing") /\ UNCHANGED global
    /\ UNCHANGED <<enabled, job, terminal, gui, lapsed>>
-----------------------------------------------------------------------------
(* The automation, refresh_broker_server_cache. *)

\* One step of the window's automation succeeds.
Drive(j, from, to) ==
    /\ phase[j] = from
    /\ Move(j, to)
    /\ UNCHANGED <<enabled, job, gui, global, answered, lost, lapsed>>

\* The data directory is fingerprinted and the terminal is launched.
Launch(j) == Drive(j, "snapshot", "window") /\ terminal' = terminal \cup {j}

\* The process shows its main window.
WindowShown(j) == Drive(j, "window", "dialog") /\ UNCHANGED terminal

\* "Open an Account" is open already or opens by itself.
DialogThere(j) == Drive(j, "dialog", "search") /\ UNCHANGED terminal

\* One of the menu, keyboard and click strategies opens it.
DialogOpened(j) == Drive(j, "dialog", "search") /\ UNCHANGED terminal

\* The company search is filled in, by control or by coordinates.
Searched(j) == Drive(j, "search", "press") /\ UNCHANGED terminal

\* "Find your company" is pressed and the dialog is closed again.
Pressed(j) == Drive(j, "press", "verdict") /\ UNCHANGED terminal

\* The answer: a verified input or a changed server cache is a success, else
\* nobody knows.  The terminal has been terminated before it is stored.
Verdict(j) ==
    /\ phase[j] = "verdict"
    /\ Answer(j)
    /\ Terminate(j) /\ Move(j, "leaving")
    /\ UNCHANGED <<enabled, job, gui, global, lapsed>>

\* Any step raises: the step is recorded, the terminal is terminated.
StepFails(j) ==
    /\ phase[j] \in Driving
    /\ Answer(j)
    /\ Terminate(j) /\ Move(j, "leaving")
    /\ UNCHANGED <<enabled, job, gui, global, lapsed>>
-----------------------------------------------------------------------------
(* The release of the locks, by token, in the finally block of the job. *)

\* Mutant: the runtime lock is deleted whoever holds it.
ReleaseAnybody(j) ==
    /\ phase[j] = "leaving"
    /\ global' = Nobody
    /\ Move(j, "closing")
    /\ UNCHANGED <<enabled, job, terminal, gui, answered, lost, lapsed>>

ReleaseGlobal(j) ==
    /\ phase[j] = "leaving"
    /\ global' = IF global = j THEN Nobody ELSE global
    /\ Move(j, "closing")
    /\ UNCHANGED <<enabled, job, terminal, gui, answered, lost, lapsed>>

ReleaseGui(j) ==
    /\ phase[j] = "closing"
    /\ LET v == job[j].vm IN
       gui' = [gui EXCEPT ![v] = IF @ = j THEN Nobody ELSE @]
    /\ Move(j, "over")
    /\ UNCHANGED <<enabled, job, terminal, global, answered, lost, lapsed>>

\* Redis refuses a claim or a release: a refused global claim still runs the
\* release of the window lock, a refused global release does not.
CacheFails(j) ==
    /\ phase[j] \in {"started", "gui", "leaving", "closing"}
    /\ phase[j] = "gui" => ~job[j].dry
    /\ lost' = lost \cup {j}
    /\ Move(j, IF phase[j] = "gui" THEN "closing" ELSE "over")
    /\ UNCHANGED <<enabled, job, terminal, gui, global, answered, lapsed>>

\* The worker dies: its task was acknowledged, its locks and its terminal stay.
Crash(w) ==
    /\ ~Idle(w)
    /\ LET mine == {j \in Jobs : phase[j] \in Active /\ job[j].by = w} IN
       /\ phase' = [j \in Jobs |-> IF j \in mine THEN "over" ELSE phase[j]]
       /\ lost' = lost \cup mine
    /\ UNCHANGED <<enabled, job, terminal, gui, global, answered, lapsed>>

\* The TTL of a lock ends.
LapseGui(v) ==
    /\ gui[v] # Nobody
    /\ gui' = [gui EXCEPT ![v] = Nobody]
    /\ UNCHANGED <<enabled, phase, job, terminal, global, answered, lost, lapsed>>

Holding == {j \in Jobs : phase[j] \in Driving \cup {"leaving"}}

LapseGlobal ==
    /\ global # Nobody
    /\ global' = Nobody
    /\ lapsed' = (lapsed \/ global \in Holding)
    /\ UNCHANGED <<enabled, phase, job, terminal, gui, answered, lost>>
-----------------------------------------------------------------------------
WorkerStep(j) ==
    \/ ClaimGui(j) \/ DryRun(j) \/ ClaimGlobal(j)
    \/ Launch(j) \/ WindowShown(j) \/ DialogThere(j) \/ DialogOpened(j)
    \/ Searched(j) \/ Pressed(j)
    \/ Verdict(j) \/ StepFails(j)
    \/ ReleaseGlobal(j) \/ ReleaseGui(j) \/ CacheFails(j)

Take(j) == \E w \in Workers : WrongVm(w, j) \/ Start(w, j)

RefreshNext ==
    \/ \E r \in Requests, v \in Machines, dry \in BOOLEAN : Request(r, v, dry)
    \/ Switch
    \/ \E j \in Jobs : Take(j) \/ WorkerStep(j)
    \/ \E w \in Workers : Crash(w)
    \/ \E v \in Machines : LapseGui(v)
    \/ LapseGlobal

RefreshSpec == RefreshInit /\ [][RefreshNext]_refreshVars
-----------------------------------------------------------------------------
RefreshTypeOK ==
    /\ enabled \in BOOLEAN
    /\ phase \in [Jobs -> Phases]
    /\ job \in [Jobs -> Ticket]
    /\ terminal \subseteq Jobs
    /\ gui \in [Machines -> Jobs \cup {Nobody}]
    /\ global \in Jobs \cup {Nobody}
    /\ answered \subseteq Jobs
    /\ lost \subseteq Jobs
    /\ lapsed \in BOOLEAN

\* Nothing outlives its job but what a crash or Redis left behind: a lock
\* belongs to a job that is past its claim and before its release, a running
\* terminal to a job that drives it, or else to a lost job (early returns and
\* the two finally blocks, mt5_broker_discovery_refresh.py:1344, :1555).  And
\* no job ends in silence: the page that polls for it has an answer, or a crash
\* or Redis ate it.
NothingLeftBehind ==
    /\ \A j \in terminal : phase[j] \in Driving \/ j \in lost
    /\ global # Nobody => global \in Holding \/ global \in lost
    /\ \A v \in Machines :
          gui[v] # Nobody =>
             \/ gui[v] \in lost
             \/ job[gui[v]].vm = v /\ phase[gui[v]] \in Active \ {"started"}
    /\ \A j \in Jobs : phase[j] = "over" => j \in answered \cup lost

\* The runtime lock is a lease: between the claim and the release at most one
\* job of any VM drives a terminal, unless the 600 s ended under one.  The
\* window lock may lapse at 120 s in the meantime: that breaks nothing.
GlobalLease == INSTANCE Lease
    WITH Clients <- Jobs, Free <- Nobody, holder <- global, inside <- Holding

RuntimeIsLeased == GlobalLease!LeaseSpec
=============================================================================
