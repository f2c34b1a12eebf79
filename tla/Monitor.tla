------------------------------ MODULE Monitor ------------------------------
(***************************************************************************)
(* What watches the MT5 workers (celery_workers/mt5_monitoring.py and      *)
(* worker_monitor.py, every 60 s from celery_app.py:190):                  *)
(*   the delay check    mails the administrator once when the accounts of  *)
(*                      a VM have not synced, and remembers it in the row  *)
(*                      of mt5_sync_vm_state; the mail leaves before the  *)
(*                      row is committed, and two checks may overlap;      *)
(*   the stall checks   compare the length of the queues with the stamps   *)
(*                      that the workers' signals leave in Redis, and keep *)
(*                      one flag per kind of worker in Redis.              *)
(* The two parts share no state.                                           *)
(***************************************************************************)
EXTENDS Naturals, FiniteSets

CONSTANTS Vms,          \* VMs that own MT5 accounts
          Accounts,     \* MT5 accounts that were created on a VM
          VmOf,         \* VmOf[a] : their VM
          Checks,       \* workers that may run the delay check
          LegacyQueues, \* the unscoped queues of the sync workers
          NamedQueues,  \* the sync queues of the VMs that the environment names
          OtherQueues,  \* the sync queues of other VMs
          HostOf,       \* HostOf[q] : the VM of one of OtherQueues
          SyncPrimary,  \* "mt5_sync", whose hash keeps the flag of the sync workers
          SetupQueue    \* "mt5_setup", which the setup check reads

SyncQueues == LegacyQueues \cup NamedQueues \cup OtherQueues

\* parse_setup_vm_ids_env falls back on a default VM, so that a queue is named
\* (but for a setting that consists of commas).
ASSUME MonitorAssumption ==
    /\ VmOf \in [Accounts -> Vms]
    /\ SyncPrimary \in LegacyQueues
    /\ NamedQueues # {}
    /\ OtherQueues \cap (LegacyQueues \cup NamedQueues) = {}
    /\ SetupQueue \notin SyncQueues

-----------------------------------------------------------------------------
(* Part one: the delay check. *)

VARIABLES state,        \* state[a]: see States
          row,          \* row[v]: the committed row of mt5_sync_vm_state
          check,        \* check[c]: a delay check in progress
          mails,        \* mails[v]: alerts since a check last found v in time, at most 2
          excused       \* VMs that a failed or overlapping check spoiled

alertVars == <<state, row, check, mails, excused>>

\* An account: not watched (paused, archived, unlinked, inactive), synced in
\* time, synced too long ago, or never synced since it was created long ago.
States == {"off", "fresh", "overdue", "unsynced"}
Rows == {"none", "clear", "alerted"}
Views == {"inactive", "fine", "late"}

NoCheck == [at |-> "idle", saw |-> [v \in Vms |-> "inactive"],
            was |-> [v \in Vms |-> "none"], new |-> [v \in Vms |-> "none"]]

\* Mutant: an account that never synced is never late.
DelayedSinceSync(s) == s = "overdue"

\* Too late by last_synced_at, or by created_at if the account never synced.
Delayed(s) == s \in {"overdue", "unsynced"}

\* What the query and the loop over the accounts find of a VM.
View(v) ==
    LET watched == {a \in Accounts : VmOf[a] = v /\ state[a] # "off"} IN
    CASE watched = {} -> "inactive"
      [] \E a \in watched : Delayed(state[a]) -> "late"
      [] OTHER -> "fine"

\* Mutant: the flag tells whether this check sent a mail.
RowOfLastMail(saw, was, sent) ==
    IF saw = "late" /\ sent THEN "alerted" ELSE IF saw = "inactive" THEN was ELSE "clear"

\* The row a check leaves: created when the VM has accounts, set when the
\* mail went out, cleared when the VM is in time again or has no account.
RowAfter(saw, was, sent) ==
    CASE saw = "late" -> IF sent \/ was = "alerted" THEN "alerted" ELSE "clear"
      [] saw = "fine" -> "clear"
      [] OTHER -> IF was = "none" THEN "none" ELSE "clear"

AlertInit ==
    /\ state = [a \in Accounts |-> "fresh"]
    /\ row = [v \in Vms |-> "none"]
    /\ check = [c \in Checks |-> NoCheck]
    /\ mails = [v \in Vms |-> 0]
    /\ excused = {}

\* Time passes over an account, it syncs, it is paused or resumed.
Drift(a, s) ==
    /\ s # state[a]
    /\ s = "unsynced" => state[a] = "off"
    /\ state' = [state EXCEPT ![a] = s]
    /\ UNCHANGED <<row, check, mails, excused>>

\* The accounts and the rows are loaded.  A check that starts while another
\* one is under way may mail what the other one mails.
Load(c) ==
    /\ check[c].at = "idle"
    /\ check' = [check EXCEPT ![c] = [at |-> "loaded", saw |-> [v \in Vms |-> View(v)],
                                      was |-> row, new |-> row]]
    /\ excused' = IF \E d \in Checks : check[d].at # "idle" THEN Vms ELSE excused
    /\ UNCHANGED <<state, row, mails>>

\* The VMs a check mails about: late, and not alerted when it loaded the row.
ToMail(c) == {v \in Vms : check[c].saw[v] = "late" /\ check[c].was[v] # "alerted"}

\* The loop over the VMs: every mail goes out or fails.
Mail(c, sent) ==
    /\ check[c].at = "loaded"
    /\ sent \subseteq ToMail(c)
    /\ mails' = [v \in Vms |-> IF v \in sent /\ mails[v] < 2 THEN mails[v] + 1 ELSE mails[v]]
    /\ check' = [check EXCEPT ![c].at = "mailed",
                     ![c].new = [v \in Vms |-> RowAfter(check[c].saw[v], check[c].was[v], v \in sent)]]
    /\ UNCHANGED <<state, row, excused>>

\* A row is inserted or its changed flag is written; the insertion fails if
\* another check inserted the row in the meantime.
Inserts(c) == {v \in Vms : check[c].was[v] = "none" /\ check[c].new[v] # "none"}
Changes(c) == {v \in Vms : check[c].new[v] # check[c].was[v]}

Commit(c) ==
    /\ check[c].at = "mailed"
    /\ \A v \in Inserts(c) : row[v] = "none"
    /\ row' = [v \in Vms |-> IF v \in Changes(c) THEN check[c].new[v] ELSE row[v]]
    /\ LET calm == {v \in Vms : check[c].saw[v] # "late"} IN
       /\ mails' = [v \in Vms |-> IF v \in calm THEN 0 ELSE mails[v]]
       /\ excused' = IF \E d \in Checks \ {c} : check[d].at # "idle" THEN excused
                     ELSE excused \ calm
    /\ check' = [check EXCEPT ![c] = NoCheck]
    /\ UNCHANGED state

\* The commit fails, or the worker dies before it: every row stays as it was.
LoseCommit(c) ==
    /\ check[c].at # "idle"
    /\ check' = [check EXCEPT ![c] = NoCheck]
    /\ excused' = excused \cup (IF check[c].at = "mailed" THEN ToMail(c) ELSE {})
    /\ UNCHANGED <<state, row, mails>>

CheckStep(c) == (\E sent \in SUBSET Vms : Mail(c, sent)) \/ Commit(c) \/ LoseCommit(c)

AlertNext ==
    \/ \E a \in Accounts, s \in States : Drift(a, s)
    \/ \E c \in Checks : Load(c) \/ CheckStep(c)

\* Beat starts a check every minute; a check that started ends.  Now and then
\* the mail server answers, and the database too in a check whose mails left.
AllSent(c) == \A v \in Vms : check[c].saw[v] = "late" => check[c].new[v] = "alerted"

AlertFairness ==
    \A c \in Checks : /\ WF_alertVars(Load(c)) /\ WF_alertVars(CheckStep(c))
                      /\ SF_alertVars(Mail(c, ToMail(c)))
                      /\ SF_alertVars(Commit(c) /\ AllSent(c))
-----------------------------------------------------------------------------
(* Part two: the stall checks. *)

VARIABLES depth,        \* queues that hold a task
          running,      \* queues of which a worker runs a task
          processed,    \* processed[q]: the stamp of the last finished task, in Redis
          started,      \* the stamp of the last started task of the setup queue
          flag,         \* flag[k]: stale_alert_active of a kind of worker
          shown,        \* VMs whose sync worker left a state in Redis
          legacy        \* the environment has the legacy queues read as well

stallVars == <<depth, running, processed, started, flag, shown, legacy>>

Queues == SyncQueues \cup {SetupQueue}
Ages == {"never", "old", "recent"}
Kinds == {"sync", "setup"}
QueuesOf(k) == IF k = "sync" THEN SyncQueues ELSE {SetupQueue}
Hosts == {HostOf[q] : q \in OtherQueues}

\* The queue whose hash in Redis keeps the flag of a kind.
Primary(k) == IF k = "sync" THEN SyncPrimary ELSE SetupQueue

\* The queues that one check reads, when it finds the states of the workers of
\* the VMs in found.  A refused listing is swallowed: found is empty then.
ReadQueues(k, found) ==
    IF k = "setup" THEN {SetupQueue}
    ELSE NamedQueues \cup {q \in OtherQueues : HostOf[q] \in found}
                     \cup {q \in LegacyQueues : legacy}

StallInit ==
    /\ depth = {} /\ running = {} /\ shown = {}
    /\ started = "never"
    /\ processed = [q \in Queues |-> "never"]
    /\ flag = [k \in Kinds |-> FALSE]
    /\ legacy \in BOOLEAN

Enqueue(q) ==
    /\ q \notin depth
    /\ depth' = depth \cup {q}
    /\ UNCHANGED <<running, processed, started, flag, shown, legacy>>

\* The VM of a queue, if it is one that the checks learn of.
HostsOf(q) == {HostOf[o] : o \in OtherQueues \cap {q}}

\* task_prerun: record_task_started.  A signal leaves the state of the worker
\* and then the stamp of the queue, unless Redis refuses the one or the other,
\* which is logged and swallowed.
StartTask(q) ==
    /\ q \in depth \ running
    /\ depth' \in {depth, depth \ {q}}
    /\ running' = running \cup {q}
    /\ \/ UNCHANGED <<shown, started>>
       \/ /\ shown' = shown \cup HostsOf(q)
          /\ started' \in {started, IF q = SetupQueue THEN "recent" ELSE started}
    /\ UNCHANGED <<processed, flag, legacy>>

\* task_postrun: record_task_finished.
FinishTask(q) ==
    /\ q \in running
    /\ running' = running \ {q}
    /\ \/ UNCHANGED <<shown, processed>>
       \/ /\ shown' = shown \cup HostsOf(q)
          /\ processed' \in {processed, [processed EXCEPT ![q] = "recent"]}
    /\ UNCHANGED <<depth, started, flag, legacy>>

\* A worker that is up leaves its state: it became ready, received a task or
\* sent a heartbeat.
ShowsUp(h) ==
    /\ shown' = shown \cup {h}
    /\ UNCHANGED <<depth, running, processed, started, flag, legacy>>

\* More than the threshold passes since a stamp.
AgeProcessed(q) ==
    /\ processed[q] = "recent"
    /\ processed' = [processed EXCEPT ![q] = "old"]
    /\ UNCHANGED <<depth, running, started, flag, shown, legacy>>

AgeStarted ==
    /\ started = "recent"
    /\ started' = "old"
    /\ UNCHANGED <<depth, running, processed, flag, shown, legacy>>

\* The hash of a queue expires 24 hours after it was last written: its stamps
\* are gone, and the flag with them where the hash keeps one.
LapseQueue(q) ==
    /\ processed[q] # "recent" /\ (q = SetupQueue => started # "recent")
    /\ processed' = [processed EXCEPT ![q] = "never"]
    /\ started' = IF q = SetupQueue THEN "never" ELSE started
    /\ flag' = [k \in Kinds |-> flag[k] /\ Primary(k) # q]
    /\ UNCHANGED <<depth, running, shown, legacy>>

\* So does the state of a worker: the checks forget the queues of its VM.
LapseWorker(h) ==
    /\ \A q \in OtherQueues : HostOf[q] = h => processed[q] # "recent"
    /\ shown' = shown \ {h}
    /\ UNCHANGED <<depth, running, processed, started, flag, legacy>>

\* Mutant: a queue in which nothing was ever processed counts as active.
AliveUnlessOld(k, queues) == \E q \in queues : processed[q] # "old"

\* The activity a kind of worker is judged by: the sync workers by what they
\* finished, the setup worker also by what it started.
Alive(k, queues) ==
    \/ \E q \in queues : processed[q] = "recent"
    \/ k = "setup" /\ started = "recent"

\* _build_queue_health_snapshot: something waits, and nothing happened of late
\* in any of the queues.
Stale(k, queues) == queues \cap depth # {} /\ ~Alive(k, queues)

\* The flag is read with the hashes of these queues, and counts as not set if
\* the hash that keeps it is not among them.
FlagRead(k, queues) == Primary(k) \in queues /\ flag[k]

\* One stall check: the flag is set and logged when the workers become stale,
\* cleared when they recover.  A check that cannot read Redis does nothing.
CheckStall(k, found) ==
    LET queues == ReadQueues(k, found) IN
    /\ Stale(k, queues) # FlagRead(k, queues)
    /\ flag' = [flag EXCEPT ![k] = Stale(k, queues)]
    /\ UNCHANGED <<depth, running, processed, started, shown, legacy>>

QueueStep(q) ==
    Enqueue(q) \/ StartTask(q) \/ FinishTask(q) \/ AgeProcessed(q) \/ LapseQueue(q)

StallNext ==
    \/ \E q \in Queues : QueueStep(q)
    \/ \E h \in Hosts : ShowsUp(h) \/ LapseWorker(h)
    \/ AgeStarted
    \/ \E k \in Kinds, found \in {shown, {}} : CheckStall(k, found)

\* Beat has the checks made every minute; now and then one can list the workers.
StallFairness ==
    /\ \A k \in Kinds : WF_stallVars(CheckStall(k, shown))
    /\ \A q \in Queues : WF_stallVars(AgeProcessed(q))
    /\ WF_stallVars(AgeStarted)
-----------------------------------------------------------------------------
MonitorVars == <<alertVars, stallVars>>

MonitorInit == AlertInit /\ StallInit

MonitorNext ==
    \/ AlertNext /\ UNCHANGED stallVars
    \/ StallNext /\ UNCHANGED alertVars

MonitorSpec == MonitorInit /\ [][MonitorNext]_MonitorVars /\ AlertFairness /\ StallFairness
-----------------------------------------------------------------------------
MonitorTypeOK ==
    /\ state \in [Accounts -> States]
    /\ row \in [Vms -> Rows]
    /\ check \in [Checks -> [at : {"idle", "loaded", "mailed"}, saw : [Vms -> Views],
                             was : [Vms -> Rows], new : [Vms -> Rows]]]
    /\ mails \in [Vms -> 0..2] /\ excused \subseteq Vms
    /\ depth \subseteq Queues /\ running \subseteq Queues
    /\ processed \in [Queues -> Ages] /\ started \in Ages
    /\ flag \in [Kinds -> BOOLEAN]
    /\ shown \subseteq Hosts /\ legacy \in BOOLEAN

\* One alert per delay: a VM is mailed about a second time only after a check
\* found it in time again, or when a check lost its commit after the mail or
\* overlapped another check (mt5_monitoring.py:367-421).
OneAlertPerDelay == \A v \in Vms : mails[v] <= 1 \/ v \in excused

\* A VM one of whose accounts stays late, or never syncs at all, ends up
\* alerted for good: no failed mail, lost commit, insertion conflict or stale
\* check loses the alert for ever.
DelayIsReported ==
    \A a \in Accounts : <>[](state[a] \in {"overdue", "unsynced"}) => <>[](row[VmOf[a]] = "alerted")

\* Workers of a kind that stop for good, dead or stuck in the tasks they run,
\* are flagged as long as work waits in a queue that the checks read, again
\* after each time the flag lapses; when no such queue has work left, the flag
\* ends up cleared, provided the checks read the hash that keeps it
\* (mt5_monitoring.py:205-227, 432-475).
StallIsFlagged ==
    \A k \in Kinds :
        LET waiting == ReadQueues(k, shown) \cap depth IN
        /\ \A stuck \in SUBSET QueuesOf(k) :
              <>[](waiting # {} /\ QueuesOf(k) \cap running = stuck) => []<>flag[k]
        /\ <>[](waiting = {}) /\ Primary(k) \in ReadQueues(k, {}) => <>[](~flag[k])
=============================================================================
