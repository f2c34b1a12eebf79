------------------------------- MODULE Access -------------------------------
(***************************************************************************)
(* Who may synchronise with MT5: the slots of the setup batches, the       *)
(* access request of each trade account, the premium trial of the user who *)
(* owns the accounts, and the pause that ends a trial.                     *)
(*                                                                         *)
(* A submission and a disconnection are web requests that read, and later  *)
(* commit.  A submission keeps the batch and the request row it read in    *)
(* its session, so the SELECT ... FOR UPDATE that follows locks the batch  *)
(* but returns the values read first; only the count of requests is fresh. *)
(* The pause and setup tasks share the setup queue of the VM, which one    *)
(* solo worker consumes in order.                                          *)
(*                                                                         *)
(* Every operation of a user or administrator, and every failure, spends   *)
(* one of MaxMoves moves (the reviews and batches do not); days are        *)
(* counted up to MaxDay.                                                   *)
(***************************************************************************)
EXTENDS Integers, Sequences, FiniteSets

CONSTANTS
    TradeAccounts, \* CFD trade accounts of one user
    Requests,      \* primary keys of mt5_access_request
    Batches,       \* primary keys of mt5_sync_batch
    Sessions,      \* web requests that may be in progress at once
    None,          \* NULL: no row, no batch, no request, no trial
    TrialDays,     \* PREMIUM_TRIAL_DAYS
    ExtensionDays, \* the days an administrator may grant
    MaxCapacity, MaxDay, MaxMoves

ASSUME AccessAssumption ==
    /\ TrialDays \in Nat \ {0} /\ ExtensionDays \subseteq Nat \ {0}
    /\ MaxCapacity \in Nat /\ MaxDay \in Nat /\ MaxMoves \in Nat
    /\ IsFiniteSet(Requests) /\ IsFiniteSet(TradeAccounts)
    /\ None \notin Requests \cup Batches \cup TradeAccounts \cup Int

VARIABLES
    batch,      \* batch[b]: the row, or None
    request,    \* request[r]: the row, or None
    account,    \* the trade accounts that exist
    link,       \* link[t]: the MT5Account row linked to t, or None
    links,      \* links[t]: how many rows were linked to t so far, the id of the last
    web,        \* web[w]: what the request of session w has read
    day,        \* the clock, in days
    trial,      \* premium_trial_started_at of the user
    privileged, \* the user is admin, grandfathered or paying
    gate,       \* gate[t]: the row a sync found without permission, not yet stamped
    queue,      \* the setup queue of the VM
    unseen,     \* history: batches in which a submission overwrote a review it had not read
    astray,     \* history: rows whose pause task was not queued, or that were set up
                \* while paused
    moves

batchVars == <<batch, request, account, unseen>>
trialVars == <<day, trial, privileged, gate, queue, astray>>
vars == <<batchVars, link, links, web, trialVars, moves>>

-----------------------------------------------------------------------------
Statuses == {"pending", "approved", "rejected"}

BatchRows == [open : BOOLEAN, capacity : Nat, claimed : Nat]

RequestRows == [account : TradeAccounts, batch : Batches \cup {None}, status : Statuses]

\* installed: is_active and terminal_path are set.  running: its terminal runs.
LinkRows == [id : Nat, installed : BOOLEAN, running : BOOLEAN, paused : BOOLEAN]

Tasks == [kind : {"setup", "pause"}, account : TradeAccounts, id : Nat]

ASSUME RowsAssumption == None \notin BatchRows \cup RequestRows \cup LinkRows

\* What a session has in memory.  batch, capacity, claimed: the open batch.
\* request, status, slot: the request row.  id: the link.  rows: the requests
\* a disconnection is about to delete, claims: the counters of their batches.
Idle == [op |-> "idle"]
Reads == [op : {"submit"}, account : TradeAccounts, batch : Batches \cup {None},
          capacity : Nat, claimed : Nat, request : Requests \cup {None},
          status : Statuses, slot : Batches \cup {None}]
         \cup [op : {"unlink"}, account : TradeAccounts, id : Nat, rows : SUBSET Requests,
               slots : [Requests -> Batches \cup {None}], claims : [Batches -> Nat]]

Move == moves < MaxMoves /\ moves' = moves + 1

\* The requests that hold a slot of b.
Active(b) == {r \in Requests : request[r] # None /\ request[r].batch = b
                                 /\ request[r].status \in {"pending", "approved"}}
OpenBatch == {b \in Batches : batch[b] # None /\ batch[b].open}
BatchesEnabled == \E b \in Batches : batch[b] # None
RowsOf(t) == {r \in Requests : request[r] # None /\ request[r].account = t}

Monus(m, n) == IF m > n THEN m - n ELSE 0

-----------------------------------------------------------------------------
(* Batches and reviews *)

CreateBatch(b, n) ==
    /\ batch[b] = None /\ n \in 1 .. MaxCapacity
    /\ OpenBatch = {}
    /\ batch' = [batch EXCEPT ![b] = [open |-> TRUE, capacity |-> n, claimed |-> 0]]
    /\ UNCHANGED <<request, account, unseen, link, links, web, trialVars, moves>>

AddSlots(b) ==
    /\ batch[b] # None /\ batch[b].capacity < MaxCapacity
    /\ batch' = [batch EXCEPT ![b].capacity = @ + 1]
    /\ UNCHANGED <<request, account, unseen, link, links, web, trialVars, moves>>

CloseBatch(b) ==
    /\ batch[b] # None /\ batch[b].open
    /\ batch' = [batch EXCEPT ![b].open = FALSE]
    /\ UNCHANGED <<request, account, unseen, link, links, web, trialVars, moves>>

Approve(r) ==
    /\ request[r] # None /\ request[r].status = "pending"
    /\ request' = [request EXCEPT ![r].status = "approved"]
    /\ UNCHANGED <<batch, account, unseen, link, links, web, trialVars, moves>>

\* A rejection also deletes the credentials if setup has not finished.
Reject(r) ==
    /\ request[r] # None /\ request[r].status = "pending"
    /\ request' = [request EXCEPT ![r].status = "rejected"]
    /\ LET t == request[r].account IN
       link' = IF link[t] # None /\ ~link[t].installed
                 THEN [link EXCEPT ![t] = None] ELSE link
    /\ UNCHANGED <<batch, account, unseen, links, web, trialVars, moves>>

\* An administrator removes the credentials; the request rows stay.
DeleteLink(t) ==
    /\ Move
    /\ link[t] # None
    /\ link' = [link EXCEPT ![t] = None]
    /\ UNCHANGED <<batchVars, links, web, trialVars>>

\* Deleting the trade account deletes its requests by cascade; the batches keep
\* their counters.
DropAccount(t) ==
    /\ Move
    /\ t \in account
    /\ account' = account \ {t}
    /\ request' = [r \in Requests |-> IF r \in RowsOf(t) THEN None ELSE request[r]]
    /\ link' = [link EXCEPT ![t] = None]
    /\ UNCHANGED <<batch, unseen, links, web, trialVars>>

-----------------------------------------------------------------------------
(* Submission of MT5 details *)

\* The pending request of the account if it has one, otherwise an approved one.
Current(t) ==
    LET pending == {r \in RowsOf(t) : request[r].status = "pending"}
        approved == {r \in RowsOf(t) : request[r].status = "approved"}
    IN  IF pending # {} THEN pending ELSE IF approved # {} THEN approved ELSE {None}

SubmitRead(w, t) ==
    /\ Move
    /\ web[w] = Idle /\ t \in account /\ link[t] = None
    /\ \E r \in Current(t), b \in IF OpenBatch = {} THEN {None} ELSE OpenBatch :
         web' = [web EXCEPT ![w] =
           [op |-> "submit", account |-> t, batch |-> b,
            capacity |-> IF b = None THEN 0 ELSE batch[b].capacity,
            claimed |-> IF b = None THEN 0 ELSE batch[b].claimed,
            request |-> r,
            status |-> IF r = None THEN "pending" ELSE request[r].status,
            slot |-> IF r = None THEN None ELSE request[r].batch]]
    /\ UNCHANGED <<batchVars, link, links, trialVars>>

\* The locked batch as the session sees it: the values it read first, if it has
\* read this batch before.
Seen(s, b) == IF s.batch = b THEN [capacity |-> s.capacity, claimed |-> s.claimed]
              ELSE [capacity |-> batch[b].capacity, claimed |-> batch[b].claimed]

\* Mutant of SlotsLeft: the counter alone.
SlotsByCounter(s, b) == Monus(Seen(s, b).capacity, Seen(s, b).claimed)

SlotsLeft(s, b) ==
    LET used == Cardinality(Active(b))
        claimed == Seen(s, b).claimed
    IN  Monus(Seen(s, b).capacity, IF used > claimed THEN used ELSE claimed)

NeedsSlot(s) == BatchesEnabled /\ s.slot = None

\* The rows the commit writes: r is the request, new or as the session read it.
SubmitRows(s, r, slot) ==
    /\ request' = [request EXCEPT ![r] =
         [account |-> s.account,
          batch |-> IF slot # s.slot \/ request[r] = None THEN slot ELSE request[r].batch,
          status |-> IF request[r] = None \/ s.status # "pending"
                       THEN "pending" ELSE request[r].status]]
    /\ unseen' = IF s.request # None /\ s.status # "pending" /\ request[r].status = "rejected"
                   THEN unseen \cup {request'[r].batch} ELSE unseen
    /\ links' = [links EXCEPT ![s.account] = @ + 1]
    /\ link' = [link EXCEPT ![s.account] =
         [id |-> links'[s.account], installed |-> FALSE, running |-> FALSE, paused |-> FALSE]]
    /\ queue' = Append(queue, [kind |-> "setup", account |-> s.account,
                               id |-> links'[s.account]])

\* The unique index on pending requests, that of MT5Account on the trade
\* account, the foreign key, and an UPDATE whose row is gone.
Conflict(s, r) ==
    \/ link[s.account] # None
    \/ s.account \notin account
    \/ s.request # None /\ request[r] = None
    \/ \E q \in RowsOf(s.account) \ {r} : request[q].status = "pending"

\* The row the session has in memory, or a new one.
HasRow(s) == s.request # None \/ \E r \in Requests : request[r] = None
Row(s) == IF s.request # None THEN s.request ELSE CHOOSE r \in Requests : request[r] = None

SubmitCommit(w) ==
    LET s == web[w] IN
    /\ s.op = "submit"
    /\ HasRow(s)
    /\ LET r == Row(s) IN
         /\ ~Conflict(s, r)
         /\ \/ /\ NeedsSlot(s)
               /\ \E b \in OpenBatch :
                    /\ SlotsLeft(s, b) > 0
                    /\ batch' = [batch EXCEPT ![b].claimed = Seen(s, b).claimed + 1]
                    /\ SubmitRows(s, r, b)
            \/ ~NeedsSlot(s) /\ SubmitRows(s, r, s.slot) /\ UNCHANGED batch
    /\ web' = [web EXCEPT ![w] = Idle]
    /\ UNCHANGED <<account, day, trial, privileged, gate, astray, moves>>

\* 409: no slot, or the row of another submission is in the way.
SubmitRefused(w) ==
    LET s == web[w] IN
    /\ s.op = "submit"
    /\ \/ NeedsSlot(s) /\ \A b \in OpenBatch : SlotsLeft(s, b) = 0
       \/ HasRow(s) /\ Conflict(s, Row(s))
    /\ web' = [web EXCEPT ![w] = Idle]
    /\ UNCHANGED <<batchVars, link, links, trialVars, moves>>

-----------------------------------------------------------------------------
(* Disconnection *)

UnlinkRead(w, t) ==
    /\ Move
    /\ web[w] = Idle /\ t \in account /\ link[t] # None
    /\ web' = [web EXCEPT ![w] =
         [op |-> "unlink", account |-> t, id |-> link[t].id, rows |-> RowsOf(t),
          slots |-> [r \in Requests |-> IF r \in RowsOf(t) THEN request[r].batch ELSE None],
          claims |-> [b \in Batches |-> IF batch[b] = None THEN 0 ELSE batch[b].claimed]]]
    /\ UNCHANGED <<batchVars, link, links, trialVars>>

Released(s, b) == Monus(s.claims[b], Cardinality({r \in s.rows : s.slots[r] = b}))

\* Every row of the account gives one slot back, a rejected one too; the counter
\* is written as computed from the value read.
UnlinkCommit(w) ==
    LET s == web[w] IN
    /\ s.op = "unlink"
    /\ batch' = [b \in Batches |->
         IF batch[b] # None /\ Released(s, b) # s.claims[b]
           THEN [batch[b] EXCEPT !.claimed = Released(s, b)] ELSE batch[b]]
    /\ request' = [r \in Requests |-> IF r \in s.rows THEN None ELSE request[r]]
    /\ link' = IF link[s.account] # None /\ link[s.account].id = s.id
                 THEN [link EXCEPT ![s.account] = None] ELSE link
    /\ web' = [web EXCEPT ![w] = Idle]
    /\ UNCHANGED <<account, unseen, links, trialVars, moves>>

-----------------------------------------------------------------------------
(* The premium trial *)

TrialOver == trial # None /\ day - trial >= TrialDays

MaySync(t) == ~link[t].paused /\ (privileged \/ ~TrialOver)

\* Mutant of Used: every use stamps the clock.
UsedAgain == trial' = day

\* start_premium_trial_if_needed: the first successful use starts the clock.
Used == trial' = IF ~privileged /\ trial = None THEN day ELSE trial

Synced(t) ==
    /\ link[t] # None /\ link[t].installed /\ MaySync(t)
    /\ gate[t] = None
    /\ Used
    /\ UNCHANGED <<batchVars, link, links, web, day, privileged, gate, queue, astray, moves>>

ChatUsed ==
    /\ privileged \/ ~TrialOver
    /\ Used
    /\ UNCHANGED <<batchVars, link, links, web, day, privileged, gate, queue, astray, moves>>

\* The beat passes over paused accounts; a sync of any other active account
\* that has no permission stamps the pause in a second step.
GateRefuses(t) ==
    /\ link[t] # None /\ link[t].installed /\ ~link[t].paused
    /\ ~MaySync(t) /\ gate[t] = None
    /\ gate' = [gate EXCEPT ![t] = link[t].id]
    /\ UNCHANGED <<batchVars, link, links, web, day, trial, privileged, queue, astray, moves>>

\* Mutant of Stamp: the pause task is left to the next sync, which skips the account.
StampOnly(t) == queue' = queue /\ astray' = astray

Stamp(t) == queue' = Append(queue, [kind |-> "pause", account |-> t, id |-> gate[t]])
            /\ astray' = astray

\* Mutant of Pause: the stamp is not committed and no task is queued.
PauseUnsaved(t) ==
    /\ gate[t] # None
    /\ gate' = [gate EXCEPT ![t] = None]
    /\ UNCHANGED <<batchVars, link, links, web, day, trial, privileged, queue, astray, moves>>

Stamped(t) == IF link[t] # None /\ link[t].id = gate[t]
                THEN [link EXCEPT ![t].paused = TRUE] ELSE link

Pause(t) ==
    /\ gate[t] # None
    /\ link' = Stamped(t)
    /\ gate' = [gate EXCEPT ![t] = None]
    /\ Stamp(t) /\ UNCHANGED moves
    /\ UNCHANGED <<batchVars, links, web, day, trial, privileged>>

\* The commit of the stamp fails; the pause task, queued all the same, stamps it.
PauseNotSaved(t) ==
    /\ Move
    /\ gate[t] # None
    /\ gate' = [gate EXCEPT ![t] = None]
    /\ Stamp(t)
    /\ UNCHANGED <<batchVars, link, links, web, day, trial, privileged>>

\* The broker refuses the pause task: the stamp stays, the error is logged.
PauseNotQueued(t) ==
    /\ Move
    /\ gate[t] # None
    /\ link' = Stamped(t)
    /\ gate' = [gate EXCEPT ![t] = None]
    /\ astray' = astray \cup {<<t, gate[t]>>} /\ UNCHANGED queue
    /\ UNCHANGED <<batchVars, links, web, day, trial, privileged>>

\* The setup worker.  A task for a row that is linked no more changes nothing here.
PauseTask ==
    /\ queue # <<>> /\ Head(queue).kind = "pause"
    /\ LET t == Head(queue).account IN
       link' = IF link[t] # None /\ link[t].id = Head(queue).id
                 THEN [link EXCEPT ![t].paused = TRUE, ![t].running = FALSE] ELSE link
    /\ queue' = Tail(queue)
    /\ UNCHANGED <<batchVars, links, web, day, trial, privileged, gate, astray, moves>>

\* Setup starts the terminal and does not look at the pause.
SetupTask ==
    /\ queue # <<>> /\ Head(queue).kind = "setup"
    /\ LET t == Head(queue).account
           here == link[t] # None /\ link[t].id = Head(queue).id
       IN  /\ link' = IF here THEN [link EXCEPT ![t].installed = TRUE, ![t].running = TRUE]
                      ELSE link
           /\ astray' = IF here /\ link[t].paused THEN astray \cup {<<t, link[t].id>>} ELSE astray
    /\ queue' = Tail(queue)
    /\ UNCHANGED <<batchVars, links, web, day, trial, privileged, gate, moves>>

PausedAccounts == {t \in TradeAccounts : link[t] # None /\ link[t].paused}

Extendable == ~privileged /\ (TrialOver \/ PausedAccounts # {})

\* The setups of the accounts to resume, in any order.
SetupsOf(s) == {[i \in 1 .. Cardinality(s) |->
                   [kind |-> "setup", account |-> f[i], id |-> link[f[i]].id]] :
                f \in {g \in [1 .. Cardinality(s) -> s] : \A t \in s : \E i \in DOMAIN g : g[i] = t}}

\* extend_premium_trial queues the setups before the route commits.
Extend(d, committed) ==
    /\ Move
    /\ Extendable /\ d \in ExtensionDays
    /\ \E tasks \in SetupsOf(PausedAccounts) : queue' = queue \o tasks
    /\ IF committed
         THEN /\ trial' = day - (TrialDays - d)
              /\ link' = [t \in TradeAccounts |->
                   IF t \in PausedAccounts THEN [link[t] EXCEPT !.paused = FALSE] ELSE link[t]]
         ELSE UNCHANGED <<trial, link>>
    /\ UNCHANGED <<batchVars, links, web, day, privileged, gate, astray>>

TogglePrivilege ==
    /\ Move
    /\ privileged' = ~privileged
    /\ UNCHANGED <<batchVars, link, links, web, day, trial, gate, queue, astray>>

\* A day passes; a sync and the work of the setup queue take less.
Tick ==
    /\ day < MaxDay /\ queue = <<>> /\ \A t \in TradeAccounts : gate[t] = None
    /\ day' = day + 1
    /\ UNCHANGED <<batchVars, link, links, web, trial, privileged, gate, queue, astray, moves>>

-----------------------------------------------------------------------------
Init ==
    /\ batch = [b \in Batches |-> None]
    /\ request = [r \in Requests |-> None]
    /\ account = TradeAccounts
    /\ link = [t \in TradeAccounts |-> None] /\ links = [t \in TradeAccounts |-> 0]
    /\ web = [w \in Sessions |-> Idle]
    /\ day = 0 /\ trial = None /\ privileged \in BOOLEAN
    /\ gate = [t \in TradeAccounts |-> None]
    /\ queue = <<>> /\ unseen = {} /\ astray = {} /\ moves = 0

Administration ==
    \/ \E b \in Batches : (\E n \in 1 .. MaxCapacity : CreateBatch(b, n)) \/ AddSlots(b) \/ CloseBatch(b)
    \/ \E r \in Requests : Approve(r) \/ Reject(r)
    \/ \E t \in TradeAccounts : DeleteLink(t) \/ DropAccount(t)
    \/ \E d \in ExtensionDays, c \in BOOLEAN : Extend(d, c)
    \/ TogglePrivilege

Web == \E w \in Sessions :
         \/ \E t \in TradeAccounts : SubmitRead(w, t) \/ UnlinkRead(w, t)
         \/ SubmitCommit(w) \/ SubmitRefused(w) \/ UnlinkCommit(w)

Worker == PauseTask \/ SetupTask

Sync(t) == Synced(t) \/ GateRefuses(t) \/ Pause(t) \/ PauseNotSaved(t) \/ PauseNotQueued(t)

Next == \/ Administration \/ Web \/ Worker \/ Tick \/ ChatUsed
        \/ \E t \in TradeAccounts : Sync(t)

Spec == Init /\ [][Next]_vars

\* The setup worker consumes its queue, and the beat reaches every account that
\* is active and not paused.
FairSpec == Spec /\ WF_vars(Worker)
                 /\ \A t \in TradeAccounts : WF_vars(GateRefuses(t)) /\ WF_vars(Pause(t))

-----------------------------------------------------------------------------
(* Properties *)

TypeOK ==
    /\ batch \in [Batches -> BatchRows \cup {None}]
    /\ request \in [Requests -> RequestRows \cup {None}]
    /\ account \subseteq TradeAccounts
    /\ link \in [TradeAccounts -> LinkRows \cup {None}] /\ links \in [TradeAccounts -> Nat]
    /\ web \in [Sessions -> Reads \cup {Idle}]
    /\ day \in Nat /\ trial \in Int \cup {None} /\ privileged \in BOOLEAN
    /\ gate \in [TradeAccounts -> Nat \cup {None}]
    /\ queue \in Seq(Tasks)
    /\ unseen \subseteq Batches \cup {None} /\ astray \subseteq TradeAccounts \X Nat
    /\ moves \in Nat

\* The pending and approved requests of a batch never exceed its capacity,
\* whatever the concurrent submissions and disconnections do to the counter
\* total_slots_claimed -- except in a batch where a submission overwrote a
\* rejection it had not read.
ActiveWithinCapacity ==
    \A b \in Batches : batch[b] # None /\ b \notin unseen
                         => Cardinality(Active(b)) <= batch[b].capacity

\* The terminal of a paused account has stopped, or the pause task that stops it
\* is queued -- unless the task could not be queued, or a setup ran on the
\* paused account.
PausedIsStopped ==
    \A t \in PausedAccounts :
      link[t].running => \/ \E i \in DOMAIN queue :
                              queue[i] = [kind |-> "pause", account |-> t, id |-> link[t].id]
                         \/ <<t, link[t].id>> \in astray

\* Without an extension, a trial that is over stays over: no use, no new link and
\* no change of the user's privileges starts it again.
TrialNotRenewed ==
    [][TrialOver => TrialOver' \/ \E d \in ExtensionDays : Extend(d, TRUE)]_vars

\* An active account of a user whose trial is over is paused in the end.
ExpiredIsPaused ==
    \A t \in TradeAccounts :
      (link[t] # None /\ link[t].installed /\ ~MaySync(t)) ~>
        (link[t] = None \/ link[t].paused \/ MaySync(t))
=============================================================================
