---------------------------- MODULE Mt5Lifecycle ----------------------------
(***************************************************************************)
(* The life of the MT5 link of one trade account: the MT5Account rows that *)
(* are or were linked to it, the terminal folder it has on each Windows    *)
(* VM, the setup queue of each VM and the solo worker that consumes it.    *)
(*                                                                         *)
(* Web requests and setup tasks are transactions on a row: they load it,   *)
(* work, and write back the columns whose value they changed, so another   *)
(* transaction may commit in between.  The folder's name is built from the *)
(* user and the trade account: every row linked to this trade account uses *)
(* the same folder, and each VM has its own copy.                          *)
(*                                                                         *)
(* Every user or admin operation and every failure spends one of MaxMoves  *)
(* "moves".                                                                *)
(***************************************************************************)
EXTENDS Naturals, Sequences, FiniteSets

CONSTANTS
    Accounts,    \* primary keys of mt5_account
    NoAccount,   \* no row is named
    Deleted,     \* the value of row[a] while there is no row a
    VmOrder,     \* FXJ_MT5_SETUP_VM_IDS: the VMs in the order of setup failover
    NoVm,        \* vm_id is NULL, or no target VM is given
    Sessions,    \* web requests that may be in progress at once
    FailoverMax, \* FXJ_MT5_SETUP_FAILOVER_MAX_VMS
    MaxRetries,  \* max_retries of setup_mt5_terminal
    Operations,  \* the user and admin operations offered
    MaxMoves     \* bound on operations and failures

VmIds == {VmOrder[i] : i \in DOMAIN VmOrder}

UserOps == {"link", "retry", "reactivate", "unlink", "drop"}
AdminOps == {"create", "setup", "archive", "reactivateOn", "deleteFiles", "vmFiles",
             "delete", "reject"}

ASSUME LifecycleAssumption ==
    /\ VmOrder \in Seq(VmIds) /\ Len(VmOrder) > 0
    /\ NoVm \notin VmIds
    /\ NoAccount \notin Accounts
    /\ FailoverMax \in Nat /\ MaxRetries \in Nat /\ MaxMoves \in Nat
    /\ Operations \subseteq UserOps \cup AdminOps

VARIABLES
    row,       \* row[a]: the MT5Account row a
    born,      \* primary keys used so far
    linkable,  \* the trade account exists
    files,     \* files[v]: its terminal and AppData folders exist on VM v
    queue,     \* queue[v]: the setup queue of VM v
    delayed,   \* delayed[v]: setups of VM v waiting for the countdown of their retry
    job,       \* job[v]: what the setup worker of VM v is executing
    web,       \* web[w]: the transaction of web request w
    now,       \* clock of the cleanup marks
    calm,      \* history: requests came one by one, no administrator moved or removed
               \* anything, and no setup removed its own folder
    lost,      \* history: <<a, v>>, a cleanup of row a failed or was lost on VM v
    moves

vars == <<row, born, linkable, files, queue, delayed, job, web, now, calm, lost, moves>>

-----------------------------------------------------------------------------
(* Types *)

Statuses == {"pending", "connected", "failed"}

\* owned: user_id and trade_account_id are set.  password: the ciphertext, of
\* which only "none" and "is it the one I loaded" matter.  paths: terminal_path
\* and appdata_hash are set.  mark: cleanup_marked_at, 0 for NULL.
Columns == [owned : BOOLEAN, password : {"none", "p", "q"}, active : BOOLEAN,
            status : Statuses, paths : BOOLEAN, vm : VmIds \cup {NoVm},
            mark : Nat, archived : BOOLEAN]
ASSUME DeletedAssumption == Deleted \notin Columns

NewRow == [owned |-> TRUE, password |-> "p", active |-> FALSE, status |-> "pending",
           paths |-> FALSE, vm |-> NoVm, mark |-> 0, archived |-> FALSE]

SetupTasks == [kind : {"setup"}, account : Accounts, failover : BOOLEAN,
               attempt : Nat, tries : 0 .. MaxRetries]
CleanupTasks == [kind : {"cleanup"}, account : Accounts \cup {NoAccount},
                 delete : BOOLEAN, clear : BOOLEAN, token : Nat]
Tasks == SetupTasks \cup CleanupTasks

Setup(a, failover, attempt, tries) ==
    [kind |-> "setup", account |-> a, failover |-> failover,
     attempt |-> attempt, tries |-> tries]
Cleanup(a, delete, clear, token) ==
    [kind |-> "cleanup", account |-> a, delete |-> delete, clear |-> clear, token |-> token]

\* old: the row as loaded.  new: the row to be written.  Step "load" is followed
\* by the commit, step "saved" by the dispatch of a task.
Requests == [op : UserOps \cup AdminOps \cup {"none"}, account : Accounts \cup {NoAccount},
             old : Columns, new : Columns, step : {"load", "saved"}, vm : VmIds \cup {NoVm}]
Jobs == [busy : BOOLEAN, task : Tasks, old : Columns]
NoSession == [op |-> "none", account |-> NoAccount, old |-> NewRow, new |-> NewRow,
              step |-> "load", vm |-> NoVm]
NoJob == [busy |-> FALSE, task |-> Cleanup(NoAccount, FALSE, FALSE, 0), old |-> NewRow]

-----------------------------------------------------------------------------
(* Helpers *)

Move == moves < MaxMoves /\ moves' = moves + 1

\* Whether the history stays calm when w makes the request op.
StaysCalm(w, op) ==
    calm' = (calm /\ op \in UserOps \cup {"archive"}
                  /\ \A x \in Sessions \ {w} : web[x] = NoSession)

Exists(a) == row[a] # Deleted
Orphaned(c) == ~c.owned
HasCredentials(c) == c.password # "none"
CleanupOnly(c) == Orphaned(c) /\ ~HasCredentials(c)

\* What the sync task and its handler require of an account.
Synced(a) ==
    /\ Exists(a)
    /\ row[a].active /\ row[a].owned /\ row[a].mark = 0 /\ HasCredentials(row[a])

\* UPDATE of the columns assigned a value other than the loaded one.
Written(current, old, new) ==
    [owned    |-> IF new.owned # old.owned THEN new.owned ELSE current.owned,
     password |-> IF new.password # old.password THEN new.password ELSE current.password,
     active   |-> IF new.active # old.active THEN new.active ELSE current.active,
     status   |-> IF new.status # old.status THEN new.status ELSE current.status,
     paths    |-> IF new.paths # old.paths THEN new.paths ELSE current.paths,
     vm       |-> IF new.vm # old.vm THEN new.vm ELSE current.vm,
     mark     |-> IF new.mark # old.mark THEN new.mark ELSE current.mark,
     archived |-> IF new.archived # old.archived THEN new.archived ELSE current.archived]

\* Mutation of MarkForCleanup: the ciphertext is kept.
MarkKeepsPassword(c, mark) ==
    [c EXCEPT !.owned = FALSE, !.active = FALSE, !.mark = mark,
              !.archived = FALSE, !.status = "pending"]

\* MT5Account.mark_for_cleanup
MarkForCleanup(c, mark) ==
    [c EXCEPT !.owned = FALSE, !.password = "none", !.active = FALSE, !.mark = mark,
              !.archived = FALSE, !.status = "pending"]

\* Mutation of Send: the newest message is delivered first.
SendFirst(v, t) == queue' = [queue EXCEPT ![v] = <<t>> \o @]

Send(v, t) == queue' = [queue EXCEPT ![v] = Append(@, t)]

\* resolve_setup_target_vm_id
SetupTarget(v) == IF v = NoVm THEN VmOrder[1] ELSE v

\* next_setup_failover_vm_id
NextVm(attempt) ==
    IF attempt + 1 < FailoverMax /\ attempt + 1 < Len(VmOrder)
      THEN VmOrder[attempt + 2] ELSE NoVm

-----------------------------------------------------------------------------
Init ==
    /\ row = [a \in Accounts |-> Deleted]
    /\ born = {}
    /\ linkable = TRUE
    /\ files = [v \in VmIds |-> FALSE]
    /\ queue = [v \in VmIds |-> <<>>]
    /\ delayed = [v \in VmIds |-> {}]
    /\ job = [v \in VmIds |-> NoJob]
    /\ web = [w \in Sessions |-> NoSession]
    /\ now = 1
    /\ calm = TRUE
    /\ lost = {}
    /\ moves = 0

-----------------------------------------------------------------------------
(* Web requests *)

\* A request loads row a and will commit the row c; v is the VM it chose.
Open(w, op, a, c, v) ==
    /\ op \in Operations /\ Move
    /\ web[w] = NoSession
    /\ web' = [web EXCEPT ![w] = [op |-> op, account |-> a, old |-> row[a], new |-> c,
                                  step |-> "load", vm |-> v]]
    /\ StaysCalm(w, op)
    /\ UNCHANGED <<row, born, linkable, files, delayed, job, lost>>

\* The commit: the UPDATE of the columns changed, or the DELETE of a rejected
\* link's row.  The row may be gone: the request fails.
Commit(w) ==
    LET s == web[w] IN
    /\ s.op # "none" /\ s.step = "load"
    /\ IF Exists(s.account)
         THEN /\ row' = [row EXCEPT ![s.account] =
                            IF s.op = "reject" THEN Deleted ELSE Written(@, s.old, s.new)]
              /\ web' = [web EXCEPT ![w] = IF s.op \in {"retry", "unlink", "delete"}
                                             THEN [s EXCEPT !.step = "saved"] ELSE NoSession]
         ELSE web' = [web EXCEPT ![w] = NoSession] /\ UNCHANGED row
    /\ UNCHANGED <<born, linkable, files, queue, delayed, job, now, calm, lost, moves>>

\* _submit_mt5_sync_request (op "link") and admin_mt5_create_account (op
\* "create"): insert the row, which the unique constraint allows only if no
\* other row is linked; the setup is queued after the commit.
Insert(w, op, a, v) ==
    /\ op \in Operations /\ Move
    /\ op = "link" => v = NoVm
    /\ web[w] = NoSession
    /\ linkable /\ a \notin born
    /\ \A b \in Accounts : Exists(b) => ~row[b].owned
    /\ row' = [row EXCEPT ![a] = NewRow]
    /\ born' = born \cup {a}
    /\ web' = [web EXCEPT ![w] = [op |-> op, account |-> a, old |-> NewRow, new |-> NewRow,
                                  step |-> "saved", vm |-> v]]
    /\ StaysCalm(w, op)
    /\ UNCHANGED <<linkable, files, queue, delayed, job, now, lost>>

\* retry_mt5_setup
RetrySetup(w, a) ==
    /\ Exists(a) /\ row[a].owned /\ row[a].mark = 0 /\ row[a].status = "failed"
    /\ Open(w, "retry", a,
            [row[a] EXCEPT !.password = IF @ = "p" THEN "q" ELSE "p", !.status = "pending",
                           !.paths = FALSE, !.active = FALSE], NoVm)
    /\ UNCHANGED <<queue, now>>

\* admin_mt5_setup_terminal
AdminSetup(a, v) ==
    /\ "setup" \in Operations /\ Move
    /\ Exists(a) /\ row[a].owned /\ ~row[a].archived /\ row[a].mark = 0 /\ HasCredentials(row[a])
    /\ Send(SetupTarget(v), Setup(a, FALSE, 0, 0))
    /\ calm' = FALSE
    /\ UNCHANGED <<row, born, linkable, files, delayed, job, web, now, lost>>

\* archive_mt5_account
Archive(w, a) ==
    /\ Exists(a) /\ row[a].owned /\ ~row[a].archived /\ HasCredentials(row[a])
    /\ Open(w, "archive", a, [row[a] EXCEPT !.active = FALSE, !.archived = TRUE], NoVm)
    /\ UNCHANGED <<queue, now>>

\* reactivate_mt5_account for a user: the setup is queued before the commit.
Reactivate(w, a) ==
    /\ Exists(a) /\ row[a].owned /\ row[a].archived /\ HasCredentials(row[a])
    /\ Open(w, "reactivate", a, [row[a] EXCEPT !.archived = FALSE], NoVm)
    /\ Send(SetupTarget(row[a].vm), Setup(a, TRUE, 0, 0))
    /\ UNCHANGED now

\* ... and for an administrator, who may move the account to VM v.
ReactivateOn(w, a, v) ==
    /\ v \in VmIds
    /\ Exists(a) /\ row[a].owned /\ row[a].archived /\ HasCredentials(row[a])
    /\ Open(w, "reactivateOn", a, [row[a] EXCEPT !.archived = FALSE, !.vm = v], v)
    /\ Send(v, Setup(a, FALSE, 0, 0))
    /\ UNCHANGED now

\* Mutation of DeleteFiles: the task's default for delete_account_row.
DeleteFilesDropsRow(w, a, v) ==
    /\ v \in VmIds
    /\ Exists(a) /\ row[a].owned /\ row[a].mark = 0 /\ row[a].paths
    /\ row[a].active => row[a].archived \/ row[a].status = "failed"
    /\ row[a].vm \in {v, NoVm}
    /\ Open(w, "deleteFiles", a, [row[a] EXCEPT !.paths = FALSE, !.active = FALSE], v)
    /\ Send(v, Cleanup(a, TRUE, FALSE, 0))
    /\ UNCHANGED now

\* delete_mt5_account_vm_files: the cleanup is queued before the commit.
DeleteFiles(w, a, v) ==
    /\ v \in VmIds
    /\ Exists(a) /\ row[a].owned /\ row[a].mark = 0 /\ row[a].paths
    /\ row[a].active => row[a].archived \/ row[a].status = "failed"
    /\ row[a].vm \in {v, NoVm}
    /\ Open(w, "deleteFiles", a, [row[a] EXCEPT !.paths = FALSE, !.active = FALSE], v)
    /\ Send(v, Cleanup(a, FALSE, FALSE, 0))
    /\ UNCHANGED now

\* queue_mt5_accounts_cleanup_for_vm does this for every row of a VM.
VmFiles(w, a, v) ==
    /\ v \in VmIds
    /\ Exists(a) /\ row[a].vm = v /\ row[a].paths /\ row[a].mark = 0
    /\ row[a].active => row[a].archived
    /\ Open(w, "vmFiles", a, [row[a] EXCEPT !.paths = FALSE, !.active = FALSE], v)
    /\ Send(v, Cleanup(a, FALSE, FALSE, 0))
    /\ UNCHANGED now

NewMark(c) == IF c.mark = 0 THEN now ELSE c.mark
Tick == now' = now + 1

\* unlink_mt5_sync_for_trade_account
Unlink(w, a) ==
    /\ Exists(a) /\ row[a].owned
    /\ Open(w, "unlink", a, MarkForCleanup(row[a], NewMark(row[a])), NoVm)
    /\ Tick
    /\ UNCHANGED queue

\* Deleting the trade account: the before_flush hook marks the linked row, and
\* no cleanup is queued.
DropTradeAccount ==
    /\ "drop" \in Operations /\ Move
    /\ linkable
    /\ linkable' = FALSE
    /\ row' = [a \in Accounts |-> IF Exists(a) /\ row[a].owned
                                    THEN MarkForCleanup(row[a], now) ELSE row[a]]
    /\ Tick
    /\ calm' = (calm /\ \A w \in Sessions : web[w] = NoSession)
    /\ UNCHANGED <<born, files, queue, delayed, job, web, lost>>

\* admin_mt5_delete_account: a linked row is marked; a cleanup-only row with
\* paths gets a new mark if it has none or changes its VM, and without paths
\* it is deleted.  v is the VM of the row, or chosen when the row has none.
AdminDelete(w, a, v) ==
    LET c == row[a] IN
    /\ Exists(a)
    /\ c.paths => v \in VmIds /\ c.vm \in {v, NoVm}
    /\ ~c.paths => v = NoVm
    /\ ~CleanupOnly(c) \/ c.paths
    /\ Open(w, "delete", a,
            IF CleanupOnly(c)
              THEN IF c.mark = 0 \/ c.vm # v THEN [c EXCEPT !.vm = v, !.mark = now] ELSE c
              ELSE MarkForCleanup([c EXCEPT !.vm = IF c.paths THEN v ELSE @], NewMark(c)),
            v)
    /\ Tick
    /\ UNCHANGED queue

\* admin_mt5_reject_request: the row linked to the trade account of the rejected
\* request goes if it was loaded inactive and without a terminal.  Whether a request
\* waits is Access's matter: any linked row may have one here.
RejectRequest(w, a) ==
    /\ Exists(a) /\ row[a].owned /\ ~row[a].active /\ ~row[a].paths
    /\ Open(w, "reject", a, row[a], NoVm)
    /\ UNCHANGED <<queue, now>>

DeleteRow(a) ==
    /\ "delete" \in Operations /\ Move
    /\ Exists(a) /\ CleanupOnly(row[a]) /\ ~row[a].paths
    /\ row' = [row EXCEPT ![a] = Deleted]
    /\ calm' = FALSE
    /\ UNCHANGED <<born, linkable, files, queue, delayed, job, web, now, lost>>

\* The cleanup of a tombstone goes to the row's VM and carries its mark.  It
\* is skipped when the row names no files or no VM.
CleanupVm(s) == IF s.op = "delete" THEN s.vm ELSE row[s.account].vm

\* Mutation of Dispatch: the cleanup carries the mark loaded, not the one set.
DispatchOldMark(w) ==
    LET s == web[w] IN
    /\ s.step = "saved"
    /\ IF s.op \in {"link", "create", "retry"}
         THEN Send(SetupTarget(s.vm), Setup(s.account, s.vm = NoVm, 0, 0))
         ELSE IF Exists(s.account) /\ row[s.account].paths /\ CleanupVm(s) # NoVm
                THEN Send(CleanupVm(s), Cleanup(s.account, FALSE, TRUE, s.old.mark))
                ELSE UNCHANGED queue
    /\ web' = [web EXCEPT ![w] = NoSession]
    /\ UNCHANGED <<row, born, linkable, files, delayed, job, now, calm, lost, moves>>

\* After the commit: the setup of a new or retried link, the cleanup of a
\* tombstone.  queue_mt5_account_cleanup reads the row again.
Dispatch(w) ==
    LET s == web[w] IN
    /\ s.step = "saved"
    /\ IF s.op \in {"link", "create", "retry"}
         THEN Send(SetupTarget(s.vm), Setup(s.account, s.vm = NoVm, 0, 0))
         ELSE IF Exists(s.account) /\ row[s.account].paths /\ CleanupVm(s) # NoVm
                THEN Send(CleanupVm(s), Cleanup(s.account, FALSE, TRUE, s.new.mark))
                ELSE UNCHANGED queue
    /\ web' = [web EXCEPT ![w] = NoSession]
    /\ UNCHANGED <<row, born, linkable, files, delayed, job, now, calm, lost, moves>>

\* The message broker is unreachable: the request ends with a warning.
DispatchFails(w) ==
    /\ Move
    /\ web[w].step = "saved"
    /\ web' = [web EXCEPT ![w] = NoSession]
    /\ lost' = IF web[w].op \in {"unlink", "delete"} THEN lost \cup ({web[w].account} \X VmIds) ELSE lost
    /\ UNCHANGED <<row, born, linkable, files, queue, delayed, job, now, calm>>

-----------------------------------------------------------------------------
(* The setup worker of a VM: one task at a time *)

\* The worker is idle and takes the head of its queue, or a delayed retry.
Take(v, t) ==
    /\ ~job[v].busy
    /\ \/ /\ queue[v] # <<>> /\ t = Head(queue[v])
          /\ queue' = [queue EXCEPT ![v] = Tail(@)]
          /\ UNCHANGED delayed
       \/ /\ t \in delayed[v]
          /\ delayed' = [delayed EXCEPT ![v] = @ \ {t}]
          /\ UNCHANGED queue

NextTasks(v) == delayed[v] \cup (IF queue[v] = <<>> THEN {} ELSE {Head(queue[v])})

CanSetup(a) == row[a].owned /\ row[a].mark = 0 /\ HasCredentials(row[a])

\* setup_mt5_terminal loads the row and creates the folder if it is missing.
BeginSetup(v, t) ==
    /\ t.kind = "setup"
    /\ Take(v, t)
    /\ Exists(t.account) /\ CanSetup(t.account)
    /\ files' = [files EXCEPT ![v] = TRUE]
    /\ job' = [job EXCEPT ![v] = [busy |-> TRUE, task |-> t, old |-> row[t.account]]]
    /\ UNCHANGED <<row, born, linkable, web, now, calm, lost, moves>>

SkipSetup(v, t) ==
    /\ t.kind = "setup"
    /\ Take(v, t)
    /\ ~Exists(t.account)
    /\ UNCHANGED <<row, born, linkable, files, job, web, now, calm, lost, moves>>

\* Mutation of Failover: the attempt is not counted.
FailoverForever(v, t, q, made) ==
    LET next == NextVm(t.attempt)
        cleaned == IF made THEN [q EXCEPT ![v] = Append(@, Cleanup(NoAccount, TRUE, FALSE, 0))] ELSE q
    IN  /\ next # NoVm
        /\ queue' = [cleaned EXCEPT ![next] = Append(@, Setup(t.account, TRUE, t.attempt, 0))]
        /\ row' = IF Exists(t.account)
                    THEN [row EXCEPT ![t.account] = [@ EXCEPT !.paths = FALSE, !.vm = NoVm]]
                    ELSE row
        /\ calm' = (calm /\ ~made)

\* _attempt_setup_failover: remove what this VM holds, forget it in the row,
\* and set the account up on the next VM.  q is the queue without task t.
Failover(v, t, q, made) ==
    LET next == NextVm(t.attempt)
        cleaned == IF made THEN [q EXCEPT ![v] = Append(@, Cleanup(NoAccount, TRUE, FALSE, 0))] ELSE q
    IN  /\ next # NoVm
        /\ queue' = [cleaned EXCEPT ![next] = Append(@, Setup(t.account, TRUE, t.attempt + 1, 0))]
        /\ row' = IF Exists(t.account)
                    THEN [row EXCEPT ![t.account] = [@ EXCEPT !.paths = FALSE, !.vm = NoVm]]
                    ELSE row
        /\ calm' = (calm /\ ~made)

FailsOver(t) == t.failover /\ NextVm(t.attempt) # NoVm

\* The row is orphaned, marked or without a password: a permanent error,
\* raised before anything was created on the VM.
RefuseSetup(v, t) ==
    /\ t.kind = "setup"
    /\ ~job[v].busy
    /\ Exists(t.account) /\ ~CanSetup(t.account)
    /\ LET queued == queue[v] # <<>> /\ t = Head(queue[v])
           q == IF queued THEN [queue EXCEPT ![v] = Tail(@)] ELSE queue
       IN  /\ queued \/ t \in delayed[v]
           /\ delayed' = IF queued THEN delayed ELSE [delayed EXCEPT ![v] = @ \ {t}]
           /\ IF FailsOver(t) THEN Failover(v, t, q, FALSE)
                              ELSE queue' = q /\ UNCHANGED <<row, calm>>
    /\ UNCHANGED <<born, linkable, files, job, web, now, lost, moves>>

InSetup(v) == job[v].busy /\ job[v].task.kind = "setup"
Leave(v) == job' = [job EXCEPT ![v] = NoJob]

\* The login is verified: the commit at the end of setup_mt5_terminal.
FinishSetup(v) ==
    LET t == job[v].task
        new == [job[v].old EXCEPT !.paths = TRUE, !.active = TRUE, !.status = "connected", !.vm = v]
    IN  /\ InSetup(v)
        /\ Exists(t.account)
        /\ row' = [row EXCEPT ![t.account] = Written(@, job[v].old, new)]
        /\ Leave(v)
        /\ UNCHANGED <<born, linkable, files, queue, delayed, web, now, calm, lost, moves>>

\* Any other error: retried, then failed over if the error is eligible, or
\* the status becomes "failed".
SetupError(v, eligible) ==
    LET t == job[v].task IN
    /\ InSetup(v)
    /\ IF t.tries < MaxRetries
         THEN /\ delayed' = [delayed EXCEPT ![v] = @ \cup {[t EXCEPT !.tries = @ + 1]}]
              /\ UNCHANGED <<row, queue, calm>>
         ELSE /\ IF FailsOver(t) /\ eligible
                   THEN Failover(v, t, queue, TRUE)
                   ELSE /\ row' = IF Exists(t.account)
                                    THEN [row EXCEPT ![t.account].status = "failed"] ELSE row
                        /\ UNCHANGED <<queue, calm>>
              /\ UNCHANGED delayed
    /\ Leave(v)
    /\ UNCHANGED <<born, linkable, files, web, now, lost>>

SetupFails(v) == Move /\ \E eligible \in BOOLEAN : SetupError(v, eligible)

\* The row was deleted meanwhile: the commit matches no row.
CommitFails(v) ==
    /\ InSetup(v) /\ ~Exists(job[v].task.account)
    /\ SetupError(v, FALSE)
    /\ UNCHANGED moves

\* A PermanentSetupError after the folder was created.
SetupRefused(v) ==
    LET t == job[v].task IN
    /\ Move
    /\ InSetup(v)
    /\ IF FailsOver(t) THEN Failover(v, t, queue, TRUE) ELSE UNCHANGED <<row, queue, calm>>
    /\ Leave(v)
    /\ UNCHANGED <<born, linkable, files, delayed, web, now, lost>>

\* A trading password is detected: it is erased and the folder removed.
TradingPassword(v) ==
    LET t == job[v].task IN
    /\ Move
    /\ InSetup(v)
    /\ row' = IF Exists(t.account)
                THEN [row EXCEPT ![t.account] = [@ EXCEPT !.password = "none", !.status = "failed"]]
                ELSE row
    /\ Send(v, Cleanup(NoAccount, TRUE, FALSE, 0))
    /\ Leave(v)
    /\ calm' = FALSE
    /\ UNCHANGED <<born, linkable, files, delayed, web, now, lost>>

\* Mutation of BeginCleanup: folders that cannot be removed are left, without an error.
BeginCleanupSoft(v, t) ==
    /\ t.kind = "cleanup"
    /\ Take(v, t)
    /\ job' = [job EXCEPT ![v] = [busy |-> TRUE, task |-> t, old |-> NewRow]]
    /\ UNCHANGED <<row, born, linkable, files, web, now, calm, lost, moves>>

\* cleanup_mt5_terminal first removes the folders ...
BeginCleanup(v, t) ==
    /\ t.kind = "cleanup"
    /\ Take(v, t)
    /\ files' = [files EXCEPT ![v] = FALSE]
    /\ job' = [job EXCEPT ![v] = [busy |-> TRUE, task |-> t, old |-> NewRow]]
    /\ UNCHANGED <<row, born, linkable, web, now, calm, lost, moves>>

\* ... then updates the row, if it is given one.
FinishCleanup(v) ==
    LET t == job[v].task
        a == t.account
    IN  /\ job[v].busy /\ t.kind = "cleanup"
        /\ row' = IF a # NoAccount /\ Exists(a)
                    THEN IF t.delete THEN [row EXCEPT ![a] = Deleted]
                         ELSE IF t.clear /\ row[a].mark # 0 /\ row[a].mark = t.token
                         THEN [row EXCEPT ![a] = [@ EXCEPT !.paths = FALSE, !.active = FALSE, !.mark = 0]]
                         ELSE row
                    ELSE row
        /\ Leave(v)
        /\ UNCHANGED <<born, linkable, files, queue, delayed, web, now, calm, lost, moves>>

\* A file is locked: the task raises and is not retried.
CleanupFails(v, t) ==
    /\ Move
    /\ t.kind = "cleanup"
    /\ Take(v, t)
    /\ lost' = lost \cup {<<t.account, v>>}
    /\ UNCHANGED <<row, born, linkable, files, job, web, now, calm>>

\* The worker process dies; setup tasks are acknowledged before they run.
WorkerDies(v) ==
    /\ Move
    /\ job[v].busy
    /\ Leave(v)
    /\ lost' = IF job[v].task.kind = "cleanup" THEN lost \cup {<<job[v].task.account, v>>} ELSE lost
    /\ UNCHANGED <<row, born, linkable, files, queue, delayed, web, now, calm>>

\* A sync that succeeds on the row's VM repairs its status.
SyncReports(a) ==
    /\ Synced(a) /\ row[a].vm # NoVm /\ row[a].status # "connected"
    /\ row' = [row EXCEPT ![a].status = "connected"]
    /\ UNCHANGED <<born, linkable, files, queue, delayed, job, web, now, calm, lost, moves>>

-----------------------------------------------------------------------------
Request(w) ==
    \E a \in Accounts :
       \/ \E v \in VmIds \cup {NoVm} :
             \/ \E op \in {"link", "create"} : Insert(w, op, a, v)
             \/ ReactivateOn(w, a, v) \/ DeleteFiles(w, a, v) \/ VmFiles(w, a, v)
             \/ AdminDelete(w, a, v)
       \/ RetrySetup(w, a) \/ Archive(w, a) \/ Reactivate(w, a) \/ Unlink(w, a)
       \/ RejectRequest(w, a)

Work(v) ==
    \/ \E t \in NextTasks(v) :
          BeginSetup(v, t) \/ SkipSetup(v, t) \/ RefuseSetup(v, t) \/ BeginCleanup(v, t)
    \/ FinishSetup(v) \/ CommitFails(v) \/ FinishCleanup(v)

WorkFails(v) ==
    \/ \E t \in NextTasks(v) : CleanupFails(v, t)
    \/ SetupFails(v) \/ SetupRefused(v) \/ TradingPassword(v) \/ WorkerDies(v)

Next ==
    \/ \E w \in Sessions : Request(w) \/ Commit(w) \/ Dispatch(w) \/ DispatchFails(w)
    \/ \E a \in Accounts : DeleteRow(a) \/ SyncReports(a)
    \/ \E a \in Accounts, v \in VmIds \cup {NoVm} : AdminSetup(a, v)
    \/ DropTradeAccount
    \/ \E v \in VmIds : Work(v) \/ WorkFails(v)

Spec == Init /\ [][Next]_vars

\* Requests end and workers work; nobody has to ask for anything.
Fairness ==
    /\ \A w \in Sessions : WF_vars(Commit(w) \/ Dispatch(w))
    /\ \A v \in VmIds : WF_vars(Work(v))

FairSpec == Spec /\ Fairness

-----------------------------------------------------------------------------
(* Properties *)

\* Every variable keeps its type: rows have the columns of MT5Account, queues
\* hold setup and cleanup tasks.
TypeOK ==
    /\ row \in [Accounts -> Columns \cup {Deleted}]
    /\ born \subseteq Accounts /\ linkable \in BOOLEAN
    /\ files \in [VmIds -> BOOLEAN]
    /\ queue \in [VmIds -> Seq(Tasks)]
    /\ delayed \in [VmIds -> SUBSET SetupTasks]
    /\ job \in [VmIds -> Jobs]
    /\ web \in [Sessions -> Requests]
    /\ now \in Nat \ {0} /\ calm \in BOOLEAN /\ moves \in Nat
    /\ lost \subseteq (Accounts \cup {NoAccount}) \X VmIds

\* A row marked for cleanup belongs to no user and no trade account, whatever
\* transactions overlap: no request or task that loaded the row earlier links
\* it again.  As long as the history is calm it has no password either; a
\* retry that overlaps an unlink stores one in the tombstone.
TombstoneIsBare ==
    \A a \in Accounts : Exists(a) /\ row[a].mark # 0 =>
        ~row[a].owned /\ (calm => ~HasCredentials(row[a]))

\* The terminal that the row of a live account names is on its VM: the sync
\* worker finds it.  Holds as long as the history is calm: setups and
\* cleanups of the same folder then pass through one queue in the order of
\* the requests, and one worker executes them one at a time.
LinkedTerminalStays ==
    calm => \A a \in Accounts :
        Synced(a) /\ row[a].paths /\ row[a].vm # NoVm => files[row[a].vm]

\* No terminal folder is forgotten, whatever setups are refused, retried or run late
\* and whatever cleanups fail or are lost: while a VM has the folder, an account is
\* linked or a tombstone is still marked, so that an administrator can try again.
\* Holds as long as the history is calm; an administrator who moves an account leaves
\* the old folder behind.
NoFolderForgotten ==
    calm => \A v \in VmIds : files[v] =>
        \E a \in Accounts : Exists(a) /\ (row[a].owned \/ row[a].mark # 0)

\* A row that is linked goes in one way only: with the rejection of its request, by an
\* administrator who found it inactive and without a terminal.  No other operation
\* and no cleanup that finishes late deletes it, whatever was queued for it while it,
\* or another row of the trade account, was being unlinked, moved or set up.
Rejected(a) ==
    \E w \in Sessions :
        LET s == web[w] IN
        /\ s.op = "reject" /\ s.account = a /\ s.step = "load" /\ web'[w] = NoSession
        /\ ~s.old.active /\ ~s.old.paths
LinkedRowsGoByRejection ==
    [][\A a \in Accounts : Exists(a) /\ row[a].owned /\ row'[a] = Deleted => Rejected(a)]_vars

\* A cleanup queued for a tombstone removes its mark (or the row goes), even if
\* the row was marked again meanwhile, unless a cleanup of the row failed or was
\* lost.
CleanupQueued(a) ==
    /\ Exists(a) /\ row[a].mark # 0
    /\ \E v \in VmIds : \E i \in DOMAIN queue[v] :
          queue[v][i].kind = "cleanup" /\ queue[v][i].account = a /\ queue[v][i].clear
TombstonesAreCleared ==
    \A a \in Accounts :
        CleanupQueued(a) ~> \/ ~Exists(a) \/ row[a].mark = 0
                            \/ \E v \in VmIds : <<a, v>> \in lost

\* Retries and failovers end: when no request is made any more, the setup
\* queues run empty and the workers rest.
WorkersComeToRest ==
    <>[](\A v \in VmIds : queue[v] = <<>> /\ delayed[v] = {} /\ ~job[v].busy)

\* archive_mt5_account promises "Archive an MT5 account so sync stops".  A setup that was
\* running finishes later and activates the archived account.
ArchivedIsNotSynced == \A a \in Accounts : Exists(a) /\ row[a].archived => ~Synced(a)
=============================================================================
