------------------------- MODULE Mt5LifecycleProofs -------------------------
(* What holds of Mt5Lifecycle for any accounts, VMs, sessions and bounds.   *)
EXTENDS Mt5Lifecycle, TLAPS

-----------------------------------------------------------------------------
(* The inductive invariant *)

\* An open request is one of those offered and names a row that was born.
RequestsNameRows ==
    \A w \in Sessions : web[w] # NoSession => web[w].op # "none" /\ web[w].account \in born

RowsAreBorn == \A a \in Accounts : Exists(a) => a \in born

\* What a request means to change: either it leaves the owner and the mark
\* alone, and sets a password only if it saw no mark, or it makes a tombstone.
Intends(old, new) ==
    \/ /\ new.owned = old.owned /\ new.mark = old.mark
       /\ new.password = old.password \/ old.mark = 0
    \/ ~new.owned /\ new.password = "none"

\* What is still true of the row a request loaded.  A row that lost its owner
\* never gets one again; in a calm history nobody else wrote to it but the
\* setup worker, which neither sets a mark nor a password.
StillTrue(s) ==
    Exists(s.account) =>
        /\ ~s.old.owned => ~row[s.account].owned
        /\ calm => /\ row[s.account].mark \in {0, s.old.mark}
                   /\ s.old.password = "none" => row[s.account].password = "none"

RequestsAreSound ==
    \A w \in Sessions : web[w].op # "none" /\ web[w].step = "load" =>
        Intends(web[w].old, web[w].new) /\ StillTrue(web[w])

\* In a calm history one request is open at a time.
OneRequest ==
    calm => \A w, x \in Sessions : web[w] # NoSession /\ web[x] # NoSession => w = x

\* A cleanup that deletes the row it is given is never given one.
Safe == {t \in Tasks : t.kind = "cleanup" /\ t.delete => t.account = NoAccount}
NoTaskDeletes ==
    /\ queue \in [VmIds -> Seq(Safe)]
    /\ \A v \in VmIds : job[v].task \in Safe

LinkInv == RequestsAreSound /\ OneRequest /\ TombstoneIsBare
TypeInv == TypeOK /\ RequestsNameRows /\ RowsAreBorn /\ NoTaskDeletes

-----------------------------------------------------------------------------
(* Values of the operators *)

\* Writing changed columns into a row gives a row.
LEMMA WrittenType ==
    ASSUME NEW c \in Columns, NEW d \in Columns, NEW e \in Columns
    PROVE  Written(c, d, e) \in Columns
<1>. DEFINE r == Written(c, d, e)
<1>1. r.owned \in BOOLEAN /\ r.password \in {"none", "p", "q"} /\ r.active \in BOOLEAN
  BY DEF Written, Columns
<1>2. r.status \in Statuses /\ r.paths \in BOOLEAN /\ r.vm \in VmIds \cup {NoVm}
  BY DEF Written, Columns
<1>3. r.mark \in Nat /\ r.archived \in BOOLEAN
  BY DEF Written, Columns
<1>. QED BY <1>1, <1>2, <1>3 DEF Written, Columns

\* A tombstone is a row.
LEMMA MarkType ==
    ASSUME NEW c \in Columns, NEW n \in Nat
    PROVE  MarkForCleanup(c, n) \in Columns
BY DEF MarkForCleanup, Columns, Statuses

\* The tasks that are sent are tasks.
LEMMA TaskTypes ==
    ASSUME NEW a \in Accounts, NEW b \in Accounts \cup {NoAccount}, NEW f \in BOOLEAN, NEW g \in BOOLEAN,
           NEW n \in Nat, NEW r \in 0 .. MaxRetries
    PROVE  Setup(a, f, n, r) \in SetupTasks /\ Cleanup(b, f, g, n) \in CleanupTasks
BY DEF Setup, SetupTasks, Cleanup, CleanupTasks

\* The values that stand for "nothing" have the types of something.
LEMMA NoValues ==
    NewRow \in Columns /\ NoSession \in Requests /\ NoJob \in Jobs /\ NoJob.task \in Safe
<1>1. NewRow \in Columns
  BY DEF NewRow, Columns, Statuses
<1>2. Cleanup(NoAccount, FALSE, FALSE, 0) \in Safe
  BY DEF Cleanup, CleanupTasks, Tasks, Safe
<1>. QED BY <1>1, <1>2 DEF NoSession, Requests, NoJob, Jobs, Safe

\* A setup is always sent to a VM.
LEMMA VmTypes ==
    /\ \A v \in VmIds \cup {NoVm} : SetupTarget(v) \in VmIds
    /\ \A n \in Nat : NextVm(n) \in VmIds \cup {NoVm}
<1>1. VmOrder \in Seq(VmIds) /\ Len(VmOrder) > 0 /\ FailoverMax \in Nat
  BY LifecycleAssumption
<1>2. VmOrder[1] \in VmIds
  BY <1>1
<1>3. ASSUME NEW n \in Nat, n + 1 < Len(VmOrder) PROVE VmOrder[n + 2] \in VmIds
  BY <1>1, <1>3
<1>. QED BY <1>2, <1>3 DEF SetupTarget, NextVm

\* The kinds tell the tasks apart.
LEMMA Kinds ==
    ASSUME NEW t \in Safe
    PROVE  /\ t \in Tasks
           /\ t.kind = "setup" => t \in SetupTasks
           /\ t.kind = "cleanup" => t \in CleanupTasks
BY DEF Safe, Tasks, SetupTasks, CleanupTasks

\* Setups and cleanups that keep the row are safe, and what is safe is a task.
LEMMA SafeTasks ==
    /\ SetupTasks \subseteq Safe
    /\ \A t \in CleanupTasks : ~t.delete \/ t.account = NoAccount => t \in Safe
    /\ \A q \in [VmIds -> Seq(Safe)] : q \in [VmIds -> Seq(Tasks)]
<1>1. SetupTasks \subseteq Safe
  BY DEF SetupTasks, Safe, Tasks
<1>2. \A t \in CleanupTasks : ~t.delete \/ t.account = NoAccount => t \in Safe
  BY DEF Safe, Tasks
<1>3. Safe \subseteq Tasks
  BY DEF Safe
<1>4. \A s \in Seq(Safe) : s \in Seq(Tasks)
  BY <1>3
<1>. QED BY <1>1, <1>2, <1>4

-----------------------------------------------------------------------------
(* Type correctness *)

\* Initially there is nothing.
LEMMA InitType == Init => TypeInv
<1>. SUFFICES ASSUME Init PROVE TypeInv
  OBVIOUS
<1>1. queue \in [VmIds -> Seq(Safe)] /\ delayed \in [VmIds -> SUBSET SetupTasks]
  BY DEF Init
<1>2. job \in [VmIds -> Jobs] /\ web \in [Sessions -> Requests] /\ \A v \in VmIds : job[v].task \in Safe
  BY NoValues DEF Init
<1>3. MaxMoves \in Nat /\ row \in [Accounts -> Columns \cup {Deleted}]
  BY LifecycleAssumption DEF Init
<1>. QED BY <1>1, <1>2, <1>3, SafeTasks
         DEF Init, TypeInv, TypeOK, RequestsNameRows, RowsAreBorn, Exists, NoTaskDeletes

\* A request that opens: its new row has the columns of the table.
LEMMA OpenType ==
    ASSUME TypeInv, NEW w \in Sessions, NEW op \in UserOps \cup AdminOps, NEW a \in Accounts,
           NEW c \in Columns, NEW v \in VmIds \cup {NoVm}, Exists(a), Open(w, op, a, c, v),
           queue' \in [VmIds -> Seq(Safe)], now' \in Nat \ {0}
    PROVE  TypeInv'
<1>. DEFINE r == [op |-> op, account |-> a, old |-> row[a], new |-> c, step |-> "load", vm |-> v]
<1>1. row[a] \in Columns /\ a \in born
  BY DEF TypeInv, TypeOK, RowsAreBorn, Exists
<1>2. r \in Requests /\ op # "none"
  BY <1>1 DEF Requests, UserOps, AdminOps
<1>3. web' = [web EXCEPT ![w] = r] /\ UNCHANGED <<row, born, linkable, files, delayed, job, lost>>
  BY DEF Open
<1>4. web' \in [Sessions -> Requests]
  BY <1>2, <1>3 DEF TypeInv, TypeOK
<1>5. calm' \in BOOLEAN /\ moves' \in Nat
  BY DEF Open, StaysCalm, Move, TypeInv, TypeOK
<1>6. TypeOK' /\ NoTaskDeletes'
  BY <1>3, <1>4, <1>5, SafeTasks DEF TypeInv, TypeOK, NoTaskDeletes
<1>7. RequestsNameRows'
  BY <1>1, <1>2, <1>3 DEF TypeInv, TypeOK, RequestsNameRows
<1>8. RowsAreBorn'
  BY <1>3 DEF TypeInv, RowsAreBorn, Exists
<1>. QED BY <1>6, <1>7, <1>8 DEF TypeInv

\* A task appended to the queue of a VM.
LEMMA AppendType ==
    ASSUME NEW q \in [VmIds -> Seq(Safe)], NEW v \in VmIds, NEW t \in Safe
    PROVE  [q EXCEPT ![v] = Append(@, t)] \in [VmIds -> Seq(Safe)]
<1>1. q[v] \in Seq(Safe)
  OBVIOUS
<1>2. Append(q[v], t) \in Seq(Safe)
  BY <1>1
<1>. QED BY <1>2

\* A task that is sent.
LEMMA SendType ==
    ASSUME TypeInv, NEW v \in VmIds, NEW t \in Safe, Send(v, t)
    PROVE  queue' \in [VmIds -> Seq(Safe)]
BY AppendType DEF Send, TypeInv, NoTaskDeletes

\* What the worker, a sync or an administrator may do to rows: nothing gets an
\* owner, a mark or a new password, and only rows without an owner are deleted.
Keeps(c, d) ==
    /\ d.owned = c.owned
    /\ d.mark \in {0, c.mark}
    /\ d.password \in {"none", c.password}

Mild ==
    /\ UNCHANGED <<web, born>>
    /\ calm' \in BOOLEAN /\ (calm' => calm)
    /\ row' \in [Accounts -> Columns \cup {Deleted}]
    /\ \A a \in Accounts :
          \/ row'[a] = row[a]
          \/ row'[a] = Deleted /\ ~row[a].owned
          \/ Exists(a) /\ row'[a] \in Columns /\ Keeps(row[a], row'[a])

\* A mild step that keeps the other types keeps the type invariant.
LEMMA MildType ==
    ASSUME TypeInv, Mild, TypeOK', NoTaskDeletes'
    PROVE  TypeInv'
<1>1. RequestsNameRows'
  BY DEF TypeInv, RequestsNameRows, Mild
<1>2. RowsAreBorn'
  BY DEF TypeInv, RowsAreBorn, Mild, Exists
<1>. QED BY <1>1, <1>2 DEF TypeInv

\* A step that leaves rows and requests alone is mild.
LEMMA Unmoved == ASSUME TypeInv, UNCHANGED <<row, web, born, calm>> PROVE Mild
BY DEF Mild, TypeInv, TypeOK

\* One row is changed mildly.
LEMMA OneRow ==
    ASSUME TypeInv, NEW a \in Accounts, Exists(a), NEW d \in Columns, Keeps(row[a], d),
           row' = [row EXCEPT ![a] = d], UNCHANGED <<web, born>>, calm' \in BOOLEAN, calm' => calm
    PROVE  Mild
<1>1. row' \in [Accounts -> Columns \cup {Deleted}]
  BY DEF TypeInv, TypeOK
<1>2. \A b \in Accounts : row'[b] = IF b = a THEN d ELSE row[b]
  BY DEF TypeInv, TypeOK
<1>. QED BY <1>1, <1>2 DEF Mild

\* Taking a task yields a task.
LEMMA TakeType ==
    ASSUME TypeInv, NEW v \in VmIds, NEW t, Take(v, t)
    PROVE  /\ t \in Safe
           /\ queue' \in [VmIds -> Seq(Safe)] /\ delayed' \in [VmIds -> SUBSET SetupTasks]
<1>1. queue \in [VmIds -> Seq(Safe)] /\ delayed \in [VmIds -> SUBSET SetupTasks]
  BY DEF TypeInv, TypeOK, NoTaskDeletes
<1>2. CASE queue[v] # <<>> /\ t = Head(queue[v]) /\ queue' = [queue EXCEPT ![v] = Tail(@)]
           /\ UNCHANGED delayed
  <2>1. queue[v] \in Seq(Safe)
    BY <1>1
  <2>2. Head(queue[v]) \in Safe /\ Tail(queue[v]) \in Seq(Safe)
    BY <2>1, <1>2
  <2>. QED BY <1>1, <1>2, <2>2
<1>3. CASE t \in delayed[v] /\ delayed' = [delayed EXCEPT ![v] = @ \ {t}] /\ UNCHANGED queue
  BY <1>1, <1>3, SafeTasks
<1>. QED BY <1>2, <1>3 DEF Take

\* A failover sends tasks and changes its row mildly.
LEMMA FailoverType ==
    ASSUME TypeInv, NEW v \in VmIds, NEW t \in SetupTasks, NEW q \in [VmIds -> Seq(Safe)],
           NEW made \in BOOLEAN, Failover(v, t, q, made), UNCHANGED <<web, born>>
    PROVE  queue' \in [VmIds -> Seq(Safe)] /\ Mild
<1>1. t.account \in Accounts /\ t.attempt \in Nat
  BY DEF SetupTasks
<1>2. Cleanup(NoAccount, TRUE, FALSE, 0) \in Safe /\ Setup(t.account, TRUE, t.attempt + 1, 0) \in Safe
  <2>1. MaxRetries \in Nat
    BY LifecycleAssumption
  <2>2. 0 \in 0 .. MaxRetries /\ t.attempt + 1 \in Nat
    BY <2>1, <1>1
  <2>. QED BY <1>1, <2>2, TaskTypes, SafeTasks DEF Cleanup
<1>. DEFINE next == NextVm(t.attempt)
            cleaned == IF made THEN [q EXCEPT ![v] = Append(@, Cleanup(NoAccount, TRUE, FALSE, 0))] ELSE q
<1>3. next \in VmIds
  BY <1>1, VmTypes DEF Failover
<1>5. cleaned \in [VmIds -> Seq(Safe)]
  BY <1>2, AppendType
<1>7. queue' = [cleaned EXCEPT ![next] = Append(@, Setup(t.account, TRUE, t.attempt + 1, 0))]
  BY DEF Failover
<1>8. queue' \in [VmIds -> Seq(Safe)]
  BY <1>2, <1>3, <1>5, <1>7, AppendType
<1>9. calm' \in BOOLEAN /\ (calm' => calm)
  BY DEF Failover, TypeInv, TypeOK
<1>10. CASE Exists(t.account)
  <2>. DEFINE d == [row[t.account] EXCEPT !.paths = FALSE, !.vm = NoVm]
  <2>1. row[t.account] \in Columns
    BY <1>1, <1>10 DEF TypeInv, TypeOK, Exists
  <2>2. d \in Columns /\ Keeps(row[t.account], d)
    BY <2>1 DEF Columns, Keeps
  <2>3. row' = [row EXCEPT ![t.account] = d]
    BY <1>10 DEF Failover
  <2>4. Mild
    BY <1>1, <1>9, <1>10, <2>2, <2>3, OneRow
  <2>. QED BY <1>8, <2>4
<1>11. CASE ~Exists(t.account)
  <2>1. row' = row
    BY <1>11 DEF Failover
  <2>. QED BY <1>8, <1>9, <2>1 DEF Mild, TypeInv, TypeOK
<1>. QED BY <1>10, <1>11

\* The tasks of the setup worker.
LEMMA JobTypes ==
    ASSUME TypeInv, NEW v \in VmIds
    PROVE  /\ job[v] \in Jobs /\ job[v].task \in Safe /\ job[v].old \in Columns
           /\ job[v].task.kind = "setup" => job[v].task \in SetupTasks
           /\ Leave(v) => job' \in [VmIds -> Jobs] /\ \A x \in VmIds : job'[x].task \in Safe
BY NoValues, Kinds DEF TypeInv, TypeOK, NoTaskDeletes, Jobs, Leave

\* Beginning or skipping a setup changes no row.
LEMMA BeginSetupType ==
    ASSUME TypeInv, NEW v \in VmIds, NEW t, BeginSetup(v, t) \/ SkipSetup(v, t)
    PROVE  TypeOK' /\ NoTaskDeletes' /\ Mild
<1>1. t \in Safe /\ queue' \in [VmIds -> Seq(Safe)] /\ delayed' \in [VmIds -> SUBSET SetupTasks]
  BY TakeType DEF BeginSetup, SkipSetup
<1>2. t \in SetupTasks /\ t.account \in Accounts
  BY <1>1, Kinds DEF BeginSetup, SkipSetup, SetupTasks
<1>3. CASE BeginSetup(v, t)
  <2>1. row[t.account] \in Columns
    BY <1>2, <1>3 DEF BeginSetup, Exists, TypeInv, TypeOK, NoTaskDeletes
  <2>2. [busy |-> TRUE, task |-> t, old |-> row[t.account]] \in Jobs
    BY <1>1, <2>1, Kinds DEF Jobs
  <2>3. job' \in [VmIds -> Jobs] /\ files' \in [VmIds -> BOOLEAN]
    BY <1>3, <2>2 DEF BeginSetup, TypeInv, TypeOK, NoTaskDeletes
  <2>. QED BY <1>1, <1>3, <2>2, <2>3, Unmoved, SafeTasks DEF BeginSetup, TypeInv, TypeOK, NoTaskDeletes
<1>4. CASE SkipSetup(v, t)
  BY <1>1, <1>4, Unmoved, SafeTasks DEF SkipSetup, TypeInv, TypeOK, NoTaskDeletes
<1>. QED BY <1>3, <1>4

\* A refused setup may fail over.
LEMMA RefuseSetupType ==
    ASSUME TypeInv, NEW v \in VmIds, NEW t \in Safe, RefuseSetup(v, t)
    PROVE  TypeOK' /\ NoTaskDeletes' /\ Mild
<1>. DEFINE queued == queue[v] # <<>> /\ t = Head(queue[v])
            q == IF queued THEN [queue EXCEPT ![v] = Tail(@)] ELSE queue
<1>1. queue \in [VmIds -> Seq(Safe)] /\ delayed \in [VmIds -> SUBSET SetupTasks]
  BY DEF TypeInv, TypeOK, NoTaskDeletes
<1>2. t \in SetupTasks
  BY Kinds DEF RefuseSetup
<1>3. queued => Tail(queue[v]) \in Seq(Safe)
  <2>1. queue[v] \in Seq(Safe)
    BY <1>1
  <2>. QED BY <2>1
<1>4. q \in [VmIds -> Seq(Safe)]
  BY <1>1, <1>3
<1>5. delayed' \in [VmIds -> SUBSET SetupTasks]
  <2>1. delayed' = IF queued THEN delayed ELSE [delayed EXCEPT ![v] = @ \ {t}]
    BY DEF RefuseSetup
  <2>. QED BY <1>1, <2>1
<1>6. UNCHANGED <<born, linkable, files, job, web, now, lost, moves>>
  BY DEF RefuseSetup
<1>7. queue' \in [VmIds -> Seq(Safe)] /\ Mild
  <2>1. CASE FailsOver(t)
    <3>1. Failover(v, t, q, FALSE)
      BY <2>1 DEF RefuseSetup
    <3>. QED BY <1>2, <1>4, <1>6, <3>1, FailoverType
  <2>2. CASE ~FailsOver(t)
    <3>1. queue' = q /\ UNCHANGED <<row, calm>>
      BY <2>2 DEF RefuseSetup
    <3>. QED BY <1>4, <1>6, <3>1, Unmoved
  <2>. QED BY <2>1, <2>2
<1>8. calm' \in BOOLEAN /\ row' \in [Accounts -> Columns \cup {Deleted}]
  BY <1>7 DEF Mild
<1>. QED BY <1>5, <1>6, <1>7, <1>8, SafeTasks DEF TypeInv, TypeOK, NoTaskDeletes

\* A setup that finishes writes paths, VM and status.
LEMMA FinishSetupType ==
    ASSUME TypeInv, NEW v \in VmIds, FinishSetup(v)
    PROVE  TypeOK' /\ NoTaskDeletes' /\ Mild
<1>. DEFINE a == job[v].task.account
            old == job[v].old
            new == [old EXCEPT !.paths = TRUE, !.active = TRUE, !.status = "connected", !.vm = v]
            d == Written(row[a], old, new)
<1>1. /\ a \in Accounts /\ old \in Columns
      /\ job' \in [VmIds -> Jobs] /\ \A x \in VmIds : job'[x].task \in Safe
  BY JobTypes, Kinds DEF FinishSetup, InSetup, SetupTasks
<1>2. row[a] \in Columns /\ Exists(a)
  BY <1>1 DEF FinishSetup, Exists, TypeInv, TypeOK, NoTaskDeletes
<1>3. new \in Columns /\ new.owned = old.owned /\ new.mark = old.mark /\ new.password = old.password
  BY <1>1 DEF Columns, Statuses
<1>4. d \in Columns
  BY <1>1, <1>2, <1>3, WrittenType
<1>5. Keeps(row[a], d)
  BY <1>3 DEF Written, Keeps
<1>6. row' = [row EXCEPT ![a] = d]
  BY DEF FinishSetup
<1>7. UNCHANGED <<born, linkable, files, queue, delayed, web, now, calm, lost, moves>>
  BY DEF FinishSetup
<1>8. Mild
  BY <1>1, <1>2, <1>4, <1>5, <1>6, <1>7, OneRow DEF TypeInv, TypeOK, NoTaskDeletes
<1>. QED BY <1>1, <1>7, <1>8, SafeTasks DEF Mild, TypeInv, TypeOK, NoTaskDeletes

\* The status of a row may change.
LEMMA StatusType ==
    ASSUME TypeInv, NEW a \in Accounts, NEW s \in Statuses, UNCHANGED <<web, born, calm>>,
           row' = IF Exists(a) THEN [row EXCEPT ![a].status = s] ELSE row
    PROVE  Mild
<1>1. CASE Exists(a)
  <2>. DEFINE d == [row[a] EXCEPT !.status = s]
  <2>1. row[a] \in Columns
    BY <1>1 DEF TypeInv, TypeOK, Exists
  <2>2. d \in Columns /\ Keeps(row[a], d)
    BY <2>1 DEF Columns, Keeps
  <2>3. row' = [row EXCEPT ![a] = d]
    BY <1>1
  <2>4. calm' \in BOOLEAN /\ (calm' => calm)
    BY DEF TypeInv, TypeOK
  <2>. QED BY <1>1, <2>2, <2>3, <2>4, OneRow
<1>2. CASE ~Exists(a)
  BY <1>2, Unmoved
<1>. QED BY <1>1, <1>2

\* An error of a setup delays it, fails it over or marks it failed.
LEMMA SetupErrorType ==
    ASSUME TypeInv, NEW v \in VmIds, NEW eligible \in BOOLEAN, SetupError(v, eligible), moves' \in Nat
    PROVE  TypeOK' /\ NoTaskDeletes' /\ Mild
<1>. DEFINE t == job[v].task
<1>1. t \in SetupTasks /\ t.account \in Accounts /\ t.tries \in 0 .. MaxRetries
  BY JobTypes DEF SetupError, InSetup, SetupTasks
<1>2. job' \in [VmIds -> Jobs] /\ \A x \in VmIds : job'[x].task \in Safe
  BY JobTypes DEF SetupError
<1>3. UNCHANGED <<born, linkable, files, web, now, lost>>
  BY DEF SetupError
<1>4. queue \in [VmIds -> Seq(Safe)] /\ delayed \in [VmIds -> SUBSET SetupTasks]
  BY DEF TypeInv, TypeOK, NoTaskDeletes
<1>5. /\ queue' \in [VmIds -> Seq(Safe)] /\ delayed' \in [VmIds -> SUBSET SetupTasks]
      /\ Mild
  <2>1. CASE t.tries < MaxRetries
    <3>. DEFINE u == [t EXCEPT !.tries = @ + 1]
    <3>1. delayed' = [delayed EXCEPT ![v] = @ \cup {u}] /\ UNCHANGED <<row, queue, calm>>
      BY <2>1 DEF SetupError
    <3>2. t.tries + 1 \in 0 .. MaxRetries
      BY <1>1, <2>1, LifecycleAssumption
    <3>3. u \in SetupTasks
      BY <1>1, <3>2 DEF SetupTasks
    <3>4. delayed' \in [VmIds -> SUBSET SetupTasks]
      BY <1>4, <3>1, <3>3
    <3>. QED BY <1>3, <1>4, <3>1, <3>4, Unmoved
  <2>2. CASE ~(t.tries < MaxRetries) /\ FailsOver(t) /\ eligible
    <3>1. Failover(v, t, queue, TRUE) /\ UNCHANGED delayed
      BY <2>2 DEF SetupError
    <3>. QED BY <1>1, <1>3, <1>4, <3>1, FailoverType
  <2>3. CASE ~(t.tries < MaxRetries) /\ ~(FailsOver(t) /\ eligible)
    <3>1. /\ row' = IF Exists(t.account) THEN [row EXCEPT ![t.account].status = "failed"] ELSE row
          /\ UNCHANGED <<queue, calm, delayed>>
      BY <2>3 DEF SetupError
    <3>2. "failed" \in Statuses
      BY DEF Statuses
    <3>. QED BY <1>1, <1>3, <1>4, <3>1, <3>2, StatusType
  <2>. QED BY <2>1, <2>2, <2>3
<1>6. calm' \in BOOLEAN /\ row' \in [Accounts -> Columns \cup {Deleted}]
  BY <1>5 DEF Mild
<1>. QED BY <1>2, <1>3, <1>5, <1>6, SafeTasks DEF TypeInv, TypeOK, NoTaskDeletes

\* A permanent error may fail the setup over.
LEMMA SetupRefusedType ==
    ASSUME TypeInv, NEW v \in VmIds, SetupRefused(v)
    PROVE  TypeOK' /\ NoTaskDeletes' /\ Mild
<1>. DEFINE t == job[v].task
<1>1. t \in SetupTasks
  BY JobTypes DEF SetupRefused, InSetup
<1>2. job' \in [VmIds -> Jobs] /\ \A x \in VmIds : job'[x].task \in Safe
  BY JobTypes DEF SetupRefused
<1>3. UNCHANGED <<born, linkable, files, delayed, web, now, lost>>
  BY DEF SetupRefused
<1>4. queue \in [VmIds -> Seq(Safe)]
  BY DEF TypeInv, NoTaskDeletes
<1>5. queue' \in [VmIds -> Seq(Safe)] /\ Mild
  <2>1. CASE FailsOver(t)
    <3>1. Failover(v, t, queue, TRUE)
      BY <2>1 DEF SetupRefused
    <3>. QED BY <1>1, <1>3, <1>4, <3>1, FailoverType
  <2>2. CASE ~FailsOver(t)
    <3>1. UNCHANGED <<row, queue, calm>>
      BY <2>2 DEF SetupRefused
    <3>. QED BY <1>3, <1>4, <3>1, Unmoved
  <2>. QED BY <2>1, <2>2
<1>6. calm' \in BOOLEAN /\ row' \in [Accounts -> Columns \cup {Deleted}]
  BY <1>5 DEF Mild
<1>7. moves' \in Nat
  BY DEF SetupRefused, Move, TypeInv, TypeOK
<1>. QED BY <1>2, <1>3, <1>5, <1>6, <1>7, SafeTasks DEF TypeInv, TypeOK, NoTaskDeletes

\* A detected trading password is erased.
LEMMA TradingPasswordType ==
    ASSUME TypeInv, NEW v \in VmIds, TradingPassword(v)
    PROVE  TypeOK' /\ NoTaskDeletes' /\ Mild
<1>. DEFINE a == job[v].task.account
            d == [row[a] EXCEPT !.password = "none", !.status = "failed"]
<1>1. a \in Accounts
  BY JobTypes DEF TradingPassword, InSetup, SetupTasks
<1>2. job' \in [VmIds -> Jobs] /\ \A x \in VmIds : job'[x].task \in Safe
  BY JobTypes DEF TradingPassword
<1>3. UNCHANGED <<born, linkable, files, delayed, web, now, lost>> /\ calm' = FALSE
  BY DEF TradingPassword
<1>4. queue' \in [VmIds -> Seq(Safe)]
  <2>1. Cleanup(NoAccount, TRUE, FALSE, 0) \in Safe
    BY DEF Cleanup, CleanupTasks, Safe, Tasks
  <2>. QED BY <2>1, SendType DEF TradingPassword
<1>5. row' = IF Exists(a) THEN [row EXCEPT ![a] = d] ELSE row
  BY DEF TradingPassword
<1>6. Mild
  <2>1. CASE Exists(a)
    <3>1. row[a] \in Columns
      BY <1>1, <2>1 DEF TypeInv, TypeOK, Exists
    <3>2. d \in Columns /\ Keeps(row[a], d)
      BY <3>1 DEF Columns, Keeps, Statuses
    <3>. QED BY <1>1, <1>3, <1>5, <2>1, <3>2, OneRow
  <2>2. CASE ~Exists(a)
    BY <1>3, <1>5, <2>2 DEF Mild, TypeInv, TypeOK
  <2>. QED BY <2>1, <2>2
<1>7. moves' \in Nat
  BY DEF TradingPassword, Move, TypeInv, TypeOK
<1>. QED BY <1>2, <1>3, <1>4, <1>6, <1>7, SafeTasks DEF Mild, TypeInv, TypeOK, NoTaskDeletes

\* A cleanup that begins or fails changes no row.
LEMMA BeginCleanupType ==
    ASSUME TypeInv, NEW v \in VmIds, NEW t, BeginCleanup(v, t) \/ CleanupFails(v, t)
    PROVE  TypeOK' /\ NoTaskDeletes' /\ Mild
<1>1. t \in Safe /\ queue' \in [VmIds -> Seq(Safe)] /\ delayed' \in [VmIds -> SUBSET SetupTasks]
  BY TakeType DEF BeginCleanup, CleanupFails
<1>2. UNCHANGED <<row, born, linkable, web, now, calm>>
  BY DEF BeginCleanup, CleanupFails
<1>3. CASE BeginCleanup(v, t)
  <2>1. [busy |-> TRUE, task |-> t, old |-> NewRow] \in Jobs
    BY <1>1, Kinds, NoValues DEF Jobs
  <2>2. job' \in [VmIds -> Jobs] /\ \A x \in VmIds : job'[x].task \in Safe
    BY <1>1, <1>3, <2>1 DEF BeginCleanup, TypeInv, TypeOK, NoTaskDeletes
  <2>3. files' \in [VmIds -> BOOLEAN] /\ UNCHANGED <<lost, moves>>
    BY <1>3 DEF BeginCleanup, TypeInv, TypeOK
  <2>. QED BY <1>1, <1>2, <2>2, <2>3, Unmoved, SafeTasks DEF TypeInv, TypeOK, NoTaskDeletes
<1>4. CASE CleanupFails(v, t)
  <2>1. t.account \in Accounts \cup {NoAccount}
    BY <1>1, <1>4, Kinds DEF CleanupFails, CleanupTasks
  <2>2. lost' = lost \cup {<<t.account, v>>} /\ UNCHANGED <<files, job>> /\ moves' \in Nat
    BY <1>4 DEF CleanupFails, Move, TypeInv, TypeOK
  <2>3. lost' \subseteq (Accounts \cup {NoAccount}) \X VmIds
    BY <2>1, <2>2 DEF TypeInv, TypeOK
  <2>. QED BY <1>1, <1>2, <2>2, <2>3, Unmoved, SafeTasks DEF TypeInv, TypeOK, NoTaskDeletes
<1>. QED BY <1>3, <1>4

\* A cleanup that finishes deletes nothing and may clear a mark.
LEMMA FinishCleanupType ==
    ASSUME TypeInv, NEW v \in VmIds, FinishCleanup(v)
    PROVE  TypeOK' /\ NoTaskDeletes' /\ Mild
<1>. DEFINE t == job[v].task
            a == t.account
            d == [row[a] EXCEPT !.paths = FALSE, !.active = FALSE, !.mark = 0]
<1>1. t \in CleanupTasks /\ t \in Safe
  BY JobTypes, Kinds DEF FinishCleanup
<1>2. a \in Accounts \cup {NoAccount} /\ (t.delete => a = NoAccount)
  BY <1>1 DEF CleanupTasks, Safe
<1>3. job' \in [VmIds -> Jobs] /\ \A x \in VmIds : job'[x].task \in Safe
  BY JobTypes DEF FinishCleanup
<1>4. UNCHANGED <<born, linkable, files, queue, delayed, web, now, calm, lost, moves>>
  BY DEF FinishCleanup
<1>5. Mild
  <2>1. CASE a # NoAccount /\ Exists(a) /\ t.clear /\ row[a].mark # 0 /\ row[a].mark = t.token
    <3>1. a \in Accounts /\ ~t.delete
      BY <1>1, <1>2, <2>1 DEF CleanupTasks
    <3>2. row[a] \in Columns
      BY <2>1, <3>1 DEF TypeInv, TypeOK, Exists
    <3>3. d \in Columns /\ Keeps(row[a], d)
      BY <3>2 DEF Columns, Keeps
    <3>4. row' = [row EXCEPT ![a] = d]
      BY <2>1, <3>1 DEF FinishCleanup
    <3>5. calm' \in BOOLEAN /\ (calm' => calm)
      BY <1>4 DEF TypeInv, TypeOK
    <3>. QED BY <1>4, <2>1, <3>1, <3>3, <3>4, <3>5, OneRow
  <2>2. CASE ~(a # NoAccount /\ Exists(a) /\ t.clear /\ row[a].mark # 0 /\ row[a].mark = t.token)
    <3>1. row' = row
      BY <1>2, <2>2 DEF FinishCleanup
    <3>. QED BY <1>4, <3>1, Unmoved
  <2>. QED BY <2>1, <2>2
<1>. QED BY <1>3, <1>4, <1>5, SafeTasks DEF Mild, TypeInv, TypeOK, NoTaskDeletes

\* A worker that dies loses its task.
LEMMA WorkerDiesType ==
    ASSUME TypeInv, NEW v \in VmIds, WorkerDies(v)
    PROVE  TypeOK' /\ NoTaskDeletes' /\ Mild
<1>1. job' \in [VmIds -> Jobs] /\ \A x \in VmIds : job'[x].task \in Safe
  BY JobTypes DEF WorkerDies
<1>2. UNCHANGED <<row, born, linkable, files, queue, delayed, web, now, calm>>
  BY DEF WorkerDies
<1>3. lost' \subseteq (Accounts \cup {NoAccount}) \X VmIds
  <2>1. job[v].task.kind = "cleanup" => job[v].task.account \in Accounts \cup {NoAccount}
    BY JobTypes, Kinds DEF CleanupTasks
  <2>2. lost' = IF job[v].task.kind = "cleanup" THEN lost \cup {<<job[v].task.account, v>>} ELSE lost
    BY DEF WorkerDies
  <2>. QED BY <2>1, <2>2 DEF TypeInv, TypeOK
<1>4. moves' \in Nat
  BY DEF WorkerDies, Move, TypeInv, TypeOK
<1>. QED BY <1>1, <1>2, <1>3, <1>4, Unmoved, SafeTasks DEF TypeInv, TypeOK, NoTaskDeletes

\* A sync repairs a status.
LEMMA SyncReportsType ==
    ASSUME TypeInv, NEW a \in Accounts, SyncReports(a)
    PROVE  TypeOK' /\ NoTaskDeletes' /\ Mild
<1>1. Exists(a) /\ row' = [row EXCEPT ![a].status = "connected"]
  BY DEF SyncReports, Synced
<1>2. UNCHANGED <<born, linkable, files, queue, delayed, job, web, now, calm, lost, moves>>
  BY DEF SyncReports
<1>3. "connected" \in Statuses
  BY DEF Statuses
<1>4. Mild
  BY <1>1, <1>2, <1>3, StatusType
<1>. QED BY <1>2, <1>4, SafeTasks DEF Mild, TypeInv, TypeOK, NoTaskDeletes

\* An administrator's setup touches no row ...
LEMMA AdminSetupType ==
    ASSUME TypeInv, NEW a \in Accounts, NEW v \in VmIds \cup {NoVm}, AdminSetup(a, v)
    PROVE  TypeOK' /\ NoTaskDeletes' /\ Mild
<1>1. 0 \in 0 .. MaxRetries
  BY LifecycleAssumption
<1>2. Setup(a, FALSE, 0, 0) \in Safe /\ SetupTarget(v) \in VmIds
  BY <1>1, TaskTypes, SafeTasks, VmTypes
<1>3. queue' \in [VmIds -> Seq(Safe)]
  BY <1>2, SendType DEF AdminSetup
<1>4. UNCHANGED <<row, born, linkable, files, delayed, job, web, now, lost>> /\ calm' = FALSE
  BY DEF AdminSetup
<1>5. moves' \in Nat
  BY DEF AdminSetup, Move, TypeInv, TypeOK
<1>. QED BY <1>3, <1>4, <1>5, SafeTasks DEF Mild, TypeInv, TypeOK, NoTaskDeletes

\* ... and what is deleted at once is a tombstone.
LEMMA DeleteRowType ==
    ASSUME TypeInv, NEW a \in Accounts, DeleteRow(a)
    PROVE  TypeOK' /\ NoTaskDeletes' /\ Mild
<1>1. ~row[a].owned /\ row' = [row EXCEPT ![a] = Deleted]
  BY DEF DeleteRow, CleanupOnly, Orphaned
<1>2. UNCHANGED <<born, linkable, files, queue, delayed, job, web, now, lost>> /\ calm' = FALSE
  BY DEF DeleteRow
<1>3. moves' \in Nat
  BY DEF DeleteRow, Move, TypeInv, TypeOK
<1>4. row' \in [Accounts -> Columns \cup {Deleted}]
  BY <1>1 DEF TypeInv, TypeOK
<1>5. Mild
  BY <1>1, <1>2, <1>4 DEF Mild, TypeInv, TypeOK
<1>. QED BY <1>2, <1>3, <1>4, <1>5, SafeTasks DEF TypeInv, TypeOK, NoTaskDeletes

\* What a worker takes from its queue or its delayed tasks is a task.
LEMMA NextTasksType ==
    ASSUME TypeInv, NEW v \in VmIds, NEW t \in NextTasks(v)
    PROVE  t \in Safe
<1>1. CASE t \in delayed[v]
  BY <1>1, SafeTasks DEF TypeInv, TypeOK
<1>2. CASE queue[v] # <<>> /\ t = Head(queue[v])
  <2>1. queue[v] \in Seq(Safe)
    BY DEF TypeInv, NoTaskDeletes
  <2>. QED BY <1>2, <2>1
<1>. QED BY <1>1, <1>2 DEF NextTasks

\* Every step that is not a request's is mild.
LEMMA MildSteps ==
    ASSUME TypeInv,
           \/ \E v \in VmIds : Work(v) \/ WorkFails(v)
           \/ \E a \in Accounts : DeleteRow(a) \/ SyncReports(a)
           \/ \E a \in Accounts, v \in VmIds \cup {NoVm} : AdminSetup(a, v)
    PROVE  TypeOK' /\ NoTaskDeletes' /\ Mild
<1>1. CASE \E v \in VmIds : Work(v)
  <2>1. PICK v \in VmIds : Work(v)
    BY <1>1
  <2>2. CASE \E t \in NextTasks(v) :
               BeginSetup(v, t) \/ SkipSetup(v, t) \/ RefuseSetup(v, t) \/ BeginCleanup(v, t)
    BY <2>2, BeginSetupType, RefuseSetupType, BeginCleanupType, NextTasksType
  <2>3. CASE CommitFails(v)
    <3>1. SetupError(v, FALSE) /\ moves' \in Nat
      BY <2>3 DEF CommitFails, TypeInv, TypeOK
    <3>. QED BY <3>1, SetupErrorType
  <2>4. CASE FinishSetup(v) \/ FinishCleanup(v)
    BY <2>4, FinishSetupType, FinishCleanupType
  <2>. QED BY <2>1, <2>2, <2>3, <2>4 DEF Work
<1>2. CASE \E v \in VmIds : WorkFails(v)
  <2>1. PICK v \in VmIds : WorkFails(v)
    BY <1>2
  <2>2. CASE SetupFails(v)
    <3>1. \E eligible \in BOOLEAN : SetupError(v, eligible) /\ moves' \in Nat
      BY <2>2 DEF SetupFails, Move, TypeInv, TypeOK
    <3>. QED BY <3>1, SetupErrorType
  <2>. QED BY <2>1, <2>2, BeginCleanupType, SetupRefusedType, TradingPasswordType, WorkerDiesType
           DEF WorkFails
<1>. QED BY <1>1, <1>2, DeleteRowType, SyncReportsType, AdminSetupType

-----------------------------------------------------------------------------
(* Requests *)

\* Every request that opens means something sound, and what it sends is a task.
LEMMA Opening ==
    ASSUME TypeInv, NEW w \in Sessions, NEW a \in Accounts, NEW v \in VmIds \cup {NoVm},
           \/ ReactivateOn(w, a, v) \/ DeleteFiles(w, a, v) \/ VmFiles(w, a, v) \/ AdminDelete(w, a, v)
           \/ RetrySetup(w, a) \/ Archive(w, a) \/ Reactivate(w, a) \/ Unlink(w, a) \/ RejectRequest(w, a)
    PROVE  \E op \in UserOps \cup AdminOps, c \in Columns, x \in VmIds \cup {NoVm} :
              /\ Exists(a) /\ Open(w, op, a, c, x) /\ Intends(row[a], c)
              /\ op = "reject" => ~row[a].active /\ ~row[a].paths
              /\ queue' \in [VmIds -> Seq(Safe)] /\ now' \in Nat \ {0}
<1>. DEFINE Goal(op, c, x) ==
              /\ Exists(a) /\ Open(w, op, a, c, x) /\ Intends(row[a], c)
              /\ op = "reject" => ~row[a].active /\ ~row[a].paths
              /\ queue' \in [VmIds -> Seq(Safe)] /\ now' \in Nat \ {0}
<1>1. Exists(a) /\ row[a] \in Columns
  BY DEF ReactivateOn, DeleteFiles, VmFiles, AdminDelete, RetrySetup, Archive, Reactivate, Unlink,
         RejectRequest, Exists, TypeInv, TypeOK
<1>2. queue \in [VmIds -> Seq(Safe)] /\ now \in Nat \ {0} /\ now + 1 \in Nat \ {0} /\ NoVm \in VmIds \cup {NoVm}
  BY DEF TypeInv, TypeOK, NoTaskDeletes
<1>3. 0 \in 0 .. MaxRetries
  BY LifecycleAssumption
<1>4. Setup(a, TRUE, 0, 0) \in Safe /\ Setup(a, FALSE, 0, 0) \in Safe /\ Cleanup(a, FALSE, FALSE, 0) \in Safe
  BY <1>3, TaskTypes, SafeTasks DEF Cleanup
<1>5. CASE RetrySetup(w, a)
  <2>. DEFINE c == [row[a] EXCEPT !.password = IF @ = "p" THEN "q" ELSE "p", !.status = "pending",
                                  !.paths = FALSE, !.active = FALSE]
  <2>1. c \in Columns /\ Intends(row[a], c)
    BY <1>1, <1>5 DEF RetrySetup, Columns, Statuses, Intends
  <2>2. Goal("retry", c, NoVm)
    BY <1>1, <1>2, <1>5, <2>1 DEF RetrySetup
  <2>. QED BY <1>2, <2>1, <2>2 DEF UserOps
<1>6. CASE Archive(w, a)
  <2>. DEFINE c == [row[a] EXCEPT !.active = FALSE, !.archived = TRUE]
  <2>1. c \in Columns /\ Intends(row[a], c)
    BY <1>1 DEF Columns, Intends
  <2>2. Goal("archive", c, NoVm)
    BY <1>1, <1>2, <1>6, <2>1 DEF Archive
  <2>. QED BY <1>2, <2>1, <2>2 DEF AdminOps
<1>7. CASE Reactivate(w, a)
  <2>. DEFINE c == [row[a] EXCEPT !.archived = FALSE]
  <2>1. c \in Columns /\ Intends(row[a], c)
    BY <1>1 DEF Columns, Intends
  <2>2. SetupTarget(row[a].vm) \in VmIds
    BY <1>1, VmTypes DEF Columns
  <2>3. queue' \in [VmIds -> Seq(Safe)]
    BY <1>4, <1>7, <2>2, SendType DEF Reactivate
  <2>4. Goal("reactivate", c, NoVm)
    BY <1>1, <1>2, <1>7, <2>1, <2>3 DEF Reactivate
  <2>. QED BY <1>2, <2>1, <2>4 DEF UserOps
<1>8. CASE ReactivateOn(w, a, v)
  <2>. DEFINE c == [row[a] EXCEPT !.archived = FALSE, !.vm = v]
  <2>1. c \in Columns /\ Intends(row[a], c)
    BY <1>1 DEF Columns, Intends
  <2>2. queue' \in [VmIds -> Seq(Safe)]
    BY <1>4, <1>8, SendType DEF ReactivateOn
  <2>3. Goal("reactivateOn", c, v)
    BY <1>1, <1>2, <1>8, <2>1, <2>2 DEF ReactivateOn
  <2>. QED BY <2>1, <2>3 DEF AdminOps
<1>9. CASE DeleteFiles(w, a, v) \/ VmFiles(w, a, v)
  <2>. DEFINE c == [row[a] EXCEPT !.paths = FALSE, !.active = FALSE]
  <2>1. c \in Columns /\ Intends(row[a], c)
    BY <1>1 DEF Columns, Intends
  <2>2. queue' \in [VmIds -> Seq(Safe)]
    BY <1>4, <1>9, SendType DEF DeleteFiles, VmFiles
  <2>3. Goal("deleteFiles", c, v) \/ Goal("vmFiles", c, v)
    BY <1>1, <1>2, <1>9, <2>1, <2>2 DEF DeleteFiles, VmFiles
  <2>. QED BY <2>1, <2>3 DEF AdminOps
<1>10. ASSUME NEW b \in Columns, NEW n \in Nat
       PROVE  MarkForCleanup(b, n) \in Columns /\ Intends(row[a], MarkForCleanup(b, n))
  BY MarkType DEF MarkForCleanup, Intends, Columns
<1>11. NewMark(row[a]) \in Nat
  BY <1>1, <1>2 DEF NewMark, Columns
<1>12. CASE Unlink(w, a)
  <2>1. Goal("unlink", MarkForCleanup(row[a], NewMark(row[a])), NoVm)
    BY <1>1, <1>2, <1>10, <1>11, <1>12 DEF Unlink, Tick
  <2>. QED BY <1>1, <1>2, <1>10, <1>11, <2>1 DEF UserOps
<1>13. CASE AdminDelete(w, a, v)
  <2>. DEFINE d == [row[a] EXCEPT !.vm = v, !.mark = now]
              b == [row[a] EXCEPT !.vm = IF row[a].paths THEN v ELSE @]
              c == IF CleanupOnly(row[a]) THEN IF row[a].mark = 0 \/ row[a].vm # v THEN d ELSE row[a]
                   ELSE MarkForCleanup(b, NewMark(row[a]))
  <2>1. c \in Columns /\ Intends(row[a], c)
    <3>1. CASE ~CleanupOnly(row[a])
      <4>1. b \in Columns
        BY <1>1 DEF Columns
      <4>. QED BY <3>1, <4>1, <1>10, <1>11
    <3>2. CASE CleanupOnly(row[a])
      <4>1. ~row[a].owned /\ row[a].password = "none"
        BY <3>2 DEF CleanupOnly, Orphaned, HasCredentials
      <4>2. d \in Columns /\ ~d.owned /\ d.password = "none"
        BY <1>1, <1>2, <4>1 DEF Columns
      <4>. QED BY <1>1, <3>2, <4>1, <4>2 DEF Intends
    <3>. QED BY <3>1, <3>2
  <2>2. Goal("delete", c, v)
    BY <1>1, <1>2, <1>13, <2>1 DEF AdminDelete, Tick
  <2>. QED BY <2>1, <2>2 DEF AdminOps
<1>14. CASE RejectRequest(w, a)
  <2>1. Goal("reject", row[a], NoVm)
    BY <1>1, <1>2, <1>14 DEF RejectRequest, Intends
  <2>. QED BY <1>1, <2>1 DEF AdminOps
<1>. QED BY <1>5, <1>6, <1>7, <1>8, <1>9, <1>12, <1>13, <1>14

\* A row that is inserted is new, and its request remembers it.
LEMMA InsertType ==
    ASSUME TypeInv, NEW w \in Sessions, NEW op \in {"link", "create"}, NEW a \in Accounts,
           NEW v \in VmIds \cup {NoVm}, Insert(w, op, a, v)
    PROVE  TypeInv'
<1>. DEFINE r == [op |-> op, account |-> a, old |-> NewRow, new |-> NewRow, step |-> "saved", vm |-> v]
<1>1. r \in Requests /\ r.op # "none" /\ NewRow \in Columns
  BY NoValues DEF Requests, UserOps, AdminOps
<1>2. /\ row' = [row EXCEPT ![a] = NewRow] /\ born' = born \cup {a} /\ web' = [web EXCEPT ![w] = r]
      /\ UNCHANGED <<linkable, files, queue, delayed, job, now, lost>>
  BY DEF Insert
<1>3. calm' \in BOOLEAN /\ moves' \in Nat
  BY DEF Insert, StaysCalm, Move, TypeInv, TypeOK
<1>4. TypeOK' /\ NoTaskDeletes'
  BY <1>1, <1>2, <1>3 DEF TypeInv, TypeOK, NoTaskDeletes
<1>5. RequestsNameRows'
  BY <1>1, <1>2 DEF TypeInv, TypeOK, RequestsNameRows
<1>6. RowsAreBorn'
  BY <1>2 DEF TypeInv, TypeOK, RowsAreBorn, Exists
<1>. QED BY <1>4, <1>5, <1>6 DEF TypeInv

\* An open request has a row that was born.
LEMMA RequestType ==
    ASSUME TypeInv, NEW w \in Sessions, web[w] # NoSession
    PROVE  /\ web[w] \in Requests /\ web[w].op # "none" /\ web[w].account \in born
           /\ web[w].account \in Accounts /\ web[w].old \in Columns /\ web[w].new \in Columns
BY DEF TypeInv, TypeOK, RequestsNameRows, Requests

\* A commit writes a row.
LEMMA CommitType ==
    ASSUME TypeInv, NEW w \in Sessions, Commit(w)
    PROVE  TypeInv'
<1>. DEFINE s == web[w]
<1>1. s # NoSession
  BY DEF Commit, NoSession
<1>2. s \in Requests /\ s.op # "none" /\ s.account \in Accounts /\ s.account \in born
      /\ s.old \in Columns /\ s.new \in Columns
  BY <1>1, RequestType
<1>3. UNCHANGED <<born, linkable, files, queue, delayed, job, now, calm, lost, moves>>
  BY DEF Commit
<1>4. row' \in [Accounts -> Columns \cup {Deleted}] /\ RowsAreBorn'
  <2>1. CASE Exists(s.account)
    <3>. DEFINE d == IF s.op = "reject" THEN Deleted ELSE Written(row[s.account], s.old, s.new)
    <3>1. row[s.account] \in Columns
      BY <1>2, <2>1 DEF TypeInv, TypeOK, Exists
    <3>2. d \in Columns \cup {Deleted}
      BY <1>2, <3>1, WrittenType
    <3>3. row' = [row EXCEPT ![s.account] = d]
      BY <2>1 DEF Commit
    <3>. QED BY <1>2, <1>3, <3>2, <3>3 DEF TypeInv, TypeOK, RowsAreBorn, Exists
  <2>2. CASE ~Exists(s.account)
    BY <1>3, <2>2 DEF Commit, TypeInv, TypeOK, RowsAreBorn, Exists
  <2>. QED BY <2>1, <2>2
<1>5. \E r \in {NoSession, [s EXCEPT !.step = "saved"]} : web' = [web EXCEPT ![w] = r]
  BY DEF Commit
<1>6. /\ [s EXCEPT !.step = "saved"] \in Requests
      /\ [s EXCEPT !.step = "saved"].op = s.op /\ [s EXCEPT !.step = "saved"].account = s.account
  BY <1>2 DEF Requests
<1>7. web' \in [Sessions -> Requests] /\ RequestsNameRows'
  <2>1. PICK r \in {NoSession, [s EXCEPT !.step = "saved"]} : web' = [web EXCEPT ![w] = r]
    BY <1>5
  <2>2. r \in Requests /\ (r # NoSession => r.op # "none" /\ r.account \in born)
    BY <1>2, <1>6, NoValues
  <2>. QED BY <1>3, <2>1, <2>2 DEF TypeInv, TypeOK, RequestsNameRows
<1>. QED BY <1>3, <1>4, <1>7 DEF TypeInv, TypeOK, NoTaskDeletes

\* What a request dispatches is a task, or nothing.
LEMMA DispatchType ==
    ASSUME TypeInv, NEW w \in Sessions, Dispatch(w) \/ DispatchFails(w)
    PROVE  TypeInv'
<1>. DEFINE s == web[w]
<1>1. s # NoSession
  <2>1. s.step = "saved"
    BY DEF Dispatch, DispatchFails
  <2>2. NoSession.step = "load"
    BY DEF NoSession
  <2>. QED BY <2>1, <2>2
<1>2. s \in Requests /\ s.account \in Accounts /\ s.new \in Columns
  BY <1>1, RequestType
<1>3. UNCHANGED <<row, born, linkable, files, delayed, job, now, calm>> /\ web' = [web EXCEPT ![w] = NoSession]
  BY DEF Dispatch, DispatchFails
<1>4. web' \in [Sessions -> Requests] /\ RequestsNameRows'
  BY <1>3, NoValues DEF TypeInv, TypeOK, RequestsNameRows
<1>5. RowsAreBorn'
  BY <1>3 DEF TypeInv, RowsAreBorn, Exists
<1>6. CASE DispatchFails(w)
  <2>1. lost' = IF s.op \in {"unlink", "delete"} THEN lost \cup ({s.account} \X VmIds) ELSE lost
    BY <1>6 DEF DispatchFails
  <2>2. lost' \subseteq (Accounts \cup {NoAccount}) \X VmIds
    BY <1>2, <2>1 DEF TypeInv, TypeOK
  <2>3. moves' \in Nat /\ UNCHANGED queue
    BY <1>6 DEF DispatchFails, Move, TypeInv, TypeOK
  <2>. QED BY <1>3, <1>4, <1>5, <2>2, <2>3 DEF TypeInv, TypeOK, NoTaskDeletes
<1>7. CASE Dispatch(w)
  <2>1. 0 \in 0 .. MaxRetries
    BY LifecycleAssumption
  <2>2. s.new.mark \in Nat /\ s.vm \in VmIds \cup {NoVm}
    BY <1>2 DEF Columns, Requests
  <2>3. Setup(s.account, s.vm = NoVm, 0, 0) \in Safe /\ Cleanup(s.account, FALSE, TRUE, s.new.mark) \in Safe
    BY <1>2, <2>1, <2>2, TaskTypes, SafeTasks DEF Cleanup
  <2>4. SetupTarget(s.vm) \in VmIds
    BY <2>2, VmTypes
  <2>5. Exists(s.account) /\ CleanupVm(s) # NoVm => CleanupVm(s) \in VmIds
    BY <1>2, <2>2 DEF CleanupVm, Exists, TypeInv, TypeOK, Columns
  <2>6. \/ Send(SetupTarget(s.vm), Setup(s.account, s.vm = NoVm, 0, 0))
        \/ /\ Exists(s.account) /\ CleanupVm(s) # NoVm
           /\ Send(CleanupVm(s), Cleanup(s.account, FALSE, TRUE, s.new.mark))
        \/ UNCHANGED queue
    BY <1>7 DEF Dispatch
  <2>7. queue' \in [VmIds -> Seq(Safe)]
    BY <2>3, <2>4, <2>5, <2>6, SendType DEF TypeInv, NoTaskDeletes
  <2>8. UNCHANGED <<lost, moves>>
    BY <1>7 DEF Dispatch
  <2>. QED BY <1>3, <1>4, <1>5, <2>7, <2>8, SafeTasks DEF TypeInv, TypeOK, NoTaskDeletes
<1>. QED BY <1>6, <1>7

\* Deleting the trade account marks its rows.
LEMMA DropType == ASSUME TypeInv, DropTradeAccount PROVE TypeInv'
<1>1. row' = [a \in Accounts |-> IF Exists(a) /\ row[a].owned THEN MarkForCleanup(row[a], now) ELSE row[a]]
  BY DEF DropTradeAccount
<1>2. UNCHANGED <<born, files, queue, delayed, job, web, lost>> /\ linkable' = FALSE
  BY DEF DropTradeAccount
<1>3. now' \in Nat \ {0} /\ moves' \in Nat /\ calm' \in BOOLEAN
  BY DEF DropTradeAccount, Tick, Move, TypeInv, TypeOK
<1>4. \A a \in Accounts : Exists(a) => MarkForCleanup(row[a], now) \in Columns
  BY MarkType DEF TypeInv, TypeOK, Exists
<1>5. row' \in [Accounts -> Columns \cup {Deleted}]
  BY <1>1, <1>4 DEF TypeInv, TypeOK
<1>6. TypeOK' /\ NoTaskDeletes'
  BY <1>2, <1>3, <1>5 DEF TypeInv, TypeOK, NoTaskDeletes
<1>7. RequestsNameRows'
  BY <1>2 DEF TypeInv, RequestsNameRows
<1>8. RowsAreBorn'
  BY <1>1, <1>2 DEF TypeInv, RowsAreBorn, Exists
<1>. QED BY <1>6, <1>7, <1>8 DEF TypeInv

\* Every step keeps the type invariant.
LEMMA TypeStep == ASSUME TypeInv, [Next]_vars PROVE TypeInv'
<1>1. CASE \E w \in Sessions : Request(w)
  <2>1. PICK w \in Sessions : Request(w)
    BY <1>1
  <2>2. PICK a \in Accounts :
           \/ \E v \in VmIds \cup {NoVm} :
                 \/ \E op \in {"link", "create"} : Insert(w, op, a, v)
                 \/ ReactivateOn(w, a, v) \/ DeleteFiles(w, a, v) \/ VmFiles(w, a, v)
                 \/ AdminDelete(w, a, v)
           \/ RetrySetup(w, a) \/ Archive(w, a) \/ Reactivate(w, a) \/ Unlink(w, a)
           \/ RejectRequest(w, a)
    BY <2>1 DEF Request
  <2>3. CASE \E v \in VmIds \cup {NoVm}, op \in {"link", "create"} : Insert(w, op, a, v)
    BY <2>3, InsertType
  <2>4. CASE \E v \in VmIds \cup {NoVm} :
                \/ ReactivateOn(w, a, v) \/ DeleteFiles(w, a, v) \/ VmFiles(w, a, v) \/ AdminDelete(w, a, v)
                \/ RetrySetup(w, a) \/ Archive(w, a) \/ Reactivate(w, a) \/ Unlink(w, a) \/ RejectRequest(w, a)
    BY <2>4, Opening, OpenType
  <2>. QED BY <2>2, <2>3, <2>4
<1>2. CASE \E w \in Sessions : Commit(w) \/ Dispatch(w) \/ DispatchFails(w)
  BY <1>2, CommitType, DispatchType
<1>3. CASE DropTradeAccount
  BY <1>3, DropType
<1>4. CASE \/ \E v \in VmIds : Work(v) \/ WorkFails(v)
           \/ \E a \in Accounts : DeleteRow(a) \/ SyncReports(a)
           \/ \E a \in Accounts, v \in VmIds \cup {NoVm} : AdminSetup(a, v)
  BY <1>4, MildSteps, MildType
<1>5. CASE UNCHANGED vars
  BY <1>5 DEF vars, TypeInv, TypeOK, RequestsNameRows, RowsAreBorn, NoTaskDeletes, Exists
<1>. QED BY <1>1, <1>2, <1>3, <1>4, <1>5 DEF Next

-----------------------------------------------------------------------------
(* Tombstones *)

\* Initially no request is open and no row is marked.
LEMMA InitLink == Init => LinkInv
BY DEF Init, LinkInv, RequestsAreSound, OneRequest, TombstoneIsBare, NoSession, Exists

\* A mild step keeps what open requests know of their rows.
LEMMA MildLink ==
    ASSUME TypeInv, LinkInv, Mild
    PROVE  LinkInv'
<1>1. UNCHANGED web /\ (calm' => calm)
  BY DEF Mild
<1>2. ASSUME NEW a \in Accounts, Exists(a)'
      PROVE  /\ Exists(a) /\ row'[a].owned = row[a].owned
             /\ row'[a].mark \in {0, row[a].mark} /\ row'[a].password \in {"none", row[a].password}
  BY <1>2 DEF Mild, Exists, Keeps
<1>3. ASSUME NEW w \in Sessions, web'[w].op # "none", web'[w].step = "load"
      PROVE  Intends(web'[w].old, web'[w].new) /\ StillTrue(web[w])'
  <2>1. web[w] # NoSession
    BY <1>1, <1>3 DEF NoSession
  <2>2. web[w].account \in Accounts
    BY <2>1, RequestType
  <2>3. Intends(web[w].old, web[w].new) /\ StillTrue(web[w])
    BY <1>1, <1>3 DEF LinkInv, RequestsAreSound
  <2>. QED BY <1>1, <1>2, <2>2, <2>3 DEF StillTrue
<1>4. RequestsAreSound'
  BY <1>3 DEF RequestsAreSound
<1>5. OneRequest'
  BY <1>1 DEF LinkInv, OneRequest
<1>6. TombstoneIsBare'
  BY <1>1, <1>2 DEF LinkInv, TombstoneIsBare, HasCredentials
<1>. QED BY <1>4, <1>5, <1>6 DEF LinkInv

\* A request that opens knows its row.
LEMMA OpenLink ==
    ASSUME TypeInv, LinkInv, NEW w \in Sessions, NEW op \in UserOps \cup AdminOps, NEW a \in Accounts,
           NEW c \in Columns, NEW v \in VmIds \cup {NoVm}, Exists(a), Open(w, op, a, c, v),
           Intends(row[a], c)
    PROVE  LinkInv'
<1>. DEFINE r == [op |-> op, account |-> a, old |-> row[a], new |-> c, step |-> "load", vm |-> v]
<1>1. web' = [web EXCEPT ![w] = r] /\ UNCHANGED row
  BY DEF Open
<1>2. (calm' => calm) /\ (calm' => \A x \in Sessions \ {w} : web[x] = NoSession)
  BY DEF Open, StaysCalm
<1>3. \A x \in Sessions : web'[x] = IF x = w THEN r ELSE web[x]
  BY <1>1 DEF TypeInv, TypeOK
<1>4. ASSUME NEW x \in Sessions, web'[x].op # "none", web'[x].step = "load"
      PROVE  Intends(web'[x].old, web'[x].new) /\ StillTrue(web[x])'
  <2>1. CASE x = w
    BY <1>1, <1>3, <2>1 DEF StillTrue
  <2>2. CASE x # w
    <3>1. Intends(web[x].old, web[x].new) /\ StillTrue(web[x])
      BY <1>3, <1>4, <2>2 DEF LinkInv, RequestsAreSound
    <3>. QED BY <1>1, <1>2, <1>3, <2>2, <3>1 DEF StillTrue, Exists
  <2>. QED BY <2>1, <2>2
<1>5. RequestsAreSound'
  BY <1>4 DEF RequestsAreSound
<1>6. OneRequest'
  BY <1>2, <1>3 DEF OneRequest
<1>7. TombstoneIsBare'
  BY <1>1, <1>2 DEF LinkInv, TombstoneIsBare, Exists
<1>. QED BY <1>5, <1>6, <1>7 DEF LinkInv

\* An inserted row has no mark, and no other request knows it.
LEMMA InsertLink ==
    ASSUME TypeInv, LinkInv, NEW w \in Sessions, NEW op \in {"link", "create"}, NEW a \in Accounts,
           NEW v \in VmIds \cup {NoVm}, Insert(w, op, a, v)
    PROVE  LinkInv'
<1>. DEFINE r == [op |-> op, account |-> a, old |-> NewRow, new |-> NewRow, step |-> "saved", vm |-> v]
<1>1. /\ row' = [row EXCEPT ![a] = NewRow] /\ web' = [web EXCEPT ![w] = r] /\ a \notin born
  BY DEF Insert
<1>2. (calm' => calm) /\ (calm' => \A x \in Sessions \ {w} : web[x] = NoSession)
  BY DEF Insert, StaysCalm
<1>3. \A x \in Sessions : web'[x] = IF x = w THEN r ELSE web[x]
  BY <1>1 DEF TypeInv, TypeOK
<1>4. \A b \in Accounts : row'[b] = IF b = a THEN NewRow ELSE row[b]
  BY <1>1 DEF TypeInv, TypeOK
<1>5. ASSUME NEW x \in Sessions, web'[x].op # "none", web'[x].step = "load"
      PROVE  Intends(web'[x].old, web'[x].new) /\ StillTrue(web[x])'
  <2>1. x # w /\ web'[x] = web[x]
    BY <1>3, <1>5
  <2>2. web[x] # NoSession
    BY <1>5, <2>1 DEF NoSession
  <2>3. web[x].account \in Accounts /\ web[x].account # a
    BY <1>1, <2>2, RequestType
  <2>4. Intends(web[x].old, web[x].new) /\ StillTrue(web[x])
    BY <1>5, <2>1 DEF LinkInv, RequestsAreSound
  <2>. QED BY <1>2, <1>4, <2>1, <2>3, <2>4 DEF StillTrue, Exists
<1>6. RequestsAreSound'
  BY <1>5 DEF RequestsAreSound
<1>7. OneRequest'
  BY <1>2, <1>3 DEF OneRequest
<1>8. TombstoneIsBare'
  BY <1>2, <1>4 DEF LinkInv, TombstoneIsBare, Exists, NewRow, HasCredentials
<1>. QED BY <1>6, <1>7, <1>8 DEF LinkInv

\* A commit neither gives a tombstone an owner nor, in a calm history, a
\* password: what it loaded is still true.
LEMMA CommitLink ==
    ASSUME TypeInv, LinkInv, NEW w \in Sessions, Commit(w)
    PROVE  LinkInv'
<1>. DEFINE s == web[w]
            a == s.account
            d == Written(row[a], s.old, s.new)
<1>1. s # NoSession /\ s.op # "none" /\ s.step = "load" /\ UNCHANGED calm
  <2>1. s.op # "none" /\ s.step = "load" /\ UNCHANGED calm
    BY DEF Commit
  <2>2. NoSession.op = "none"
    BY DEF NoSession
  <2>. QED BY <2>1, <2>2
<1>2. a \in Accounts /\ s.old \in Columns /\ s.new \in Columns
  BY <1>1, RequestType
<1>3. Intends(s.old, s.new) /\ StillTrue(s)
  BY <1>1 DEF LinkInv, RequestsAreSound
<1>4. \A x \in Sessions : x # w => web'[x] = web[x]
  BY DEF Commit, TypeInv, TypeOK
<1>5. web'[w] = NoSession \/ web'[w].step = "saved"
  <2>1. PICK r \in {NoSession, [s EXCEPT !.step = "saved"]} : web' = [web EXCEPT ![w] = r]
    BY DEF Commit
  <2>2. s \in Requests
    BY <1>1, RequestType
  <2>3. [s EXCEPT !.step = "saved"].step = "saved"
    BY <2>2 DEF Requests
  <2>. QED BY <2>1, <2>3 DEF TypeInv, TypeOK
<1>6. OneRequest'
  BY <1>1, <1>4 DEF LinkInv, OneRequest
<1>7. CASE ~Exists(a)
  <2>1. UNCHANGED row
    BY <1>7 DEF Commit
  <2>2. ASSUME NEW x \in Sessions, web'[x].op # "none", web'[x].step = "load"
        PROVE  Intends(web'[x].old, web'[x].new) /\ StillTrue(web[x])'
    <3>1. x # w
      BY <1>5, <2>2 DEF NoSession
    <3>2. Intends(web[x].old, web[x].new) /\ StillTrue(web[x]) /\ web'[x] = web[x]
      BY <1>4, <2>2, <3>1 DEF LinkInv, RequestsAreSound
    <3>. QED BY <1>1, <2>1, <3>2 DEF StillTrue, Exists
  <2>3. RequestsAreSound'
    BY <2>2 DEF RequestsAreSound
  <2>4. TombstoneIsBare'
    BY <1>1, <2>1 DEF LinkInv, TombstoneIsBare, Exists
  <2>. QED BY <1>6, <2>3, <2>4 DEF LinkInv
<1>8. CASE Exists(a) /\ s.op # "reject"
  <2>1. row[a] \in Columns /\ row' = [row EXCEPT ![a] = d]
    BY <1>2, <1>8 DEF Commit, TypeInv, TypeOK, Exists
  <2>2. \A b \in Accounts : row'[b] = IF b = a THEN d ELSE row[b]
    BY <1>2, <2>1 DEF TypeInv, TypeOK
  <2>3. ~row[a].owned => ~d.owned
    BY <1>2, <1>3, <2>1 DEF Written, Intends, Columns
  <2>4. d.mark # 0 => ~d.owned /\ (calm => d.password = "none")
    <3>. SUFFICES ASSUME d.mark # 0 PROVE ~d.owned /\ (calm => d.password = "none")
      OBVIOUS
    <3>1. row[a].mark # 0 => ~row[a].owned /\ (calm => row[a].password = "none")
      BY <1>2, <1>8 DEF LinkInv, TombstoneIsBare, HasCredentials
    <3>2. CASE /\ s.new.owned = s.old.owned /\ s.new.mark = s.old.mark
               /\ s.new.password = s.old.password \/ s.old.mark = 0
      <4>1. d.owned = row[a].owned /\ d.mark = row[a].mark
        BY <3>2 DEF Written
      <4>2. ASSUME calm, s.new.password # s.old.password PROVE FALSE
        BY <1>3, <1>8, <3>2, <4>1, <4>2 DEF StillTrue
      <4>3. s.new.password = s.old.password => d.password = row[a].password
        BY DEF Written
      <4>. QED BY <3>1, <4>1, <4>2, <4>3
    <3>3. CASE ~s.new.owned /\ s.new.password = "none"
      <4>1. ~d.owned
        <5>1. CASE s.old.owned
          BY <1>2, <3>3, <5>1 DEF Written, Columns
        <5>2. CASE ~s.old.owned
          BY <1>3, <1>8, <2>3, <5>2 DEF StillTrue
        <5>. QED BY <5>1, <5>2
      <4>2. calm => d.password = "none"
        BY <1>3, <1>8, <3>3 DEF StillTrue, Written
      <4>. QED BY <4>1, <4>2
    <3>. QED BY <1>3, <3>2, <3>3 DEF Intends
  <2>5. TombstoneIsBare'
    BY <1>1, <2>2, <2>4 DEF LinkInv, TombstoneIsBare, Exists, HasCredentials
  <2>6. ASSUME NEW x \in Sessions, web'[x].op # "none", web'[x].step = "load"
        PROVE  Intends(web'[x].old, web'[x].new) /\ StillTrue(web[x])'
    <3>1. x # w
      BY <1>5, <2>6 DEF NoSession
    <3>2. Intends(web[x].old, web[x].new) /\ StillTrue(web[x]) /\ web'[x] = web[x]
      BY <1>4, <2>6, <3>1 DEF LinkInv, RequestsAreSound
    <3>3. web[x] # NoSession
      BY <2>6, <3>2 DEF NoSession
    <3>4. ~calm'
      BY <1>1, <3>1, <3>3 DEF LinkInv, OneRequest
    <3>5. web[x].account \in Accounts
      BY <3>3, RequestType
    <3>6. CASE web[x].account = a
      BY <1>8, <2>2, <2>3, <3>2, <3>4, <3>5, <3>6 DEF StillTrue
    <3>7. CASE web[x].account # a
      BY <2>2, <3>2, <3>4, <3>5, <3>7 DEF StillTrue, Exists
    <3>. QED BY <3>6, <3>7
  <2>7. RequestsAreSound'
    BY <2>6 DEF RequestsAreSound
  <2>. QED BY <1>6, <2>5, <2>7 DEF LinkInv
<1>9. CASE Exists(a) /\ s.op = "reject"
  <2>1. \A b \in Accounts : row'[b] = IF b = a THEN Deleted ELSE row[b]
    BY <1>2, <1>9 DEF Commit, TypeInv, TypeOK
  <2>2. ASSUME NEW x \in Sessions, web'[x].op # "none", web'[x].step = "load"
        PROVE  Intends(web'[x].old, web'[x].new) /\ StillTrue(web[x])'
    <3>1. x # w
      BY <1>5, <2>2 DEF NoSession
    <3>2. Intends(web[x].old, web[x].new) /\ StillTrue(web[x]) /\ web'[x] = web[x]
      BY <1>4, <2>2, <3>1 DEF LinkInv, RequestsAreSound
    <3>3. web[x] # NoSession
      BY <2>2, <3>2 DEF NoSession
    <3>4. web[x].account \in Accounts
      BY <3>3, RequestType
    <3>. QED BY <1>1, <2>1, <3>2, <3>4 DEF StillTrue, Exists
  <2>3. RequestsAreSound'
    BY <2>2 DEF RequestsAreSound
  <2>4. TombstoneIsBare'
    BY <1>1, <2>1 DEF LinkInv, TombstoneIsBare, Exists
  <2>. QED BY <1>6, <2>3, <2>4 DEF LinkInv
<1>. QED BY <1>7, <1>8, <1>9

\* A request that ends leaves its row alone.
LEMMA DispatchLink ==
    ASSUME TypeInv, LinkInv, NEW w \in Sessions, Dispatch(w) \/ DispatchFails(w)
    PROVE  LinkInv'
<1>1. UNCHANGED <<row, calm>> /\ web' = [web EXCEPT ![w] = NoSession]
  BY DEF Dispatch, DispatchFails
<1>2. \A x \in Sessions : web'[x] = IF x = w THEN NoSession ELSE web[x]
  BY <1>1 DEF TypeInv, TypeOK
<1>3. ASSUME NEW x \in Sessions, web'[x].op # "none", web'[x].step = "load"
      PROVE  Intends(web'[x].old, web'[x].new) /\ StillTrue(web[x])'
  <2>1. x # w /\ web'[x] = web[x]
    BY <1>2, <1>3 DEF NoSession
  <2>2. Intends(web[x].old, web[x].new) /\ StillTrue(web[x])
    BY <1>3, <2>1 DEF LinkInv, RequestsAreSound
  <2>. QED BY <1>1, <2>1, <2>2 DEF StillTrue, Exists
<1>4. RequestsAreSound'
  BY <1>3 DEF RequestsAreSound
<1>5. OneRequest'
  BY <1>1, <1>2 DEF LinkInv, OneRequest
<1>6. TombstoneIsBare'
  BY <1>1 DEF LinkInv, TombstoneIsBare, Exists
<1>. QED BY <1>4, <1>5, <1>6 DEF LinkInv

\* Deleting the trade account takes owner and password from its rows.
LEMMA DropLink == ASSUME TypeInv, LinkInv, DropTradeAccount PROVE LinkInv'
<1>1. row' = [a \in Accounts |-> IF Exists(a) /\ row[a].owned THEN MarkForCleanup(row[a], now) ELSE row[a]]
  BY DEF DropTradeAccount
<1>2. UNCHANGED web /\ (calm' => calm) /\ (calm' => \A w \in Sessions : web[w] = NoSession)
  BY DEF DropTradeAccount
<1>3. ASSUME NEW a \in Accounts, Exists(a)
      PROVE  \/ row'[a] = row[a]
             \/ ~row'[a].owned /\ row'[a].password = "none"
  <2>1. row[a] \in Columns
    BY <1>3 DEF TypeInv, TypeOK, Exists
  <2>2. ~MarkForCleanup(row[a], now).owned /\ MarkForCleanup(row[a], now).password = "none"
    BY <2>1 DEF MarkForCleanup, Columns
  <2>. QED BY <1>1, <2>2
<1>4. \A a \in Accounts : ~Exists(a) => row'[a] = row[a]
  BY <1>1
<1>5. ASSUME NEW w \in Sessions, web'[w].op # "none", web'[w].step = "load"
      PROVE  Intends(web'[w].old, web'[w].new) /\ StillTrue(web[w])'
  <2>1. web[w] # NoSession
    BY <1>2, <1>5 DEF NoSession
  <2>2. web[w].account \in Accounts /\ ~calm'
    BY <1>2, <2>1, RequestType
  <2>3. Intends(web[w].old, web[w].new) /\ StillTrue(web[w])
    BY <1>2, <1>5 DEF LinkInv, RequestsAreSound
  <2>. QED BY <1>2, <1>3, <1>4, <2>2, <2>3 DEF StillTrue, Exists
<1>6. RequestsAreSound'
  BY <1>5 DEF RequestsAreSound
<1>7. OneRequest'
  BY <1>2 DEF LinkInv, OneRequest
<1>8. TombstoneIsBare'
  BY <1>2, <1>3, <1>4 DEF LinkInv, TombstoneIsBare, Exists, HasCredentials
<1>. QED BY <1>6, <1>7, <1>8 DEF LinkInv

\* Every step keeps the link invariant.
LEMMA LinkStep == ASSUME TypeInv, LinkInv, [Next]_vars PROVE LinkInv'
<1>1. CASE \E w \in Sessions : Request(w)
  <2>1. PICK w \in Sessions : Request(w)
    BY <1>1
  <2>2. PICK a \in Accounts :
           \/ \E v \in VmIds \cup {NoVm} :
                 \/ \E op \in {"link", "create"} : Insert(w, op, a, v)
                 \/ ReactivateOn(w, a, v) \/ DeleteFiles(w, a, v) \/ VmFiles(w, a, v)
                 \/ AdminDelete(w, a, v)
           \/ RetrySetup(w, a) \/ Archive(w, a) \/ Reactivate(w, a) \/ Unlink(w, a)
           \/ RejectRequest(w, a)
    BY <2>1 DEF Request
  <2>3. CASE \E v \in VmIds \cup {NoVm}, op \in {"link", "create"} : Insert(w, op, a, v)
    BY <2>3, InsertLink
  <2>4. CASE \E v \in VmIds \cup {NoVm} :
                \/ ReactivateOn(w, a, v) \/ DeleteFiles(w, a, v) \/ VmFiles(w, a, v) \/ AdminDelete(w, a, v)
                \/ RetrySetup(w, a) \/ Archive(w, a) \/ Reactivate(w, a) \/ Unlink(w, a) \/ RejectRequest(w, a)
    BY <2>4, Opening, OpenLink
  <2>. QED BY <2>2, <2>3, <2>4
<1>2. CASE \E w \in Sessions : Commit(w) \/ Dispatch(w) \/ DispatchFails(w)
  BY <1>2, CommitLink, DispatchLink
<1>3. CASE DropTradeAccount
  BY <1>3, DropLink
<1>4. CASE \/ \E v \in VmIds : Work(v) \/ WorkFails(v)
           \/ \E a \in Accounts : DeleteRow(a) \/ SyncReports(a)
           \/ \E a \in Accounts, v \in VmIds \cup {NoVm} : AdminSetup(a, v)
  BY <1>4, MildSteps, MildLink
<1>5. CASE UNCHANGED vars
  <2>1. Mild
    BY <1>5, Unmoved DEF vars
  <2>. QED BY <2>1, MildLink
<1>. QED BY <1>1, <1>2, <1>3, <1>4, <1>5 DEF Next

-----------------------------------------------------------------------------
(* Theorems *)

\* Rows keep the columns of MT5Account and queues hold tasks, whatever
\* transactions of web requests and setup tasks overlap.
THEOREM LifecycleTypeCorrect == Spec => []TypeOK
<1>1. TypeInv /\ [Next]_vars => TypeInv'
  BY TypeStep
<1>2. TypeInv => TypeOK
  BY DEF TypeInv
<1>. QED BY InitType, <1>1, <1>2, PTL DEF Spec

\* A row marked for cleanup belongs to nobody, whatever requests and tasks
\* overlap, and keeps no password while requests come one by one.
THEOREM TombstonesStayBare == Spec => []TombstoneIsBare
<1>1. TypeInv /\ LinkInv /\ [Next]_vars => TypeInv' /\ LinkInv'
  BY TypeStep, LinkStep
<1>2. LinkInv => TombstoneIsBare
  BY DEF LinkInv
<1>. QED BY InitType, InitLink, <1>1, <1>2, PTL DEF Spec

\* A rejection loaded its row inactive and without a terminal.
RejectionsLoadedIdle ==
    \A w \in Sessions : web[w].op = "reject" => ~web[w].old.active /\ ~web[w].old.paths

\* Initially no request is open.
LEMMA InitRejections == Init => RejectionsLoadedIdle
BY DEF Init, RejectionsLoadedIdle, NoSession

\* An open request keeps what it loaded.
LEMMA RejectionStep ==
    ASSUME TypeInv, RejectionsLoadedIdle, [Next]_vars
    PROVE  RejectionsLoadedIdle'
<1>1. CASE \E w \in Sessions : Request(w)
  <2>1. PICK w \in Sessions : Request(w)
    BY <1>1
  <2>2. \E s \in Requests :
           /\ web' = [web EXCEPT ![w] = s]
           /\ s.op = "reject" => ~s.old.active /\ ~s.old.paths
    <3>1. CASE \E a \in Accounts, v \in VmIds \cup {NoVm}, op \in {"link", "create"} : Insert(w, op, a, v)
      <4>1. PICK a \in Accounts, v \in VmIds \cup {NoVm}, op \in {"link", "create"} : Insert(w, op, a, v)
        BY <3>1
      <4>. DEFINE s == [op |-> op, account |-> a, old |-> NewRow, new |-> NewRow, step |-> "saved", vm |-> v]
      <4>2. s \in Requests /\ s.op # "reject" /\ web' = [web EXCEPT ![w] = s]
        BY <4>1, NoValues DEF Insert, Requests, UserOps, AdminOps
      <4>. QED BY <4>2
    <3>2. CASE \E a \in Accounts, v \in VmIds \cup {NoVm} :
                  \/ ReactivateOn(w, a, v) \/ DeleteFiles(w, a, v) \/ VmFiles(w, a, v) \/ AdminDelete(w, a, v)
                  \/ RetrySetup(w, a) \/ Archive(w, a) \/ Reactivate(w, a) \/ Unlink(w, a)
                  \/ RejectRequest(w, a)
      <4>1. PICK a \in Accounts, op \in UserOps \cup AdminOps, c \in Columns, x \in VmIds \cup {NoVm} :
               /\ Exists(a) /\ Open(w, op, a, c, x)
               /\ op = "reject" => ~row[a].active /\ ~row[a].paths
        BY <3>2, Opening
      <4>. DEFINE s == [op |-> op, account |-> a, old |-> row[a], new |-> c, step |-> "load", vm |-> x]
      <4>2. row[a] \in Columns
        BY <4>1 DEF TypeInv, TypeOK, Exists
      <4>3. s \in Requests /\ web' = [web EXCEPT ![w] = s]
        BY <4>1, <4>2 DEF Open, Requests
      <4>. QED BY <4>1, <4>3
    <3>. QED BY <2>1, <3>1, <3>2 DEF Request
  <2>. QED BY <2>2 DEF RejectionsLoadedIdle, TypeInv, TypeOK
<1>2. CASE \E w \in Sessions : Commit(w) \/ Dispatch(w) \/ DispatchFails(w)
  <2>1. PICK w \in Sessions : Commit(w) \/ Dispatch(w) \/ DispatchFails(w)
    BY <1>2
  <2>2. web[w] # NoSession
    <3>1. web[w].op # "none" \/ web[w].step = "saved"
      BY <2>1 DEF Commit, Dispatch, DispatchFails
    <3>2. NoSession.op = "none" /\ NoSession.step = "load"
      BY DEF NoSession
    <3>. QED BY <3>1, <3>2
  <2>3. web[w] \in Requests
    BY <2>2, RequestType
  <2>4. \E s \in {NoSession, [web[w] EXCEPT !.step = "saved"]} : web' = [web EXCEPT ![w] = s]
    BY <2>1 DEF Commit, Dispatch, DispatchFails
  <2>5. NoSession.op = "none"
    BY DEF NoSession
  <2>6. [web[w] EXCEPT !.step = "saved"].op = web[w].op /\ [web[w] EXCEPT !.step = "saved"].old = web[w].old
    BY <2>3 DEF Requests
  <2>. QED BY <2>4, <2>5, <2>6 DEF RejectionsLoadedIdle, TypeInv, TypeOK
<1>3. CASE DropTradeAccount \/ UNCHANGED vars
  BY <1>3 DEF DropTradeAccount, vars, RejectionsLoadedIdle
<1>4. CASE \/ \E v \in VmIds : Work(v) \/ WorkFails(v)
           \/ \E a \in Accounts : DeleteRow(a) \/ SyncReports(a)
           \/ \E a \in Accounts, v \in VmIds \cup {NoVm} : AdminSetup(a, v)
  BY <1>4, MildSteps DEF Mild, RejectionsLoadedIdle
<1>. QED BY <1>1, <1>2, <1>3, <1>4 DEF Next

\* A step that deletes a linked row commits a rejection.
LEMMA OwnedStep ==
    ASSUME TypeInv, RejectionsLoadedIdle, [Next]_vars, NEW a \in Accounts, Exists(a), row[a].owned,
           row'[a] = Deleted
    PROVE  Rejected(a)
<1>1. row[a] # Deleted /\ row[a] \in Columns
  BY DEF TypeInv, TypeOK, Exists
<1>2. CASE \E w \in Sessions : Request(w)
  <2>1. CASE \E w \in Sessions, b \in Accounts, v \in VmIds \cup {NoVm}, op \in {"link", "create"} :
               Insert(w, op, b, v)
    <3>1. PICK b \in Accounts : row' = [row EXCEPT ![b] = NewRow]
      BY <2>1 DEF Insert
    <3>2. row'[a] \in Columns
      BY <1>1, <3>1, NoValues DEF TypeInv, TypeOK
    <3>. QED BY <3>2, DeletedAssumption
  <2>2. CASE \E w \in Sessions, b \in Accounts, v \in VmIds \cup {NoVm} :
               \/ ReactivateOn(w, b, v) \/ DeleteFiles(w, b, v) \/ VmFiles(w, b, v) \/ AdminDelete(w, b, v)
               \/ RetrySetup(w, b) \/ Archive(w, b) \/ Reactivate(w, b) \/ Unlink(w, b)
               \/ RejectRequest(w, b)
    <3>1. UNCHANGED row
      BY <2>2, Opening DEF Open
    <3>. QED BY <1>1, <3>1
  <2>. QED BY <1>2, <2>1, <2>2 DEF Request
<1>3. CASE \E w \in Sessions : Commit(w)
  <2>1. PICK w \in Sessions : Commit(w)
    BY <1>3
  <2>2. web[w] # NoSession
    BY <2>1 DEF Commit, NoSession
  <2>3. web[w].account \in Accounts /\ web[w].old \in Columns /\ web[w].new \in Columns
    BY <2>2, RequestType
  <2>4. Written(row[a], web[w].old, web[w].new) \in Columns
    BY <1>1, <2>3, WrittenType
  <2>5. \/ row'[a] = row[a] \/ row'[a] = Written(row[a], web[w].old, web[w].new)
        \/ web[w].op = "reject" /\ web[w].account = a
    BY <2>1, <2>3 DEF Commit, TypeInv, TypeOK
  <2>6. web[w].op = "reject" /\ web[w].account = a
    BY <1>1, <2>4, <2>5, DeletedAssumption
  <2>7. web[w].step = "load" /\ web'[w] = NoSession
    BY <2>1, <2>6 DEF Commit, TypeInv, TypeOK
  <2>. QED BY <2>6, <2>7 DEF Rejected, RejectionsLoadedIdle
<1>4. CASE (\E w \in Sessions : Dispatch(w) \/ DispatchFails(w)) \/ UNCHANGED vars
  BY <1>1, <1>4 DEF Dispatch, DispatchFails, vars
<1>5. CASE DropTradeAccount
  <2>1. now \in Nat /\ row'[a] = MarkForCleanup(row[a], now)
    BY <1>5 DEF DropTradeAccount, TypeInv, TypeOK
  <2>2. row'[a] \in Columns
    BY <1>1, <2>1, MarkType
  <2>. QED BY <2>2, DeletedAssumption
<1>6. CASE \/ \E v \in VmIds : Work(v) \/ WorkFails(v)
           \/ \E b \in Accounts : DeleteRow(b) \/ SyncReports(b)
           \/ \E b \in Accounts, v \in VmIds \cup {NoVm} : AdminSetup(b, v)
  <2>1. Mild
    BY <1>6, MildSteps
  <2>. QED BY <1>1, <2>1, DeletedAssumption DEF Mild
<1>. QED BY <1>2, <1>3, <1>4, <1>5, <1>6 DEF Next

\* A linked row is deleted by nothing but the rejection of its request, which
\* found it inactive and without a terminal: by no other administrator's action
\* and by no cleanup, however late.
THEOREM LinkedRowsGoRejected == Spec => LinkedRowsGoByRejection
<1>1. TypeInv /\ RejectionsLoadedIdle /\ [Next]_vars => TypeInv' /\ RejectionsLoadedIdle'
  BY TypeStep, RejectionStep
<1>2. TypeInv /\ RejectionsLoadedIdle /\ [Next]_vars =>
          [\A a \in Accounts : Exists(a) /\ row[a].owned /\ row'[a] = Deleted => Rejected(a)]_vars
  BY OwnedStep
<1>. QED BY InitType, InitRejections, <1>1, <1>2, PTL DEF Spec, LinkedRowsGoByRejection

-----------------------------------------------------------------------------
(* A calm history: its invariant *)

\* Where a calm account lives: setups start on the first VM, and only a setup
\* that removes its own folder or an administrator takes an account elsewhere.
Home == VmOrder[1]

Elems(q) == {q[i] : i \in 1 .. Len(q)}
IsLive(c) == c # Deleted /\ c.owned
IsAccounted(c) == c # Deleted /\ (c.owned \/ c.mark # 0)
Dead(a) == a \in born /\ ~IsLive(row[a])

\* The other VMs hold no folder and see nothing but setups of dead rows.
Elsewhere ==
    \A v \in VmIds \ {Home} :
        /\ ~files[v] /\ ~job[v].busy /\ delayed[v] = {}
        /\ \A t \in Elems(queue[v]) : t.kind = "setup" /\ Dead(t.account)

\* Rows name the first VM or none.  At most one is linked; it has a password,
\* and its folder if it names one.
RowsAtHome ==
    /\ \A a \in Accounts : row[a] # Deleted => row[a].vm \in {NoVm, Home}
    /\ \A a \in Accounts : IsLive(row[a]) =>
          HasCredentials(row[a]) /\ (row[a].paths => files[Home])
    /\ \A a, b \in Accounts : IsLive(row[a]) /\ IsLive(row[b]) => a = b

\* A request of a calm history changes no VM; it makes a tombstone of a linked
\* row or leaves it linked.
CalmRequest(s) ==
    /\ s.vm = NoVm
    /\ s.step = "load" =>
          /\ s.op \in {"retry", "archive", "reactivate", "unlink"}
          /\ s.old.owned /\ s.new.vm = s.old.vm
          /\ s.op = "unlink" => ~s.new.owned /\ s.old.mark = 0 /\ s.new.mark # 0
          /\ s.op # "unlink" =>
                /\ s.new.owned /\ s.new.mark = s.old.mark /\ s.new.password # "none"
                /\ s.new.paths => s.old.paths
    /\ s.step = "saved" => s.op \in {"link", "retry", "unlink"}

\* Its row is linked until it commits; while the cleanup of an unlinked row
\* waits to be sent, no row is linked.
CalmRequests ==
    \A w \in Sessions : web[w] # NoSession =>
        /\ CalmRequest(web[w])
        /\ web[w].step = "load" => IsLive(row[web[w].account])
        /\ web[w].step = "saved" /\ web[w].op = "unlink" => \A a \in Accounts : ~IsLive(row[a])

\* While a setup runs the folder is there and its row is linked or marked; while
\* a cleanup runs the folder is gone.
WorkerAtHome ==
    job[Home].busy =>
        \/ /\ job[Home].task.kind = "setup"
           /\ files[Home] /\ IsAccounted(row[job[Home].task.account])
        \/ job[Home].task.kind = "cleanup" /\ ~files[Home]

FolderAccounted == files[Home] => \E a \in Accounts : IsAccounted(row[a])

\* No cleanup waits behind a setup of the linked account, nor at all once that
\* account has a folder or a setup that left the queue.
Ordered(q, a) ==
    \A i, j \in 1 .. Len(q) :
        j < i /\ q[j].kind = "setup" /\ q[j].account = a => q[i].kind = "setup"
NoCleanup(q) == \A t \in Elems(q) : t.kind = "setup"
SettingUp(a) == InSetup(Home) /\ job[Home].task.account = a
Engaged(a) == row[a].paths \/ (\E t \in delayed[Home] : t.account = a) \/ SettingUp(a)
InOrder ==
    \A a \in Accounts : IsLive(row[a]) =>
        Ordered(queue[Home], a) /\ (Engaged(a) => NoCleanup(queue[Home]))

\* Setups name rows that were born.
SetupsAreBorn ==
    \A v \in VmIds :
        /\ \A t \in Elems(queue[v]) : t.kind = "setup" => t.account \in born
        /\ \A t \in delayed[v] : t.account \in born
        /\ InSetup(v) => job[v].task.account \in born

CalmParts ==
    /\ Elsewhere /\ RowsAtHome /\ CalmRequests /\ WorkerAtHome
    /\ FolderAccounted /\ InOrder /\ SetupsAreBorn
CalmInv == calm => CalmParts

-----------------------------------------------------------------------------
(* A calm history: its operators *)

\* What is left of a queue when its head is taken: what was in order stays so.
LEMMA TailKeeps ==
    ASSUME NEW q \in Seq(Tasks), q # <<>>
    PROVE  /\ Head(q) \in Elems(q)
           /\ Elems(Tail(q)) \subseteq Elems(q)
           /\ NoCleanup(q) => NoCleanup(Tail(q))
           /\ \A a \in Accounts : Ordered(q, a) => Ordered(Tail(q), a)
           /\ \A a \in Accounts : Ordered(q, a) /\ Head(q).kind = "setup" /\ Head(q).account = a
                 => NoCleanup(Tail(q))
<1>1. Len(q) \in Nat /\ Len(q) > 0 /\ Head(q) = q[1]
  OBVIOUS
<1>2. Len(Tail(q)) = Len(q) - 1
  OBVIOUS
<1>3. \A i \in 1 .. Len(Tail(q)) : i + 1 \in 1 .. Len(q) /\ Tail(q)[i] = q[i + 1]
  BY <1>1, <1>2
<1>4. Head(q) \in Elems(q)
  BY <1>1 DEF Elems
<1>5. Elems(Tail(q)) \subseteq Elems(q)
  BY <1>3 DEF Elems
<1>6. NoCleanup(q) => NoCleanup(Tail(q))
  BY <1>5 DEF NoCleanup
<1>7. ASSUME NEW a \in Accounts, Ordered(q, a) PROVE Ordered(Tail(q), a)
  <2>. SUFFICES ASSUME NEW i \in 1 .. Len(Tail(q)), NEW j \in 1 .. Len(Tail(q)), j < i,
                       Tail(q)[j].kind = "setup", Tail(q)[j].account = a
                PROVE  Tail(q)[i].kind = "setup"
    BY DEF Ordered
  <2>1. i + 1 \in 1 .. Len(q) /\ j + 1 \in 1 .. Len(q) /\ j + 1 < i + 1
    BY <1>3
  <2>. QED BY <1>3, <1>7, <2>1 DEF Ordered
<1>8. ASSUME NEW a \in Accounts, Ordered(q, a), Head(q).kind = "setup", Head(q).account = a
      PROVE  NoCleanup(Tail(q))
  <2>. SUFFICES ASSUME NEW i \in 1 .. Len(Tail(q)) PROVE Tail(q)[i].kind = "setup"
    BY DEF NoCleanup, Elems
  <2>1. i + 1 \in 1 .. Len(q) /\ 1 \in 1 .. Len(q) /\ 1 < i + 1
    BY <1>1, <1>3
  <2>. QED BY <1>1, <1>3, <1>8, <2>1 DEF Ordered
<1>. QED BY <1>4, <1>5, <1>6, <1>7, <1>8

\* A setup that is appended never waits before a cleanup.
LEMMA AppendKeeps ==
    ASSUME NEW q \in Seq(Tasks), NEW t \in Tasks
    PROVE  /\ \A u \in Elems(Append(q, t)) : u \in Elems(q) \/ u = t
           /\ t.kind = "setup" /\ NoCleanup(q) => NoCleanup(Append(q, t))
           /\ \A a \in Accounts : t.kind = "setup" /\ Ordered(q, a) => Ordered(Append(q, t), a)
<1>. DEFINE r == Append(q, t)
<1>1. Len(q) \in Nat /\ Len(r) = Len(q) + 1 /\ r[Len(q) + 1] = t
  OBVIOUS
<1>2. \A i \in 1 .. Len(q) : r[i] = q[i]
  OBVIOUS
<1>3. \A i \in 1 .. Len(r) : i \in 1 .. Len(q) \/ i = Len(q) + 1
  BY <1>1
<1>. HIDE DEF r
<1>4. \A u \in Elems(r) : u \in Elems(q) \/ u = t
  BY <1>1, <1>2, <1>3 DEF Elems
<1>5. t.kind = "setup" /\ NoCleanup(q) => NoCleanup(r)
  BY <1>4 DEF NoCleanup
<1>6. ASSUME NEW a \in Accounts, t.kind = "setup", Ordered(q, a) PROVE Ordered(r, a)
  <2>. SUFFICES ASSUME NEW i \in 1 .. Len(r), NEW j \in 1 .. Len(r), j < i,
                       r[j].kind = "setup", r[j].account = a
                PROVE  r[i].kind = "setup"
    BY DEF Ordered
  <2>1. CASE i = Len(q) + 1
    BY <1>1, <1>6, <2>1
  <2>2. CASE i \in 1 .. Len(q)
    <3>1. j \in 1 .. Len(q)
      BY <1>1, <2>2
    <3>. QED BY <1>2, <1>6, <2>2, <3>1 DEF Ordered
  <2>. QED BY <1>3, <2>1, <2>2
<1>. QED BY <1>4, <1>5, <1>6 DEF r

\* The first VM is one, and it is where setups go that are not told another.
LEMMA HomeIsTarget ==
    /\ Home \in VmIds /\ Home # NoVm
    /\ \A v \in {NoVm, Home} : SetupTarget(v) = Home
<1>1. VmOrder \in Seq(VmIds) /\ Len(VmOrder) > 0 /\ NoVm \notin VmIds
  BY LifecycleAssumption
<1>2. VmOrder[1] \in VmIds
  BY <1>1
<1>. QED BY <1>1, <1>2 DEF Home, SetupTarget

\* The types that the calm invariant needs.
LEMMA CalmTypes ==
    ASSUME TypeInv
    PROVE  /\ \A v \in VmIds : queue[v] \in Seq(Tasks) /\ queue[v] \in Seq(Safe)
                               /\ delayed[v] \subseteq SetupTasks /\ job[v] \in Jobs
           /\ \A a \in Accounts : row[a] # Deleted => row[a] \in Columns /\ a \in born
           /\ \A v \in VmIds : \A t \in Elems(queue[v]) : t \in Safe
           /\ \A v \in VmIds : \A t \in Elems(queue[v]) : t.kind = "setup" => t.account \in Accounts
           /\ \A v \in VmIds : \A t \in delayed[v] : t.kind = "setup" /\ t.account \in Accounts
<1>1. \A v \in VmIds : queue[v] \in Seq(Safe) /\ queue[v] \in Seq(Tasks)
  BY DEF TypeInv, TypeOK, NoTaskDeletes
<1>2. \A v \in VmIds : delayed[v] \subseteq SetupTasks /\ job[v] \in Jobs
  BY DEF TypeInv, TypeOK
<1>3. \A a \in Accounts : row[a] # Deleted => row[a] \in Columns /\ a \in born
  BY DEF TypeInv, TypeOK, RowsAreBorn, Exists
<1>4. ASSUME NEW v \in VmIds, NEW t \in Elems(queue[v]) PROVE t \in Safe
  <2>1. PICK i \in 1 .. Len(queue[v]) : t = queue[v][i]
    BY DEF Elems
  <2>. QED BY <1>1, <2>1
<1>5. \A v \in VmIds : \A t \in Elems(queue[v]) : t.kind = "setup" => t.account \in Accounts
  BY <1>4, Kinds DEF SetupTasks
<1>6. \A v \in VmIds : \A t \in delayed[v] : t.kind = "setup" /\ t.account \in Accounts
  BY <1>2 DEF SetupTasks
<1>. QED BY <1>1, <1>2, <1>3, <1>4, <1>5, <1>6

-----------------------------------------------------------------------------
(* A calm history: steps that keep its parts *)

\* What all calm steps but Insert do to rows: no row is linked or moved to
\* another VM, and a linked one names a folder anew only when it is set up; who
\* accounts for a folder goes on to do so as long as the folder is there.
Gentle ==
    \A a \in Accounts :
        \/ row'[a] = row[a]
        \/ /\ row[a] # Deleted /\ row'[a] # Deleted
           /\ row'[a].vm \in {row[a].vm, NoVm, Home}
           /\ row'[a].owned => row[a].owned /\ HasCredentials(row'[a])
           /\ row'[a].owned /\ row'[a].paths => row[a].paths \/ SettingUp(a)
           /\ IsAccounted(row[a]) /\ files[Home] => row'[a].owned \/ row'[a].mark # 0

\* What they do to the queue of VM v: tasks are taken from its head, and only
\* setups of dead rows are added.
Quiet(v) ==
    /\ \A t \in Elems(queue'[v]) : t \in Elems(queue[v]) \/ (t.kind = "setup" /\ Dead(t.account))
    /\ NoCleanup(queue[v]) => NoCleanup(queue'[v])
    /\ \A a \in Accounts : Ordered(queue[v], a) => Ordered(queue'[v], a)

\* The worker goes on with its job or ends it.
JobsEnd == \A v \in VmIds : job'[v] = job[v] \/ ~job'[v].busy

\* Only the setup that runs is delayed.
DelaysEnd ==
    \A v \in VmIds : \A t \in delayed'[v] :
        t \in delayed[v] \/ (InSetup(v) /\ job[v].task.account = t.account)

LEMMA GentleIsLive ==
    ASSUME Gentle, NEW a \in Accounts, IsLive(row'[a])
    PROVE  IsLive(row[a])
BY DEF Gentle, IsLive

\* The tasks of a queue are tasks.
LEMMA SafeElems ==
    ASSUME NEW q \in [VmIds -> Seq(Safe)], NEW v \in VmIds, NEW t \in Elems(q[v])
    PROVE  t \in Safe /\ (t.kind = "setup" => t.account \in Accounts)
<1>1. q[v] \in Seq(Safe)
  OBVIOUS
<1>2. PICK i \in 1 .. Len(q[v]) : t = q[v][i]
  BY DEF Elems
<1>3. t \in Safe
  BY <1>1, <1>2
<1>. QED BY <1>3, Kinds DEF SetupTasks

\* Linked rows keep their folder as long as it is not removed.
LEMMA GentleRows ==
    ASSUME TypeInv, RowsAtHome, WorkerAtHome, Gentle, files[Home] => files'[Home]
    PROVE  RowsAtHome'
<1>1. ASSUME NEW a \in Accounts, row'[a] # Deleted PROVE row'[a].vm \in {NoVm, Home}
  BY <1>1 DEF Gentle, RowsAtHome
<1>2. ASSUME NEW a \in Accounts, IsLive(row'[a]) PROVE HasCredentials(row'[a])
  <2>1. IsLive(row[a])
    BY <1>2, GentleIsLive
  <2>. QED BY <1>2, <2>1 DEF Gentle, RowsAtHome, IsLive
<1>3. ASSUME NEW a \in Accounts, IsLive(row'[a]), row'[a].paths PROVE files'[Home]
  <2>1. IsLive(row[a])
    BY <1>3, GentleIsLive
  <2>2. row[a].paths \/ SettingUp(a)
    BY <1>3 DEF Gentle, IsLive
  <2>3. SettingUp(a) => files[Home]
    BY DEF SettingUp, InSetup, WorkerAtHome
  <2>. QED BY <2>1, <2>2, <2>3 DEF RowsAtHome
<1>4. ASSUME NEW a \in Accounts, NEW b \in Accounts, IsLive(row'[a]), IsLive(row'[b]) PROVE a = b
  BY <1>4, GentleIsLive DEF RowsAtHome
<1>. QED BY <1>1, <1>2, <1>3, <1>4 DEF RowsAtHome

\* A folder that was there stays accounted for.
LEMMA GentleFolder ==
    ASSUME FolderAccounted, Gentle, files'[Home] => files[Home]
    PROVE  FolderAccounted'
<1>. SUFFICES ASSUME files'[Home] PROVE \E a \in Accounts : IsAccounted(row'[a])
  BY DEF FolderAccounted
<1>1. PICK a \in Accounts : IsAccounted(row[a])
  BY DEF FolderAccounted
<1>2. IsAccounted(row'[a])
  BY <1>1 DEF Gentle, IsAccounted
<1>. QED BY <1>2

\* Nothing happens on the other VMs: dead rows stay dead.
LEMMA GentleElsewhere ==
    ASSUME TypeInv, Elsewhere, Gentle, born \subseteq born',
           \A v \in VmIds \ {Home} : ~files'[v] /\ ~job'[v].busy /\ delayed'[v] = {},
           \A v \in VmIds \ {Home} : \A t \in Elems(queue'[v]) :
               t \in Elems(queue[v]) \/ (t.kind = "setup" /\ t.account \in Accounts /\ Dead(t.account))
    PROVE  Elsewhere'
<1>1. ASSUME NEW v \in VmIds \ {Home}, NEW t \in Elems(queue'[v])
      PROVE  t.kind = "setup" /\ t.account \in born' /\ ~IsLive(row'[t.account])
  <2>1. t.kind = "setup" /\ t.account \in Accounts /\ Dead(t.account)
    BY CalmTypes DEF Elsewhere
  <2>2. t.account \in born /\ ~IsLive(row[t.account])
    BY <2>1 DEF Dead
  <2>. QED BY <2>1, <2>2, GentleIsLive
<1>. QED BY <1>1 DEF Elsewhere, Dead

\* The folder stays with the setup that runs.
LEMMA GentleWorker ==
    ASSUME TypeInv, WorkerAtHome, Gentle, files'[Home] = files[Home],
           job'[Home] = job[Home] \/ ~job'[Home].busy
    PROVE  WorkerAtHome'
<1>. SUFFICES ASSUME job'[Home].busy
              PROVE  \/ /\ job'[Home].task.kind = "setup"
                        /\ files'[Home] /\ IsAccounted(row'[job'[Home].task.account])
                     \/ job'[Home].task.kind = "cleanup" /\ ~files'[Home]
  BY DEF WorkerAtHome
<1>1. job'[Home] = job[Home]
  OBVIOUS
<1>2. CASE job[Home].task.kind = "setup"
  <2>. DEFINE a == job[Home].task.account
  <2>1. a \in Accounts
    BY <1>2, HomeIsTarget, JobTypes DEF SetupTasks
  <2>2. files[Home] /\ IsAccounted(row[a])
    BY <1>1, <1>2 DEF WorkerAtHome
  <2>3. IsAccounted(row'[a])
    BY <2>1, <2>2 DEF Gentle, IsAccounted
  <2>. QED BY <1>1, <1>2, <2>2, <2>3
<1>3. CASE job[Home].task.kind # "setup"
  BY <1>1, <1>3 DEF WorkerAtHome
<1>. QED BY <1>2, <1>3

\* Rows of the linked account are engaged only by what engaged them before.
LEMMA GentleOrder ==
    ASSUME TypeInv, InOrder, Gentle, NoCleanup(queue[Home]) => NoCleanup(queue'[Home]),
           \A a \in Accounts : Ordered(queue[Home], a) => Ordered(queue'[Home], a),
           job'[Home] = job[Home] \/ ~job'[Home].busy,
           \A t \in delayed'[Home] : t \in delayed[Home] \/ SettingUp(t.account)
    PROVE  InOrder'
<1>. SUFFICES ASSUME NEW a \in Accounts, IsLive(row'[a])
              PROVE  Ordered(queue'[Home], a) /\ (Engaged(a)' => NoCleanup(queue'[Home]))
  BY DEF InOrder
<1>1. IsLive(row[a])
  BY GentleIsLive
<1>2. Ordered(queue'[Home], a)
  BY <1>1 DEF InOrder
<1>3. ASSUME Engaged(a)' PROVE NoCleanup(queue'[Home])
  <2>1. SettingUp(a)' => SettingUp(a)
    BY DEF SettingUp, InSetup
  <2>2. row'[a].paths => row[a].paths \/ SettingUp(a)
    BY DEF Gentle, IsLive
  <2>3. Engaged(a)
    BY <1>3, <2>1, <2>2 DEF Engaged
  <2>. QED BY <1>1, <2>3 DEF InOrder
<1>. QED BY <1>2, <1>3

\* Setups that are sent or begun name rows that were born.
LEMMA StillBorn ==
    ASSUME SetupsAreBorn, born \subseteq born',
           \A v \in VmIds : \A t \in Elems(queue'[v]) :
               t \in Elems(queue[v]) \/ t.kind = "cleanup" \/ t.account \in born',
           \A v \in VmIds : \A t \in delayed'[v] : t \in delayed[v] \/ t.account \in born',
           \A v \in VmIds : job'[v] = job[v] \/ ~job'[v].busy \/ job'[v].task.kind = "cleanup"
                               \/ job'[v].task.account \in born'
    PROVE  SetupsAreBorn'
<1>1. \A v \in VmIds : \A t \in Elems(queue'[v]) : t.kind = "setup" => t.account \in born'
  BY DEF SetupsAreBorn
<1>2. \A v \in VmIds : \A t \in delayed'[v] : t.account \in born'
  BY DEF SetupsAreBorn
<1>3. \A v \in VmIds : InSetup(v)' => job'[v].task.account \in born'
  BY DEF SetupsAreBorn, InSetup
<1>. QED BY <1>1, <1>2, <1>3 DEF SetupsAreBorn

\* Steps that are not a request's leave requests and the link of rows alone.
LEMMA MildRequests ==
    ASSUME TypeInv, CalmRequests, Mild
    PROVE  CalmRequests'
<1>1. web' = web
  BY DEF Mild
<1>2. \A a \in Accounts : IsLive(row'[a]) <=> IsLive(row[a])
  BY DeletedAssumption DEF Mild, Exists, Keeps, IsLive
<1>3. ASSUME NEW w \in Sessions, web[w] # NoSession
      PROVE  /\ CalmRequest(web[w])
             /\ web[w].step = "load" => IsLive(row'[web[w].account])
             /\ web[w].step = "saved" /\ web[w].op = "unlink" => \A a \in Accounts : ~IsLive(row'[a])
  <2>1. web[w].account \in Accounts
    BY <1>3, RequestType
  <2>. QED BY <1>2, <1>3, <2>1 DEF CalmRequests
<1>. QED BY <1>1, <1>3 DEF CalmRequests

\* A step that only ends things keeps all parts.
LEMMA QuietStep ==
    ASSUME TypeInv, CalmParts, Mild, Gentle, UNCHANGED files, JobsEnd, DelaysEnd,
           \A v \in VmIds : Quiet(v), queue' \in [VmIds -> Seq(Safe)]
    PROVE  CalmParts'
<1>. USE HomeIsTarget
<1>0. born' = born
  BY DEF Mild
<1>1. \A v \in VmIds : \A t \in delayed'[v] : t \in delayed[v] \/ t.account \in born
  BY DEF DelaysEnd, CalmParts, SetupsAreBorn
<1>2. Elsewhere'
  <2>1. \A v \in VmIds \ {Home} : ~files'[v] /\ ~job'[v].busy /\ delayed'[v] = {}
    BY DEF CalmParts, Elsewhere, JobsEnd, DelaysEnd, InSetup
  <2>2. ASSUME NEW v \in VmIds \ {Home}, NEW t \in Elems(queue'[v])
        PROVE  t \in Elems(queue[v]) \/ (t.kind = "setup" /\ t.account \in Accounts /\ Dead(t.account))
    <3>1. v \in VmIds /\ Quiet(v)
      OBVIOUS
    <3>2. t.kind = "setup" => t.account \in Accounts
      BY <3>1, SafeElems
    <3>3. t \in Elems(queue[v]) \/ (t.kind = "setup" /\ Dead(t.account))
      BY <3>1 DEF Quiet
    <3>. QED BY <3>2, <3>3
  <2>. QED BY <1>0, <2>1, <2>2, GentleElsewhere DEF CalmParts
<1>3. RowsAtHome'
  BY GentleRows DEF CalmParts
<1>4. CalmRequests'
  BY MildRequests DEF CalmParts
<1>5. WorkerAtHome'
  BY GentleWorker DEF CalmParts, JobsEnd
<1>6. FolderAccounted'
  BY GentleFolder DEF CalmParts
<1>7. InOrder'
  <2>1. NoCleanup(queue[Home]) => NoCleanup(queue'[Home])
    BY DEF Quiet
  <2>2. \A a \in Accounts : Ordered(queue[Home], a) => Ordered(queue'[Home], a)
    BY DEF Quiet
  <2>. QED BY <2>1, <2>2, GentleOrder DEF CalmParts, JobsEnd, DelaysEnd, SettingUp
<1>8. SetupsAreBorn'
  <2>1. \A v \in VmIds : \A t \in Elems(queue'[v]) : t \in Elems(queue[v]) \/ t.account \in born
    BY DEF Quiet, Dead
  <2>2. \A v \in VmIds : job'[v] = job[v] \/ ~job'[v].busy
    BY DEF JobsEnd
  <2>. QED BY <1>0, <1>1, <2>1, <2>2, StillBorn DEF CalmParts
<1>. QED BY <1>2, <1>3, <1>4, <1>5, <1>6, <1>7, <1>8 DEF CalmParts

-----------------------------------------------------------------------------
(* A calm history: the worker *)

\* Queues that stay as they are, and those a task is taken from.
LEMMA SameQueue == ASSUME NEW v, queue'[v] = queue[v] PROVE Quiet(v)
BY DEF Quiet

LEMMA TakeQuiet ==
    ASSUME TypeInv, NEW v \in VmIds, NEW t, Take(v, t)
    PROVE  /\ \A x \in VmIds : Quiet(x) /\ delayed'[x] \subseteq delayed[x]
           /\ t \in delayed[v] \/ (queue[v] # <<>> /\ t = Head(queue[v]) /\ t \in Elems(queue[v]))
<1>. USE CalmTypes
<1>1. \A x \in VmIds \ {v} : queue'[x] = queue[x] /\ delayed'[x] = delayed[x]
  BY DEF Take, TypeInv, TypeOK
<1>2. \A x \in VmIds \ {v} : Quiet(x) /\ delayed'[x] \subseteq delayed[x]
  BY <1>1, SameQueue
<1>3. CASE queue[v] # <<>> /\ t = Head(queue[v]) /\ queue' = [queue EXCEPT ![v] = Tail(@)]
           /\ UNCHANGED delayed
  <2>1. queue'[v] = Tail(queue[v])
    BY <1>3 DEF TypeInv, TypeOK
  <2>2. Quiet(v) /\ t \in Elems(queue[v])
    BY <1>3, <2>1, TailKeeps DEF Quiet
  <2>. QED BY <1>2, <1>3, <2>2
<1>4. CASE t \in delayed[v] /\ delayed' = [delayed EXCEPT ![v] = @ \ {t}] /\ UNCHANGED queue
  <2>1. queue'[v] = queue[v] /\ delayed'[v] \subseteq delayed[v]
    BY <1>4 DEF TypeInv, TypeOK
  <2>. QED BY <1>2, <1>4, <2>1, SameQueue
<1>. QED BY <1>3, <1>4 DEF Take

\* A row that does not change.
LEMMA SameRows == ASSUME row' = row PROVE Gentle
BY DEF Gentle

\* One row changes gently.
LEMMA OneGentle ==
    ASSUME TypeInv, NEW a \in Accounts, row[a] # Deleted, NEW d \in Columns,
           row' = [row EXCEPT ![a] = d], d.vm \in {row[a].vm, NoVm, Home},
           d.owned => row[a].owned /\ HasCredentials(d),
           d.owned /\ d.paths => row[a].paths \/ SettingUp(a),
           IsAccounted(row[a]) /\ files[Home] => d.owned \/ d.mark # 0
    PROVE  Gentle
<1>1. \A b \in Accounts : row'[b] = IF b = a THEN d ELSE row[b]
  BY DEF TypeInv, TypeOK
<1>2. d # Deleted
  BY DeletedAssumption
<1>. QED BY <1>1, <1>2 DEF Gentle

\* A linked row has a password, so only dead rows refuse to be set up.
LEMMA LinkedCanBeSetUp ==
    ASSUME TypeInv, LinkInv, RowsAtHome, NEW a \in Accounts, Exists(a)
    PROVE  CanSetup(a) <=> row[a].owned
<1>1. row[a].owned => row[a].mark = 0
  BY DEF LinkInv, TombstoneIsBare
<1>2. row[a].owned => HasCredentials(row[a])
  BY DEF RowsAtHome, IsLive, Exists
<1>. QED BY <1>1, <1>2 DEF CanSetup

\* A setup in progress, and a cleanup, is on the first VM.
LEMMA BusyAtHome ==
    ASSUME Elsewhere, NEW v \in VmIds, job[v].busy
    PROVE  v = Home
BY DEF Elsewhere

\* The worker leaves its job.
LEMMA LeaveEnds ==
    ASSUME TypeInv, NEW v \in VmIds, Leave(v)
    PROVE  JobsEnd
<1>1. \A x \in VmIds : job'[x] = IF x = v THEN NoJob ELSE job[x]
  BY DEF Leave, TypeInv, TypeOK
<1>2. NoJob.busy = FALSE
  BY DEF NoJob
<1>. QED BY <1>1, <1>2 DEF JobsEnd

\* A setup that begins: its row is the linked one, and the cleanups that wait
\* were queued behind no setup of it.
LEMMA BeginSetupCalm ==
    ASSUME TypeInv, LinkInv, CalmParts, NEW v \in VmIds, NEW t, BeginSetup(v, t), Mild,
           queue' \in [VmIds -> Seq(Safe)]
    PROVE  CalmParts'
<1>. USE HomeIsTarget
<1>. DEFINE a == t.account
<1>1. /\ t.kind = "setup" /\ Take(v, t) /\ Exists(a) /\ CanSetup(a)
      /\ files' = [files EXCEPT ![v] = TRUE]
      /\ job' = [job EXCEPT ![v] = [busy |-> TRUE, task |-> t, old |-> row[a]]]
      /\ row' = row /\ born' = born
  BY DEF BeginSetup
<1>2. t \in SetupTasks /\ a \in Accounts /\ a \in born
  <2>1. t \in Safe
    BY <1>1, TakeType
  <2>2. t \in SetupTasks /\ a \in Accounts
    BY <1>1, <2>1, Kinds DEF SetupTasks
  <2>. QED BY <1>1, <2>2, CalmTypes DEF Exists
<1>3. IsLive(row[a]) /\ ~Dead(a)
  BY <1>1 DEF CanSetup, Exists, IsLive, Dead
<1>4. v = Home
  BY <1>1, <1>3, TakeQuiet DEF CalmParts, Elsewhere
<1>5. /\ files'[Home] /\ job'[Home] = [busy |-> TRUE, task |-> t, old |-> row[a]]
      /\ \A x \in VmIds \ {Home} : files'[x] = files[x] /\ job'[x] = job[x]
  BY <1>1, <1>4 DEF TypeInv, TypeOK
<1>6. Gentle
  BY <1>1, SameRows
<1>7. \A x \in VmIds : Quiet(x) /\ delayed'[x] \subseteq delayed[x]
  BY <1>1, TakeQuiet
<1>8. Elsewhere'
  <2>1. ASSUME NEW x \in VmIds \ {Home}, NEW u \in Elems(queue'[x])
        PROVE  u \in Elems(queue[x]) \/ (u.kind = "setup" /\ u.account \in Accounts /\ Dead(u.account))
    <3>1. u.kind = "setup" => u.account \in Accounts
      BY SafeElems
    <3>. QED BY <1>7, <3>1 DEF Quiet
  <2>2. \A x \in VmIds \ {Home} : ~files'[x] /\ ~job'[x].busy /\ delayed'[x] = {}
    BY <1>5, <1>7 DEF CalmParts, Elsewhere
  <2>. QED BY <1>1, <1>6, <2>1, <2>2, GentleElsewhere DEF CalmParts
<1>9. RowsAtHome'
  BY <1>5, <1>6, GentleRows DEF CalmParts
<1>10. CalmRequests'
  BY MildRequests DEF CalmParts
<1>11. WorkerAtHome'
  BY <1>1, <1>3, <1>5 DEF WorkerAtHome, IsLive, IsAccounted
<1>12. FolderAccounted'
  BY <1>1, <1>2, <1>3 DEF FolderAccounted, IsLive, IsAccounted
<1>13. InOrder'
  <2>. SUFFICES ASSUME NEW b \in Accounts, IsLive(row'[b])
                PROVE  Ordered(queue'[Home], b) /\ NoCleanup(queue'[Home])
    BY DEF InOrder
  <2>1. b = a
    BY <1>1, <1>2, <1>3 DEF CalmParts, RowsAtHome
  <2>2. Ordered(queue[Home], a) /\ (Engaged(a) => NoCleanup(queue[Home]))
    BY <1>2, <1>3 DEF CalmParts, InOrder
  <2>3. Ordered(queue'[Home], a)
    BY <1>2, <1>7, <2>2 DEF Quiet
  <2>4. NoCleanup(queue'[Home])
    <3>1. CASE t \in delayed[Home]
      BY <1>7, <2>2, <3>1 DEF Engaged, Quiet
    <3>2. CASE queue[Home] # <<>> /\ t = Head(queue[Home]) /\ queue' = [queue EXCEPT ![Home] = Tail(@)]
      <4>1. queue'[Home] = Tail(queue[Home]) /\ queue[Home] \in Seq(Tasks)
        BY <3>2, CalmTypes DEF TypeInv, TypeOK
      <4>. QED BY <1>1, <1>2, <2>2, <3>2, <4>1, TailKeeps
    <3>. QED BY <1>1, <1>4, <3>1, <3>2 DEF Take
  <2>. QED BY <2>1, <2>3, <2>4
<1>14. SetupsAreBorn'
  <2>1. \A x \in VmIds : \A u \in Elems(queue'[x]) : u \in Elems(queue[x]) \/ u.account \in born'
    BY <1>1, <1>7 DEF Quiet, Dead
  <2>2. \A x \in VmIds : job'[x] = job[x] \/ job'[x].task.account \in born'
    BY <1>1, <1>2, <1>5
  <2>. QED BY <1>1, <1>7, <2>1, <2>2, StillBorn DEF CalmParts
<1>. QED BY <1>8, <1>9, <1>10, <1>11, <1>12, <1>13, <1>14 DEF CalmParts

\* A cleanup that begins: it was in the queue, so the linked account has no
\* folder, no delayed setup and none in progress.
LEMMA BeginCleanupCalm ==
    ASSUME TypeInv, CalmParts, NEW v \in VmIds, NEW t, BeginCleanup(v, t), Mild,
           queue' \in [VmIds -> Seq(Safe)]
    PROVE  CalmParts'
<1>. USE HomeIsTarget
<1>1. /\ t.kind = "cleanup" /\ Take(v, t)
      /\ files' = [files EXCEPT ![v] = FALSE]
      /\ job' = [job EXCEPT ![v] = [busy |-> TRUE, task |-> t, old |-> NewRow]]
      /\ row' = row /\ born' = born
  BY DEF BeginCleanup
<1>2. t \in Elems(queue[v])
  <2>1. \A u \in delayed[v] : u.kind = "setup"
    BY CalmTypes
  <2>. QED BY <1>1, <2>1, TakeQuiet
<1>3. v = Home
  BY <1>1, <1>2 DEF CalmParts, Elsewhere
<1>4. /\ ~files'[Home] /\ job'[Home] = [busy |-> TRUE, task |-> t, old |-> NewRow]
      /\ \A x \in VmIds \ {Home} : files'[x] = files[x] /\ job'[x] = job[x]
  BY <1>1, <1>3 DEF TypeInv, TypeOK
<1>5. Gentle
  BY <1>1, SameRows
<1>6. \A x \in VmIds : Quiet(x) /\ delayed'[x] \subseteq delayed[x]
  BY <1>1, TakeQuiet
<1>7. ASSUME NEW a \in Accounts, IsLive(row[a]) PROVE ~Engaged(a)
  BY <1>1, <1>2, <1>3, <1>7 DEF CalmParts, InOrder, NoCleanup
<1>8. Elsewhere'
  <2>1. ASSUME NEW x \in VmIds \ {Home}, NEW u \in Elems(queue'[x])
        PROVE  u \in Elems(queue[x]) \/ (u.kind = "setup" /\ u.account \in Accounts /\ Dead(u.account))
    <3>1. u.kind = "setup" => u.account \in Accounts
      BY SafeElems
    <3>. QED BY <1>6, <3>1 DEF Quiet
  <2>2. \A x \in VmIds \ {Home} : ~files'[x] /\ ~job'[x].busy /\ delayed'[x] = {}
    BY <1>4, <1>6 DEF CalmParts, Elsewhere
  <2>. QED BY <1>1, <1>5, <2>1, <2>2, GentleElsewhere DEF CalmParts
<1>9. RowsAtHome'
  <2>1. \A a \in Accounts : IsLive(row[a]) => ~row[a].paths
    BY <1>7 DEF Engaged
  <2>. QED BY <1>1, <2>1 DEF CalmParts, RowsAtHome
<1>10. CalmRequests'
  BY MildRequests DEF CalmParts
<1>11. WorkerAtHome'
  BY <1>1, <1>4 DEF WorkerAtHome
<1>12. FolderAccounted'
  BY <1>4 DEF FolderAccounted
<1>13. InOrder'
  <2>. SUFFICES ASSUME NEW a \in Accounts, IsLive(row'[a])
                PROVE  Ordered(queue'[Home], a) /\ ~Engaged(a)'
    BY DEF InOrder
  <2>1. IsLive(row[a]) /\ ~Engaged(a)
    BY <1>1, <1>7
  <2>2. ~SettingUp(a)'
    BY <1>1, <1>4 DEF SettingUp, InSetup
  <2>3. ~Engaged(a)'
    BY <1>1, <1>6, <2>1, <2>2 DEF Engaged
  <2>. QED BY <1>6, <2>1, <2>3 DEF CalmParts, InOrder, Quiet
<1>14. SetupsAreBorn'
  <2>1. \A x \in VmIds : \A u \in Elems(queue'[x]) : u \in Elems(queue[x]) \/ u.account \in born'
    BY <1>1, <1>6 DEF Quiet, Dead
  <2>2. \A x \in VmIds : job'[x] = job[x] \/ job'[x].task.kind = "cleanup"
    BY <1>1, <1>4
  <2>. QED BY <1>1, <1>6, <2>1, <2>2, StillBorn DEF CalmParts
<1>. QED BY <1>8, <1>9, <1>10, <1>11, <1>12, <1>13, <1>14 DEF CalmParts

\* A task that is dropped changes nothing else.
LEMMA DropTaskCalm ==
    ASSUME TypeInv, CalmParts, NEW v \in VmIds, NEW t, SkipSetup(v, t) \/ CleanupFails(v, t), Mild,
           queue' \in [VmIds -> Seq(Safe)]
    PROVE  CalmParts'
<1>1. Take(v, t) /\ UNCHANGED <<row, files, job>>
  BY DEF SkipSetup, CleanupFails
<1>2. Gentle /\ JobsEnd /\ DelaysEnd /\ \A x \in VmIds : Quiet(x)
  BY <1>1, SameRows, TakeQuiet DEF JobsEnd, DelaysEnd
<1>. QED BY <1>1, <1>2, QuietStep

\* A setup that is refused is one of a dead row; so is the one it fails over to.
LEMMA RefuseSetupCalm ==
    ASSUME TypeInv, LinkInv, CalmParts, NEW v \in VmIds, NEW t \in Safe, RefuseSetup(v, t), Mild,
           queue' \in [VmIds -> Seq(Safe)]
    PROVE  CalmParts'
<1>. DEFINE a == t.account
            queued == queue[v] # <<>> /\ t = Head(queue[v])
            q == IF queued THEN [queue EXCEPT ![v] = Tail(@)] ELSE queue
            next == NextVm(t.attempt)
            u == Setup(a, TRUE, t.attempt + 1, 0)
<1>1. /\ t.kind = "setup" /\ Exists(a) /\ ~CanSetup(a) /\ UNCHANGED <<files, job>>
      /\ queued \/ t \in delayed[v]
      /\ delayed' = IF queued THEN delayed ELSE [delayed EXCEPT ![v] = @ \ {t}]
      /\ IF FailsOver(t) THEN Failover(v, t, q, FALSE) ELSE queue' = q /\ UNCHANGED <<row, calm>>
  BY DEF RefuseSetup
<1>2. a \in Accounts /\ t.attempt \in Nat /\ row[a] \in Columns /\ a \in born
  BY <1>1, Kinds, CalmTypes DEF SetupTasks, Exists
<1>3. ~row[a].owned /\ Dead(a)
  BY <1>1, <1>2, LinkedCanBeSetUp DEF CalmParts, Dead, IsLive
<1>4. Gentle
  <2>1. CASE FailsOver(t)
    <3>. DEFINE d == [row[a] EXCEPT !.paths = FALSE, !.vm = NoVm]
    <3>1. row' = [row EXCEPT ![a] = d]
      BY <1>1, <2>1 DEF Failover
    <3>2. d \in Columns /\ ~d.owned /\ d.vm = NoVm /\ d.mark = row[a].mark
      BY <1>2, <1>3 DEF Columns
    <3>3. IsAccounted(row[a]) => d.mark # 0
      BY <1>3, <3>2 DEF IsAccounted
    <3>. HIDE DEF d
    <3>. QED BY <1>1, <1>2, <3>1, <3>2, <3>3, OneGentle DEF Exists
  <2>2. CASE ~FailsOver(t)
    BY <1>1, <2>2, SameRows
  <2>. QED BY <2>1, <2>2
<1>5. \A x \in VmIds : /\ q[x] \in Seq(Tasks) /\ \A y \in Elems(q[x]) : y \in Elems(queue[x])
                       /\ NoCleanup(queue[x]) => NoCleanup(q[x])
                       /\ \A b \in Accounts : Ordered(queue[x], b) => Ordered(q[x], b)
  <2>1. CASE queued
    <3>1. \A x \in VmIds : q[x] = IF x = v THEN Tail(queue[v]) ELSE queue[x]
      BY <2>1 DEF TypeInv, TypeOK
    <3>2. queue[v] \in Seq(Tasks) /\ Tail(queue[v]) \in Seq(Tasks)
      BY <2>1, CalmTypes
    <3>. HIDE DEF q
    <3>. QED BY <2>1, <3>1, <3>2, CalmTypes, TailKeeps
  <2>2. CASE ~queued
    BY <2>2, CalmTypes
  <2>. QED BY <2>1, <2>2
<1>6. \A x \in VmIds : Quiet(x)
  <2>1. CASE FailsOver(t)
    <3>1. next \in VmIds
      BY <1>2, <2>1, VmTypes DEF FailsOver
    <3>2. u \in Tasks /\ u.kind = "setup" /\ u.account = a
      <4>1. t.attempt + 1 \in Nat /\ 0 \in 0 .. MaxRetries
        BY <1>2, LifecycleAssumption
      <4>. QED BY <1>2, <4>1, TaskTypes, SafeTasks DEF Setup, Tasks
    <3>3. queue' = [q EXCEPT ![next] = Append(@, u)]
      BY <1>1, <2>1 DEF Failover
    <3>4. q \in [VmIds -> Seq(Tasks)]
      <4>1. DOMAIN q = VmIds /\ q = [x \in VmIds |-> q[x]]
        BY DEF TypeInv, TypeOK
      <4>. HIDE DEF q
      <4>. QED BY <1>5, <4>1
    <3>. HIDE DEF q, u, next
    <3>5. \A x \in VmIds : queue'[x] = IF x = next THEN Append(q[x], u) ELSE q[x]
      BY <3>1, <3>3, <3>4
    <3>6. ASSUME NEW x \in VmIds PROVE Quiet(x)
      <4>1. CASE x = next
        <5>1. queue'[x] = Append(q[x], u) /\ q[x] \in Seq(Tasks)
          BY <1>5, <3>5, <4>1
        <5>2. \A y \in Elems(queue'[x]) : y \in Elems(q[x]) \/ y = u
          BY <3>2, <5>1, AppendKeeps
        <5>3. NoCleanup(q[x]) => NoCleanup(queue'[x])
          BY <3>2, <5>1, AppendKeeps
        <5>4. \A b \in Accounts : Ordered(q[x], b) => Ordered(queue'[x], b)
          BY <3>2, <5>1, AppendKeeps
        <5>. QED BY <1>3, <1>5, <3>2, <5>2, <5>3, <5>4 DEF Quiet
      <4>2. CASE x # next
        BY <1>5, <3>5, <4>2 DEF Quiet
      <4>. QED BY <4>1, <4>2
    <3>. QED BY <3>6
  <2>2. CASE ~FailsOver(t)
    <3>1. queue' = q
      BY <1>1, <2>2
    <3>. HIDE DEF q
    <3>. QED BY <1>5, <3>1 DEF Quiet
  <2>. QED BY <2>1, <2>2
<1>7. JobsEnd
  BY <1>1 DEF JobsEnd
<1>8. DelaysEnd
  <2>1. \A x \in VmIds : delayed'[x] \subseteq delayed[x]
    BY <1>1 DEF TypeInv, TypeOK
  <2>. QED BY <2>1 DEF DelaysEnd
<1>. QED BY <1>1, <1>4, <1>6, <1>7, <1>8, QuietStep

\* A setup that finishes was engaged, and its folder is there.
LEMMA FinishSetupCalm ==
    ASSUME TypeInv, CalmParts, NEW v \in VmIds, FinishSetup(v), Mild,
           queue' \in [VmIds -> Seq(Safe)]
    PROVE  CalmParts'
<1>. DEFINE a == job[v].task.account
            old == job[v].old
            new == [old EXCEPT !.paths = TRUE, !.active = TRUE, !.status = "connected", !.vm = v]
            d == Written(row[a], old, new)
<1>1. a \in Accounts /\ old \in Columns
  BY JobTypes DEF FinishSetup, InSetup, SetupTasks
<1>2. row[a] \in Columns /\ row[a] # Deleted /\ row' = [row EXCEPT ![a] = d] /\ InSetup(v)
  BY <1>1 DEF FinishSetup, Exists, TypeInv, TypeOK
<1>3. /\ new \in Columns /\ new.owned = old.owned /\ new.mark = old.mark /\ new.password = old.password
      /\ new.vm = v
  BY <1>1 DEF Columns, Statuses
<1>4. d \in Columns /\ d.owned = row[a].owned /\ d.mark = row[a].mark /\ d.password = row[a].password
      /\ d.vm \in {row[a].vm, v}
  <2>1. d \in Columns
    BY <1>1, <1>2, <1>3, WrittenType
  <2>2. d.owned = row[a].owned /\ d.mark = row[a].mark /\ d.password = row[a].password
    BY <1>3 DEF Written
  <2>3. d.vm \in {row[a].vm, v}
    BY <1>3 DEF Written
  <2>. QED BY <2>1, <2>2, <2>3
<1>5. v = Home
  BY <1>2, BusyAtHome DEF CalmParts, InSetup
<1>6. SettingUp(a)
  BY <1>2, <1>5 DEF SettingUp
<1>7. d.owned => HasCredentials(d)
  BY <1>1, <1>2, <1>4 DEF CalmParts, RowsAtHome, IsLive, HasCredentials
<1>8. IsAccounted(row[a]) => d.owned \/ d.mark # 0
  BY <1>4 DEF IsAccounted
<1>9. Leave(v) /\ UNCHANGED <<files, queue, delayed>>
  BY DEF FinishSetup
<1>. HIDE DEF a, d
<1>10. Gentle
  BY <1>1, <1>2, <1>4, <1>5, <1>6, <1>7, <1>8, OneGentle
<1>11. JobsEnd /\ DelaysEnd /\ \A x \in VmIds : Quiet(x)
  BY <1>9, LeaveEnds, SameQueue DEF DelaysEnd
<1>. QED BY <1>9, <1>10, <1>11, QuietStep

\* The status of a row is of no matter.
LEMMA StatusGentle ==
    ASSUME TypeInv, RowsAtHome, NEW a \in Accounts, NEW s \in Statuses,
           row' = IF Exists(a) THEN [row EXCEPT ![a].status = s] ELSE row
    PROVE  Gentle
<1>1. CASE Exists(a)
  <2>. DEFINE d == [row[a] EXCEPT !.status = s]
  <2>1. row[a] \in Columns /\ row[a] # Deleted
    BY <1>1 DEF TypeInv, TypeOK, Exists
  <2>2. d \in Columns /\ d.owned = row[a].owned /\ d.mark = row[a].mark /\ d.password = row[a].password
        /\ d.vm = row[a].vm /\ d.paths = row[a].paths
    BY <2>1 DEF Columns
  <2>3. row' = [row EXCEPT ![a] = d]
    BY <1>1
  <2>. HIDE DEF d
  <2>4. d.owned => HasCredentials(d)
    BY <2>1, <2>2 DEF RowsAtHome, IsLive, HasCredentials
  <2>5. IsAccounted(row[a]) => d.owned \/ d.mark # 0
    BY <2>2 DEF IsAccounted
  <2>6. d.vm \in {row[a].vm, NoVm, Home} /\ (d.owned => row[a].owned) /\ (d.paths => row[a].paths)
    BY <2>2
  <2>. QED BY <2>1, <2>2, <2>3, <2>4, <2>5, <2>6, OneGentle
<1>2. CASE ~Exists(a)
  BY <1>2, SameRows
<1>. QED BY <1>1, <1>2

\* A setup that fails is delayed or given up; failing over ends the calm history.
LEMMA SetupErrorCalm ==
    ASSUME TypeInv, CalmParts, NEW v \in VmIds, NEW eligible \in BOOLEAN, SetupError(v, eligible), Mild,
           queue' \in [VmIds -> Seq(Safe)], calm'
    PROVE  CalmParts'
<1>. DEFINE t == job[v].task
<1>1. InSetup(v) /\ Leave(v) /\ UNCHANGED files
  BY DEF SetupError
<1>2. t \in SetupTasks /\ t.account \in Accounts
  BY <1>1, JobTypes DEF InSetup, SetupTasks
<1>3. JobsEnd
  BY <1>1, LeaveEnds
<1>4. Gentle /\ DelaysEnd /\ UNCHANGED queue
  <2>1. CASE t.tries < MaxRetries
    <3>. DEFINE u == [t EXCEPT !.tries = @ + 1]
    <3>1. delayed' = [delayed EXCEPT ![v] = @ \cup {u}] /\ UNCHANGED <<row, queue>>
      BY <2>1 DEF SetupError
    <3>2. u.account = t.account
      BY <1>2 DEF SetupTasks
    <3>3. \A x \in VmIds : delayed'[x] = IF x = v THEN delayed[v] \cup {u} ELSE delayed[x]
      BY <3>1 DEF TypeInv, TypeOK
    <3>. HIDE DEF u
    <3>. QED BY <1>1, <3>1, <3>2, <3>3, SameRows DEF DelaysEnd
  <2>2. CASE ~(t.tries < MaxRetries) /\ ~(FailsOver(t) /\ eligible)
    <3>1. /\ row' = IF Exists(t.account) THEN [row EXCEPT ![t.account].status = "failed"] ELSE row
          /\ UNCHANGED <<queue, delayed>>
      BY <2>2 DEF SetupError
    <3>2. "failed" \in Statuses
      BY DEF Statuses
    <3>. QED BY <1>2, <3>1, <3>2, StatusGentle DEF CalmParts, DelaysEnd
  <2>3. CASE ~(t.tries < MaxRetries) /\ FailsOver(t) /\ eligible
    <3>1. Failover(v, t, queue, TRUE)
      BY <2>3 DEF SetupError
    <3>. QED BY <3>1 DEF Failover
  <2>. QED BY <2>1, <2>2, <2>3
<1>5. \A x \in VmIds : Quiet(x)
  BY <1>4, SameQueue
<1>. QED BY <1>1, <1>3, <1>4, <1>5, QuietStep

\* A permanent error after the folder was created.
LEMMA SetupRefusedCalm ==
    ASSUME TypeInv, CalmParts, NEW v \in VmIds, SetupRefused(v), Mild,
           queue' \in [VmIds -> Seq(Safe)], calm'
    PROVE  CalmParts'
<1>. DEFINE t == job[v].task
<1>1. InSetup(v) /\ Leave(v) /\ UNCHANGED <<files, delayed>>
  BY DEF SetupRefused
<1>2. CASE FailsOver(t)
  <2>1. Failover(v, t, queue, TRUE)
    BY <1>2 DEF SetupRefused
  <2>. QED BY <2>1 DEF Failover
<1>3. CASE ~FailsOver(t)
  <2>1. UNCHANGED <<row, queue>>
    BY <1>3 DEF SetupRefused
  <2>2. Gentle /\ JobsEnd /\ DelaysEnd /\ \A x \in VmIds : Quiet(x)
    BY <1>1, <2>1, SameRows, SameQueue, LeaveEnds DEF DelaysEnd
  <2>. QED BY <1>1, <2>2, QuietStep
<1>. QED BY <1>2, <1>3

\* A cleanup that finishes clears the mark of a dead row whose folder is gone.
LEMMA FinishCleanupCalm ==
    ASSUME TypeInv, LinkInv, CalmParts, NEW v \in VmIds, FinishCleanup(v), Mild,
           queue' \in [VmIds -> Seq(Safe)]
    PROVE  CalmParts'
<1>. DEFINE t == job[v].task
            a == t.account
            d == [row[a] EXCEPT !.paths = FALSE, !.active = FALSE, !.mark = 0]
<1>1. job[v].busy /\ t.kind = "cleanup" /\ Leave(v) /\ UNCHANGED <<files, queue, delayed>>
  BY DEF FinishCleanup
<1>2. v = Home /\ ~files[Home]
  BY <1>1, BusyAtHome DEF CalmParts, WorkerAtHome
<1>3. t \in CleanupTasks /\ t \in Safe
  BY <1>1, JobTypes, Kinds
<1>4. a \in Accounts \cup {NoAccount} /\ (t.delete => a = NoAccount)
  BY <1>1, <1>3 DEF CleanupTasks, Safe
<1>5. Gentle
  <2>1. CASE a # NoAccount /\ Exists(a) /\ t.clear /\ row[a].mark # 0 /\ row[a].mark = t.token
    <3>1. a \in Accounts /\ ~t.delete
      BY <1>4, <2>1
    <3>2. row[a] \in Columns /\ row[a] # Deleted /\ ~row[a].owned
      BY <2>1, <3>1 DEF TypeInv, TypeOK, Exists, LinkInv, TombstoneIsBare
    <3>3. d \in Columns /\ ~d.owned /\ d.vm = row[a].vm
      BY <3>2 DEF Columns
    <3>4. row' = [row EXCEPT ![a] = d]
      BY <2>1, <3>1 DEF FinishCleanup
    <3>. HIDE DEF d
    <3>. QED BY <1>2, <3>1, <3>2, <3>3, <3>4, OneGentle
  <2>2. CASE ~(a # NoAccount /\ Exists(a) /\ t.clear /\ row[a].mark # 0 /\ row[a].mark = t.token)
    <3>1. row' = row
      BY <1>4, <2>2 DEF FinishCleanup
    <3>. QED BY <3>1, SameRows
  <2>. QED BY <2>1, <2>2
<1>6. JobsEnd /\ DelaysEnd /\ \A x \in VmIds : Quiet(x)
  BY <1>1, LeaveEnds, SameQueue DEF DelaysEnd
<1>. QED BY <1>1, <1>5, <1>6, QuietStep

\* A worker that dies, and a sync that repairs a status.
LEMMA WorkerDiesCalm ==
    ASSUME TypeInv, CalmParts, NEW v \in VmIds, WorkerDies(v), Mild, queue' \in [VmIds -> Seq(Safe)]
    PROVE  CalmParts'
<1>1. Leave(v) /\ UNCHANGED <<row, files, queue, delayed>>
  BY DEF WorkerDies
<1>2. Gentle /\ JobsEnd /\ DelaysEnd /\ \A x \in VmIds : Quiet(x)
  BY <1>1, SameRows, SameQueue, LeaveEnds DEF DelaysEnd
<1>. QED BY <1>1, <1>2, QuietStep

LEMMA SyncReportsCalm ==
    ASSUME TypeInv, CalmParts, NEW a \in Accounts, SyncReports(a), Mild, queue' \in [VmIds -> Seq(Safe)]
    PROVE  CalmParts'
<1>1. Exists(a) /\ row' = [row EXCEPT ![a].status = "connected"] /\ UNCHANGED <<files, queue, delayed, job>>
  BY DEF SyncReports, Synced
<1>2. "connected" \in Statuses
  BY DEF Statuses
<1>3. Gentle
  BY <1>1, <1>2, StatusGentle DEF CalmParts
<1>4. JobsEnd /\ DelaysEnd /\ \A x \in VmIds : Quiet(x)
  BY <1>1, SameQueue DEF JobsEnd, DelaysEnd
<1>. QED BY <1>1, <1>3, <1>4, QuietStep

\* Every step of a worker, a sync or an administrator that leaves the history calm.
LEMMA MildStepsCalm ==
    ASSUME TypeInv, LinkInv, calm, CalmParts, calm', TypeInv',
           \/ \E v \in VmIds : Work(v) \/ WorkFails(v)
           \/ \E a \in Accounts : DeleteRow(a) \/ SyncReports(a)
           \/ \E a \in Accounts, v \in VmIds \cup {NoVm} : AdminSetup(a, v)
    PROVE  CalmParts'
<1>1. Mild
  BY MildSteps
<1>2. queue' \in [VmIds -> Seq(Safe)]
  BY DEF TypeInv, NoTaskDeletes
<1>3. ASSUME NEW v \in VmIds, NEW t \in NextTasks(v),
             BeginSetup(v, t) \/ SkipSetup(v, t) \/ RefuseSetup(v, t) \/ BeginCleanup(v, t) \/ CleanupFails(v, t)
      PROVE  CalmParts'
  <2>1. t \in Safe
    BY NextTasksType
  <2>2. CASE BeginSetup(v, t)
    BY <1>1, <1>2, <2>2, BeginSetupCalm
  <2>3. CASE SkipSetup(v, t) \/ CleanupFails(v, t)
    BY <1>1, <1>2, <2>3, DropTaskCalm
  <2>4. CASE RefuseSetup(v, t)
    BY <1>1, <1>2, <2>1, <2>4, RefuseSetupCalm
  <2>5. CASE BeginCleanup(v, t)
    BY <1>1, <1>2, <2>5, BeginCleanupCalm
  <2>. QED BY <1>3, <2>2, <2>3, <2>4, <2>5
<1>4. ASSUME NEW v \in VmIds,
             \/ FinishSetup(v) \/ CommitFails(v) \/ FinishCleanup(v)
             \/ SetupFails(v) \/ SetupRefused(v) \/ TradingPassword(v) \/ WorkerDies(v)
      PROVE  CalmParts'
  <2>1. CASE FinishSetup(v)
    BY <1>1, <1>2, <2>1, FinishSetupCalm
  <2>2. CASE CommitFails(v) \/ SetupFails(v)
    <3>1. PICK eligible \in BOOLEAN : SetupError(v, eligible)
      BY <2>2 DEF CommitFails, SetupFails
    <3>. QED BY <1>1, <1>2, <3>1, SetupErrorCalm
  <2>3. CASE FinishCleanup(v)
    BY <1>1, <1>2, <2>3, FinishCleanupCalm
  <2>4. CASE SetupRefused(v)
    BY <1>1, <1>2, <2>4, SetupRefusedCalm
  <2>5. CASE TradingPassword(v)
    BY <2>5 DEF TradingPassword
  <2>6. CASE WorkerDies(v)
    BY <1>1, <1>2, <2>6, WorkerDiesCalm
  <2>. QED BY <1>4, <2>1, <2>2, <2>3, <2>4, <2>5, <2>6
<1>5. CASE \E v \in VmIds : Work(v) \/ WorkFails(v)
  BY <1>3, <1>4, <1>5 DEF Work, WorkFails
<1>6. CASE \E a \in Accounts : DeleteRow(a) \/ SyncReports(a)
  BY <1>1, <1>2, <1>6, SyncReportsCalm DEF DeleteRow
<1>7. CASE \E a \in Accounts, v \in VmIds \cup {NoVm} : AdminSetup(a, v)
  BY <1>7 DEF AdminSetup
<1>. QED BY <1>5, <1>6, <1>7

-----------------------------------------------------------------------------
(* A calm history: requests *)

\* All parts but the requests'.
TerminalParts ==
    Elsewhere /\ RowsAtHome /\ WorkerAtHome /\ FolderAccounted /\ InOrder /\ SetupsAreBorn

\* Only rows change, gently.
LEMMA RowsOnly ==
    ASSUME TypeInv, CalmParts, Gentle, UNCHANGED <<born, files, queue, delayed, job>>
    PROVE  TerminalParts'
<1>. USE HomeIsTarget DEF CalmParts
<1>1. Elsewhere'
  BY GentleElsewhere DEF Elsewhere
<1>2. RowsAtHome'
  BY GentleRows
<1>3. WorkerAtHome'
  BY GentleWorker
<1>4. FolderAccounted'
  BY GentleFolder
<1>5. InOrder'
  BY GentleOrder
<1>6. SetupsAreBorn'
  BY StillBorn
<1>. QED BY <1>1, <1>2, <1>3, <1>4, <1>5, <1>6 DEF TerminalParts

\* A task is sent to the first VM: a setup, or a cleanup while no row is linked.
LEMMA SendHome ==
    ASSUME TypeInv, CalmParts, NEW t \in Tasks, Send(Home, t),
           \/ t.kind = "setup" /\ t.account \in born
           \/ t.kind = "cleanup" /\ \A a \in Accounts : ~IsLive(row[a]),
           UNCHANGED <<row, born, files, delayed, job>>
    PROVE  TerminalParts'
<1>. USE HomeIsTarget DEF CalmParts
<1>1. /\ queue'[Home] = Append(queue[Home], t) /\ queue[Home] \in Seq(Tasks)
      /\ \A v \in VmIds \ {Home} : queue'[v] = queue[v]
  BY CalmTypes DEF Send, TypeInv, TypeOK
<1>2. Gentle
  BY SameRows
<1>3. Elsewhere'
  BY <1>1, <1>2, GentleElsewhere DEF Elsewhere
<1>4. RowsAtHome'
  BY <1>2, GentleRows
<1>5. WorkerAtHome'
  BY <1>2, GentleWorker
<1>6. FolderAccounted'
  BY <1>2, GentleFolder
<1>7. InOrder'
  <2>1. CASE t.kind = "setup"
    <3>1. NoCleanup(queue[Home]) => NoCleanup(queue'[Home])
      BY <1>1, <2>1, AppendKeeps
    <3>2. \A a \in Accounts : Ordered(queue[Home], a) => Ordered(queue'[Home], a)
      BY <1>1, <2>1, AppendKeeps
    <3>. QED BY <1>2, <3>1, <3>2, GentleOrder
  <2>2. CASE \A a \in Accounts : ~IsLive(row[a])
    BY <2>2 DEF InOrder
  <2>. QED BY <2>1, <2>2
<1>8. SetupsAreBorn'
  <2>1. \A u \in Elems(queue'[Home]) : u \in Elems(queue[Home]) \/ u = t
    BY <1>1, AppendKeeps
  <2>2. \A v \in VmIds : \A u \in Elems(queue'[v]) :
            u \in Elems(queue[v]) \/ u.kind = "cleanup" \/ u.account \in born'
    BY <1>1, <2>1
  <2>. QED BY <2>2, StillBorn
<1>. QED BY <1>3, <1>4, <1>5, <1>6, <1>7, <1>8 DEF TerminalParts

\* The only request that is open changes.
LEMMA OnlyRequest ==
    ASSUME TypeInv, NEW w \in Sessions, NEW r, web' = [web EXCEPT ![w] = r],
           \A x \in Sessions \ {w} : web[x] = NoSession,
           r # NoSession =>
               /\ CalmRequest(r)
               /\ r.step = "load" => IsLive(row'[r.account])
               /\ r.step = "saved" /\ r.op = "unlink" => \A a \in Accounts : ~IsLive(row'[a])
    PROVE  CalmRequests'
<1>1. \A x \in Sessions : web'[x] = IF x = w THEN r ELSE NoSession
  BY DEF TypeInv, TypeOK
<1>. QED BY <1>1 DEF CalmRequests

\* A request that opens loads the linked row.
LEMMA OpenCalm ==
    ASSUME TypeInv, CalmParts, NEW w \in Sessions, NEW op \in {"retry", "archive", "reactivate", "unlink"},
           NEW a \in Accounts, NEW c \in Columns, Open(w, op, a, c, NoVm), calm', TerminalParts',
           Exists(a), row[a].owned, c.vm = row[a].vm,
           op = "unlink" => ~c.owned /\ row[a].mark = 0 /\ c.mark # 0,
           op # "unlink" => /\ c.owned /\ c.mark = row[a].mark /\ c.password # "none"
                            /\ c.paths => row[a].paths
    PROVE  CalmParts'
<1>. DEFINE r == [op |-> op, account |-> a, old |-> row[a], new |-> c, step |-> "load", vm |-> NoVm]
<1>1. web' = [web EXCEPT ![w] = r] /\ row' = row /\ \A x \in Sessions \ {w} : web[x] = NoSession
  BY DEF Open, StaysCalm
<1>2. CalmRequest(r)
  BY DEF CalmRequest
<1>3. r.step = "load" /\ IsLive(row'[r.account])
  BY <1>1 DEF IsLive, Exists
<1>. HIDE DEF r
<1>4. CalmRequests'
  BY <1>1, <1>2, <1>3, OnlyRequest
<1>. QED BY <1>4 DEF CalmParts, TerminalParts

\* The requests that open in a calm history.
LEMMA OpeningCalm ==
    ASSUME TypeInv, LinkInv, calm, CalmParts, calm', NEW w \in Sessions, NEW a \in Accounts,
           NEW v \in VmIds \cup {NoVm},
           \/ ReactivateOn(w, a, v) \/ DeleteFiles(w, a, v) \/ VmFiles(w, a, v) \/ AdminDelete(w, a, v)
           \/ RetrySetup(w, a) \/ Archive(w, a) \/ Reactivate(w, a) \/ Unlink(w, a) \/ RejectRequest(w, a)
    PROVE  CalmParts'
<1>1. CASE \/ ReactivateOn(w, a, v) \/ DeleteFiles(w, a, v) \/ VmFiles(w, a, v) \/ AdminDelete(w, a, v)
           \/ RejectRequest(w, a)
  BY <1>1 DEF ReactivateOn, DeleteFiles, VmFiles, AdminDelete, RejectRequest, Open, StaysCalm, UserOps
<1>2. CASE RetrySetup(w, a) \/ Archive(w, a) \/ Reactivate(w, a) \/ Unlink(w, a)
  <2>1. /\ Exists(a) /\ row[a].owned /\ row[a] \in Columns /\ row[a] # Deleted /\ IsLive(row[a])
        /\ row[a].vm \in {NoVm, Home} /\ row[a].password # "none" /\ row[a].mark = 0 /\ a \in born
    <3>1. Exists(a) /\ row[a].owned
      BY <1>2 DEF RetrySetup, Archive, Reactivate, Unlink
    <3>2. row[a] # Deleted /\ IsLive(row[a])
      BY <3>1 DEF Exists, IsLive
    <3>3. row[a].mark = 0
      BY <3>1 DEF LinkInv, TombstoneIsBare
    <3>. QED BY <3>1, <3>2, <3>3, CalmTypes DEF CalmParts, RowsAtHome, HasCredentials
  <2>2. UNCHANGED <<row, born, files, delayed, job>>
    BY <1>2 DEF RetrySetup, Archive, Reactivate, Unlink, Open
  <2>3. queue' = queue => TerminalParts'
    BY <2>2, SameRows, RowsOnly
  <2>4. CASE RetrySetup(w, a)
    <3>. DEFINE c == [row[a] EXCEPT !.password = IF @ = "p" THEN "q" ELSE "p", !.status = "pending",
                                    !.paths = FALSE, !.active = FALSE]
    <3>1. c \in Columns
      BY <2>1 DEF Columns, Statuses
    <3>2. c.vm = row[a].vm /\ c.owned = row[a].owned /\ c.mark = row[a].mark
      BY <2>1 DEF Columns
    <3>3. c.password # "none" /\ c.paths = FALSE
      BY <2>1 DEF Columns
    <3>4. Open(w, "retry", a, c, NoVm) /\ queue' = queue
      BY <2>4 DEF RetrySetup
    <3>. HIDE DEF c
    <3>. QED BY <2>1, <2>3, <3>1, <3>2, <3>3, <3>4, OpenCalm
  <2>5. CASE Archive(w, a)
    <3>. DEFINE c == [row[a] EXCEPT !.active = FALSE, !.archived = TRUE]
    <3>1. /\ c \in Columns /\ c.vm = row[a].vm /\ c.owned = row[a].owned /\ c.mark = row[a].mark
          /\ c.password = row[a].password /\ c.paths = row[a].paths
      BY <2>1 DEF Columns
    <3>2. Open(w, "archive", a, c, NoVm) /\ queue' = queue
      BY <2>5 DEF Archive
    <3>. HIDE DEF c
    <3>. QED BY <2>1, <2>3, <3>1, <3>2, OpenCalm
  <2>6. CASE Reactivate(w, a)
    <3>. DEFINE c == [row[a] EXCEPT !.archived = FALSE]
                t == Setup(a, TRUE, 0, 0)
    <3>1. /\ c \in Columns /\ c.vm = row[a].vm /\ c.owned = row[a].owned /\ c.mark = row[a].mark
          /\ c.password = row[a].password /\ c.paths = row[a].paths
      BY <2>1 DEF Columns
    <3>2. t \in Tasks /\ t.kind = "setup" /\ t.account = a
      <4>1. 0 \in 0 .. MaxRetries
        BY LifecycleAssumption
      <4>. QED BY <4>1, TaskTypes DEF Setup, Tasks
    <3>3. Open(w, "reactivate", a, c, NoVm) /\ Send(SetupTarget(row[a].vm), t)
      BY <2>6 DEF Reactivate
    <3>4. Send(Home, t)
      BY <2>1, <3>3, HomeIsTarget
    <3>. HIDE DEF c, t
    <3>5. TerminalParts'
      BY <2>1, <2>2, <3>2, <3>4, SendHome
    <3>. QED BY <2>1, <3>1, <3>3, <3>5, OpenCalm
  <2>7. CASE Unlink(w, a)
    <3>. DEFINE c == MarkForCleanup(row[a], NewMark(row[a]))
    <3>1. now \in Nat /\ now # 0 /\ NewMark(row[a]) = now
      BY <2>1 DEF NewMark, TypeInv, TypeOK
    <3>2. c \in Columns
      BY <2>1, <3>1, MarkType
    <3>3. c.vm = row[a].vm /\ ~c.owned /\ c.mark # 0
      BY <2>1, <3>1 DEF MarkForCleanup, Columns
    <3>4. Open(w, "unlink", a, c, NoVm) /\ queue' = queue
      BY <2>7 DEF Unlink
    <3>. HIDE DEF c
    <3>. QED BY <2>1, <2>3, <3>2, <3>3, <3>4, OpenCalm
  <2>. QED BY <1>2, <2>4, <2>5, <2>6, <2>7
<1>. QED BY <1>1, <1>2

\* A new link: no other row is linked, and no task names the new row.
LEMMA InsertCalm ==
    ASSUME TypeInv, LinkInv, CalmParts, calm', NEW w \in Sessions, NEW op \in {"link", "create"},
           NEW a \in Accounts, NEW v \in VmIds \cup {NoVm}, Insert(w, op, a, v)
    PROVE  CalmParts'
<1>. USE HomeIsTarget
<1>. DEFINE r == [op |-> op, account |-> a, old |-> NewRow, new |-> NewRow, step |-> "saved", vm |-> v]
<1>1. /\ a \notin born /\ row' = [row EXCEPT ![a] = NewRow] /\ born' = born \cup {a}
      /\ web' = [web EXCEPT ![w] = r] /\ UNCHANGED <<files, queue, delayed, job>>
      /\ \A b \in Accounts : ~IsLive(row[b])
      /\ \A x \in Sessions \ {w} : web[x] = NoSession
      /\ op = "link" /\ v = NoVm
  BY DEF Insert, StaysCalm, UserOps, IsLive, Exists
<1>2. /\ \A b \in Accounts : row'[b] = IF b = a THEN NewRow ELSE row[b]
      /\ \A b \in born : b # a
  BY <1>1 DEF TypeInv, TypeOK
<1>3. NewRow # Deleted /\ NewRow.owned /\ NewRow.vm = NoVm /\ ~NewRow.paths /\ HasCredentials(NewRow)
  BY NoValues, DeletedAssumption DEF NewRow, HasCredentials
<1>4. \A v1 \in VmIds : (InSetup(v1) => job[v1].task.account \in born)
                        /\ \A t \in delayed[v1] : t.account \in born
  BY DEF CalmParts, SetupsAreBorn
<1>. HIDE DEF r
<1>5. Elsewhere'
  <2>1. ASSUME NEW x \in VmIds \ {Home}, NEW t \in Elems(queue[x])
        PROVE  t.kind = "setup" /\ t.account \in born' /\ ~IsLive(row'[t.account])
    <3>1. t.kind = "setup" /\ t.account \in born /\ t.account \in Accounts
      BY CalmTypes DEF CalmParts, Elsewhere, Dead
    <3>. QED BY <1>1, <1>2, <3>1
  <2>. QED BY <1>1, <2>1 DEF CalmParts, Elsewhere, Dead
<1>6. RowsAtHome'
  <2>1. \A b \in Accounts : row'[b] # Deleted => row'[b].vm \in {NoVm, Home}
    BY <1>2, <1>3 DEF CalmParts, RowsAtHome
  <2>2. \A b \in Accounts : IsLive(row'[b]) => b = a
    BY <1>1, <1>2
  <2>. QED BY <1>2, <1>3, <2>1, <2>2 DEF RowsAtHome
<1>7. WorkerAtHome'
  <2>. SUFFICES ASSUME job[Home].busy, job[Home].task.kind = "setup"
                PROVE  files[Home] /\ IsAccounted(row'[job[Home].task.account])
    BY <1>1 DEF CalmParts, WorkerAtHome
  <2>1. job[Home].task.account \in Accounts
    BY JobTypes DEF SetupTasks
  <2>2. files[Home] /\ IsAccounted(row[job[Home].task.account])
    BY DEF CalmParts, WorkerAtHome
  <2>3. job[Home].task.account # a
    BY <1>1, <1>4 DEF InSetup
  <2>. QED BY <1>2, <2>1, <2>2, <2>3
<1>8. FolderAccounted'
  BY <1>2, <1>3 DEF FolderAccounted, IsAccounted
<1>9. InOrder'
  <2>. SUFFICES ASSUME NEW b \in Accounts, IsLive(row'[b])
                PROVE  Ordered(queue'[Home], b) /\ ~Engaged(b)'
    BY DEF InOrder
  <2>1. b = a /\ row'[b] = NewRow
    BY <1>1, <1>2
  <2>2. ~SettingUp(b)'
    BY <1>1, <1>4, <2>1 DEF SettingUp, InSetup
  <2>3. ~Engaged(b)'
    BY <1>1, <1>3, <1>4, <2>1, <2>2 DEF Engaged
  <2>4. \A t \in Elems(queue[Home]) : t.kind = "setup" => t.account # a
    BY <1>1 DEF CalmParts, SetupsAreBorn
  <2>5. Ordered(queue'[Home], b)
    BY <1>1, <2>1, <2>4 DEF Ordered, Elems
  <2>. QED BY <2>3, <2>5
<1>10. SetupsAreBorn'
  BY <1>1, StillBorn DEF CalmParts
<1>11. CalmRequests'
  <2>1. CalmRequest(r) /\ r.step = "saved" /\ r.op = "link"
    BY <1>1 DEF r, CalmRequest
  <2>. QED BY <1>1, <2>1, OnlyRequest
<1>. QED BY <1>5, <1>6, <1>7, <1>8, <1>9, <1>10, <1>11 DEF CalmParts

\* What a calm request writes: it unlinks the row or leaves its link, mark and VM.
LEMMA WrittenCalm ==
    ASSUME NEW c \in Columns, NEW s \in Requests, CalmRequest(s), s.step = "load",
           c.owned, c.password # "none"
    PROVE  LET d == Written(c, s.old, s.new)
           IN  /\ d \in Columns /\ d.vm = c.vm
               /\ s.op = "unlink" => ~d.owned /\ d.mark # 0
               /\ s.op # "unlink" => d.owned /\ d.password # "none" /\ (d.paths => c.paths)
<1>. DEFINE d == Written(c, s.old, s.new)
<1>1. s.old \in Columns /\ s.new \in Columns /\ s.old.owned /\ s.new.vm = s.old.vm
  BY DEF Requests, CalmRequest
<1>2. d \in Columns
  BY <1>1, WrittenType
<1>3. d.vm = c.vm
  BY <1>1 DEF Written
<1>4. s.op = "unlink" => ~d.owned /\ d.mark # 0
  BY <1>1 DEF Written, CalmRequest, Columns
<1>5. s.op # "unlink" => d.owned
  BY <1>1 DEF Written, CalmRequest, Columns
<1>6. s.op # "unlink" => d.password # "none"
  BY <1>1 DEF Written, CalmRequest
<1>7. s.op # "unlink" => (d.paths => c.paths)
  BY <1>1 DEF Written, CalmRequest, Columns
<1>. QED BY <1>2, <1>3, <1>4, <1>5, <1>6, <1>7

\* A commit: the row it loaded is still linked.
LEMMA CommitCalm ==
    ASSUME TypeInv, LinkInv, calm, CalmParts, NEW w \in Sessions, Commit(w)
    PROVE  CalmParts'
<1>. DEFINE s == web[w]
            a == s.account
            d == Written(row[a], s.old, s.new)
            u == [s EXCEPT !.step = "saved"]
<1>1. s # NoSession /\ s.step = "load" /\ UNCHANGED <<born, files, queue, delayed, job>>
  BY DEF Commit, NoSession
<1>2. s \in Requests /\ a \in Accounts
  BY <1>1, RequestType
<1>3. CalmRequest(s) /\ IsLive(row[a])
  BY <1>1 DEF CalmParts, CalmRequests
<1>4. \A x \in Sessions \ {w} : web[x] = NoSession
  BY <1>1 DEF LinkInv, OneRequest
<1>5. row[a] \in Columns /\ row[a] # Deleted /\ row[a].owned /\ row[a].password # "none"
  BY <1>2, <1>3, CalmTypes DEF IsLive, CalmParts, RowsAtHome, HasCredentials
<1>6. /\ d \in Columns /\ d.vm = row[a].vm
      /\ s.op = "unlink" => ~d.owned /\ d.mark # 0
      /\ s.op # "unlink" => d.owned /\ d.password # "none" /\ (d.paths => row[a].paths)
  BY <1>1, <1>2, <1>3, <1>5, WrittenCalm
<1>7. /\ row' = [row EXCEPT ![a] = d]
      /\ web' = [web EXCEPT ![w] = IF s.op \in {"retry", "unlink", "delete"} THEN u ELSE NoSession]
  BY <1>1, <1>3, <1>5 DEF Commit, Exists, CalmRequest
<1>8. u.op = s.op /\ u.vm = s.vm /\ u.step = "saved" /\ u.account = a
  BY <1>2 DEF Requests
<1>. HIDE DEF d, u
<1>9. Gentle
  BY <1>2, <1>5, <1>6, <1>7, OneGentle DEF HasCredentials
<1>10. TerminalParts'
  BY <1>1, <1>9, RowsOnly
<1>11. CalmRequests'
  <2>1. CASE s.op \in {"retry", "unlink"}
    <3>1. web' = [web EXCEPT ![w] = u]
      BY <1>7, <2>1
    <3>2. CalmRequest(u)
      BY <1>3, <1>8, <2>1 DEF CalmRequest
    <3>3. u.op = "unlink" => \A b \in Accounts : ~IsLive(row'[b])
      <4>. SUFFICES ASSUME u.op = "unlink", NEW b \in Accounts, IsLive(row'[b]) PROVE FALSE
        OBVIOUS
      <4>1. IsLive(row[b])
        BY <1>9, GentleIsLive
      <4>2. b = a
        BY <1>2, <1>3, <4>1 DEF CalmParts, RowsAtHome
      <4>3. row'[b] = d
        BY <1>2, <1>7, <4>2 DEF TypeInv, TypeOK
      <4>. QED BY <1>6, <1>8, <4>3 DEF IsLive
    <3>. QED BY <1>4, <1>8, <3>1, <3>2, <3>3, OnlyRequest
  <2>2. CASE s.op \notin {"retry", "unlink"}
    <3>1. s.op # "delete"
      BY <1>1, <1>3 DEF CalmRequest
    <3>2. web' = [web EXCEPT ![w] = NoSession]
      BY <1>7, <2>2, <3>1
    <3>. QED BY <1>4, <3>2, OnlyRequest
  <2>. QED BY <2>1, <2>2
<1>. QED BY <1>10, <1>11 DEF CalmParts, TerminalParts

\* The task of a request goes to the first VM.
LEMMA DispatchCalm ==
    ASSUME TypeInv, LinkInv, calm, CalmParts, NEW w \in Sessions, Dispatch(w) \/ DispatchFails(w)
    PROVE  CalmParts'
<1>. DEFINE s == web[w]
<1>1. /\ s.step = "saved" /\ web' = [web EXCEPT ![w] = NoSession]
      /\ UNCHANGED <<row, born, files, delayed, job>>
  BY DEF Dispatch, DispatchFails
<1>2. s # NoSession
  BY <1>1 DEF NoSession
<1>3. s.account \in Accounts /\ s.account \in born
  BY <1>2, RequestType
<1>4. CalmRequest(s) /\ (s.op = "unlink" => \A a \in Accounts : ~IsLive(row[a]))
  BY <1>1, <1>2 DEF CalmParts, CalmRequests
<1>5. CalmRequests'
  <2>1. \A x \in Sessions \ {w} : web[x] = NoSession
    BY <1>2 DEF LinkInv, OneRequest
  <2>. QED BY <1>1, <2>1, OnlyRequest
<1>6. queue' = queue => TerminalParts'
  BY <1>1, SameRows, RowsOnly
<1>7. CASE DispatchFails(w)
  BY <1>5, <1>6, <1>7 DEF DispatchFails, CalmParts, TerminalParts
<1>8. CASE Dispatch(w) /\ s.op \in {"link", "retry"}
  <2>. DEFINE t == Setup(s.account, s.vm = NoVm, 0, 0)
  <2>1. Send(SetupTarget(s.vm), t) /\ s.vm = NoVm
    BY <1>4, <1>8 DEF Dispatch, CalmRequest
  <2>2. t \in Tasks /\ t.kind = "setup" /\ t.account = s.account
    <3>1. 0 \in 0 .. MaxRetries
      BY LifecycleAssumption
    <3>. QED BY <1>3, <3>1, TaskTypes DEF Setup, Tasks
  <2>3. Send(Home, t)
    BY <2>1, HomeIsTarget
  <2>. HIDE DEF t
  <2>4. TerminalParts'
    BY <1>1, <1>3, <2>2, <2>3, SendHome
  <2>. QED BY <1>5, <2>4 DEF CalmParts, TerminalParts
<1>9. CASE Dispatch(w) /\ s.op = "unlink"
  <2>1. CASE Exists(s.account) /\ row[s.account].paths /\ CleanupVm(s) # NoVm
    <3>. DEFINE t == Cleanup(s.account, FALSE, TRUE, s.new.mark)
    <3>1. Send(CleanupVm(s), t)
      BY <1>9, <2>1 DEF Dispatch
    <3>2. CleanupVm(s) = Home
      BY <1>3, <1>9, <2>1 DEF CleanupVm, CalmParts, RowsAtHome, Exists
    <3>3. t \in Tasks /\ t.kind = "cleanup"
      <4>1. s.new.mark \in Nat
        BY <1>2, RequestType DEF Columns
      <4>2. 0 \in 0 .. MaxRetries
        BY LifecycleAssumption
      <4>3. t \in CleanupTasks
        BY <1>3, <4>1, <4>2, TaskTypes
      <4>. QED BY <4>3 DEF CleanupTasks, Tasks
    <3>. HIDE DEF t
    <3>4. TerminalParts'
      BY <1>1, <1>4, <1>9, <3>1, <3>2, <3>3, SendHome
    <3>. QED BY <1>5, <3>4 DEF CalmParts, TerminalParts
  <2>2. CASE ~(Exists(s.account) /\ row[s.account].paths /\ CleanupVm(s) # NoVm)
    <3>1. queue' = queue
      BY <1>9, <2>2 DEF Dispatch
    <3>. QED BY <1>5, <1>6, <3>1 DEF CalmParts, TerminalParts
  <2>. QED BY <1>9, <2>1, <2>2
<1>10. s.op \in {"link", "retry", "unlink"}
  BY <1>1, <1>4 DEF CalmRequest
<1>. QED BY <1>7, <1>8, <1>9, <1>10

\* Deleting the trade account marks the linked row and queues nothing.
LEMMA DropCalm ==
    ASSUME TypeInv, CalmParts, calm', DropTradeAccount
    PROVE  CalmParts'
<1>1. /\ row' = [a \in Accounts |-> IF Exists(a) /\ row[a].owned THEN MarkForCleanup(row[a], now) ELSE row[a]]
      /\ \A w \in Sessions : web'[w] = NoSession
      /\ UNCHANGED <<born, files, queue, delayed, job>>
  BY DEF DropTradeAccount
<1>2. now \in Nat /\ now # 0
  BY DEF TypeInv, TypeOK
<1>3. ASSUME NEW a \in Accounts, Exists(a), row[a].owned
      PROVE  row'[a] \in Columns /\ row'[a].vm = row[a].vm /\ ~row'[a].owned /\ row'[a].mark # 0
  <2>1. row[a] \in Columns
    BY <1>3 DEF TypeInv, TypeOK, Exists
  <2>. QED BY <1>1, <1>2, <1>3, <2>1, MarkType DEF MarkForCleanup, Columns
<1>4. Gentle
  BY <1>1, <1>3, DeletedAssumption DEF Gentle, Exists
<1>5. TerminalParts'
  BY <1>1, <1>4, RowsOnly
<1>6. CalmRequests'
  BY <1>1 DEF CalmRequests
<1>. QED BY <1>5, <1>6 DEF CalmParts, TerminalParts

\* Initially there is nothing.
LEMMA InitCalm == Init => CalmInv
<1>. SUFFICES ASSUME Init PROVE CalmParts
  BY DEF CalmInv
<1>1. Elsewhere /\ SetupsAreBorn
  BY HomeIsTarget DEF Init, Elsewhere, SetupsAreBorn, InSetup, NoJob, Elems
<1>2. RowsAtHome /\ CalmRequests
  BY DEF Init, RowsAtHome, CalmRequests, IsLive
<1>3. WorkerAtHome /\ FolderAccounted
  BY HomeIsTarget DEF Init, WorkerAtHome, FolderAccounted, NoJob
<1>4. InOrder
  BY DEF Init, InOrder, IsLive
<1>. QED BY <1>1, <1>2, <1>3, <1>4 DEF CalmParts

\* Every step that leaves the history calm keeps the parts.
LEMMA CalmStep == ASSUME TypeInv, LinkInv, CalmInv, [Next]_vars PROVE CalmInv'
<1>. SUFFICES ASSUME calm' PROVE CalmParts'
  BY DEF CalmInv
<1>1. TypeInv'
  BY TypeStep
<1>2. CASE \E w \in Sessions : Request(w)
  <2>1. PICK w \in Sessions : Request(w)
    BY <1>2
  <2>2. PICK a \in Accounts :
           \/ \E v \in VmIds \cup {NoVm} :
                 \/ \E op \in {"link", "create"} : Insert(w, op, a, v)
                 \/ ReactivateOn(w, a, v) \/ DeleteFiles(w, a, v) \/ VmFiles(w, a, v)
                 \/ AdminDelete(w, a, v)
           \/ RetrySetup(w, a) \/ Archive(w, a) \/ Reactivate(w, a) \/ Unlink(w, a)
           \/ RejectRequest(w, a)
    BY <2>1 DEF Request
  <2>3. calm
    BY <2>2 DEF Insert, ReactivateOn, DeleteFiles, VmFiles, AdminDelete, RetrySetup, Archive,
                Reactivate, Unlink, RejectRequest, Open, StaysCalm
  <2>4. CalmParts
    BY <2>3 DEF CalmInv
  <2>5. CASE \E v \in VmIds \cup {NoVm}, op \in {"link", "create"} : Insert(w, op, a, v)
    BY <2>4, <2>5, InsertCalm
  <2>6. CASE \E v \in VmIds \cup {NoVm} :
                \/ ReactivateOn(w, a, v) \/ DeleteFiles(w, a, v) \/ VmFiles(w, a, v) \/ AdminDelete(w, a, v)
                \/ RetrySetup(w, a) \/ Archive(w, a) \/ Reactivate(w, a) \/ Unlink(w, a) \/ RejectRequest(w, a)
    BY <2>3, <2>4, <2>6, OpeningCalm
  <2>. QED BY <2>2, <2>5, <2>6
<1>3. CASE \E w \in Sessions : Commit(w) \/ Dispatch(w) \/ DispatchFails(w)
  <2>1. PICK w \in Sessions : Commit(w) \/ Dispatch(w) \/ DispatchFails(w)
    BY <1>3
  <2>2. calm /\ CalmParts
    BY <2>1 DEF Commit, Dispatch, DispatchFails, CalmInv
  <2>. QED BY <2>1, <2>2, CommitCalm, DispatchCalm
<1>4. CASE DropTradeAccount
  <2>1. CalmParts
    BY <1>4 DEF DropTradeAccount, CalmInv
  <2>. QED BY <1>4, <2>1, DropCalm
<1>5. CASE \/ \E v \in VmIds : Work(v) \/ WorkFails(v)
           \/ \E a \in Accounts : DeleteRow(a) \/ SyncReports(a)
           \/ \E a \in Accounts, v \in VmIds \cup {NoVm} : AdminSetup(a, v)
  <2>1. calm /\ CalmParts
    BY <1>5, MildSteps DEF Mild, CalmInv
  <2>. QED BY <1>1, <1>5, <2>1, MildStepsCalm
<1>6. CASE UNCHANGED vars
  <2>1. CalmParts /\ UNCHANGED <<row, born, files, queue, delayed, job>>
    BY <1>6 DEF vars, CalmInv
  <2>2. TerminalParts'
    BY <2>1, SameRows, RowsOnly
  <2>3. Mild
    BY <1>6, Unmoved DEF vars
  <2>4. CalmRequests'
    BY <2>1, <2>3, MildRequests DEF CalmParts
  <2>. QED BY <2>2, <2>4 DEF CalmParts, TerminalParts
<1>. QED BY <1>2, <1>3, <1>4, <1>5, <1>6 DEF Next

\* In a calm history the terminal of a linked account is where its row says:
\* setups and cleanups of its folder pass one queue in the order of the
\* requests, so no late cleanup takes the folder from a new link.
THEOREM LinkedTerminalIsThere == Spec => []LinkedTerminalStays
<1>1. TypeInv /\ LinkInv /\ CalmInv /\ [Next]_vars => TypeInv' /\ LinkInv' /\ CalmInv'
  BY TypeStep, LinkStep, CalmStep
<1>2. CalmInv => LinkedTerminalStays
  <2>. SUFFICES ASSUME CalmInv, calm, NEW a \in Accounts, Synced(a), row[a].paths, row[a].vm # NoVm
                PROVE  files[row[a].vm]
    BY DEF LinkedTerminalStays
  <2>1. row[a] # Deleted /\ IsLive(row[a]) /\ RowsAtHome
    BY DEF Synced, Exists, IsLive, CalmInv, CalmParts
  <2>. QED BY <2>1 DEF RowsAtHome
<1>. QED BY InitType, InitLink, InitCalm, <1>1, <1>2, PTL DEF Spec

\* In a calm history no folder is forgotten: while there is one, an account is
\* linked or a tombstone is still marked, whether or not its cleanup was lost.
THEOREM FoldersAreAccountedFor == Spec => []NoFolderForgotten
<1>1. TypeInv /\ LinkInv /\ CalmInv /\ [Next]_vars => TypeInv' /\ LinkInv' /\ CalmInv'
  BY TypeStep, LinkStep, CalmStep
<1>2. CalmInv => NoFolderForgotten
  <2>. SUFFICES ASSUME CalmInv, calm, NEW v \in VmIds, files[v]
                PROVE  \E a \in Accounts : Exists(a) /\ (row[a].owned \/ row[a].mark # 0)
    BY DEF NoFolderForgotten
  <2>1. v = Home /\ FolderAccounted
    BY DEF CalmInv, CalmParts, Elsewhere
  <2>. QED BY <2>1 DEF FolderAccounted, IsAccounted, Exists
<1>. QED BY InitType, InitLink, InitCalm, <1>1, <1>2, PTL DEF Spec

=============================================================================
