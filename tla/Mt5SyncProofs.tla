--------------------------- MODULE Mt5SyncProofs ---------------------------
(* What holds of Mt5Sync for any positions, slots, tokens, uploads and bounds,  *)
(* and of the locks of Redis for any clients.                                   *)
EXTENDS Mt5Sync, Lease, TLAPS

-----------------------------------------------------------------------------
(* What a lease promises, for any set of clients *)

LEMMA LeaseInitially ==
    LeaseInit => LeaseTypeOK /\ LeaseInv
BY DEF LeaseInit, LeaseTypeOK, LeaseInv

LEMMA LeaseStep ==
    ASSUME Free \notin Clients, LeaseTypeOK, LeaseInv, [LeaseNext]_leaseVars
    PROVE  LeaseTypeOK' /\ LeaseInv'
<1>1. CASE \E c \in Clients : Enter(c)
    BY <1>1 DEF Enter, LeaseTypeOK, LeaseInv
<1>2. CASE \E c \in Clients : Leave(c)
    BY <1>2 DEF Leave, LeaseTypeOK, LeaseInv
<1>3. CASE \E c \in Clients : Abandon(c)
    BY <1>3 DEF Abandon, LeaseTypeOK, LeaseInv
<1>4. CASE Lapse
    BY <1>4 DEF Lapse, LeaseTypeOK, LeaseInv
<1>5. CASE UNCHANGED leaseVars
    BY <1>5 DEF leaseVars, LeaseTypeOK, LeaseInv
<1> QED BY <1>1, <1>2, <1>3, <1>4, <1>5 DEF LeaseNext

\* A lock by SET NX EX and compare-and-delete keeps its holders apart until it
\* lapses under one (cache.py:348-369), if no client's token is the free value.
THEOREM LeaseIsExclusive ==
    ASSUME Free \notin Clients
    PROVE  LeaseSpec => []Exclusive
<1>1. LeaseTypeOK /\ LeaseInv => Exclusive
    BY DEF LeaseInv, Exclusive
<1>2. LeaseTypeOK /\ LeaseInv /\ [LeaseNext]_leaseVars => (LeaseTypeOK /\ LeaseInv)'
    BY LeaseStep
<1> QED BY LeaseInitially, <1>1, <1>2, PTL DEF LeaseSpec

-----------------------------------------------------------------------------
(* Values of the operators *)

\* Some exits.
LEMMA SomeExits ==
    ASSUME NEW x, NEW d \in x, \A e \in x : e \in Exits
    PROVE  x \in (SUBSET Exits) \ {{}}
<1>1. x # {}
  OBVIOUS
<1>2. x \in SUBSET Exits
  OBVIOUS
<1>. QED BY <1>1, <1>2

\* The deals of a position give a row or none.
LEMMA AggregateType ==
    ASSUME NEW ds \in SUBSET DealKinds
    PROVE  Aggregate(ds) \in RowsOfPosition
<1>1. CASE {"entry", "exit"} \subseteq ds
  <2>1. "exit" \in ds \cap Exits
    BY <1>1 DEF Exits
  <2>2. ds \cap Exits \in (SUBSET Exits) \ {{}}
    BY <2>1, SomeExits
  <2>3. Aggregate(ds) = [state |-> "closed", pnl |-> ds \cap Exits]
    BY <1>1 DEF Aggregate, Row
  <2>. QED BY <2>2, <2>3 DEF RowsOfPosition
<1>2. CASE "entry" \in ds /\ "exit" \notin ds
  BY <1>2 DEF Aggregate, Row, RowsOfPosition, Exits
<1>3. CASE "entry" \notin ds /\ ds # {}
  <2>1. \A d \in ds : d \in Exits
    <3>1. \A d \in ds : d \in {"entry", "part", "exit"} /\ d # "entry"
      BY <1>3 DEF DealKinds
    <3>. QED BY <3>1 DEF Exits
  <2>2. ds \in (SUBSET Exits) \ {{}}
    BY <1>3, <2>1, SomeExits
  <2>. QED BY <1>3, <2>2 DEF Aggregate, Row, RowsOfPosition
<1>4. CASE ds = {}
  BY <1>4 DEF Aggregate, Row, RowsOfPosition
<1>. QED BY <1>1, <1>2, <1>3, <1>4

\* The deals a task is given are deals of the broker.
LEMMA WindowOfDeals == ASSUME NEW full, NEW p PROVE Window(full, p) \subseteq deals[p]
BY DEF Window

\* What history_deals_get and positions_get return makes rows.
LEMMA RowsType ==
    ASSUME TypeOK, NEW s \in Slots
    PROVE  /\ [p \in Positions |-> Aggregate(Window(task[s].full, p))] \in Rows
           /\ [p \in Positions |-> Supplement(task[s].rows[p], IsRunning(p))] \in Rows
           /\ NoRows \in Rows
<1>1. ASSUME NEW p \in Positions PROVE Aggregate(Window(task[s].full, p)) \in RowsOfPosition
  <2>1. Window(task[s].full, p) \in SUBSET DealKinds
    BY WindowOfDeals DEF TypeOK
  <2>. QED BY <2>1, AggregateType
<1>2. ASSUME NEW p \in Positions
      PROVE  Supplement(task[s].rows[p], IsRunning(p)) \in RowsOfPosition
  <2>1. task[s].rows[p] \in RowsOfPosition
    BY DEF TypeOK, Tasks, Rows
  <2>2. Row("open", Floating) \in RowsOfPosition
    BY DEF Row, RowsOfPosition
  <2>. QED BY <2>1, <2>2 DEF Supplement
<1>. QED BY <1>1, <1>2 DEF Rows, NoRows, Row, RowsOfPosition

\* A row shows what a trade may show.
LEMMA PnlType ==
    ASSUME NEW r \in RowsOfPosition
    PROVE  /\ r.pnl \in Pnls
           /\ Closes(r) => r.pnl \in (SUBSET Exits) \ {{}}
<1>1. CASE r \in [state : {"absent"}, pnl : {{}}]
  BY <1>1 DEF Pnls, Closes
<1>2. CASE r \in [state : {"open"}, pnl : {{}, Floating}]
  <2>1. r.state = "open" /\ r.pnl \in {{}, Floating}
    BY <1>2
  <2>. QED BY <2>1 DEF Pnls, Closes
<1>3. CASE r \in [state : {"closed", "exits"}, pnl : (SUBSET Exits) \ {{}}]
  <2>1. r.pnl \in (SUBSET Exits) \ {{}}
    BY <1>3
  <2>. QED BY <2>1 DEF Pnls
<1>. QED BY <1>1, <1>2, <1>3 DEF RowsOfPosition

\* The values that stand for "no task" and "no request" have their types.
LEMMA NoValues == NoTask \in Tasks /\ NoRequest \in Requests
<1>1. NoRows \in Rows
  BY DEF NoRows, Rows, Row, RowsOfPosition
<1>2. NoTask \in Tasks
  BY <1>1, ConstantsAssumption DEF NoTask, Tasks, Kinds
<1>3. [p \in Positions |-> NoTrade] \in [Positions -> Trades \cup {NoTrade}]
  OBVIOUS
<1>4. NoRequest \in Requests
  BY <1>1, <1>3 DEF NoRequest, Requests
<1>. QED BY <1>2, <1>4

-----------------------------------------------------------------------------
(* Type correctness *)

\* Initially every variable has its type.
LEMMA InitType == Init => TypeOK
<1>. SUFFICES ASSUME Init PROVE TypeOK
  OBVIOUS
<1>1. deals \in [Positions -> SUBSET DealKinds] /\ old = deals
  BY DEF Init, DealKinds
<1>2. task \in [Slots -> Tasks] /\ req \in [Tokens -> Requests]
  BY NoValues DEF Init
<1>3. \A s \in Slots : ~Running(s)
  BY DEF Init, NoTask, Running
<1>4. upload \in [Uploads -> SUBSET Positions]
  BY DEF Init
<1>. QED BY <1>1, <1>2, <1>3, <1>4 DEF Init, TypeOK, Gates

\* The market and the user's switches.
LEMMA MarketType ==
    ASSUME TypeOK, (\E p \in Positions : Market(p)) \/ GateChanges
    PROVE  TypeOK'
<1>1. ASSUME NEW p \in Positions, NEW d \in DealKinds, Deal(p, d)
      PROVE  TypeOK'
  BY <1>1 DEF TypeOK, Deal, history, Running
<1>2. ASSUME NEW p \in Positions, Age(p) PROVE TypeOK'
  BY <1>2 DEF TypeOK, Age, history, Running
<1>3. CASE GateChanges
  BY <1>3 DEF TypeOK, GateChanges, Disturb, history, broker, Running, Gates
<1>. QED BY <1>1, <1>2, <1>3 DEF Market, OpenPosition, PartialClose, ClosePosition, DealKinds

\* Messages and the worker: a record update keeps the type of a task, and only
\* Execute hands out a token.
LEMMA TaskType ==
    ASSUME TypeOK, NEW s \in Slots, NEW t \in Tasks,
           task' = [task EXCEPT ![s] = t],
           t.pc \in {"deals", "positions", "post", "wait"} => t.tok \in Tokens
    PROVE  task' \in [Slots -> Tasks] /\ (\A r \in Slots : Running(r) => task[r].tok \in Tokens)'
BY DEF TypeOK, Running

\* A request that changes is a request.
LEMMA RequestType ==
    ASSUME TypeOK, NEW k, NEW r \in Requests, req' = [req EXCEPT ![k] = r]
    PROVE  req' \in [Tokens -> Requests]
BY DEF TypeOK

\* A disturbance counts.
LEMMA DisturbType == ASSUME TypeOK, Disturb PROVE moves' \in Nat
BY DEF TypeOK, Disturb

\* A retry queues the message again or ends it.
LEMMA RetryType ==
    ASSUME TypeOK, NEW s \in Slots, Retry(s)
    PROVE  /\ task' \in [Slots -> Tasks]
           /\ (\A r \in Slots : Running(r) => task[r].tok \in Tokens)'
           /\ lock' \in Tokens \cup {NoToken}
<1>1. task[s] \in Tasks
  BY DEF TypeOK
<1>. DEFINE t == IF task[s].tries < MaxRetries
                   THEN [NoTask EXCEPT !.pc = "queued", !.kind = task[s].kind,
                                       !.tries = task[s].tries + 1]
                   ELSE NoTask
<1>2. t \in Tasks /\ t.pc \in {"queued", "off"}
  <2>1. CASE task[s].tries < MaxRetries
    <3>1. task[s].tries + 1 \in 0 .. MaxRetries /\ task[s].kind \in Kinds
      BY <1>1, <2>1, ConstantsAssumption DEF Tasks
    <3>2. t = [NoTask EXCEPT !.pc = "queued", !.kind = task[s].kind, !.tries = task[s].tries + 1]
      BY <2>1
    <3>. QED BY <3>1, <3>2, NoValues DEF Tasks, NoTask
  <2>2. CASE ~(task[s].tries < MaxRetries)
    BY <2>2, NoValues DEF NoTask
  <2>. QED BY <2>1, <2>2
<1>3. task' = [task EXCEPT ![s] = t]
  BY DEF Retry
<1>4. lock' \in Tokens \cup {NoToken}
  BY DEF Retry, Release, TypeOK
<1>. HIDE DEF t
<1>. QED BY <1>2, <1>3, <1>4, TaskType

\* Queued and expired messages.
LEMMA QueueType ==
    ASSUME TypeOK, NEW s \in Slots,
           Beat(s) \/ (\E kind \in ManualKinds : Request(s, kind)) \/ TaskExpires(s)
    PROVE  TypeOK'
<1>1. ASSUME NEW kind \in Kinds, Queue(s, kind), moves' \in Nat PROVE TypeOK'
  <2>. DEFINE t == [NoTask EXCEPT !.pc = "queued", !.kind = kind]
  <2>1. t \in Tasks /\ t.pc = "queued"
    BY NoValues DEF Tasks, NoTask
  <2>2. task' = [task EXCEPT ![s] = t]
    BY <1>1 DEF Queue
  <2>. HIDE DEF t
  <2>3. task' \in [Slots -> Tasks] /\ (\A r \in Slots : Running(r) => task[r].tok \in Tokens)'
    BY <2>1, <2>2, TaskType
  <2>. QED BY <1>1, <2>3 DEF TypeOK, Queue, broker, history
<1>2. CASE TaskExpires(s)
  <2>1. task' = [task EXCEPT ![s] = NoTask] /\ NoTask.pc = "off"
    BY <1>2 DEF TaskExpires, NoTask
  <2>2. task' \in [Slots -> Tasks] /\ (\A r \in Slots : Running(r) => task[r].tok \in Tokens)'
    BY <2>1, NoValues, TaskType
  <2>. QED BY <1>2, <2>2 DEF TypeOK, TaskExpires, Disturb, broker, history
<1>3. CASE Beat(s)
  BY <1>1, <1>3 DEF Beat, Kinds, TypeOK
<1>4. CASE \E kind \in ManualKinds : Request(s, kind)
  <2>1. PICK kind \in ManualKinds : Request(s, kind)
    BY <1>4
  <2>2. kind \in Kinds /\ Queue(s, kind) /\ moves' \in Nat
    BY <2>1 DEF Request, Kinds, Disturb, TypeOK
  <2>. QED BY <1>1, <2>2
<1>. QED BY <1>2, <1>3, <1>4

\* One execution of the task.
LEMMA WorkerType ==
    ASSUME TypeOK, NEW s \in Slots, Worker(s) \/ WorkerDisturbed(s)
    PROVE  TypeOK'
<1>. DEFINE TasksOK == task' \in [Slots -> Tasks]
                       /\ (\A r \in Slots : Running(r) => task[r].tok \in Tokens)'
<1>1. CASE SkipBusy(s) \/ SkipGate(s)
  <2>1. task' = [task EXCEPT ![s] = NoTask] /\ NoTask.pc = "off"
    BY <1>1 DEF SkipBusy, SkipGate, NoTask
  <2>2. TasksOK
    BY <2>1, NoValues, TaskType
  <2>. QED BY <1>1, <2>2 DEF TypeOK, SkipBusy, SkipGate, broker, history
<1>2. ASSUME NEW k \in Tokens, NEW locked \in BOOLEAN, Execute(s, k, locked),
             lock' \in Tokens \cup {NoToken}, faulted' \in BOOLEAN, moves' \in Nat
      PROVE  TypeOK'
  <2>. DEFINE t == [task[s] EXCEPT !.pc = "deals", !.tok = k, !.locked = locked,
                             !.full = (task[s].kind \in {"full", "recal"} \/ ~lastFull)]
  <2>1. t \in Tasks /\ t.tok \in Tokens
    BY ZenonT(40) DEF TypeOK, Tasks
  <2>2. task' = [task EXCEPT ![s] = t]
    BY <1>2 DEF Execute
  <2>. HIDE DEF t
  <2>3. TasksOK
    BY <2>1, <2>2, TaskType
  <2>. QED BY <1>2, <2>3 DEF TypeOK, Execute, broker
<1>3. ASSUME NEW from \in {"deals", "positions"}, NEW to \in {"positions", "post"},
             NEW rows \in Rows, Fetch(s, from, to, rows),
             blind' \in BOOLEAN, moves' \in Nat
      PROVE  TypeOK'
  <2>. DEFINE t == [task[s] EXCEPT !.pc = to, !.rows = rows]
  <2>1. t \in Tasks /\ t.tok \in Tokens
    BY <1>3 DEF TypeOK, Tasks, Fetch, Running
  <2>2. task' = [task EXCEPT ![s] = t]
    BY <1>3 DEF Fetch
  <2>. HIDE DEF t
  <2>3. TasksOK
    BY <2>1, <2>2, TaskType
  <2>. QED BY <1>3, <2>3 DEF TypeOK, Fetch, broker
<1>4. CASE \E k \in Tokens : Start(s, k)
  <2>1. PICK k \in Tokens : Start(s, k)
    BY <1>4
  <2>2. lock' = k /\ faulted' = faulted /\ moves' = moves /\ Execute(s, k, TRUE)
    BY <2>1 DEF Start
  <2>. QED BY <1>2, <2>2 DEF TypeOK
<1>5. CASE \E k \in Tokens : StartUnlocked(s, k)
  <2>1. PICK k \in Tokens : StartUnlocked(s, k)
    BY <1>5
  <2>2. lock' = lock /\ faulted' = TRUE /\ moves' \in Nat /\ Execute(s, k, FALSE)
    BY <2>1, DisturbType DEF StartUnlocked
  <2>. QED BY <1>2, <2>2 DEF TypeOK
<1>6. CASE ReadDeals(s)
  <2>. DEFINE given == [p \in Positions |-> Aggregate(Window(task[s].full, p))]
  <2>1. given \in Rows
    BY RowsType
  <2>2. Fetch(s, "deals", "positions", given) /\ blind' = blind /\ moves' = moves
    BY <1>6 DEF ReadDeals
  <2>. HIDE DEF given
  <2>. QED BY <1>3, <2>1, <2>2 DEF TypeOK
<1>7. CASE ReadNoDeals(s)
  <2>1. NoRows \in Rows
    BY RowsType
  <2>2. Fetch(s, "deals", "positions", NoRows) /\ blind' = TRUE /\ moves' \in Nat
    BY <1>7, DisturbType DEF ReadNoDeals
  <2>. QED BY <1>3, <2>1, <2>2
<1>8. CASE ReadPositions(s)
  <2>. DEFINE given == [p \in Positions |-> Supplement(task[s].rows[p], IsRunning(p))]
  <2>1. given \in Rows
    BY RowsType
  <2>2. Fetch(s, "positions", "post", given) /\ blind' = blind /\ moves' = moves
    BY <1>8 DEF ReadPositions
  <2>. HIDE DEF given
  <2>. QED BY <1>3, <2>1, <2>2 DEF TypeOK
<1>9. CASE ReadNoPositions(s)
  <2>1. task[s].rows \in Rows
    BY DEF TypeOK, Tasks
  <2>2. Fetch(s, "positions", "post", task[s].rows) /\ blind' = blind /\ moves' \in Nat
    BY <1>9, DisturbType DEF ReadNoPositions
  <2>. QED BY <1>3, <2>1, <2>2 DEF TypeOK
<1>10. CASE Post(s)
  <2>. DEFINE t == [task[s] EXCEPT !.pc = "wait", !.rows = NoRows]
              r == [NoRequest EXCEPT !.phase = "sent", !.rows = task[s].rows,
                                     !.full = task[s].full, !.recal = (task[s].kind = "recal")]
  <2>1. t \in Tasks /\ t.tok \in Tokens
    BY <1>10, NoValues DEF TypeOK, Tasks, Post, Running, NoTask
  <2>2. r \in Requests
    BY NoValues DEF TypeOK, Tasks, Requests, NoRequest
  <2>3. task' = [task EXCEPT ![s] = t] /\ req' = [req EXCEPT ![task[s].tok] = r]
    BY <1>10 DEF Post
  <2>. HIDE DEF t, r
  <2>4. TasksOK /\ req' \in [Tokens -> Requests]
    BY <2>1, <2>2, <2>3, TaskType, RequestType
  <2>. QED BY <1>10, <2>4 DEF TypeOK, Post, broker, history
<1>11. CASE Finish(s)
  <2>1. task' = [task EXCEPT ![s] = NoTask] /\ NoTask.pc = "off"
    BY <1>11 DEF Finish, NoTask
  <2>2. TasksOK /\ req' \in [Tokens -> Requests]
    BY <1>11, <2>1, NoValues, TaskType, RequestType DEF Finish
  <2>3. task[s].full \in BOOLEAN
    BY DEF TypeOK, Tasks
  <2>. QED BY <1>11, <2>2, <2>3 DEF TypeOK, Finish, Release, broker, history
<1>12. ASSUME Retry(s), req' \in [Tokens -> Requests], faulted' \in BOOLEAN, moves' \in Nat
      PROVE  TypeOK'
  <2>1. TasksOK /\ lock' \in Tokens \cup {NoToken}
    BY <1>12, RetryType
  <2>. QED BY <1>12, <2>1 DEF TypeOK, Retry, broker
<1>13. CASE Refused(s)
  <2>1. req' = [req EXCEPT ![task[s].tok] = NoRequest] /\ Retry(s)
        /\ faulted' = faulted /\ moves' = moves
    BY <1>13 DEF Refused
  <2>. QED BY <1>12, <2>1, NoValues, RequestType DEF TypeOK
<1>14. CASE ReplyLost(s)
  <2>1. req' = [req EXCEPT ![task[s].tok] = NoRequest] /\ Retry(s)
        /\ faulted' = faulted /\ moves' \in Nat
    BY <1>14, DisturbType DEF ReplyLost
  <2>. QED BY <1>12, <2>1, NoValues, RequestType DEF TypeOK
<1>15. CASE WorkerFails(s)
  <2>1. req' = req /\ Retry(s) /\ faulted' = faulted /\ moves' \in Nat
    BY <1>15, DisturbType DEF WorkerFails
  <2>. QED BY <1>12, <2>1 DEF TypeOK
<1>16. CASE Timeout(s)
  <2>1. req' = req /\ Retry(s) /\ faulted' = TRUE /\ moves' \in Nat
    BY <1>16, DisturbType DEF Timeout
  <2>. QED BY <1>12, <2>1 DEF TypeOK
<1>17. CASE Crash(s)
  <2>. DEFINE t == [NoTask EXCEPT !.pc = "queued", !.kind = task[s].kind, !.tries = task[s].tries]
              k == task[s].tok
              r == IF InFlight(k) THEN req[k] ELSE NoRequest
  <2>1. t \in Tasks /\ t.pc = "queued"
    BY NoValues DEF TypeOK, Tasks, NoTask
  <2>2. k \in Tokens
    BY <1>17 DEF Crash, TypeOK
  <2>3. r \in Requests
    BY <2>2, NoValues DEF TypeOK
  <2>4. task' = [task EXCEPT ![s] = t] /\ req' = [req EXCEPT ![k] = r]
    BY <1>17 DEF Crash
  <2>. HIDE DEF t, k, r
  <2>5. TasksOK /\ req' \in [Tokens -> Requests]
    BY <2>1, <2>3, <2>4, TaskType, RequestType
  <2>. QED BY <1>17, <2>5 DEF TypeOK, Crash, Disturb, broker, history
<1>18. CASE TaskExpires(s)
  BY <1>18, QueueType
<1>. HIDE DEF TasksOK
<1>. QED BY <1>1, <1>4, <1>5, <1>6, <1>7, <1>8, <1>9, <1>10, <1>11, <1>13, <1>14, <1>15,
            <1>16, <1>17, <1>18
         DEF Worker, WorkerDisturbed

\* The key of the lock expires.
LEMMA ExpiryType ==
    ASSUME TypeOK, LockExpires \/ LockExpiresInUse
    PROVE  TypeOK'
<1>1. CASE LockExpires
  BY <1>1 DEF TypeOK, LockExpires, broker, history, Running
<1>2. CASE LockExpiresInUse
  BY <1>2, DisturbType DEF TypeOK, LockExpiresInUse, broker, Running
<1>. QED BY <1>1, <1>2

\* The handler.
LEMMA AnswerType ==
    ASSUME TypeOK, NEW k \in Tokens, NEW phase \in {"saved", "failed"}, Answer(k, phase)
    PROVE  req' \in [Tokens -> Requests]
<1>. DEFINE r == IF \E s \in Slots : task[s].pc = "wait" /\ task[s].tok = k
                   THEN [NoRequest EXCEPT !.phase = phase] ELSE NoRequest
<1>1. [NoRequest EXCEPT !.phase = phase] \in Requests
  BY NoValues DEF Requests, NoRequest
<1>2. r \in Requests
  BY <1>1, NoValues
<1>3. req' = [req EXCEPT ![k] = r]
  BY DEF Answer
<1>. HIDE DEF r
<1>. QED BY <1>2, <1>3, RequestType

\* A commit writes trades and leaves their ids and positions alone.
LEMMA CommitType ==
    ASSUME TypeOK, NEW k \in Tokens
    PROVE  /\ {Written(k, t) : t \in journal} \subseteq Trades
           /\ Inserted(k) \subseteq Trades
           /\ \A t \in journal : Written(k, t).id = t.id /\ Written(k, t).pos = t.pos
                                 /\ Written(k, t).keyed = t.keyed
<1>1. ASSUME NEW t \in journal
      PROVE  /\ Written(k, t) \in Trades
             /\ Written(k, t).id = t.id /\ Written(k, t).pos = t.pos
             /\ Written(k, t).keyed = t.keyed
  <2>1. t \in Trades /\ (t.closed \/ Closes(req[k].rows[t.pos])) \in BOOLEAN
        /\ req[k].rows[t.pos].pnl \in Pnls
    <3>1. t \in Trades /\ t.pos \in Positions
      BY DEF TypeOK, Trades
    <3>2. req[k].rows[t.pos] \in RowsOfPosition
      BY <3>1 DEF TypeOK, Requests, Rows
    <3>. QED BY <3>1, <3>2, PnlType DEF Trades
  <2>. QED BY <2>1 DEF Written, Trades
<1>2. ASSUME NEW p \in req[k].ins
      PROVE  [id |-> nextId, pos |-> p, closed |-> (req[k].rows[p].state = "closed"),
              pnl |-> req[k].rows[p].pnl, keyed |-> FALSE] \in Trades
  <2>1. p \in Positions /\ nextId \in Nat /\ req[k].rows[p].pnl \in Pnls
    <3>1. p \in Positions /\ req[k].rows[p] \in RowsOfPosition
      BY DEF TypeOK, Requests, Rows
    <3>. QED BY <3>1, PnlType DEF TypeOK
  <2>. QED BY <2>1 DEF Trades
<1>. QED BY <1>1, <1>2 DEF Inserted

\* A commit inserts a position once.
LEMMA InsertedOnce ==
    ASSUME NEW k, NEW t \in Inserted(k), NEW u \in Inserted(k), t.pos = u.pos
    PROVE  t = u
<1>. DEFINE new(p) == [id |-> nextId, pos |-> p, closed |-> (req[k].rows[p].state = "closed"),
                       pnl |-> req[k].rows[p].pnl, keyed |-> FALSE]
<1>1. PICK p \in req[k].ins : t = new(p)
  BY DEF Inserted
<1>2. PICK q \in req[k].ins : u = new(q)
  BY DEF Inserted
<1>3. p = q
  BY <1>1, <1>2
<1>. QED BY <1>1, <1>2, <1>3

\* An upload inserts a position once.
LEMMA UploadedOnce ==
    ASSUME NEW u,
           NEW t \in Uploaded(u),
           NEW v \in Uploaded(u),
           t.pos = v.pos
    PROVE  t = v
<1>. DEFINE new(p) == [id |-> nextId, pos |-> p, closed |-> TRUE, pnl |-> deals[p] \cap Exits, keyed |-> TRUE]
<1>1. PICK p \in upload[u] : t = new(p)
  BY DEF Uploaded
<1>2. PICK q \in upload[u] : v = new(q)
  BY DEF Uploaded
<1>3. p = q
  BY <1>1, <1>2
<1>. QED BY <1>1, <1>2, <1>3

\* The handler.
LEMMA HandlerType ==
    ASSUME TypeOK, NEW k \in Tokens, Handler(k) \/ HandlerFails(k)
    PROVE  TypeOK'
<1>1. CASE Reject(k)
  <2>1. req' \in [Tokens -> Requests]
    BY <1>1, AnswerType DEF Reject
  <2>. QED BY <1>1, <2>1 DEF TypeOK, Reject, broker, history, Running
<1>2. CASE ReadTrades(k)
  <2>1. PICK seen \in [Positions -> journal \cup {NoTrade}] :
            req' = [req EXCEPT ![k] = [@ EXCEPT !.phase = "read", !.seen = seen]]
    BY <1>2 DEF ReadTrades
  <2>2. seen \in [Positions -> Trades \cup {NoTrade}]
    BY DEF TypeOK
  <2>3. [req[k] EXCEPT !.phase = "read", !.seen = seen] \in Requests
    <3>1. req[k] \in Requests
      BY DEF TypeOK
    <3>. QED BY <2>2, <3>1 DEF Requests
  <2>4. req' \in [Tokens -> Requests]
    BY <2>1, <2>3, RequestType
  <2>. QED BY <1>2, <2>4 DEF TypeOK, ReadTrades, broker, history, Running
<1>3. CASE BuildBatch(k)
  <2>. DEFINE ins == {p \in Importable \ Known :
                        /\ req[k].seen[p] = NoTrade
                        /\ req[k].rows[p].state \in {"open", "closed"}}
  <2>1. ins \in SUBSET Positions
    BY ConstantsAssumption
  <2>2. req' = [req EXCEPT ![k] = [@ EXCEPT !.phase = "built", !.ins = ins]]
    BY <1>3 DEF BuildBatch
  <2>. HIDE DEF ins
  <2>3. [req[k] EXCEPT !.phase = "built", !.ins = ins] \in Requests
    <3>1. req[k] \in Requests
      BY DEF TypeOK
    <3>. QED BY <2>1, <3>1 DEF Requests
  <2>4. req' \in [Tokens -> Requests]
    BY <2>2, <2>3, RequestType
  <2>. QED BY <1>3, <2>4 DEF TypeOK, BuildBatch, broker, history, Running
<1>4. CASE Commit(k)
  <2>1. req' \in [Tokens -> Requests]
    BY <1>4, AnswerType DEF Commit
  <2>2. journal' \subseteq Trades
    BY <1>4, CommitType DEF Commit
  <2>3. nextId' \in Nat /\ nextId <= nextId' /\ (req[k].ins # {} => nextId < nextId')
    BY <1>4 DEF Commit, TypeOK
  <2>4. \A t \in journal' : t.id < nextId'
    <3>1. ASSUME NEW t \in journal PROVE Written(k, t).id < nextId'
      BY <2>3, CommitType DEF TypeOK, Trades
    <3>2. ASSUME NEW t \in Inserted(k) PROVE t.id < nextId'
      BY <2>3 DEF Inserted, TypeOK
    <3>. QED BY <1>4, <3>1, <3>2 DEF Commit
  <2>5. req[k].full \in BOOLEAN
    BY DEF TypeOK, Requests
  <2>6. lastFull' \in BOOLEAN /\ mixed' \in BOOLEAN
    BY <1>4, <2>5 DEF Commit, TypeOK
  <2>. QED BY <1>4, <2>1, <2>2, <2>3, <2>4, <2>6 DEF TypeOK, Commit, broker, Running
<1>5. CASE CommitStale(k)
  <2>1. req' \in [Tokens -> Requests]
    BY <1>5, AnswerType DEF CommitStale, Rollback
  <2>. QED BY <1>5, <2>1 DEF TypeOK, CommitStale, Rollback, broker, history, Running
<1>6. CASE HandlerFails(k)
  <2>1. req' \in [Tokens -> Requests] /\ moves' \in Nat
    BY <1>6, AnswerType, DisturbType DEF HandlerFails, Rollback
  <2>. QED BY <1>6, <2>1 DEF TypeOK, HandlerFails, Rollback, broker, history, Running
<1>. QED BY <1>1, <1>2, <1>3, <1>4, <1>5, <1>6 DEF Handler

\* The user.
LEMMA UserType ==
    ASSUME TypeOK, User
    PROVE  TypeOK'
<1>1. ASSUME NEW u \in Uploads, UploadRead(u) PROVE TypeOK'
  <2>1. upload' \in [Uploads -> SUBSET Positions]
    BY <1>1, ConstantsAssumption DEF UploadRead, TypeOK
  <2>. QED BY <1>1, <2>1, DisturbType DEF TypeOK, UploadRead, broker, history, Running
<1>2. ASSUME NEW u \in Uploads, UploadCommit(u) PROVE TypeOK'
  <2>1. Uploaded(u) \subseteq Trades
    <3>1. upload[u] \subseteq Positions /\ nextId \in Nat
      BY DEF TypeOK
    <3>2. ASSUME NEW p \in upload[u]
          PROVE  [id |-> nextId, pos |-> p, closed |-> TRUE, pnl |-> deals[p] \cap Exits, keyed |-> TRUE] \in Trades
      BY <3>1 DEF Trades, Pnls
    <3>. QED BY <3>2 DEF Uploaded
  <2>2. journal' = journal \cup Uploaded(u) /\ nextId' = nextId + 1
    BY <1>2 DEF UploadCommit
  <2>3. \A t \in journal' : t.id < nextId'
    BY <2>2 DEF TypeOK, Trades, Uploaded
  <2>4. upload' \in [Uploads -> SUBSET Positions] /\ nextId' \in Nat
    BY <1>2 DEF UploadCommit, TypeOK
  <2>5. mixed' \in BOOLEAN
    BY <1>2 DEF UploadCommit, TypeOK
  <2>. QED BY <1>2, <2>1, <2>2, <2>3, <2>4, <2>5 DEF TypeOK, UploadCommit, broker, Running
<1>3. ASSUME NEW u \in Uploads, UploadConflict(u) PROVE TypeOK'
  BY <1>3 DEF TypeOK, UploadConflict, broker, history, Running
<1>4. ASSUME NEW t \in journal, DeleteTrade(t) PROVE TypeOK'
  <2>1. t.pos \in Positions
    BY DEF TypeOK, Trades
  <2>. QED BY <1>4, <2>1, DisturbType DEF TypeOK, DeleteTrade, broker, history, Running
<1>5. CASE GateChanges
  BY <1>5, MarketType
<1>6. ASSUME NEW s \in Slots, NEW kind \in ManualKinds, Request(s, kind) PROVE TypeOK'
  BY <1>6, QueueType
<1>. QED BY <1>1, <1>2, <1>3, <1>4, <1>5, <1>6 DEF User

\* A step that changes nothing.
LEMMA StutterType == ASSUME TypeOK, UNCHANGED vars PROVE TypeOK'
BY DEF TypeOK, vars, Running

\* Every variable keeps its type, ids stay below the sequence and every running
\* execution has a token, for any constants.
THEOREM TypeCorrect == Spec => []TypeOK
<1>1. ASSUME TypeOK, [Next]_vars PROVE TypeOK'
  BY <1>1, MarketType, QueueType, WorkerType, ExpiryType, HandlerType, UserType, StutterType
     DEF Next
<1>. QED BY InitType, <1>1, PTL DEF Spec

-----------------------------------------------------------------------------
(* The lock *)

\* What the lock stands for while it protects: the one running execution holds
\* it, the one request in flight was posted under it, and an execution that has
\* not posted yet has no request in flight.
PreWait(s) == task[s].pc \in {"deals", "positions", "post"}
LockInv ==
    ~faulted =>
        /\ \A k \in Tokens : InFlight(k) => lock = k
        /\ \A s \in Slots : Running(s) => Holds(s)
        /\ \A s, r \in Slots : Running(s) /\ Running(r) => s = r
        /\ \A s \in Slots : PreWait(s) => ~InFlight(task[s].tok)

\* Tasks that neither start nor change hands keep the invariant.
LEMMA QueueLock ==
    ASSUME TypeOK, LockInv, NEW s \in Slots, NEW t,
           task' = [task EXCEPT ![s] = t], t.pc \in {"off", "queued"},
           UNCHANGED <<lock, req, faulted>>
    PROVE  LockInv'
BY DEF TypeOK, LockInv, Running, Holds, PreWait, InFlight

\* An execution ends: its request is not in flight, so the key may go.
LEMMA EndLock ==
    ASSUME TypeOK, LockInv, NEW s \in Slots, Running(s), NEW t,
           task' = [task EXCEPT ![s] = t], t.pc \in {"off", "queued"},
           Release(s), faulted' = faulted,
           ~InFlight(task[s].tok),
           req' = req \/ req' = [req EXCEPT ![task[s].tok] = NoRequest]
    PROVE  LockInv'
<1>. SUFFICES ASSUME ~faulted PROVE LockInv'
  BY DEF LockInv
<1>1. \A k \in Tokens : ~InFlight(k)
  BY DEF LockInv, Holds
<1>2. \A k \in Tokens : ~InFlight(k)'
  BY <1>1 DEF TypeOK, InFlight, NoRequest
<1>3. \A r \in Slots : ~Running(r)'
  BY DEF LockInv, TypeOK, Running
<1>4. \A r \in Slots : ~PreWait(r)'
  BY <1>3 DEF PreWait, Running
<1>. QED BY <1>2, <1>3, <1>4 DEF LockInv

\* The steps of a worker keep the lock invariant.
LEMMA WorkerLock ==
    ASSUME TypeOK, LockInv, NEW s \in Slots, Worker(s) \/ WorkerDisturbed(s)
    PROVE  LockInv'
<1>1. CASE SkipBusy(s) \/ SkipGate(s)
  <2>1. task' = [task EXCEPT ![s] = NoTask] /\ NoTask.pc = "off"
        /\ UNCHANGED <<lock, req, faulted>>
    BY <1>1 DEF SkipBusy, SkipGate, NoTask, history
  <2>. QED BY <2>1, QueueLock
<1>2. ASSUME NEW k \in Tokens, Start(s, k) PROVE LockInv'
  <2>. SUFFICES ASSUME ~faulted PROVE LockInv'
    BY <1>2 DEF LockInv, Start
  <2>1. lock = NoToken /\ lock' = k /\ req' = req
        /\ req[k].phase = "idle" /\ task[s].pc = "queued"
    BY <1>2 DEF Start, Execute, Unused
  <2>2. \A l \in Tokens : ~InFlight(l) /\ ~InFlight(l)'
    BY <2>1, ConstantsAssumption DEF LockInv, InFlight
  <2>3. \A r \in Slots : ~Running(r)
    BY <2>1, ConstantsAssumption DEF LockInv, Holds, TypeOK
  <2>4. task'[s].tok = k /\ task'[s].locked = TRUE
        /\ \A r \in Slots \ {s} : task'[r] = task[r]
    BY <1>2 DEF Start, Execute, TypeOK, Tasks
  <2>5. \A r \in Slots : Running(r)' => r = s
    BY <2>3, <2>4 DEF Running
  <2>6. Holds(s)'
    BY <2>1, <2>4 DEF Holds
  <2>7. \A r \in Slots : PreWait(r)' => r = s
    BY <2>5 DEF PreWait, Running
  <2>. QED BY <2>2, <2>4, <2>5, <2>6, <2>7 DEF LockInv
<1>3. CASE \E k \in Tokens : StartUnlocked(s, k)
  BY <1>3 DEF StartUnlocked, LockInv
<1>4. ASSUME NEW from \in {"deals", "positions"}, NEW to \in {"positions", "post"},
             NEW rows, Fetch(s, from, to, rows)
      PROVE  LockInv'
  <2>1. task[s].pc = from /\ task' = [task EXCEPT ![s] = [@ EXCEPT !.pc = to, !.rows = rows]]
        /\ UNCHANGED <<lock, req, faulted>>
    BY <1>4 DEF Fetch
  <2>2. task'[s].pc = to /\ task'[s].tok = task[s].tok /\ task'[s].locked = task[s].locked
        /\ \A r \in Slots \ {s} : task'[r] = task[r]
    BY <2>1 DEF TypeOK, Tasks
  <2>3. \A r \in Slots : /\ Running(r)' = Running(r)
                         /\ Holds(r)' = Holds(r)
                         /\ PreWait(r)' = PreWait(r)
    BY <2>1, <2>2 DEF Running, Holds, PreWait
  <2>4. \A k \in Tokens : InFlight(k)' = InFlight(k)
    BY <2>1 DEF InFlight
  <2>5. \A r \in Slots : task'[r].tok = task[r].tok
    BY <2>2
  <2>. QED BY <2>1, <2>2, <2>3, <2>4, <2>5 DEF LockInv, TypeOK, InFlight
<1>5. CASE ReadDeals(s)
  BY <1>4, <1>5 DEF ReadDeals
<1>6. CASE ReadNoDeals(s)
  BY <1>4, <1>6 DEF ReadNoDeals
<1>7. CASE ReadPositions(s)
  BY <1>4, <1>7 DEF ReadPositions
<1>8. CASE ReadNoPositions(s)
  BY <1>4, <1>8 DEF ReadNoPositions
<1>9. CASE Post(s)
  <2>. SUFFICES ASSUME ~faulted PROVE LockInv'
    BY <1>9 DEF LockInv, Post, history
  <2>1. Running(s) /\ Holds(s) /\ task[s].tok \in Tokens
    BY <1>9 DEF Post, Running, LockInv, TypeOK
  <2>2. lock' = lock /\ task'[s].pc = "wait" /\ task'[s].tok = task[s].tok
        /\ task'[s].locked = task[s].locked
        /\ \A r \in Slots \ {s} : task'[r] = task[r]
    BY <1>9 DEF Post, TypeOK, Tasks
  <2>3. \A k \in Tokens \ {task[s].tok} : req'[k] = req[k]
    BY <1>9 DEF Post, TypeOK
  <2>4. \A k \in Tokens : InFlight(k)' => lock' = k
    BY <2>1, <2>2, <2>3 DEF InFlight, LockInv, Holds
  <2>5. \A r \in Slots : Running(r)' => r = s
    BY <2>1, <2>2 DEF Running, LockInv
  <2>6. Holds(s)'
    BY <2>1, <2>2 DEF Holds
  <2>7. \A r \in Slots : ~PreWait(r)'
    BY <2>2, <2>5 DEF PreWait, Running
  <2>. QED BY <2>4, <2>5, <2>6, <2>7 DEF LockInv
<1>10. CASE Finish(s)
  <2>1. Running(s) /\ ~InFlight(task[s].tok) /\ NoTask.pc = "off"
    BY <1>10 DEF Finish, Running, InFlight, NoTask
  <2>. QED BY <1>10, <2>1, EndLock DEF Finish, history
<1>11. ASSUME Retry(s), Running(s), faulted' = faulted, ~InFlight(task[s].tok),
              req' = req \/ req' = [req EXCEPT ![task[s].tok] = NoRequest]
       PROVE  LockInv'
  <2>. DEFINE t == IF task[s].tries < MaxRetries
                     THEN [NoTask EXCEPT !.pc = "queued", !.kind = task[s].kind,
                                         !.tries = task[s].tries + 1]
                     ELSE NoTask
  <2>1. t.pc \in {"off", "queued"}
    BY DEF NoTask
  <2>2. task' = [task EXCEPT ![s] = t] /\ Release(s)
    BY <1>11 DEF Retry
  <2>. HIDE DEF t
  <2>. QED BY <1>11, <2>1, <2>2, EndLock
<1>12. CASE Refused(s)
  BY <1>11, <1>12 DEF Refused, Running, InFlight
<1>13. CASE ReplyLost(s)
  BY <1>11, <1>13 DEF ReplyLost, Running, InFlight
<1>14. CASE WorkerFails(s)
  <2>1. Running(s) /\ PreWait(s)
    BY <1>14 DEF WorkerFails, Running, PreWait
  <2>2. faulted \/ ~InFlight(task[s].tok)
    BY <2>1 DEF LockInv
  <2>. QED BY <1>11, <1>14, <2>1, <2>2 DEF WorkerFails, LockInv
<1>15. CASE Timeout(s)
  BY <1>15 DEF Timeout, LockInv
<1>16. CASE Crash(s)
  <2>1. lock' = lock /\ faulted' = faulted /\ task'[s].pc = "queued"
        /\ \A r \in Slots \ {s} : task'[r] = task[r]
    BY <1>16 DEF Crash, history, TypeOK, NoTask
  <2>2. \A k \in Tokens : InFlight(k)' => InFlight(k)
    BY <1>16 DEF Crash, InFlight, TypeOK, NoRequest
  <2>3. \A r \in Slots : Running(r)' => r # s /\ Running(r) /\ Holds(r)' = Holds(r)
    BY <2>1 DEF Running, Holds
  <2>4. \A r \in Slots : PreWait(r)' => r # s /\ PreWait(r) /\ task'[r].tok = task[r].tok
    BY <2>1 DEF PreWait
  <2>5. \A r \in Slots : PreWait(r) => task[r].tok \in Tokens
    BY DEF PreWait, Running, TypeOK
  <2>. QED BY <2>1, <2>2, <2>3, <2>4, <2>5 DEF LockInv
<1>17. CASE TaskExpires(s)
  <2>1. task' = [task EXCEPT ![s] = NoTask] /\ NoTask.pc = "off"
        /\ UNCHANGED <<lock, req, faulted>>
    BY <1>17 DEF TaskExpires, NoTask, history
  <2>. QED BY <2>1, QueueLock
<1>. QED BY <1>1, <1>2, <1>3, <1>5, <1>6, <1>7, <1>8, <1>9, <1>10, <1>12, <1>13, <1>14, <1>15,
            <1>16, <1>17
         DEF Worker, WorkerDisturbed

\* The handler and the user leave tasks and lock alone; a request that was not
\* in flight is not put in flight.
LEMMA ServerLock ==
    ASSUME TypeOK, LockInv, UNCHANGED <<lock, task, faulted>>,
           \A k \in Tokens : InFlight(k)' => InFlight(k)
    PROVE  LockInv'
BY DEF LockInv, Running, Holds, PreWait, TypeOK

\* An answered request is no longer in flight, and no other request changes.
LEMMA AnswerEnds ==
    ASSUME TypeOK, NEW k \in Tokens, NEW phase \in {"saved", "failed"}, Answer(k, phase)
    PROVE  /\ req'[k].phase \in {phase, "idle"}
           /\ \A l \in Tokens \ {k} : req'[l] = req[l]
           /\ \A l \in Tokens : InFlight(l)' => InFlight(l) /\ l # k
<1>1. req'[k].phase \in {phase, "idle"} /\ \A l \in Tokens \ {k} : req'[l] = req[l]
  BY DEF Answer, TypeOK, NoRequest
<1>. QED BY <1>1 DEF InFlight

\* The handler keeps it.
LEMMA HandlerLock ==
    ASSUME TypeOK, LockInv, NEW k \in Tokens, Handler(k) \/ HandlerFails(k)
    PROVE  LockInv'
<1>1. CASE Reject(k)
  BY <1>1, AnswerEnds, ServerLock DEF Reject, history
<1>2. CASE ReadTrades(k)
  <2>1. UNCHANGED <<lock, task, faulted>> /\ \A l \in Tokens : InFlight(l)' => InFlight(l)
    BY <1>2 DEF ReadTrades, history, InFlight, TypeOK
  <2>. QED BY <2>1, ServerLock
<1>3. CASE BuildBatch(k)
  <2>1. UNCHANGED <<lock, task, faulted>> /\ \A l \in Tokens : InFlight(l)' => InFlight(l)
    BY <1>3 DEF BuildBatch, history, InFlight, TypeOK
  <2>. QED BY <2>1, ServerLock
<1>4. CASE Commit(k)
  BY <1>4, AnswerEnds, ServerLock DEF Commit
<1>5. CASE CommitStale(k)
  BY <1>5, AnswerEnds, ServerLock DEF CommitStale, Rollback, history
<1>6. CASE HandlerFails(k)
  BY <1>6, AnswerEnds, ServerLock DEF HandlerFails, Rollback, history
<1>. QED BY <1>1, <1>2, <1>3, <1>4, <1>5, <1>6 DEF Handler

\* So does everything else.
LEMMA OtherLock ==
    ASSUME TypeOK, LockInv,
           \/ \E p \in Positions : Market(p)
           \/ \E s \in Slots : Beat(s)
           \/ LockExpires \/ LockExpiresInUse \/ User
           \/ UNCHANGED vars
    PROVE  LockInv'
<1>1. ASSUME NEW p \in Positions, Market(p) PROVE LockInv'
  <2>1. UNCHANGED <<lock, task, req, faulted>>
    BY <1>1 DEF Market, OpenPosition, PartialClose, ClosePosition, Age, Deal, history
  <2>. QED BY <2>1, ServerLock DEF InFlight
<1>2. ASSUME NEW s \in Slots, NEW kind, Queue(s, kind) PROVE LockInv'
  <2>. DEFINE t == [NoTask EXCEPT !.pc = "queued", !.kind = kind]
  <2>1. task' = [task EXCEPT ![s] = t] /\ t.pc = "queued" /\ UNCHANGED <<lock, req, faulted>>
    BY <1>2 DEF Queue, NoTask, history
  <2>. HIDE DEF t
  <2>. QED BY <2>1, QueueLock
<1>3. CASE LockExpires
  <2>1. UNCHANGED <<task, req, faulted>>
    BY <1>3 DEF LockExpires, history
  <2>2. ~faulted => (\A k \in Tokens : ~InFlight(k)) /\ (\A s \in Slots : ~Running(s))
    BY <1>3 DEF LockExpires, LockInv
  <2>3. ~faulted' => (\A k \in Tokens : ~InFlight(k)') /\ (\A s \in Slots : ~Running(s)' /\ ~PreWait(s)')
    BY <2>1, <2>2 DEF InFlight, Running, PreWait
  <2>. QED BY <2>3 DEF LockInv
<1>4. CASE LockExpiresInUse
  BY <1>4 DEF LockExpiresInUse, LockInv
<1>5. CASE GateChanges
  <2>1. UNCHANGED <<lock, task, req, faulted>>
    BY <1>5 DEF GateChanges, history
  <2>. QED BY <2>1, ServerLock DEF InFlight
<1>6. ASSUME NEW u \in Uploads, UploadRead(u) \/ UploadCommit(u) \/ UploadConflict(u)
      PROVE  LockInv'
  <2>1. UNCHANGED <<lock, task, req, faulted>>
    BY <1>6 DEF UploadRead, UploadCommit, UploadConflict, history
  <2>. QED BY <2>1, ServerLock DEF InFlight
<1>7. ASSUME NEW t \in journal, DeleteTrade(t) PROVE LockInv'
  <2>1. UNCHANGED <<lock, task, req, faulted>>
    BY <1>7 DEF DeleteTrade, history
  <2>. QED BY <2>1, ServerLock DEF InFlight
<1>8. CASE UNCHANGED vars
  BY <1>8, ServerLock DEF vars, InFlight
<1>. QED BY <1>1, <1>2, <1>3, <1>4, <1>5, <1>6, <1>7, <1>8 DEF Beat, User, Request

\* Initially nobody runs.
LEMMA InitLock == Init => LockInv
BY DEF Init, LockInv, NoTask, NoRequest, InFlight, Running, PreWait

\* The lock protects until a fault.
LEMMA LockInvariant == Spec => []LockInv
<1>1. ASSUME TypeOK, LockInv, [Next]_vars PROVE LockInv'
  BY <1>1, WorkerLock, HandlerLock, OtherLock DEF Next
<1>. QED BY TypeCorrect, InitLock, <1>1, PTL DEF Spec

\* While the lock protects every running sync, at most one posted request is
\* between its arrival and its commit: retries, redeliveries, crashes and lost
\* answers never let two handlers read and insert side by side.
THEOREM LockSerialises == Spec => []LockSerialisesIngest
<1>1. LockInv => LockSerialisesIngest
  BY DEF LockInv, LockSerialisesIngest
<1>. QED BY LockInvariant, <1>1, PTL

-----------------------------------------------------------------------------
(* One trade per position *)

\* While neither the lock was lost nor an upload overlapped a sync: positions
\* are recorded once, the insert batch of a request is still missing from the
\* journal, and whatever of an upload is recorded by now carries a key, which
\* the unique index will see.
UniqueInv ==
    ~faulted /\ ~mixed =>
        /\ \A t, u \in journal : t.pos = u.pos => t = u
        /\ \A k \in Tokens : req[k].phase = "built" => \A t \in journal : t.pos \notin req[k].ins
        /\ \A u \in Uploads : \A t \in journal : t.pos \in upload[u] => t.keyed

\* Steps that add no trade, no batch and no upload keep it.
LEMMA QuietUnique ==
    ASSUME TypeOK, UniqueInv,
           journal' \subseteq journal,
           faulted => faulted', mixed => mixed',
           \A k \in Tokens : req'[k].phase = "built" => req'[k] = req[k],
           \A u \in Uploads : upload'[u] \subseteq upload[u]
    PROVE  UniqueInv'
BY DEF UniqueInv

\* A worker writes no trade.
LEMMA WorkerUnique ==
    ASSUME TypeOK, UniqueInv, NEW s \in Slots, Worker(s) \/ WorkerDisturbed(s)
    PROVE  UniqueInv'
<1>1. ASSUME UNCHANGED <<journal, upload, mixed>>, faulted' = faulted \/ faulted' = TRUE,
             NEW k \in Tokens, NEW r \in {NoRequest} \cup {q \in Requests : q.phase = "sent"},
             req' = req \/ req' = [req EXCEPT ![k] = r]
      PROVE  UniqueInv'
  <2>1. \A l \in Tokens : req'[l].phase = "built" => req'[l] = req[l]
    BY <1>1 DEF NoRequest, TypeOK
  <2>. QED BY <1>1, <2>1, QuietUnique
<1>2. ASSUME UNCHANGED <<journal, upload, mixed, req>>, faulted' = faulted \/ faulted' = TRUE
      PROVE  UniqueInv'
  BY <1>2, QuietUnique
<1>3. CASE SkipBusy(s) \/ SkipGate(s) \/ TaskExpires(s)
  BY <1>2, <1>3 DEF SkipBusy, SkipGate, TaskExpires, history
<1>4. CASE \E k \in Tokens : Start(s, k)
  BY <1>2, <1>4 DEF Start, Execute
<1>5. CASE \E k \in Tokens : StartUnlocked(s, k)
  BY <1>2, <1>5 DEF StartUnlocked, Execute
<1>6. ASSUME NEW from, NEW to, NEW rows, Fetch(s, from, to, rows) PROVE UniqueInv'
  BY <1>2, <1>6 DEF Fetch
<1>7. CASE ReadDeals(s)
  BY <1>6, <1>7 DEF ReadDeals
<1>8. CASE ReadNoDeals(s)
  BY <1>6, <1>8 DEF ReadNoDeals
<1>9. CASE ReadPositions(s)
  BY <1>6, <1>9 DEF ReadPositions
<1>10. CASE ReadNoPositions(s)
  BY <1>6, <1>10 DEF ReadNoPositions
<1>11. CASE Post(s)
  <2>. DEFINE r == [NoRequest EXCEPT !.phase = "sent", !.rows = task[s].rows,
                                     !.full = task[s].full, !.recal = (task[s].kind = "recal")]
  <2>1. r \in Requests /\ r.phase = "sent"
    BY NoValues DEF TypeOK, Tasks, Requests, NoRequest
  <2>2. task[s].tok \in Tokens
    BY <1>11 DEF Post, Running, TypeOK
  <2>3. req' = [req EXCEPT ![task[s].tok] = r] /\ UNCHANGED <<journal, upload, mixed, faulted>>
    BY <1>11 DEF Post, history
  <2>. HIDE DEF r
  <2>. QED BY <1>1, <2>1, <2>2, <2>3
<1>12. CASE Finish(s)
  <2>1. task[s].tok \in Tokens
    BY <1>12 DEF Finish, Running, TypeOK
  <2>. QED BY <1>1, <1>12, <2>1 DEF Finish, history
<1>13. CASE Refused(s) \/ ReplyLost(s)
  <2>1. task[s].tok \in Tokens
    BY <1>13 DEF Refused, ReplyLost, Running, TypeOK
  <2>. QED BY <1>1, <1>13, <2>1 DEF Refused, ReplyLost, Retry
<1>14. CASE WorkerFails(s) \/ Timeout(s)
  BY <1>2, <1>14 DEF WorkerFails, Timeout, Retry
<1>15. CASE Crash(s)
  <2>1. task[s].tok \in Tokens
    BY <1>15 DEF Crash, TypeOK
  <2>2. req' = req \/ req' = [req EXCEPT ![task[s].tok] = NoRequest]
    BY <1>15, <2>1 DEF Crash, TypeOK
  <2>. QED BY <1>1, <1>15, <2>1, <2>2 DEF Crash, history
<1>. QED BY <1>3, <1>4, <1>5, <1>7, <1>8, <1>9, <1>10, <1>11, <1>12, <1>13, <1>14, <1>15
         DEF Worker, WorkerDisturbed

\* The handler inserts what it found missing.
LEMMA HandlerUnique ==
    ASSUME TypeOK, LockInv, UniqueInv, NEW k \in Tokens, Handler(k) \/ HandlerFails(k)
    PROVE  UniqueInv'
<1>1. ASSUME NEW phase \in {"saved", "failed"}, Answer(k, phase),
             UNCHANGED <<journal, upload, faulted, mixed>>
      PROVE  UniqueInv'
  <2>1. \A l \in Tokens : req'[l].phase = "built" => req'[l] = req[l]
    BY <1>1, AnswerEnds
  <2>. QED BY <1>1, <2>1, QuietUnique
<1>2. CASE Reject(k)
  BY <1>1, <1>2 DEF Reject, history
<1>3. CASE ReadTrades(k)
  <2>1. req'[k].phase = "read" /\ \A l \in Tokens \ {k} : req'[l] = req[l]
    BY <1>3 DEF ReadTrades, TypeOK, Requests
  <2>2. UNCHANGED <<journal, upload, faulted, mixed>>
    BY <1>3 DEF ReadTrades, history
  <2>. QED BY <2>1, <2>2, QuietUnique
<1>4. CASE BuildBatch(k)
  <2>1. req'[k].ins \subseteq Importable \ Known /\ \A l \in Tokens \ {k} : req'[l] = req[l]
    BY <1>4 DEF BuildBatch, TypeOK, Requests
  <2>2. UNCHANGED <<journal, upload, faulted, mixed>>
    BY <1>4 DEF BuildBatch, history
  <2>3. \A t \in journal : t.pos \notin req'[k].ins
    BY <2>1 DEF Known
  <2>. QED BY <2>1, <2>2, <2>3 DEF UniqueInv
<1>5. CASE Commit(k)
  <2>. SUFFICES ASSUME ~faulted', ~mixed' PROVE UniqueInv'
    BY DEF UniqueInv
  <2>1. /\ req[k].phase = "built" /\ ~faulted /\ ~mixed
        /\ journal' = {Written(k, t) : t \in journal} \cup Inserted(k)
        /\ upload' = upload /\ \A u \in Uploads : upload[u] = {}
    BY <1>5 DEF Commit
  <2>2. \A t \in journal : t.pos \notin req[k].ins
    BY <2>1 DEF UniqueInv
  <2>3. \A t, u \in journal' : t.pos = u.pos => t = u
    <3>1. ASSUME NEW t \in journal, NEW u \in journal, Written(k, t).pos = Written(k, u).pos
          PROVE  Written(k, t) = Written(k, u)
      BY <2>1, <3>1, CommitType DEF UniqueInv
    <3>2. ASSUME NEW t \in journal, NEW u \in Inserted(k) PROVE Written(k, t).pos # u.pos
      BY <2>2, CommitType DEF Inserted
    <3>3. ASSUME NEW t \in Inserted(k), NEW u \in Inserted(k), t.pos = u.pos PROVE t = u
      BY <3>3, InsertedOnce
    <3>. QED BY <2>1, <3>1, <3>2, <3>3
  <2>4. \A l \in Tokens : req'[l].phase # "built"
    <3>1. Answer(k, "saved")
      BY <1>5 DEF Commit
    <3>2. InFlight(k) /\ \A l \in Tokens : req'[l].phase = "built" => InFlight(l) /\ l # k
      BY <2>1, <3>1, AnswerEnds DEF InFlight
    <3>. QED BY <2>1, <3>2 DEF LockInv
  <2>. QED BY <2>1, <2>3, <2>4 DEF UniqueInv
<1>6. CASE CommitStale(k)
  BY <1>1, <1>6 DEF CommitStale, Rollback, history
<1>7. CASE HandlerFails(k)
  BY <1>1, <1>7 DEF HandlerFails, Rollback, history
<1>. QED BY <1>2, <1>3, <1>4, <1>5, <1>6, <1>7 DEF Handler

\* Uploads, deletions and the rest.
LEMMA OtherUnique ==
    ASSUME TypeOK, UniqueInv,
           \/ \E p \in Positions : Market(p)
           \/ \E s \in Slots : Beat(s)
           \/ LockExpires \/ LockExpiresInUse \/ User
           \/ UNCHANGED vars
    PROVE  UniqueInv'
<1>1. ASSUME UNCHANGED <<journal, upload, mixed, req>>, faulted' = faulted \/ faulted' = TRUE
      PROVE  UniqueInv'
  BY <1>1, QuietUnique
<1>2. ASSUME NEW p \in Positions, Market(p) PROVE UniqueInv'
  BY <1>1, <1>2 DEF Market, OpenPosition, PartialClose, ClosePosition, Age, Deal, history
<1>3. ASSUME NEW s \in Slots, NEW kind, Queue(s, kind) PROVE UniqueInv'
  BY <1>1, <1>3 DEF Queue, history
<1>4. CASE LockExpires
  BY <1>1, <1>4 DEF LockExpires, history
<1>5. CASE LockExpiresInUse
  BY <1>1, <1>5 DEF LockExpiresInUse
<1>6. CASE GateChanges
  BY <1>1, <1>6 DEF GateChanges, history
<1>7. ASSUME NEW u \in Uploads, UploadRead(u) PROVE UniqueInv'
  <2>1. upload'[u] \cap Known = {} /\ \A v \in Uploads \ {u} : upload'[v] = upload[v]
    BY <1>7 DEF UploadRead, TypeOK
  <2>2. UNCHANGED <<journal, req, faulted, mixed>>
    BY <1>7 DEF UploadRead, history
  <2>. QED BY <2>1, <2>2 DEF UniqueInv, Known
<1>8. ASSUME NEW u \in Uploads, UploadCommit(u) PROVE UniqueInv'
  <2>. SUFFICES ASSUME ~faulted', ~mixed' PROVE UniqueInv'
    BY DEF UniqueInv
  <2>1. /\ ~faulted /\ ~mixed /\ journal' = journal \cup Uploaded(u) /\ req' = req
        /\ \A k \in Tokens : req[k].phase # "built"
        /\ ~KeyTaken(u)
    BY <1>8 DEF UploadCommit
  <2>2. upload'[u] = {} /\ \A v \in Uploads \ {u} : upload'[v] = upload[v]
    BY <1>8 DEF UploadCommit, TypeOK
  <2>3. \A t \in journal : t.pos \notin upload[u]
    BY <2>1 DEF UniqueInv, KeyTaken
  <2>4. \A t \in Uploaded(u) : t.pos \in upload[u] /\ t.keyed
    BY DEF Uploaded
  <2>5. \A t, v \in Uploaded(u) : t.pos = v.pos => t = v
    BY UploadedOnce
  <2>. QED BY <2>1, <2>2, <2>3, <2>4, <2>5 DEF UniqueInv
<1>9. ASSUME NEW u \in Uploads, UploadConflict(u) PROVE UniqueInv'
  <2>1. \A v \in Uploads : upload'[v] \subseteq upload[v]
    BY <1>9 DEF UploadConflict, TypeOK
  <2>. QED BY <1>9, <2>1, QuietUnique DEF UploadConflict, history
<1>10. ASSUME NEW t \in journal, DeleteTrade(t) PROVE UniqueInv'
  BY <1>10, QuietUnique DEF DeleteTrade, history
<1>11. CASE UNCHANGED vars
  BY <1>1, <1>11 DEF vars
<1>. QED BY <1>2, <1>3, <1>4, <1>5, <1>6, <1>7, <1>8, <1>9, <1>10, <1>11 DEF Beat, User, Request

\* Initially the journal is empty.
LEMMA InitUnique == Init => UniqueInv
BY DEF Init, UniqueInv

\* Positions are recorded once until a fault or an overlap.
LEMMA UniqueInvariant == Spec => []UniqueInv
<1>1. ASSUME TypeOK, LockInv, UniqueInv, [Next]_vars PROVE UniqueInv'
  BY <1>1, WorkerUnique, HandlerUnique, OtherUnique DEF Next
<1>. QED BY TypeCorrect, LockInvariant, InitUnique, <1>1, PTL DEF Spec

\* No position is recorded twice as long as the lock held and no upload
\* overlapped a sync, for any number of positions, tasks, retries and uploads.
THEOREM RecordedOnce == Spec => []OneTradePerPosition
<1>1. UniqueInv => OneTradePerPosition
  BY DEF UniqueInv, OneTradePerPosition
<1>. QED BY UniqueInvariant, <1>1, PTL

-----------------------------------------------------------------------------
(* Closed trades *)

\* An id and a position name one trade: ids are taken from the sequence.
KeyInv == \A t, u \in journal : t.id = u.id /\ t.pos = u.pos => t = u

\* What a step can do to the journal: remove, write a batch, or add an upload.
LEMMA JournalSteps ==
    ASSUME TypeOK, [Next]_vars
    PROVE  \/ journal' \subseteq journal
           \/ \E k \in Tokens : /\ req[k].phase = "built"
                              /\ journal' = {Written(k, t) : t \in journal} \cup Inserted(k)
           \/ \E u \in Uploads : journal' = journal \cup Uploaded(u)
<1>1. ASSUME NEW p \in Positions, Market(p) PROVE journal' = journal
  BY <1>1 DEF Market, OpenPosition, PartialClose, ClosePosition, Age, Deal
<1>2. ASSUME NEW s \in Slots, Beat(s) PROVE journal' = journal
  BY <1>2 DEF Beat, Queue
<1>3. ASSUME NEW s \in Slots, Worker(s) PROVE journal' = journal
  BY <1>3 DEF Worker, SkipBusy, SkipGate, Start, Execute, ReadDeals, ReadPositions, Fetch,
              Post, Finish, Refused, Retry
<1>4. ASSUME NEW s \in Slots, WorkerDisturbed(s) PROVE journal' = journal
  BY <1>4 DEF WorkerDisturbed, TaskExpires, StartUnlocked, Execute, ReadNoDeals,
              ReadNoPositions, Fetch, WorkerFails, Timeout, ReplyLost, Retry, Crash
<1>5. CASE LockExpires \/ LockExpiresInUse
  BY <1>5 DEF LockExpires, LockExpiresInUse
<1>6. ASSUME NEW k \in Tokens, Handler(k) \/ HandlerFails(k), ~Commit(k)
      PROVE  journal' = journal
  BY <1>6 DEF Handler, Reject, ReadTrades, BuildBatch, CommitStale, HandlerFails, Rollback
<1>7. ASSUME NEW k \in Tokens, Commit(k)
      PROVE  /\ req[k].phase = "built"
             /\ journal' = {Written(k, t) : t \in journal} \cup Inserted(k)
  BY <1>7 DEF Commit
<1>8. CASE User
  BY <1>8 DEF User, GateChanges, Request, Queue, UploadRead, UploadCommit, UploadConflict,
              DeleteTrade
<1>9. CASE UNCHANGED vars
  BY <1>9 DEF vars
<1>. QED BY <1>1, <1>2, <1>3, <1>4, <1>5, <1>6, <1>7, <1>8, <1>9 DEF Next

\* Id and position always name one trade.
LEMMA KeyInvariant == Spec => []KeyInv
<1>1. Init => KeyInv
  BY DEF Init, KeyInv
<1>2. ASSUME TypeOK, KeyInv, [Next]_vars PROVE KeyInv'
  <2>1. CASE journal' \subseteq journal
    BY <1>2, <2>1 DEF KeyInv
  <2>2. ASSUME NEW k \in Tokens, journal' = {Written(k, t) : t \in journal} \cup Inserted(k)
        PROVE  KeyInv'
    <3>1. \A t \in journal : Written(k, t).id = t.id /\ Written(k, t).pos = t.pos
                             /\ t.id < nextId /\ t.id \in Nat
      BY <1>2, CommitType DEF TypeOK, Trades
    <3>2. \A t \in Inserted(k) : t.id = nextId
      BY DEF Inserted
    <3>3. \A t, u \in Inserted(k) : t.pos = u.pos => t = u
      BY InsertedOnce
    <3>4. nextId \in Nat
      BY <1>2 DEF TypeOK
    <3>. QED BY <1>2, <2>2, <3>1, <3>2, <3>3, <3>4 DEF KeyInv
  <2>3. ASSUME NEW u \in Uploads,
               journal' = journal \cup Uploaded(u)
        PROVE  KeyInv'
    <3>1. \A t \in journal : t.id < nextId /\ t.id \in Nat
      BY <1>2 DEF TypeOK, Trades
    <3>2. nextId \in Nat /\ \A t \in Uploaded(u) : t.id = nextId
      BY <1>2 DEF TypeOK, Uploaded
    <3>3. \A t, v \in Uploaded(u) : t.pos = v.pos => t = v
      BY UploadedOnce
    <3>. QED BY <1>2, <2>3, <3>1, <3>2, <3>3 DEF KeyInv
  <2>. QED BY <1>2, <2>1, <2>2, <2>3, JournalSteps
<1>. QED BY TypeCorrect, <1>1, <1>2, PTL DEF Spec

\* No step reopens a trade, with or without the lock.
THEOREM NeverReopened == Spec => ClosedNeverReopened
<1>. DEFINE Keeps == \A t \in journal, u \in journal' :
                        t.id = u.id /\ t.pos = u.pos /\ t.closed => u.closed
<1>1. ASSUME TypeOK, KeyInv, [Next]_vars PROVE Keeps
  <2>1. CASE journal' \subseteq journal
    BY <1>1, <2>1 DEF KeyInv
  <2>2. ASSUME NEW k \in Tokens, journal' = {Written(k, t) : t \in journal} \cup Inserted(k)
        PROVE  Keeps
    <3>1. \A t \in journal : /\ Written(k, t).id = t.id /\ Written(k, t).pos = t.pos
                             /\ t.closed => Written(k, t).closed
      <4>1. ASSUME NEW t \in journal PROVE t.closed => Written(k, t).closed
        BY <1>1 DEF Written, TypeOK, Trades
      <4>. QED BY <1>1, <4>1, CommitType
    <3>2. \A t \in journal, u \in Inserted(k) : t.id # u.id
      BY <1>1 DEF Inserted, TypeOK, Trades
    <3>. QED BY <1>1, <2>2, <3>1, <3>2 DEF KeyInv
  <2>3. ASSUME NEW u \in Uploads, journal' = journal \cup Uploaded(u)
        PROVE  Keeps
    <3>1. \A t \in journal, v \in Uploaded(u) : t.id # v.id
      BY <1>1 DEF Uploaded, TypeOK, Trades
    <3>. QED BY <1>1, <2>3, <3>1 DEF KeyInv
  <2>. QED BY <1>1, <2>1, <2>2, <2>3, JournalSteps
<1>2. TypeOK /\ KeyInv /\ [Next]_vars => [Keeps]_vars
  BY <1>1
<1>. QED BY TypeCorrect, KeyInvariant, <1>2, PTL DEF Spec, ClosedNeverReopened

-----------------------------------------------------------------------------
(* The steps of an execution *)

\* What an execution leaves alone.
WorkerFrame ==
    /\ UNCHANGED <<broker, journal, nextId, upload, deleted>>
    /\ blind => blind'
    /\ faulted => faulted'

\* Task t replaces that of slot s: the message is queued, consumed, dropped or
\* put back, and the request it waited for may be answered ...
Ends(s, t) ==
    /\ t.pc \in {"off", "queued"} /\ ~t.full /\ t.rows = NoRows
    /\ \/ req' = req
       \/ task[s].tok \in Tokens /\ req' = [req EXCEPT ![task[s].tok] = NoRequest]
    /\ \/ lastFull' = lastFull
       \/ /\ lastFull' = (lastFull \/ task[s].full)
          /\ task[s].pc = "wait" /\ req[task[s].tok].phase = "saved"

\* ... or an execution begins under a token nobody uses ...
Begins(s, t) ==
    /\ t.pc = "deals" /\ t.tok \in Tokens /\ Unused(t.tok) /\ t.rows = task[s].rows
    /\ UNCHANGED <<req, lastFull>>

\* ... or reads the deals, or the positions ...
ReadsDeals(s, t) ==
    /\ task[s].pc = "deals" /\ t.pc = "positions"
    /\ t.tok = task[s].tok /\ t.full = task[s].full
    /\ \/ t.rows = [p \in Positions |-> Aggregate(Window(task[s].full, p))]
       \/ t.rows = NoRows /\ blind'
    /\ UNCHANGED <<req, lastFull>>
ReadsPositions(s, t) ==
    /\ task[s].pc = "positions" /\ t.pc = "post"
    /\ t.tok = task[s].tok /\ t.full = task[s].full
    /\ \/ t.rows = [p \in Positions |-> Supplement(task[s].rows[p], IsRunning(p))]
       \/ t.rows = task[s].rows
    /\ UNCHANGED <<req, lastFull>>

\* ... or posts its rows.
Posts(s, t) ==
    /\ task[s].pc = "post" /\ t.pc = "wait"
    /\ t.tok = task[s].tok /\ t.full = task[s].full /\ t.rows = NoRows
    /\ task[s].tok \in Tokens
    /\ \E r \in Requests :
          /\ r.phase = "sent" /\ r.rows = task[s].rows /\ r.full = task[s].full
          /\ req' = [req EXCEPT ![task[s].tok] = r]
    /\ UNCHANGED lastFull

Executes(s, t) ==
    Ends(s, t) \/ Begins(s, t) \/ ReadsDeals(s, t) \/ ReadsPositions(s, t) \/ Posts(s, t)

\* A message queued again or ended by a retry is blank.
LEMMA RetrySteps ==
    ASSUME TypeOK, NEW s \in Slots, Retry(s), blind' = blind, faulted => faulted',
           \/ req' = req
           \/ task[s].tok \in Tokens /\ req' = [req EXCEPT ![task[s].tok] = NoRequest]
    PROVE  WorkerFrame /\ \E t \in Tasks : task' = [task EXCEPT ![s] = t] /\ Executes(s, t)
<1>. DEFINE t == IF task[s].tries < MaxRetries
                   THEN [NoTask EXCEPT !.pc = "queued", !.kind = task[s].kind,
                                       !.tries = task[s].tries + 1]
                   ELSE NoTask
<1>1. task' = [task EXCEPT ![s] = t] /\ lastFull' = lastFull
  BY DEF Retry
<1>2. t.pc \in {"off", "queued"} /\ ~t.full /\ t.rows = NoRows
  BY DEF NoTask
<1>3. t = task'[s] /\ task' \in [Slots -> Tasks]
  BY <1>1, RetryType DEF TypeOK
<1>4. t \in Tasks
  BY <1>3
<1>5. WorkerFrame
  BY DEF WorkerFrame, Retry
<1>. HIDE DEF t
<1>6. Ends(s, t)
  BY <1>1, <1>2 DEF Ends
<1>. QED BY <1>1, <1>4, <1>5, <1>6 DEF Executes

\* A step of the queue or of a worker is one of these.
LEMMA WorkerSteps ==
    ASSUME TypeOK, NEW s \in Slots,
           Beat(s) \/ (\E kind \in ManualKinds : Request(s, kind))
              \/ Worker(s) \/ WorkerDisturbed(s)
    PROVE  WorkerFrame /\ \E t \in Tasks : task' = [task EXCEPT ![s] = t] /\ Executes(s, t)
<1>. DEFINE Goal == WorkerFrame /\ \E t \in Tasks : task' = [task EXCEPT ![s] = t] /\ Executes(s, t)
<1>1. ASSUME NEW kind \in Kinds, Queue(s, kind) PROVE Goal
  <2>. DEFINE t == [NoTask EXCEPT !.pc = "queued", !.kind = kind]
  <2>1. t \in Tasks /\ t.pc = "queued" /\ ~t.full /\ t.rows = NoRows
    BY NoValues DEF Tasks, NoTask
  <2>2. task' = [task EXCEPT ![s] = t]
    BY <1>1 DEF Queue
  <2>. HIDE DEF t
  <2>3. Ends(s, t)
    BY <1>1, <2>1 DEF Ends, Queue
  <2>. QED BY <1>1, <2>1, <2>2, <2>3 DEF Queue, WorkerFrame, Executes, history
<1>2. CASE Beat(s)
  BY <1>1, <1>2 DEF Beat, Kinds
<1>3. CASE \E kind \in ManualKinds : Request(s, kind)
  BY <1>1, <1>3 DEF Request, Kinds
<1>4. CASE SkipBusy(s) \/ SkipGate(s) \/ TaskExpires(s)
  <2>1. task' = [task EXCEPT ![s] = NoTask] /\ Ends(s, NoTask) /\ WorkerFrame
    BY <1>4 DEF SkipBusy, SkipGate, TaskExpires, Ends, NoTask, WorkerFrame, history
  <2>. QED BY <2>1, NoValues DEF Executes
<1>5. ASSUME NEW k \in Tokens, NEW locked \in BOOLEAN, Execute(s, k, locked), faulted => faulted'
      PROVE  Goal
  <2>. DEFINE t == [task[s] EXCEPT !.pc = "deals", !.tok = k, !.locked = locked,
                             !.full = (task[s].kind \in {"full", "recal"} \/ ~lastFull)]
  <2>1. t \in Tasks /\ t.tok = k /\ t.pc = "deals" /\ t.rows = task[s].rows
    BY ZenonT(40) DEF TypeOK, Tasks
  <2>2. task' = [task EXCEPT ![s] = t]
    BY <1>5 DEF Execute
  <2>. HIDE DEF t
  <2>3. Begins(s, t)
    BY <1>5, <2>1 DEF Begins, Execute
  <2>. QED BY <1>5, <2>1, <2>2, <2>3 DEF Executes, Execute, WorkerFrame
<1>6. CASE \E k \in Tokens : Start(s, k)
  <2>1. PICK k \in Tokens : Start(s, k)
    BY <1>6
  <2>2. Execute(s, k, TRUE) /\ faulted' = faulted
    BY <2>1 DEF Start
  <2>3. faulted => faulted'
    BY <2>2
  <2>. QED BY <1>5, <2>2, <2>3
<1>7. CASE \E k \in Tokens : StartUnlocked(s, k)
  BY <1>5, <1>7 DEF StartUnlocked
<1>8. ASSUME NEW from, NEW to \in {"positions", "post"}, NEW rows \in Rows,
             Fetch(s, from, to, rows), blind => blind'
      PROVE  /\ WorkerFrame /\ task[s].pc = from /\ UNCHANGED <<req, lastFull>>
             /\ \E t \in Tasks : /\ task' = [task EXCEPT ![s] = t] /\ t.pc = to
                                 /\ t.tok = task[s].tok /\ t.full = task[s].full /\ t.rows = rows
  <2>. DEFINE t == [task[s] EXCEPT !.pc = to, !.rows = rows]
  <2>1. t \in Tasks /\ t.pc = to /\ t.tok = task[s].tok /\ t.full = task[s].full /\ t.rows = rows
    BY DEF TypeOK, Tasks
  <2>2. task' = [task EXCEPT ![s] = t]
    BY <1>8 DEF Fetch
  <2>. HIDE DEF t
  <2>. QED BY <1>8, <2>1, <2>2 DEF Fetch, WorkerFrame
<1>9. CASE ReadDeals(s)
  <2>1. [p \in Positions |-> Aggregate(Window(task[s].full, p))] \in Rows
    BY RowsType
  <2>2. Fetch(s, "deals", "positions", [p \in Positions |-> Aggregate(Window(task[s].full, p))]) /\ (blind => blind')
    BY <1>9 DEF ReadDeals
  <2>3. WorkerFrame /\ task[s].pc = "deals" /\ UNCHANGED <<req, lastFull>>
    BY <1>8, <2>1, <2>2
  <2>4. PICK t \in Tasks :
             /\ task' = [task EXCEPT ![s] = t] /\ t.pc = "positions"
             /\ t.tok = task[s].tok /\ t.full = task[s].full
             /\ t.rows = [p \in Positions |-> Aggregate(Window(task[s].full, p))]
    BY <1>8, <2>1, <2>2
  <2>5. ReadsDeals(s, t)
    BY <2>2, <2>3, <2>4 DEF ReadsDeals
  <2>. QED BY <2>3, <2>4, <2>5 DEF Executes
<1>10. CASE ReadNoDeals(s)
  <2>1. NoRows \in Rows
    BY RowsType
  <2>2. Fetch(s, "deals", "positions", NoRows) /\ (blind => blind') /\ blind'
    BY <1>10 DEF ReadNoDeals
  <2>3. WorkerFrame /\ task[s].pc = "deals" /\ UNCHANGED <<req, lastFull>>
    BY <1>8, <2>1, <2>2
  <2>4. PICK t \in Tasks :
             /\ task' = [task EXCEPT ![s] = t] /\ t.pc = "positions"
             /\ t.tok = task[s].tok /\ t.full = task[s].full
             /\ t.rows = NoRows
    BY <1>8, <2>1, <2>2, ZenonT(40)
  <2>5. ReadsDeals(s, t)
    BY <2>2, <2>3, <2>4 DEF ReadsDeals
  <2>. QED BY <2>3, <2>4, <2>5 DEF Executes
<1>11. CASE ReadPositions(s)
  <2>1. [p \in Positions |-> Supplement(task[s].rows[p], IsRunning(p))] \in Rows
    BY RowsType
  <2>2. Fetch(s, "positions", "post", [p \in Positions |-> Supplement(task[s].rows[p], IsRunning(p))]) /\ (blind => blind')
    BY <1>11 DEF ReadPositions
  <2>3. WorkerFrame /\ task[s].pc = "positions" /\ UNCHANGED <<req, lastFull>>
    BY <1>8, <2>1, <2>2
  <2>4. PICK t \in Tasks :
             /\ task' = [task EXCEPT ![s] = t] /\ t.pc = "post"
             /\ t.tok = task[s].tok /\ t.full = task[s].full
             /\ t.rows = [p \in Positions |-> Supplement(task[s].rows[p], IsRunning(p))]
    BY <1>8, <2>1, <2>2
  <2>5. ReadsPositions(s, t)
    BY <2>2, <2>3, <2>4 DEF ReadsPositions
  <2>. QED BY <2>3, <2>4, <2>5 DEF Executes
<1>12. CASE ReadNoPositions(s)
  <2>1. task[s].rows \in Rows
    BY DEF TypeOK, Tasks
  <2>2. Fetch(s, "positions", "post", task[s].rows) /\ (blind => blind')
    BY <1>12 DEF ReadNoPositions
  <2>3. WorkerFrame /\ task[s].pc = "positions" /\ UNCHANGED <<req, lastFull>>
    BY <1>8, <2>1, <2>2
  <2>4. PICK t \in Tasks :
             /\ task' = [task EXCEPT ![s] = t] /\ t.pc = "post"
             /\ t.tok = task[s].tok /\ t.full = task[s].full
             /\ t.rows = task[s].rows
    BY <1>8, <2>1, <2>2, ZenonT(40)
  <2>5. ReadsPositions(s, t)
    BY <2>2, <2>3, <2>4 DEF ReadsPositions
  <2>. QED BY <2>3, <2>4, <2>5 DEF Executes
<1>13. CASE Post(s)
  <2>. DEFINE t == [task[s] EXCEPT !.pc = "wait", !.rows = NoRows]
  <2>. DEFINE r == [NoRequest EXCEPT !.phase = "sent", !.rows = task[s].rows,
                                     !.full = task[s].full, !.recal = (task[s].kind = "recal")]
  <2>1. r \in Requests /\ r.phase = "sent" /\ r.rows = task[s].rows /\ r.full = task[s].full
    BY NoValues DEF TypeOK, Tasks, Requests, NoRequest
  <2>2. t \in Tasks /\ t.pc = "wait" /\ t.tok = task[s].tok /\ t.full = task[s].full /\ t.rows = NoRows
    BY NoValues DEF TypeOK, Tasks, NoTask
  <2>3. task[s].tok \in Tokens
    BY <1>13 DEF Post, Running, TypeOK
  <2>4. task' = [task EXCEPT ![s] = t] /\ req' = [req EXCEPT ![task[s].tok] = r]
        /\ task[s].pc = "post" /\ lastFull' = lastFull /\ WorkerFrame
    BY <1>13 DEF Post, WorkerFrame, history
  <2>. HIDE DEF t, r
  <2>5. Posts(s, t)
    BY <2>1, <2>2, <2>3, <2>4 DEF Posts
  <2>. QED BY <2>2, <2>4, <2>5 DEF Executes
<1>14. CASE Finish(s)
  <2>1. task[s].tok \in Tokens
    BY <1>14 DEF Finish, Running, TypeOK
  <2>2. task' = [task EXCEPT ![s] = NoTask] /\ Ends(s, NoTask) /\ WorkerFrame
    BY <1>14, <2>1 DEF Finish, Ends, NoTask, WorkerFrame, history
  <2>. QED BY <2>2, NoValues DEF Executes
<1>15. CASE Refused(s) \/ ReplyLost(s)
  <2>1. task[s].tok \in Tokens
    BY <1>15 DEF Refused, ReplyLost, Running, TypeOK
  <2>2. Retry(s) /\ req' = [req EXCEPT ![task[s].tok] = NoRequest] /\ faulted' = faulted
    BY <1>15 DEF Refused, ReplyLost
  <2>3. blind' = blind
    BY <2>2 DEF Retry
  <2>4. faulted => faulted'
    BY <2>2
  <2>. QED BY <2>1, <2>2, <2>3, <2>4, RetrySteps
<1>16. CASE WorkerFails(s) \/ Timeout(s)
  <2>1. Retry(s) /\ req' = req /\ (faulted' = faulted \/ faulted' = TRUE)
    BY <1>16 DEF WorkerFails, Timeout
  <2>2. blind' = blind
    BY <2>1 DEF Retry
  <2>3. faulted => faulted'
    BY <2>1
  <2>. QED BY <2>1, <2>2, <2>3, RetrySteps
<1>17. CASE Crash(s)
  <2>. DEFINE t == [NoTask EXCEPT !.pc = "queued", !.kind = task[s].kind, !.tries = task[s].tries]
  <2>1. t \in Tasks /\ t.pc = "queued" /\ ~t.full /\ t.rows = NoRows
    BY NoValues DEF TypeOK, Tasks, NoTask
  <2>2. task[s].tok \in Tokens
    BY <1>17 DEF Crash, TypeOK
  <2>3. req' = req \/ req' = [req EXCEPT ![task[s].tok] = NoRequest]
    BY <1>17, <2>2 DEF Crash, TypeOK
  <2>4. task' = [task EXCEPT ![s] = t] /\ lastFull' = lastFull /\ WorkerFrame
    BY <1>17 DEF Crash, WorkerFrame, history
  <2>. HIDE DEF t
  <2>5. Ends(s, t)
    BY <2>1, <2>2, <2>3, <2>4 DEF Ends
  <2>. QED BY <2>1, <2>4, <2>5 DEF Executes
<1>. HIDE DEF Goal
<1>. QED BY <1>2, <1>3, <1>4, <1>6, <1>7, <1>9, <1>10, <1>11, <1>12, <1>13, <1>14, <1>15, <1>16, <1>17
         DEF Worker, WorkerDisturbed

-----------------------------------------------------------------------------
(* What the broker closed *)

\* The broker closed position p and x sums all its exits.
Whole(p, x) == "exit" \in deals[p] /\ x = deals[p] \cap Exits

\* As long as no deal of a position left the window, rows on their way from the
\* worker to the handler that close its trade, and the trades made of them, sum
\* every exit; a trade may show a late floating profit instead.  Uploads speak of
\* positions the broker has closed.
WholeRows(rows) ==
    \A p \in Positions : Closes(rows[p]) /\ old[p] = {} => Whole(p, rows[p].pnl)
WholeTrade(t) ==
    t.closed /\ old[t.pos] = {} =>
        Whole(t.pos, t.pnl) \/ ("exit" \in deals[t.pos] /\ t.pnl = Floating)
BrokerInv ==
    /\ \A p \in Positions : deals[p] # {} => "entry" \in deals[p]
    /\ \A s \in Slots : WholeRows(task[s].rows)
    /\ \A k \in Tokens : WholeRows(req[k].rows)
    /\ \A u \in Uploads : \A p \in upload[u] : "exit" \in deals[p]
    /\ \A t \in journal : WholeTrade(t)

\* The broker forgets no deal, adds none to a closed position and none before the
\* entry, and no deal comes back into the window.
Settled(p) ==
    /\ deals[p] \subseteq deals'[p] /\ old[p] \subseteq old'[p]
    /\ "exit" \in deals[p] => deals'[p] = deals[p]
    /\ deals'[p] # {} => deals[p] = deals'[p] \/ "entry" \in deals'[p]
LEMMA DealsGrow ==
    ASSUME TypeOK, [Next]_vars
    PROVE  \A p \in Positions : Settled(p)
<1>. DEFINE Still == deals' = deals /\ old' = old
<1>0. ASSUME NEW p \in Positions, NEW d, Deal(p, d), "exit" \notin deals[p],
             d = "entry" \/ "entry" \in deals[p]
      PROVE  \A q \in Positions : Settled(q)
  BY <1>0 DEF Deal, TypeOK, Settled
<1>1. ASSUME NEW p \in Positions, Market(p)
      PROVE  \A q \in Positions : Settled(q)
  <2>1. CASE OpenPosition(p)
    BY <1>0, <2>1 DEF OpenPosition
  <2>2. CASE PartialClose(p)
    BY <1>0, <2>2 DEF PartialClose
  <2>3. CASE ClosePosition(p)
    BY <1>0, <2>3 DEF ClosePosition, IsRunning
  <2>4. CASE Age(p)
    BY <2>4 DEF Age, TypeOK, Settled
  <2>. QED BY <1>1, <2>1, <2>2, <2>3, <2>4 DEF Market
<1>2. ASSUME NEW s \in Slots, Beat(s) \/ Worker(s) \/ WorkerDisturbed(s) PROVE Still
  BY <1>2, WorkerSteps DEF WorkerFrame, broker
<1>3. ASSUME LockExpires \/ LockExpiresInUse PROVE Still
  BY <1>3 DEF LockExpires, LockExpiresInUse, broker
<1>4. ASSUME NEW k \in Tokens, Handler(k) \/ HandlerFails(k) PROVE Still
  BY <1>4 DEF Handler, Reject, ReadTrades, BuildBatch, Commit, CommitStale, HandlerFails, Rollback,
              broker
<1>5. ASSUME NEW s \in Slots, NEW kind \in ManualKinds, Request(s, kind) PROVE Still
  BY <1>5, WorkerSteps DEF WorkerFrame, broker
<1>6. ASSUME User PROVE Still
  BY <1>5, <1>6 DEF User, GateChanges, UploadRead, UploadCommit, UploadConflict, DeleteTrade, broker
<1>7. ASSUME UNCHANGED vars PROVE Still
  BY <1>7 DEF vars
<1>8. Still => \A p \in Positions : Settled(p)
  BY DEF Settled
<1>. QED BY <1>1, <1>2, <1>3, <1>4, <1>6, <1>7, <1>8 DEF Next

\* Where the rows of a task come from.
LEMMA TaskRows ==
    ASSUME TypeOK, [Next]_vars, NEW s \in Slots
    PROVE  \/ task'[s].rows \in {task[s].rows, NoRows}
           \/ task'[s].rows = [p \in Positions |-> Aggregate(Window(task[s].full, p))]
           \/ task'[s].rows = [p \in Positions |-> Supplement(task[s].rows[p], IsRunning(p))]
<1>1. ASSUME NEW r \in Slots, NEW t \in Tasks, task' = [task EXCEPT ![r] = t], Executes(r, t)
      PROVE  \/ task'[s].rows \in {task[s].rows, NoRows}
             \/ task'[s].rows = [p \in Positions |-> Aggregate(Window(task[s].full, p))]
             \/ task'[s].rows = [p \in Positions |-> Supplement(task[s].rows[p], IsRunning(p))]
  <2>1. CASE r # s
    BY <1>1, <2>1 DEF TypeOK
  <2>2. CASE r = s
    <3>1. task'[s] = t
      BY <1>1, <2>2 DEF TypeOK
    <3>. QED BY <1>1, <2>2, <3>1 DEF Executes, Ends, Begins, ReadsDeals, ReadsPositions, Posts
  <2>. QED BY <2>1, <2>2
<1>2. ASSUME NEW r \in Slots,
             Beat(r) \/ Worker(r) \/ WorkerDisturbed(r) \/ \E kind \in ManualKinds : Request(r, kind)
      PROVE  \E t \in Tasks : task' = [task EXCEPT ![r] = t] /\ Executes(r, t)
  BY <1>2, WorkerSteps
<1>3. ASSUME NEW p \in Positions, Market(p) PROVE task' = task
  BY <1>3 DEF Market, OpenPosition, PartialClose, ClosePosition, Age, Deal
<1>4. CASE LockExpires \/ LockExpiresInUse
  BY <1>4 DEF LockExpires, LockExpiresInUse
<1>5. ASSUME NEW k \in Tokens, Handler(k) \/ HandlerFails(k) PROVE task' = task
  BY <1>5 DEF Handler, Reject, ReadTrades, BuildBatch, Commit, CommitStale, HandlerFails, Rollback
<1>6. CASE User /\ ~(\E r \in Slots, kind \in ManualKinds : Request(r, kind))
  BY <1>6 DEF User, GateChanges, UploadRead, UploadCommit, UploadConflict, DeleteTrade
<1>7. CASE UNCHANGED vars
  BY <1>7 DEF vars
<1>8. CASE \E r \in Slots, kind \in ManualKinds : Request(r, kind)
  BY <1>1, <1>2, <1>8
<1>. QED BY <1>1, <1>2, <1>3, <1>4, <1>5, <1>6, <1>7, <1>8 DEF Next

\* Where the rows of a request come from.
LEMMA RequestRows ==
    ASSUME TypeOK, [Next]_vars, NEW k \in Tokens
    PROVE  \/ req'[k].rows \in {req[k].rows, NoRows}
           \/ \E s \in Slots : req'[k].rows = task[s].rows
<1>. DEFINE Goal == \/ req'[k].rows \in {req[k].rows, NoRows}
                    \/ \E s \in Slots : req'[k].rows = task[s].rows
<1>1. ASSUME NEW s \in Slots,
             Beat(s) \/ Worker(s) \/ WorkerDisturbed(s) \/ \E kind \in ManualKinds : Request(s, kind)
      PROVE  Goal
  <2>1. PICK t \in Tasks : Executes(s, t)
    BY <1>1, WorkerSteps
  <2>2. req' = req \/ (\E l \in Tokens : req' = [req EXCEPT ![l] = NoRequest])
        \/ \E l \in Tokens, r \in Requests : r.rows = task[s].rows /\ req' = [req EXCEPT ![l] = r]
    BY <2>1 DEF Executes, Ends, Begins, ReadsDeals, ReadsPositions, Posts
  <2>. QED BY <2>2 DEF TypeOK, NoRequest
<1>2. ASSUME NEW p \in Positions, Market(p) PROVE req' = req
  BY <1>2 DEF Market, OpenPosition, PartialClose, ClosePosition, Age, Deal
<1>3. CASE LockExpires \/ LockExpiresInUse
  BY <1>3 DEF LockExpires, LockExpiresInUse
<1>4. ASSUME NEW l \in Tokens, NEW phase, Answer(l, phase) PROVE Goal
  BY <1>4 DEF Answer, TypeOK, NoRequest
<1>5. ASSUME NEW l \in Tokens, Handler(l) \/ HandlerFails(l) PROVE Goal
  <2>1. CASE ReadTrades(l)
    BY <2>1 DEF ReadTrades, TypeOK, Requests
  <2>2. CASE BuildBatch(l)
    BY <2>2 DEF BuildBatch, TypeOK, Requests
  <2>3. CASE Reject(l) \/ Commit(l) \/ CommitStale(l) \/ HandlerFails(l)
    BY <1>4, <2>3 DEF Reject, Commit, CommitStale, HandlerFails, Rollback
  <2>. QED BY <1>5, <2>1, <2>2, <2>3 DEF Handler
<1>6. CASE User /\ ~(\E s \in Slots, kind \in ManualKinds : Request(s, kind))
  BY <1>6 DEF User, GateChanges, UploadRead, UploadCommit, UploadConflict, DeleteTrade
<1>7. CASE UNCHANGED vars
  BY <1>7 DEF vars
<1>8. CASE req' = req
  BY <1>8
<1>9. CASE \E s \in Slots, kind \in ManualKinds : Request(s, kind)
  BY <1>1, <1>9
<1>. QED BY <1>1, <1>2, <1>3, <1>5, <1>6, <1>7, <1>8, <1>9 DEF Next

\* Where the positions of an upload come from.
LEMMA UploadFiles ==
    ASSUME TypeOK, [Next]_vars, NEW u \in Uploads
    PROVE  upload'[u] \subseteq upload[u] \/ \A p \in upload'[u] : p \in Positions /\ "exit" \in deals[p]
<1>1. ASSUME NEW s \in Slots,
             Beat(s) \/ Worker(s) \/ WorkerDisturbed(s) \/ \E kind \in ManualKinds : Request(s, kind)
      PROVE  upload' = upload
  BY <1>1, WorkerSteps DEF WorkerFrame
<1>2. ASSUME NEW p \in Positions, Market(p) PROVE upload' = upload
  BY <1>2 DEF Market, OpenPosition, PartialClose, ClosePosition, Age, Deal
<1>3. CASE LockExpires \/ LockExpiresInUse
  BY <1>3 DEF LockExpires, LockExpiresInUse
<1>4. ASSUME NEW k \in Tokens, Handler(k) \/ HandlerFails(k) PROVE upload' = upload
  BY <1>4 DEF Handler, Reject, ReadTrades, BuildBatch, Commit, CommitStale, HandlerFails, Rollback
<1>5. ASSUME NEW v \in Uploads, UploadRead(v) \/ UploadCommit(v) \/ UploadConflict(v)
      PROVE  upload'[u] \subseteq upload[u] \/ \A p \in upload'[u] : p \in Positions /\ "exit" \in deals[p]
  BY <1>5, ConstantsAssumption DEF UploadRead, UploadCommit, UploadConflict, TypeOK
<1>6. CASE GateChanges \/ \E t \in journal : DeleteTrade(t)
  BY <1>6 DEF GateChanges, DeleteTrade
<1>7. CASE UNCHANGED vars
  BY <1>7 DEF vars
<1>. QED BY <1>1, <1>2, <1>3, <1>4, <1>5, <1>6, <1>7 DEF Next, User

\* With every deal in the window, a row that closes sums every exit.
LEMMA AggregateWhole ==
    ASSUME NEW p, NEW full, old[p] = {}, deals[p] # {} => "entry" \in deals[p],
           Closes(Aggregate(Window(full, p)))
    PROVE  Whole(p, Aggregate(Window(full, p)).pnl)
<1>1. Window(full, p) = deals[p]
  BY DEF Window
<1>2. CASE {"entry", "exit"} \subseteq deals[p]
  BY <1>1, <1>2 DEF Aggregate, Row, Whole
<1>3. CASE ~({"entry", "exit"} \subseteq deals[p])
  BY <1>1, <1>3 DEF Aggregate, Row, Closes
<1>. QED BY <1>2, <1>3

\* A trade that is closed after a commit was so before, but for a floating profit,
\* or its row closes it.
LEMMA ClosedFromRow ==
    ASSUME TypeOK, NEW k \in Tokens,
           NEW t \in {Written(k, v) : v \in journal} \cup Inserted(k), t.closed
    PROVE  \/ t \in journal
           \/ t.pos \in Positions /\ Closes(req[k].rows[t.pos]) /\ t.pnl = req[k].rows[t.pos].pnl
           \/ t.pnl = Floating /\ \E v \in journal : v.closed /\ v.pos = t.pos
<1>1. ASSUME NEW v \in journal, t = Written(k, v)
      PROVE  \/ t \in journal
             \/ t.pos \in Positions /\ Closes(req[k].rows[t.pos]) /\ t.pnl = req[k].rows[t.pos].pnl
             \/ t.pnl = Floating /\ v.closed /\ v.pos = t.pos
  <2>1. CASE Targets(k, v)
    <3>1. v \in Trades
      BY DEF TypeOK
    <3>2. /\ t.pnl = req[k].rows[v.pos].pnl /\ t.pos = v.pos /\ v.pos \in Positions
          /\ t.closed = (v.closed \/ Closes(req[k].rows[v.pos]))
      BY <1>1, <2>1, <3>1 DEF Written, Trades
    <3>3. Closes(req[k].rows[v.pos]) \/ req[k].rows[v.pos].pnl = Floating
      BY <2>1 DEF Targets, Updates
    <3>. QED BY <3>2, <3>3
  <2>2. CASE ~Targets(k, v)
    BY <1>1, <2>2 DEF Written
  <2>. QED BY <2>1, <2>2
<1>2. ASSUME NEW p \in req[k].ins,
             t = [id |-> nextId, pos |-> p, closed |-> (req[k].rows[p].state = "closed"),
                  pnl |-> req[k].rows[p].pnl, keyed |-> FALSE]
      PROVE  t.pos \in Positions /\ Closes(req[k].rows[t.pos]) /\ t.pnl = req[k].rows[t.pos].pnl
  <2>1. p \in Positions
    BY DEF TypeOK, Requests
  <2>2. t.pos = p /\ t.closed = (req[k].rows[p].state = "closed") /\ t.pnl = req[k].rows[p].pnl
    BY <1>2
  <2>. QED BY <2>1, <2>2 DEF Closes
<1>. QED BY <1>1, <1>2 DEF Inserted

\* What was whole stays whole: nothing happens on a position that is closed, and
\* what is in the window now was so before.
LEMMA WholeStays ==
    ASSUME TypeOK, [Next]_vars, NEW p \in Positions, NEW x, Whole(p, x)
    PROVE  "exit" \in deals'[p] /\ x = deals'[p] \cap Exits
BY DealsGrow DEF Settled, Whole

\* Nothing on its way claims more than the broker did.
LEMMA BrokerInvariant == Spec => []BrokerInv
<1>1. Init => BrokerInv
  <2>. SUFFICES ASSUME Init PROVE BrokerInv
    OBVIOUS
  <2>1. WholeRows(NoRows)
    BY DEF WholeRows, NoRows, Row, Closes
  <2>. QED BY <2>1 DEF Init, BrokerInv, NoTask, NoRequest
<1>2. ASSUME TypeOK, BrokerInv, [Next]_vars PROVE BrokerInv'
  <2>1. \A p \in Positions : Settled(p)
    BY <1>2, DealsGrow
  <2>. DEFINE WholeNext(p, x) == "exit" \in deals'[p] /\ x = deals'[p] \cap Exits
  <2>2. ASSUME NEW rows, WholeRows(rows)
        PROVE  \A p \in Positions : Closes(rows[p]) /\ old'[p] = {} => WholeNext(p, rows[p].pnl)
    <3>. SUFFICES ASSUME NEW p \in Positions, Closes(rows[p]), old'[p] = {}
                  PROVE  WholeNext(p, rows[p].pnl)
      OBVIOUS
    <3>1. old[p] = {}
      BY <2>1 DEF Settled
    <3>2. Whole(p, rows[p].pnl)
      BY <2>2, <3>1 DEF WholeRows
    <3>. QED BY <1>2, <3>2, WholeStays
  <2>3. WholeRows(NoRows)
    BY DEF WholeRows, NoRows, Row, Closes
  <2>4. ASSUME NEW s \in Slots
        PROVE  \A p \in Positions :
                   Closes(task'[s].rows[p]) /\ old'[p] = {} => WholeNext(p, task'[s].rows[p].pnl)
    <3>1. WholeRows(task[s].rows)
      BY <1>2 DEF BrokerInv
    <3>2. WholeRows([p \in Positions |-> Aggregate(Window(task[s].full, p))])
      BY <1>2, AggregateWhole DEF WholeRows, BrokerInv
    <3>3. WholeRows([p \in Positions |-> Supplement(task[s].rows[p], IsRunning(p))])
      BY <3>1 DEF WholeRows, Supplement, Row, Closes
    <3>4. WholeRows(task'[s].rows)
      BY <1>2, <2>3, <3>1, <3>2, <3>3, TaskRows
    <3>. QED BY <2>2, <3>4
  <2>5. ASSUME NEW k \in Tokens
        PROVE  \A p \in Positions :
                   Closes(req'[k].rows[p]) /\ old'[p] = {} => WholeNext(p, req'[k].rows[p].pnl)
    <3>1. WholeRows(req'[k].rows)
      BY <1>2, <2>3, RequestRows DEF BrokerInv
    <3>. QED BY <2>2, <3>1
  <2>6. ASSUME NEW u \in Uploads, NEW p \in upload'[u] PROVE "exit" \in deals'[p]
    <3>1. p \in Positions /\ "exit" \in deals[p]
      BY <1>2, UploadFiles DEF BrokerInv, TypeOK
    <3>. QED BY <2>1, <3>1 DEF Settled
  <2>7. ASSUME NEW t \in journal', t.closed, old'[t.pos] = {}
        PROVE  WholeNext(t.pos, t.pnl) \/ ("exit" \in deals'[t.pos] /\ t.pnl = Floating)
    <3>1. ASSUME NEW v \in journal, v.closed, v.pos = t.pos
          PROVE  /\ "exit" \in deals'[t.pos]
                 /\ Whole(v.pos, v.pnl) \/ v.pnl = Floating
      <4>1. v.pos \in Positions
        BY <1>2 DEF TypeOK, Trades
      <4>2. old[v.pos] = {}
        BY <2>1, <2>7, <3>1, <4>1 DEF Settled
      <4>3. "exit" \in deals[v.pos] /\ (Whole(v.pos, v.pnl) \/ v.pnl = Floating)
        BY <1>2, <3>1, <4>2 DEF BrokerInv, WholeTrade, Whole
      <4>. QED BY <2>1, <3>1, <4>1, <4>3 DEF Settled
    <3>2. CASE t \in journal
      <4>1. t.pos \in Positions
        BY <1>2, <3>2 DEF TypeOK, Trades
      <4>. QED BY <1>2, <2>7, <3>1, <3>2, <4>1, WholeStays
    <3>3. ASSUME NEW k \in Tokens, t \in {Written(k, v) : v \in journal} \cup Inserted(k)
          PROVE  WholeNext(t.pos, t.pnl) \/ ("exit" \in deals'[t.pos] /\ t.pnl = Floating)
      <4>1. CASE t.pos \in Positions /\ Closes(req[k].rows[t.pos]) /\ t.pnl = req[k].rows[t.pos].pnl
        <5>1. WholeRows(req[k].rows)
          BY <1>2 DEF BrokerInv
        <5>. QED BY <2>2, <2>7, <4>1, <5>1
      <4>2. CASE t.pnl = Floating /\ \E v \in journal : v.closed /\ v.pos = t.pos
        BY <3>1, <4>2
      <4>. QED BY <1>2, <2>7, <3>2, <3>3, <4>1, <4>2, ClosedFromRow
    <3>4. ASSUME NEW u \in Uploads, t \in Uploaded(u) PROVE WholeNext(t.pos, t.pnl)
      <4>1. t.pos \in upload[u] /\ t.pnl = deals[t.pos] \cap Exits
        BY <3>4 DEF Uploaded
      <4>2. t.pos \in Positions /\ Whole(t.pos, t.pnl)
        BY <1>2, <4>1 DEF BrokerInv, TypeOK, Whole
      <4>. QED BY <1>2, <4>2, WholeStays
    <3>. QED BY <1>2, <2>7, <3>2, <3>3, <3>4, JournalSteps
  <2>8. \A p \in Positions : deals'[p] # {} => "entry" \in deals'[p]
    BY <1>2, <2>1 DEF Settled, BrokerInv
  <2>. QED BY <2>4, <2>5, <2>6, <2>7, <2>8 DEF BrokerInv, WholeRows, WholeTrade, Whole
<1>. QED BY TypeCorrect, <1>1, <1>2, PTL DEF Spec

-----------------------------------------------------------------------------
(* Realised amounts *)

\* While the lock protects, the trades a handler loaded are the trades of the
\* journal, but for those the user deleted: nobody else changed them.
SeenInv ==
    ~faulted =>
        \A k \in Tokens : req[k].phase \in {"read", "built"} =>
            \A p \in Positions : req[k].seen[p] # NoTrade =>
                /\ req[k].seen[p].id < nextId
                /\ \A t \in journal : t.pos = p /\ t.id = req[k].seen[p].id => t = req[k].seen[p]

\* Steps that write no trade and load none keep it.
LEMMA QuietSeen ==
    ASSUME TypeOK, SeenInv, journal' \subseteq journal, nextId' = nextId, faulted => faulted',
           \A k \in Tokens : req'[k].phase \in {"read", "built"} =>
                                req[k].phase \in {"read", "built"} /\ req'[k].seen = req[k].seen
    PROVE  SeenInv'
<1>. SUFFICES ASSUME ~faulted PROVE SeenInv'
  BY DEF SeenInv
<1>1. \A k \in Tokens : req'[k].phase \in {"read", "built"} =>
            \A p \in Positions : req'[k].seen[p] # NoTrade =>
                /\ req'[k].seen[p].id < nextId'
                /\ \A t \in journal' : t.pos = p /\ t.id = req'[k].seen[p].id => t = req'[k].seen[p]
  BY DEF SeenInv
<1>. QED BY <1>1 DEF SeenInv

\* Worker and queue.
LEMMA WorkerSeen ==
    ASSUME TypeOK, SeenInv, NEW s \in Slots,
           Beat(s) \/ (\E kind \in ManualKinds : Request(s, kind))
              \/ Worker(s) \/ WorkerDisturbed(s)
    PROVE  SeenInv'
<1>1. WorkerFrame /\ \E t \in Tasks : Executes(s, t)
  BY WorkerSteps
<1>2. req' = req \/ (\E l \in Tokens : req' = [req EXCEPT ![l] = NoRequest])
      \/ \E l \in Tokens, r \in Requests : r.phase = "sent" /\ req' = [req EXCEPT ![l] = r]
  BY <1>1 DEF Executes, Ends, Begins, ReadsDeals, ReadsPositions, Posts
<1>3. \A k \in Tokens : req'[k].phase \in {"read", "built"} =>
                           req[k].phase \in {"read", "built"} /\ req'[k].seen = req[k].seen
  BY <1>2 DEF TypeOK, NoRequest
<1>4. journal' = journal /\ nextId' = nextId
  BY <1>1 DEF WorkerFrame
<1>5. faulted => faulted'
  BY <1>1 DEF WorkerFrame
<1>. QED BY <1>3, <1>4, <1>5, QuietSeen

\* The handler loads trades of the journal, and only the one request in flight
\* can commit.
LEMMA HandlerSeen ==
    ASSUME TypeOK, LockInv, KeyInv, SeenInv, NEW k \in Tokens, Handler(k) \/ HandlerFails(k)
    PROVE  SeenInv'
<1>1. ASSUME NEW phase \in {"saved", "failed"}, Answer(k, phase),
             UNCHANGED <<journal, nextId, faulted>>
      PROVE  SeenInv'
  <2>1. \A l \in Tokens : req'[l].phase \in {"read", "built"} => req'[l] = req[l]
    BY <1>1, AnswerEnds
  <2>2. faulted => faulted'
    BY <1>1
  <2>. QED BY <1>1, <2>1, <2>2, QuietSeen
<1>2. CASE Reject(k)
  BY <1>1, <1>2 DEF Reject, history
<1>3. CASE ReadTrades(k)
  <2>. SUFFICES ASSUME ~faulted PROVE SeenInv'
    BY <1>3 DEF SeenInv, ReadTrades, history
  <2>1. UNCHANGED <<journal, nextId>> /\ \A l \in Tokens \ {k} : req'[l] = req[l]
    BY <1>3 DEF ReadTrades, TypeOK
  <2>2. \A p \in Positions : req'[k].seen[p] # NoTrade =>
            req'[k].seen[p] \in journal /\ req'[k].seen[p].pos = p
    <3>1. PICK seen \in [Positions -> journal \cup {NoTrade}] :
             /\ \A p \in Positions : seen[p] # NoTrade => seen[p] \in Preferred(OfPosition(p))
             /\ req' = [req EXCEPT ![k] = [@ EXCEPT !.phase = "read", !.seen = seen]]
      BY <1>3 DEF ReadTrades
    <3>2. req'[k].seen = seen
      BY <3>1 DEF TypeOK, Requests
    <3>3. \A p \in Positions : Preferred(OfPosition(p)) \subseteq OfPosition(p)
      BY DEF Preferred
    <3>. QED BY <3>1, <3>2, <3>3 DEF OfPosition
  <2>3. \A p \in Positions : req'[k].seen[p] # NoTrade =>
            /\ req'[k].seen[p].id < nextId
            /\ \A t \in journal : t.pos = p /\ t.id = req'[k].seen[p].id => t = req'[k].seen[p]
    BY <2>2 DEF TypeOK, KeyInv
  <2>. QED BY <2>1, <2>3 DEF SeenInv
<1>4. CASE BuildBatch(k)
  <2>1. \A l \in Tokens : req'[l].phase \in {"read", "built"} =>
            req[l].phase \in {"read", "built"} /\ req'[l].seen = req[l].seen
    BY <1>4 DEF BuildBatch, TypeOK, Requests
  <2>2. UNCHANGED <<journal, nextId, faulted>>
    BY <1>4 DEF BuildBatch, history
  <2>3. faulted => faulted'
    BY <2>2
  <2>. QED BY <2>1, <2>2, <2>3, QuietSeen
<1>5. CASE Commit(k)
  <2>. SUFFICES ASSUME ~faulted PROVE SeenInv'
    BY <1>5 DEF SeenInv, Commit
  <2>1. Answer(k, "saved") /\ InFlight(k)
    BY <1>5 DEF Commit, InFlight
  <2>2. \A l \in Tokens : ~InFlight(l)'
    BY <2>1, AnswerEnds DEF LockInv
  <2>3. \A l \in Tokens : req'[l].phase \notin {"read", "built"}
    BY <2>2 DEF InFlight
  <2>. QED BY <2>3 DEF SeenInv
<1>6. CASE CommitStale(k)
  BY <1>1, <1>6 DEF CommitStale, Rollback, history
<1>7. CASE HandlerFails(k)
  BY <1>1, <1>7 DEF HandlerFails, Rollback, history
<1>. QED BY <1>2, <1>3, <1>4, <1>5, <1>6, <1>7 DEF Handler

\* An upload takes ids that no handler has seen; the rest writes nothing.
LEMMA OtherSeen ==
    ASSUME TypeOK, SeenInv,
           \/ \E p \in Positions : Market(p)
           \/ LockExpires \/ LockExpiresInUse
           \/ User /\ ~(\E s \in Slots, kind \in ManualKinds : Request(s, kind))
           \/ UNCHANGED vars
    PROVE  SeenInv'
<1>1. ASSUME req' = req, journal' \subseteq journal, nextId' = nextId,
             faulted' = faulted \/ faulted' = TRUE
      PROVE  SeenInv'
  <2>1. faulted => faulted'
    BY <1>1
  <2>. QED BY <1>1, <2>1, QuietSeen
<1>2. ASSUME NEW p \in Positions, Market(p) PROVE SeenInv'
  BY <1>1, <1>2 DEF Market, OpenPosition, PartialClose, ClosePosition, Age, Deal, history
<1>3. CASE LockExpires \/ LockExpiresInUse
  BY <1>1, <1>3 DEF LockExpires, LockExpiresInUse, history
<1>4. CASE GateChanges
  BY <1>1, <1>4 DEF GateChanges, history
<1>5. ASSUME NEW u \in Uploads, UploadRead(u) \/ UploadConflict(u) PROVE SeenInv'
  BY <1>1, <1>5 DEF UploadRead, UploadConflict, history
<1>6. ASSUME NEW t \in journal, DeleteTrade(t) PROVE SeenInv'
  BY <1>1, <1>6 DEF DeleteTrade, history
<1>7. ASSUME NEW u \in Uploads, UploadCommit(u) PROVE SeenInv'
  <2>. SUFFICES ASSUME ~faulted PROVE SeenInv'
    BY <1>7 DEF SeenInv, UploadCommit
  <2>1. journal' = journal \cup Uploaded(u) /\ nextId' = nextId + 1 /\ req' = req
    BY <1>7 DEF UploadCommit
  <2>2. \A t \in Uploaded(u) : t.id = nextId
    BY DEF Uploaded
  <2>3. ASSUME NEW k \in Tokens, req[k].phase \in {"read", "built"},
               NEW p \in Positions, req[k].seen[p] # NoTrade
        PROVE  /\ req[k].seen[p].id < nextId + 1
               /\ \A t \in journal' : t.pos = p /\ t.id = req[k].seen[p].id => t = req[k].seen[p]
    <3>1. req[k].seen[p].id < nextId /\ req[k].seen[p].id \in Nat /\ nextId \in Nat
      BY <2>3 DEF SeenInv, TypeOK, Requests, Trades
    <3>2. \A t \in journal : t.pos = p /\ t.id = req[k].seen[p].id => t = req[k].seen[p]
      BY <2>3 DEF SeenInv
    <3>. QED BY <2>1, <2>2, <3>1, <3>2
  <2>. QED BY <2>1, <2>3 DEF SeenInv
<1>8. CASE UNCHANGED vars
  BY <1>1, <1>8 DEF vars
<1>. QED BY <1>2, <1>3, <1>4, <1>5, <1>6, <1>7, <1>8 DEF User

\* What a handler loaded stays true while the lock protects it.
LEMMA SeenInvariant == Spec => []SeenInv
<1>1. Init => SeenInv
  BY DEF Init, SeenInv, NoRequest
<1>2. ASSUME TypeOK, LockInv, KeyInv, SeenInv, [Next]_vars PROVE SeenInv'
  BY <1>2, WorkerSeen, HandlerSeen, OtherSeen DEF Next, User
<1>. QED BY TypeCorrect, LockInvariant, KeyInvariant, <1>1, <1>2, PTL DEF Spec

\* A fault is never undone.
LEMMA FaultStays == ASSUME TypeOK, [Next]_vars PROVE faulted => faulted'
<1>1. ASSUME faulted' = faulted \/ faulted' = TRUE PROVE faulted => faulted'
  BY <1>1
<1>2. ASSUME NEW s \in Slots,
             Beat(s) \/ Worker(s) \/ WorkerDisturbed(s) \/ \E kind \in ManualKinds : Request(s, kind)
      PROVE  faulted => faulted'
  BY <1>2, WorkerSteps DEF WorkerFrame
<1>3. ASSUME NEW p \in Positions, Market(p) PROVE faulted' = faulted
  BY <1>3 DEF Market, OpenPosition, PartialClose, ClosePosition, Age, Deal, history
<1>4. CASE LockExpires \/ LockExpiresInUse
  BY <1>1, <1>4 DEF LockExpires, LockExpiresInUse, history
<1>5. ASSUME NEW k \in Tokens, Handler(k) \/ HandlerFails(k) PROVE faulted' = faulted
  BY <1>5 DEF Handler, Reject, ReadTrades, BuildBatch, Commit, CommitStale, HandlerFails, Rollback,
              history
<1>6. CASE User /\ ~(\E s \in Slots, kind \in ManualKinds : Request(s, kind))
  BY <1>1, <1>6 DEF User, GateChanges, UploadRead, UploadCommit, UploadConflict, DeleteTrade, history
<1>7. CASE UNCHANGED vars
  BY <1>7 DEF vars
<1>. QED BY <1>1, <1>2, <1>3, <1>4, <1>5, <1>6, <1>7 DEF Next, User

\* While the lock protects, a batch realises what it closes and leaves closed
\* trades alone.
LEMMA CommitRealises ==
    ASSUME TypeOK, SeenInv, ~faulted, ClosedTradesAreRealised,
           NEW k \in Tokens, req[k].phase = "built",
           NEW t \in {Written(k, v) : v \in journal} \cup Inserted(k), t.closed
    PROVE  t.pnl \in (SUBSET Exits) \ {{}}
<1>1. ASSUME NEW v \in journal, t = Written(k, v) PROVE t.pnl \in (SUBSET Exits) \ {{}}
  <2>1. CASE Targets(k, v)
    <3>1. /\ v.pos \in Positions /\ req[k].seen[v.pos] # NoTrade
          /\ ~req[k].seen[v.pos].closed /\ v.id = req[k].seen[v.pos].id
      BY <2>1 DEF Targets, Updates
    <3>2. v = req[k].seen[v.pos]
      BY <3>1 DEF SeenInv
    <3>3. ~v.closed
      BY <3>1, <3>2
    <3>4. v \in Trades
      BY DEF TypeOK
    <3>5. /\ t.closed = (v.closed \/ Closes(req[k].rows[v.pos]))
          /\ t.pnl = req[k].rows[v.pos].pnl
      BY <1>1, <2>1, <3>4 DEF Written, Trades
    <3>6. Closes(req[k].rows[v.pos])
      BY <3>3, <3>5
    <3>7. req[k].rows[v.pos] \in RowsOfPosition
      BY <3>1 DEF TypeOK, Requests, Rows
    <3>. QED BY <3>5, <3>6, <3>7, PnlType
  <2>2. CASE ~Targets(k, v)
    BY <1>1, <2>2 DEF Written, ClosedTradesAreRealised
  <2>. QED BY <2>1, <2>2
<1>2. ASSUME NEW p \in req[k].ins,
             t = [id |-> nextId, pos |-> p, closed |-> (req[k].rows[p].state = "closed"),
                  pnl |-> req[k].rows[p].pnl, keyed |-> FALSE]
      PROVE  t.pnl \in (SUBSET Exits) \ {{}}
  <2>1. t.pnl = req[k].rows[p].pnl /\ t.closed = (req[k].rows[p].state = "closed")
    BY <1>2
  <2>2. Closes(req[k].rows[p])
    BY <2>1 DEF Closes
  <2>3. req[k].rows[p] \in RowsOfPosition
    BY DEF TypeOK, Requests, Rows
  <2>. QED BY <2>1, <2>2, <2>3, PnlType
<1>. QED BY <1>1, <1>2 DEF Inserted

\* A closed trade shows a realised amount as long as the lock protected every
\* sync: no late floating pnl of a running position overwrites what the exit
\* deals paid, even where uploads and deletions overlap the handler.
THEOREM RealisedWhenClosed == Spec => []ClosedTradesAreRealised
<1>1. Init => ClosedTradesAreRealised
  BY DEF Init, ClosedTradesAreRealised
<1>2. ASSUME TypeOK, SeenInv, BrokerInv, ClosedTradesAreRealised, [Next]_vars
      PROVE  ClosedTradesAreRealised'
  <2>. SUFFICES ASSUME ~faulted, NEW t \in journal', t.closed
                PROVE  t.pnl \in (SUBSET Exits) \ {{}}
    BY <1>2, FaultStays DEF ClosedTradesAreRealised
  <2>1. ASSUME t \in journal PROVE t.pnl \in (SUBSET Exits) \ {{}}
    BY <1>2, <2>1 DEF ClosedTradesAreRealised
  <2>2. ASSUME NEW k \in Tokens, req[k].phase = "built",
               t \in {Written(k, v) : v \in journal} \cup Inserted(k)
        PROVE  t.pnl \in (SUBSET Exits) \ {{}}
    BY <1>2, <2>2, CommitRealises
  <2>3. ASSUME NEW u \in Uploads, t \in Uploaded(u) PROVE t.pnl \in (SUBSET Exits) \ {{}}
    <3>1. t.pos \in upload[u] /\ t.pnl = deals[t.pos] \cap Exits
      BY <2>3 DEF Uploaded
    <3>2. "exit" \in deals[t.pos]
      BY <1>2, <3>1 DEF BrokerInv
    <3>3. "exit" \in deals[t.pos] \cap Exits
      BY <3>2 DEF Exits
    <3>. QED BY <3>1, <3>3, SomeExits
  <2>. QED BY <1>2, <2>1, <2>2, <2>3, JournalSteps
<1>. QED BY TypeCorrect, SeenInvariant, BrokerInvariant, <1>1, <1>2, PTL DEF Spec

\* While none of its deals has left the window, a trade is closed only if the broker
\* closed the position, and shows every exit, whichever interleaving of syncs,
\* uploads, retries and crashes wrote it, as long as the lock held.
THEOREM ClosedShowsEveryExit == Spec => []ClosedWithEveryExit
<1>1. ASSUME BrokerInv, ClosedTradesAreRealised PROVE ClosedWithEveryExit
  <2>. SUFFICES ASSUME ~faulted, NEW t \in journal, t.closed, old[t.pos] = {}
                PROVE  "exit" \in deals[t.pos] /\ t.pnl = deals[t.pos] \cap Exits
    BY DEF ClosedWithEveryExit
  <2>1. t.pnl # Floating
    BY <1>1 DEF ClosedTradesAreRealised, Floating, Exits
  <2>. QED BY <1>1, <2>1 DEF BrokerInv, WholeTrade, Whole
<1>. QED BY BrokerInvariant, RealisedWhenClosed, <1>1, PTL

-----------------------------------------------------------------------------
(* The full-history stamp *)

Recorded == (Legacy \cap Importable) \subseteq (Known \cup deleted)
OnItsWay == {"sent", "read", "built"}
Complete(rows) == \A p \in Legacy : rows[p].state = "closed"

\* A token belongs to one execution, a waiting task asked for what its request
\* answers, and a trade the handler found is in the journal or was deleted.
OwnInv ==
    /\ \A p \in Legacy : deals[p] = {"entry", "exit"}
    /\ \A s, r \in Slots : Running(s) /\ Running(r) /\ task[s].tok = task[r].tok => s = r
    /\ \A s \in Slots : task[s].pc = "wait" /\ req[task[s].tok].phase \in OnItsWay =>
                            req[task[s].tok].full = task[s].full
    /\ \A k \in Tokens : req[k].phase \in {"read", "built"} =>
           \A p \in Positions : req[k].seen[p] # NoTrade => p \in Known \cup deleted

\* Until a history read comes back empty, full-history rows show every legacy
\* trade as closed all the way to the handler, its batch inserts those that are
\* missing, and whoever may stamp the account does so after that batch.
StampInv ==
    ~blind =>
        /\ \A s \in Slots : task[s].full /\ task[s].pc \in {"positions", "post"} =>
                                Complete(task[s].rows)
        /\ \A k \in Tokens : req[k].full /\ req[k].phase \in OnItsWay => Complete(req[k].rows)
        /\ \A k \in Tokens : req[k].full /\ req[k].phase = "built" =>
               (Legacy \cap Importable) \subseteq (req[k].ins \cup Known \cup deleted)
        /\ \A s \in Slots : task[s].full /\ task[s].pc = "wait"
                            /\ req[task[s].tok].phase = "saved" => Recorded
        /\ lastFull => Recorded

\* A commit keeps the recorded positions and adds those of its batch.
LEMMA CommitKnown ==
    ASSUME TypeOK, NEW k \in Tokens,
           journal' = {Written(k, t) : t \in journal} \cup Inserted(k)
    PROVE  Known \cup req[k].ins \subseteq Known'
<1>1. ASSUME NEW t \in journal PROVE t.pos \in Known'
  <2>1. Written(k, t) \in journal' /\ Written(k, t).pos = t.pos
    BY CommitType
  <2>. QED BY <2>1 DEF Known
<1>2. ASSUME NEW p \in req[k].ins PROVE p \in Known'
  <2>. DEFINE new == [id |-> nextId, pos |-> p, closed |-> (req[k].rows[p].state = "closed"),
                      pnl |-> req[k].rows[p].pnl, keyed |-> FALSE]
  <2>1. new \in journal' /\ new.pos = p
    BY DEF Inserted
  <2>. HIDE DEF new
  <2>. QED BY <2>1 DEF Known
<1>. QED BY <1>1, <1>2 DEF Known

\* A position once recorded stays recorded, or its trade was deleted.
LEMMA KnownGrows ==
    ASSUME TypeOK, [Next]_vars
    PROVE  Known \cup deleted \subseteq Known' \cup deleted'
<1>1. ASSUME journal \subseteq journal', deleted' = deleted
      PROVE  Known \cup deleted \subseteq Known' \cup deleted'
  BY <1>1 DEF Known
<1>2. ASSUME NEW s \in Slots,
             Beat(s) \/ Worker(s) \/ WorkerDisturbed(s) \/ \E kind \in ManualKinds : Request(s, kind)
      PROVE  journal' = journal /\ deleted' = deleted
  BY <1>2, WorkerSteps DEF WorkerFrame
<1>3. ASSUME NEW p \in Positions, Market(p) PROVE journal' = journal /\ deleted' = deleted
  BY <1>3 DEF Market, OpenPosition, PartialClose, ClosePosition, Age, Deal
<1>4. CASE LockExpires \/ LockExpiresInUse
  BY <1>1, <1>4 DEF LockExpires, LockExpiresInUse
<1>5. ASSUME NEW k \in Tokens, Handler(k) \/ HandlerFails(k), ~Commit(k)
      PROVE  journal' = journal /\ deleted' = deleted
  BY <1>5 DEF Handler, Reject, ReadTrades, BuildBatch, CommitStale, HandlerFails, Rollback
<1>6. ASSUME NEW k \in Tokens, Commit(k)
      PROVE  Known \cup deleted \subseteq Known' \cup deleted'
  BY <1>6, CommitKnown DEF Commit
<1>7. CASE GateChanges \/ \E u \in Uploads : UploadRead(u) \/ UploadCommit(u) \/ UploadConflict(u)
  BY <1>1, <1>7 DEF GateChanges, UploadRead, UploadCommit, UploadConflict
<1>8. ASSUME NEW t \in journal, DeleteTrade(t)
      PROVE  Known \cup deleted \subseteq Known' \cup deleted'
  BY <1>8 DEF DeleteTrade, Known
<1>9. CASE UNCHANGED vars
  BY <1>1, <1>9 DEF vars
<1>. QED BY <1>1, <1>2, <1>3, <1>4, <1>5, <1>6, <1>7, <1>8, <1>9 DEF Next, User

\* A blind read is never forgotten.
LEMMA BlindStays == ASSUME TypeOK, [Next]_vars PROVE blind => blind'
<1>1. ASSUME NEW s \in Slots,
             Beat(s) \/ Worker(s) \/ WorkerDisturbed(s) \/ \E kind \in ManualKinds : Request(s, kind)
      PROVE  blind => blind'
  BY <1>1, WorkerSteps DEF WorkerFrame
<1>2. ASSUME NEW p \in Positions, Market(p) PROVE blind' = blind
  BY <1>2 DEF Market, OpenPosition, PartialClose, ClosePosition, Age, Deal, history
<1>3. CASE LockExpires \/ LockExpiresInUse
  BY <1>3 DEF LockExpires, LockExpiresInUse, history
<1>4. ASSUME NEW k \in Tokens, Handler(k) \/ HandlerFails(k) PROVE blind' = blind
  BY <1>4 DEF Handler, Reject, ReadTrades, BuildBatch, Commit, CommitStale, HandlerFails, Rollback,
              history
<1>5. CASE User /\ ~(\E s \in Slots, kind \in ManualKinds : Request(s, kind))
  BY <1>5 DEF User, GateChanges, UploadRead, UploadCommit, UploadConflict, DeleteTrade, history
<1>6. CASE UNCHANGED vars
  BY <1>6 DEF vars
<1>7. CASE blind' = blind
  BY <1>7
<1>. QED BY <1>1, <1>2, <1>3, <1>4, <1>5, <1>6, <1>7 DEF Next, User

\* What the steps of a worker do to the other tasks and to the requests: those
\* that are loaded stay, nothing becomes saved, and only Posts sends.
LEMMA WorkerRequests ==
    ASSUME TypeOK, NEW s \in Slots, NEW t \in Tasks, Executes(s, t)
    PROVE  /\ \A k \in Tokens : req'[k].phase \in {"read", "built", "saved"} => req'[k] = req[k]
           /\ \A k \in Tokens : req'[k].phase \in OnItsWay =>
                  \/ req'[k] = req[k]
                  \/ /\ k = task[s].tok /\ Posts(s, t)
                     /\ req'[k].rows = task[s].rows /\ req'[k].full = task[s].full
<1>1. CASE Posts(s, t)
  BY <1>1 DEF Posts, TypeOK, OnItsWay
<1>2. CASE ~Posts(s, t)
  <2>1. req' = req \/ \E l \in Tokens : req' = [req EXCEPT ![l] = NoRequest]
    BY <1>2 DEF Executes, Ends, Begins, ReadsDeals, ReadsPositions
  <2>. QED BY <2>1 DEF TypeOK, OnItsWay, NoRequest
<1>. QED BY <1>1, <1>2

\* A worker keeps tokens and answers apart.
LEMMA WorkerOwn ==
    ASSUME TypeOK, OwnInv, NEW s \in Slots,
           Beat(s) \/ (\E kind \in ManualKinds : Request(s, kind))
              \/ Worker(s) \/ WorkerDisturbed(s)
    PROVE  OwnInv'
<1>1. WorkerFrame
  BY WorkerSteps
<1>2. PICK t \in Tasks : task' = [task EXCEPT ![s] = t] /\ Executes(s, t)
  BY WorkerSteps
<1>3. task'[s] = t /\ \A r \in Slots \ {s} : task'[r] = task[r]
  BY <1>2 DEF TypeOK
<1>4. \A p \in Legacy : deals'[p] = {"entry", "exit"}
  BY <1>1 DEF WorkerFrame, broker, OwnInv
<1>5. ASSUME NEW q \in Slots, NEW r \in Slots, Running(q)', Running(r)', task'[q].tok = task'[r].tok
      PROVE  q = r
  <2>1. CASE t.pc \in {"off", "queued"}
    <3>1. q # s /\ r # s
      BY <1>3, <1>5, <2>1 DEF Running
    <3>. QED BY <1>3, <1>5, <3>1 DEF OwnInv, Running
  <2>2. CASE Begins(s, t)
    <3>1. \A v \in Slots : task[v].tok # t.tok
      BY <2>2 DEF Begins, Unused
    <3>2. q = s <=> r = s
      BY <1>3, <1>5, <3>1
    <3>3. CASE q # s
      BY <1>3, <1>5, <3>2, <3>3 DEF OwnInv, Running
    <3>. QED BY <3>2, <3>3
  <2>3. CASE t.pc \notin {"off", "queued"} /\ ~Begins(s, t)
    <3>1. Running(s) /\ t.tok = task[s].tok
      BY <1>2, <2>3 DEF Executes, Ends, ReadsDeals, ReadsPositions, Posts, Running
    <3>2. \A v \in Slots : Running(v)' => Running(v) /\ task'[v].tok = task[v].tok
      BY <1>3, <3>1 DEF Running
    <3>. QED BY <1>5, <3>2 DEF OwnInv
  <2>. QED BY <2>1, <2>2, <2>3
<1>6. ASSUME NEW r \in Slots, task'[r].pc = "wait", task'[r].tok \in Tokens, req'[task'[r].tok].phase \in OnItsWay
      PROVE  req'[task'[r].tok].full = task'[r].full
  <2>1. CASE r = s
    <3>1. Posts(s, t)
      BY <1>2, <1>3, <1>6, <2>1 DEF Executes, Ends, Begins, ReadsDeals, ReadsPositions
    <3>. QED BY <1>3, <2>1, <3>1 DEF Posts, TypeOK
  <2>2. CASE r # s
    <3>1. task'[r] = task[r] /\ Running(r) /\ task[r].pc = "wait" /\ task[r].tok \in Tokens
      BY <1>3, <1>6, <2>2 DEF Running
    <3>2. ~(Posts(s, t) /\ task[r].tok = task[s].tok)
      BY <2>2, <3>1 DEF Posts, Running, OwnInv
    <3>3. req'[task[r].tok].phase \in OnItsWay
      BY <1>6, <3>1 DEF OnItsWay
    <3>4. req'[task[r].tok] = req[task[r].tok]
      BY <1>2, <3>1, <3>2, <3>3, WorkerRequests
    <3>5. req[task[r].tok].phase \in OnItsWay
      BY <3>3, <3>4 DEF OnItsWay
    <3>. QED BY <3>1, <3>4, <3>5 DEF OwnInv
  <2>. QED BY <2>1, <2>2
<1>7. ASSUME NEW k \in Tokens, req'[k].phase \in {"read", "built"},
             NEW p \in Positions, req'[k].seen[p] # NoTrade
      PROVE  p \in Known' \cup deleted'
  <2>1. req'[k] = req[k]
    BY <1>2, <1>7, WorkerRequests
  <2>. QED BY <1>1, <1>7, <2>1 DEF OwnInv, WorkerFrame, Known
<1>8. \A r \in Slots : task'[r].pc = "wait" => task'[r].tok \in Tokens
  <2>1. t.pc = "wait" => t.tok \in Tokens
    BY <1>2 DEF Executes, Ends, Begins, ReadsDeals, ReadsPositions, Posts
  <2>. QED BY <1>3, <2>1 DEF TypeOK, Running
<1>. QED BY <1>4, <1>5, <1>6, <1>7, <1>8 DEF OwnInv

\* So do the handler ...
LEMMA HandlerOwn ==
    ASSUME TypeOK, OwnInv, NEW k \in Tokens, Handler(k) \/ HandlerFails(k)
    PROVE  OwnInv'
<1>1. deals' = deals /\ task' = task
  BY DEF Handler, Reject, ReadTrades, BuildBatch, Commit, CommitStale, HandlerFails, Rollback, broker
<1>2. \A l \in Tokens : req'[l].phase \in OnItsWay => req[l].phase \in OnItsWay /\ req'[l].full = req[l].full
  <2>1. CASE ReadTrades(k)
    BY <2>1 DEF ReadTrades, TypeOK, Requests, OnItsWay
  <2>2. CASE BuildBatch(k)
    BY <2>2 DEF BuildBatch, TypeOK, Requests, OnItsWay
  <2>3. ASSUME NEW phase \in {"saved", "failed"}, Answer(k, phase)
        PROVE  \A l \in Tokens : req'[l].phase \in OnItsWay => req[l].phase \in OnItsWay /\ req'[l].full = req[l].full
    BY <2>3, AnswerEnds DEF OnItsWay
  <2>4. CASE Reject(k) \/ Commit(k) \/ CommitStale(k) \/ HandlerFails(k)
    BY <2>3, <2>4 DEF Reject, Commit, CommitStale, HandlerFails, Rollback
  <2>. QED BY <2>1, <2>2, <2>4 DEF Handler
<1>3. ASSUME NEW l \in Tokens, req'[l].phase \in {"read", "built"},
             NEW p \in Positions, req'[l].seen[p] # NoTrade
      PROVE  p \in Known \cup deleted
  <2>1. CASE ReadTrades(k) /\ l = k
    <3>1. PICK seen \in [Positions -> journal \cup {NoTrade}] :
             /\ \A q \in Positions : seen[q] # NoTrade => q \in Known
             /\ req' = [req EXCEPT ![k] = [@ EXCEPT !.phase = "read", !.seen = seen]]
      BY <2>1 DEF ReadTrades
    <3>2. req'[k].seen = seen
      BY <3>1 DEF TypeOK, Requests
    <3>. QED BY <1>3, <2>1, <3>1, <3>2
  <2>2. CASE ReadTrades(k) /\ l # k
    BY <1>3, <2>2 DEF ReadTrades, TypeOK, OwnInv
  <2>3. CASE BuildBatch(k)
    BY <1>3, <2>3 DEF BuildBatch, TypeOK, Requests, OwnInv
  <2>4. ASSUME NEW phase \in {"saved", "failed"}, Answer(k, phase)
        PROVE  p \in Known \cup deleted
    <3>1. l # k /\ req'[l] = req[l]
      BY <1>3, <2>4, AnswerEnds
    <3>. QED BY <1>3, <3>1 DEF OwnInv
  <2>5. CASE Reject(k) \/ Commit(k) \/ CommitStale(k) \/ HandlerFails(k)
    BY <2>4, <2>5 DEF Reject, Commit, CommitStale, HandlerFails, Rollback
  <2>. QED BY <2>1, <2>2, <2>3, <2>5 DEF Handler
<1>4. Known \cup deleted \subseteq Known' \cup deleted'
  BY KnownGrows DEF Next
<1>5. \A r \in Slots : Running(r)' = Running(r)
  BY <1>1 DEF Running
<1>6. ASSUME NEW r \in Slots, task[r].pc = "wait", req'[task[r].tok].phase \in OnItsWay
      PROVE  req'[task[r].tok].full = task[r].full
  <2>1. task[r].tok \in Tokens
    BY <1>6 DEF TypeOK, Running
  <2>. QED BY <1>2, <1>6, <2>1 DEF OwnInv
<1>7. \A p \in Legacy : deals'[p] = {"entry", "exit"}
  BY <1>1 DEF OwnInv
<1>8. \A q, r \in Slots : Running(q)' /\ Running(r)' /\ task[q].tok = task[r].tok => q = r
  BY <1>5 DEF OwnInv
<1>9. \A l \in Tokens : req'[l].phase \in {"read", "built"} =>
          \A p \in Positions : req'[l].seen[p] # NoTrade => p \in Known' \cup deleted'
  BY <1>3, <1>4
<1>10. \A r \in Slots : task'[r].pc = "wait" /\ req'[task'[r].tok].phase \in OnItsWay =>
           req'[task'[r].tok].full = task'[r].full
  BY <1>1, <1>6
<1>. QED BY <1>1, <1>7, <1>8, <1>9, <1>10 DEF OwnInv

\* ... and everything else; the market never touches a legacy position.
LEMMA OtherOwn ==
    ASSUME TypeOK, OwnInv,
           \/ \E p \in Positions : Market(p)
           \/ LockExpires \/ LockExpiresInUse
           \/ User /\ ~(\E s \in Slots, kind \in ManualKinds : Request(s, kind))
           \/ UNCHANGED vars
    PROVE  OwnInv'
<1>1. task' = task /\ req' = req
  BY DEF Market, OpenPosition, PartialClose, ClosePosition, Age, Deal, LockExpires, LockExpiresInUse,
         User, GateChanges, UploadRead, UploadCommit, UploadConflict, DeleteTrade, vars
<1>2. \A p \in Legacy : deals'[p] = {"entry", "exit"}
  <2>1. ASSUME NEW p \in Positions, Market(p) PROVE \A q \in Legacy : deals'[q] = deals[q]
    <3>1. CASE Age(p)
      BY <3>1 DEF Age
    <3>2. ASSUME NEW d, Deal(p, d), p \notin Legacy PROVE \A q \in Legacy : deals'[q] = deals[q]
      BY <3>2, ConstantsAssumption DEF Deal, TypeOK
    <3>3. OpenPosition(p) \/ PartialClose(p) \/ ClosePosition(p) => p \notin Legacy
      BY DEF OpenPosition, PartialClose, ClosePosition, IsRunning, OwnInv
    <3>. QED BY <2>1, <3>1, <3>2, <3>3 DEF Market, OpenPosition, PartialClose, ClosePosition
  <2>2. CASE ~(\E p \in Positions : Market(p))
    BY <2>2 DEF LockExpires, LockExpiresInUse, User, GateChanges, UploadRead, UploadCommit,
                UploadConflict, DeleteTrade, vars, broker, OwnInv
  <2>. QED BY <2>1, <2>2 DEF OwnInv
<1>3. Known \cup deleted \subseteq Known' \cup deleted'
  BY KnownGrows DEF Next
<1>4. \A k \in Tokens : req'[k].phase \in {"read", "built"} =>
          \A p \in Positions : req'[k].seen[p] # NoTrade => p \in Known' \cup deleted'
  BY <1>1, <1>3 DEF OwnInv
<1>5. \A r \in Slots : Running(r)' = Running(r)
  BY <1>1 DEF Running
<1>7. \A q, r \in Slots : Running(q)' /\ Running(r)' /\ task[q].tok = task[r].tok => q = r
  BY <1>5 DEF OwnInv
<1>8. \A r \in Slots : task'[r].pc = "wait" /\ req'[task'[r].tok].phase \in OnItsWay =>
           req'[task'[r].tok].full = task'[r].full
  BY <1>1 DEF OwnInv
<1>. QED BY <1>1, <1>2, <1>4, <1>7, <1>8 DEF OwnInv

\* Tokens and answers never get mixed up.
LEMMA OwnInvariant == Spec => []OwnInv
<1>1. Init => OwnInv
  <2>. SUFFICES ASSUME Init PROVE OwnInv
    OBVIOUS
  <2>1. \A p \in Legacy : deals[p] = {"entry", "exit"}
    BY ConstantsAssumption DEF Init
  <2>2. \A s \in Slots : ~Running(s) /\ task[s].pc # "wait"
    BY DEF Init, NoTask, Running
  <2>3. \A k \in Tokens : req[k].phase = "idle"
    BY DEF Init, NoRequest
  <2>. QED BY <2>1, <2>2, <2>3 DEF OwnInv
<1>2. ASSUME TypeOK, OwnInv, [Next]_vars PROVE OwnInv'
  BY <1>2, WorkerOwn, HandlerOwn, OtherOwn DEF Next, User
<1>. QED BY TypeCorrect, <1>1, <1>2, PTL DEF Spec

\* A worker carries complete rows from a full history to its request, and
\* stamps the account after the answer only.
LEMMA WorkerStamp ==
    ASSUME TypeOK, OwnInv, StampInv, NEW s \in Slots,
           Beat(s) \/ (\E kind \in ManualKinds : Request(s, kind))
              \/ Worker(s) \/ WorkerDisturbed(s)
    PROVE  StampInv'
<1>1. WorkerFrame
  BY WorkerSteps
<1>2. PICK t \in Tasks : task' = [task EXCEPT ![s] = t] /\ Executes(s, t)
  BY WorkerSteps
<1>3. task'[s] = t /\ \A r \in Slots \ {s} : task'[r] = task[r]
  BY <1>2 DEF TypeOK
<1>. SUFFICES ASSUME ~blind' PROVE StampInv'
  BY DEF StampInv
<1>4. ~blind
  BY <1>1 DEF WorkerFrame
<1>5. (Recorded => Recorded') /\ Known' = Known /\ deleted' = deleted
  BY <1>1 DEF WorkerFrame, Recorded, Known
<1>6. t.full /\ t.pc \in {"positions", "post"} => Complete(t.rows)
  <2>. SUFFICES ASSUME t.full, t.pc \in {"positions", "post"} PROVE Complete(t.rows)
    OBVIOUS
  <2>1. ReadsDeals(s, t) \/ ReadsPositions(s, t)
    BY <1>2 DEF Executes, Ends, Begins, Posts
  <2>2. CASE ReadsDeals(s, t)
    <3>1. t.rows = [p \in Positions |-> Aggregate(Window(task[s].full, p))] /\ task[s].full
      BY <2>2 DEF ReadsDeals
    <3>2. ASSUME NEW p \in Legacy PROVE t.rows[p].state = "closed"
      <4>1. p \in Positions /\ Window(task[s].full, p) = {"entry", "exit"}
        BY <3>1, ConstantsAssumption DEF Window, OwnInv
      <4>2. t.rows[p] = Aggregate({"entry", "exit"})
        BY <3>1, <4>1
      <4>. QED BY <4>2 DEF Aggregate, Row
    <3>. QED BY <3>2 DEF Complete
  <2>3. CASE ReadsPositions(s, t)
    <3>1. Complete(task[s].rows)
      BY <1>4, <2>3 DEF ReadsPositions, StampInv
    <3>. QED BY <2>3, <3>1, ConstantsAssumption DEF ReadsPositions, Complete, Supplement
  <2>. QED BY <2>1, <2>2, <2>3
<1>7. ASSUME NEW r \in Slots, task'[r].full, task'[r].pc \in {"positions", "post"}
      PROVE  Complete(task'[r].rows)
  BY <1>3, <1>4, <1>6, <1>7 DEF StampInv
<1>8. ASSUME NEW k \in Tokens, req'[k].full, req'[k].phase \in OnItsWay
      PROVE  Complete(req'[k].rows)
  <2>1. CASE req'[k] = req[k]
    BY <1>4, <1>8, <2>1 DEF StampInv
  <2>2. CASE Posts(s, t) /\ req'[k].rows = task[s].rows /\ req'[k].full = task[s].full
    BY <1>4, <1>8, <2>2 DEF StampInv, Posts
  <2>. QED BY <1>2, <1>8, <2>1, <2>2, WorkerRequests
<1>9. ASSUME NEW k \in Tokens, req'[k].full, req'[k].phase = "built"
      PROVE  (Legacy \cap Importable) \subseteq (req'[k].ins \cup Known' \cup deleted')
  <2>1. req'[k] = req[k]
    BY <1>2, <1>9, WorkerRequests
  <2>. QED BY <1>4, <1>5, <1>9, <2>1 DEF StampInv
<1>10. ASSUME NEW r \in Slots, task'[r].full, task'[r].pc = "wait",
              req'[task'[r].tok].phase = "saved"
       PROVE  Recorded'
  <2>1. CASE r = s
    <3>1. Posts(s, t)
      BY <1>2, <1>3, <1>10, <2>1 DEF Executes, Ends, Begins, ReadsDeals, ReadsPositions
    <3>. QED BY <1>3, <1>10, <2>1, <3>1 DEF Posts, TypeOK
  <2>2. CASE r # s
    <3>1. task'[r] = task[r] /\ task[r].tok \in Tokens
      BY <1>3, <1>10, <2>2 DEF TypeOK, Running
    <3>2. req'[task[r].tok] = req[task[r].tok]
      BY <1>2, <1>10, <3>1, WorkerRequests
    <3>. QED BY <1>4, <1>5, <1>10, <3>1, <3>2 DEF StampInv
  <2>. QED BY <2>1, <2>2
<1>11. ASSUME lastFull' PROVE Recorded'
  <2>1. \/ lastFull
        \/ task[s].full /\ task[s].pc = "wait" /\ req[task[s].tok].phase = "saved"
    BY <1>2, <1>11 DEF Executes, Ends, Begins, ReadsDeals, ReadsPositions, Posts
  <2>. QED BY <1>4, <1>5, <2>1 DEF StampInv
<1>. QED BY <1>7, <1>8, <1>9, <1>10, <1>11 DEF StampInv

\* An answer other than "saved" stamps nothing.
LEMMA AnswerStamp ==
    ASSUME TypeOK, OwnInv, StampInv, NEW k \in Tokens, Answer(k, "failed"),
           UNCHANGED <<task, journal, deleted, blind, lastFull>>
    PROVE  StampInv'
<1>. SUFFICES ASSUME ~blind PROVE StampInv'
  BY DEF StampInv
<1>1. (Recorded => Recorded') /\ Known' = Known
  BY DEF Recorded, Known
<1>2. req'[k].phase \in {"failed", "idle"} /\ \A l \in Tokens \ {k} : req'[l] = req[l]
  BY AnswerEnds
<1>3. \A l \in Tokens : req'[l].phase \in OnItsWay \cup {"saved"} => req'[l] = req[l]
  BY <1>2 DEF OnItsWay
<1>4. \A l \in Tokens : req'[l].full /\ req'[l].phase \in OnItsWay => Complete(req'[l].rows)
  BY <1>3 DEF StampInv
<1>5. \A l \in Tokens : req'[l].full /\ req'[l].phase = "built" =>
          (Legacy \cap Importable) \subseteq (req'[l].ins \cup Known' \cup deleted')
  BY <1>1, <1>3 DEF StampInv, OnItsWay
<1>6. ASSUME NEW r \in Slots, task[r].full, task[r].pc = "wait", req'[task[r].tok].phase = "saved"
      PROVE  Recorded'
  <2>1. task[r].tok \in Tokens
    BY <1>6 DEF TypeOK, Running
  <2>. QED BY <1>1, <1>3, <1>6, <2>1 DEF StampInv
<1>. QED BY <1>1, <1>4, <1>5, <1>6 DEF StampInv

\* The batch of a full history holds whatever was missing, and its commit is
\* what the stamp stands for.
LEMMA HandlerStamp ==
    ASSUME TypeOK, OwnInv, StampInv, NEW k \in Tokens, Handler(k) \/ HandlerFails(k)
    PROVE  StampInv'
<1>1. CASE Reject(k) \/ CommitStale(k) \/ HandlerFails(k)
  <2>1. Answer(k, "failed") /\ UNCHANGED <<task, journal, deleted, blind, lastFull>>
    BY <1>1 DEF Reject, CommitStale, HandlerFails, Rollback, history
  <2>. QED BY <2>1, AnswerStamp
<1>2. ASSUME ReadTrades(k) \/ BuildBatch(k), ~blind PROVE StampInv'
  <2>1. UNCHANGED <<task, journal, deleted, lastFull>> /\ \A l \in Tokens \ {k} : req'[l] = req[l]
    BY <1>2 DEF ReadTrades, BuildBatch, TypeOK
  <2>2. (Recorded => Recorded') /\ Known' = Known
    BY <2>1 DEF Recorded, Known
  <2>3. /\ req[k].phase \in {"sent", "read"} /\ req'[k].phase \in {"read", "built"}
        /\ req'[k].full = req[k].full /\ req'[k].rows = req[k].rows
        /\ req'[k].phase = "built" => BuildBatch(k)
    <3>1. CASE ReadTrades(k)
      <4>1. PICK seen : req[k].phase = "sent"
                        /\ req' = [req EXCEPT ![k] = [@ EXCEPT !.phase = "read", !.seen = seen]]
        BY <3>1 DEF ReadTrades
      <4>2. req'[k] = [req[k] EXCEPT !.phase = "read", !.seen = seen] /\ req[k] \in Requests
        BY <4>1 DEF TypeOK
      <4>3. req'[k].full = req[k].full /\ req'[k].rows = req[k].rows /\ req'[k].phase = "read"
        BY <4>2 DEF Requests
      <4>. QED BY <4>1, <4>3
    <3>2. CASE BuildBatch(k)
      <4>1. PICK ins : req[k].phase = "read"
                       /\ req' = [req EXCEPT ![k] = [@ EXCEPT !.phase = "built", !.ins = ins]]
        BY <3>2 DEF BuildBatch
      <4>2. req'[k] = [req[k] EXCEPT !.phase = "built", !.ins = ins] /\ req[k] \in Requests
        BY <4>1 DEF TypeOK
      <4>. QED BY <3>2, <4>1, <4>2 DEF Requests
    <3>. QED BY <1>2, <3>1, <3>2
  <2>4. \A l \in Tokens : req'[l].full /\ req'[l].phase \in OnItsWay => Complete(req'[l].rows)
    BY <1>2, <2>1, <2>3 DEF StampInv, OnItsWay
  <2>5. ASSUME NEW r \in Slots, task[r].full, task[r].pc = "wait", req'[task[r].tok].phase = "saved"
        PROVE  Recorded'
    <3>1. task[r].tok \in Tokens \ {k}
      BY <2>3, <2>5 DEF TypeOK, Running
    <3>. QED BY <1>2, <2>1, <2>2, <2>5, <3>1 DEF StampInv
  <2>6. ASSUME req'[k].full, req'[k].phase = "built", NEW p \in Legacy \cap Importable,
               p \notin Known \cup deleted
        PROVE  p \in req'[k].ins
    <3>1. BuildBatch(k)
      BY <2>3, <2>6
    <3>2. req'[k].ins = {q \in Importable \ Known :
                            /\ req[k].seen[q] = NoTrade
                            /\ req[k].rows[q].state \in {"open", "closed"}}
      BY <3>1 DEF BuildBatch, TypeOK, Requests
    <3>3. req[k].seen[p] = NoTrade
      BY <2>6, <3>1, ConstantsAssumption DEF OwnInv, BuildBatch
    <3>4. req[k].rows[p].state = "closed"
      BY <1>2, <2>3, <2>6 DEF StampInv, OnItsWay, Complete
    <3>. QED BY <2>6, <3>2, <3>3, <3>4
  <2>7. ASSUME NEW l \in Tokens, req'[l].full, req'[l].phase = "built"
        PROVE  (Legacy \cap Importable) \subseteq (req'[l].ins \cup Known' \cup deleted')
    <3>1. CASE l = k
      BY <2>1, <2>2, <2>6, <2>7, <3>1
    <3>2. CASE l # k
      BY <1>2, <2>1, <2>2, <2>7, <3>2 DEF StampInv
    <3>. QED BY <3>1, <3>2
  <2>8. \A r \in Slots : task'[r].full /\ task'[r].pc \in {"positions", "post"} => Complete(task'[r].rows)
    BY <1>2, <2>1 DEF StampInv
  <2>9. lastFull' => Recorded'
    BY <1>2, <2>1, <2>2 DEF StampInv
  <2>. QED BY <2>1, <2>4, <2>5, <2>7, <2>8, <2>9 DEF StampInv
<1>3. ASSUME Commit(k), ~blind PROVE StampInv'
  <2>1. /\ UNCHANGED <<task, deleted>> /\ req[k].phase = "built"
        /\ lastFull' = (lastFull \/ req[k].full)
        /\ journal' = {Written(k, t) : t \in journal} \cup Inserted(k)
    BY <1>3 DEF Commit
  <2>2. Known \cup req[k].ins \subseteq Known'
    BY <2>1, CommitKnown
  <2>3. Recorded => Recorded'
    BY <2>1, <2>2 DEF Recorded
  <2>4. req[k].full => Recorded'
    BY <1>3, <2>1, <2>2 DEF StampInv, Recorded
  <2>5. req'[k].phase \in {"saved", "idle"} /\ \A l \in Tokens \ {k} : req'[l] = req[l]
    BY <1>3, AnswerEnds DEF Commit
  <2>6. \A l \in Tokens : req'[l].full /\ req'[l].phase \in OnItsWay => Complete(req'[l].rows)
    BY <1>3, <2>5 DEF StampInv, OnItsWay
  <2>7. \A l \in Tokens : req'[l].full /\ req'[l].phase = "built" =>
            (Legacy \cap Importable) \subseteq (req'[l].ins \cup Known' \cup deleted')
    BY <1>3, <2>1, <2>2, <2>5 DEF StampInv
  <2>8. ASSUME NEW r \in Slots, task[r].full, task[r].pc = "wait", req'[task[r].tok].phase = "saved"
        PROVE  Recorded'
    <3>1. task[r].tok \in Tokens
      BY <2>8 DEF TypeOK, Running
    <3>2. CASE task[r].tok = k
      <4>1. req[k].full = task[r].full
        BY <2>1, <2>8, <3>2 DEF OwnInv, OnItsWay
      <4>. QED BY <2>4, <2>8, <4>1
    <3>3. CASE task[r].tok # k
      BY <1>3, <2>3, <2>5, <2>8, <3>1, <3>3 DEF StampInv
    <3>. QED BY <3>2, <3>3
  <2>9. \A r \in Slots : task'[r].full /\ task'[r].pc \in {"positions", "post"} => Complete(task'[r].rows)
    BY <1>3, <2>1 DEF StampInv
  <2>10. lastFull' => Recorded'
    BY <1>3, <2>1, <2>3, <2>4 DEF StampInv
  <2>. QED BY <2>1, <2>6, <2>7, <2>8, <2>9, <2>10 DEF StampInv
<1>4. CASE blind
  <2>1. blind'
    BY <1>4, BlindStays DEF Next
  <2>. QED BY <2>1 DEF StampInv
<1>. QED BY <1>1, <1>2, <1>3, <1>4 DEF Handler

\* Nothing else sends rows or stamps the account.
LEMMA OtherStamp ==
    ASSUME TypeOK, OwnInv, StampInv,
           \/ \E p \in Positions : Market(p)
           \/ LockExpires \/ LockExpiresInUse
           \/ User /\ ~(\E s \in Slots, kind \in ManualKinds : Request(s, kind))
           \/ UNCHANGED vars
    PROVE  StampInv'
<1>1. UNCHANGED <<task, req, lastFull>>
  BY DEF Market, OpenPosition, PartialClose, ClosePosition, Age, Deal, LockExpires, LockExpiresInUse,
         User, GateChanges, UploadRead, UploadCommit, UploadConflict, DeleteTrade, vars
<1>2. Known \cup deleted \subseteq Known' \cup deleted'
  BY KnownGrows DEF Next
<1>3. Recorded => Recorded'
  BY <1>2 DEF Recorded
<1>4. blind => blind'
  BY BlindStays DEF Next
<1>. SUFFICES ASSUME ~blind PROVE StampInv'
  BY <1>4 DEF StampInv
<1>5. \A k \in Tokens : req'[k].full /\ req'[k].phase = "built" =>
          (Legacy \cap Importable) \subseteq (req'[k].ins \cup Known' \cup deleted')
  BY <1>1, <1>2 DEF StampInv
<1>. QED BY <1>1, <1>3, <1>5 DEF StampInv

\* The stamp is earned by a batch.
LEMMA StampInvariant == Spec => []StampInv
<1>1. Init => StampInv
  BY DEF Init, StampInv, NoTask, NoRequest, OnItsWay
<1>2. ASSUME TypeOK, OwnInv, StampInv, [Next]_vars PROVE StampInv'
  BY <1>2, WorkerStamp, HandlerStamp, OtherStamp DEF Next, User
<1>. QED BY TypeCorrect, OwnInvariant, <1>1, <1>2, PTL DEF Spec

\* Once the account is stamped as fully synchronised, every trade older than
\* the link that passes validation is recorded, or the user deleted it, unless
\* a history read silently came back empty: no crash, retry, lost answer or
\* overlapping handler earns the stamp without the batch.
THEOREM StampIsSound == Spec => []FullStampSound
<1>1. StampInv => FullStampSound
  BY DEF StampInv, FullStampSound, Recorded
<1>. QED BY StampInvariant, <1>1, PTL

-----------------------------------------------------------------------------
(* The account lock implements Lease.                                      *)
(*                                                                         *)
(* The clients are the executions, by their tokens; one is inside from its *)
(* claim until it ends, if it got the lock.  The history variable is that  *)
(* of Lease: it remembers that the key expired under an execution.         *)

AtWork(t) == t.pc \in {"deals", "positions", "post", "wait"} /\ t.locked
TokenOf(t) == IF AtWork(t) THEN {t.tok} ELSE {}
Working == UNION {TokenOf(task[s]) : s \in Slots}

AccountLease == INSTANCE Lease
    WITH Clients <- Tokens, Free <- NoToken, holder <- lock, inside <- Working

LapsesAtWork == lock # NoToken /\ lock' = NoToken /\ lock \in Working /\ lock \in Working'
RemembersStep == lapsed' = (lapsed \/ LapsesAtWork)
Remembers == lapsed = FALSE /\ [][RemembersStep]_<<vars, lapsed>>

\* A task changes: its token leaves, that of the next value joins.
LEMMA WorkChanges ==
    ASSUME TypeOK, OwnInv, NEW s \in Slots, NEW t, task' = [task EXCEPT ![s] = t]
    PROVE  Working' = (Working \ TokenOf(task[s])) \cup TokenOf(t)
<1>1. task'[s] = t /\ \A r \in Slots \ {s} : task'[r] = task[r]
  BY DEF TypeOK
<1>2. \A r \in Slots \ {s} : TokenOf(task[r]) \cap TokenOf(task[s]) = {}
  BY DEF OwnInv, TokenOf, AtWork, Running
<1>3. ASSUME NEW k, k \in Working' PROVE k \in (Working \ TokenOf(task[s])) \cup TokenOf(t)
  <2>1. PICK r \in Slots : k \in TokenOf(task'[r])
    BY <1>3 DEF Working
  <2>. QED BY <1>1, <1>2, <2>1 DEF Working
<1>4. ASSUME NEW k, k \in (Working \ TokenOf(task[s])) \cup TokenOf(t) PROVE k \in Working'
  <2>1. PICK r \in Slots : k \in TokenOf(task'[r])
    BY <1>1, <1>4 DEF Working
  <2>. QED BY <2>1 DEF Working
<1>. QED BY <1>3, <1>4

\* A token at work is a token.
LEMMA WorkingTokens == ASSUME TypeOK PROVE Working \subseteq Tokens
BY DEF TypeOK, Working, TokenOf, AtWork, Running

\* What a step is to the lease.
Stays == lock' = lock /\ Working' = Working
Enters(k) == lock = NoToken /\ lock' = k /\ k \notin Working /\ Working' = Working \cup {k}
Ceases(k) ==
    /\ k \in Working /\ Working' = Working \ {k}
    /\ lock' = lock \/ (lock = k /\ lock' = NoToken)
Lapses == lock # NoToken /\ lock' = NoToken /\ Working' = Working
LeaseMove == Stays \/ Lapses \/ \E k \in Tokens : Enters(k) \/ Ceases(k)

\* An execution ends, with or without the lock.
LEMMA EndMoves ==
    ASSUME TypeOK, OwnInv, NEW s \in Slots, Running(s), NEW t, TokenOf(t) = {},
           task' = [task EXCEPT ![s] = t], Release(s) \/ lock' = lock
    PROVE  LeaseMove
<1>1. Working' = Working \ TokenOf(task[s])
  BY WorkChanges
<1>2. TokenOf(task[s]) \subseteq Working /\ task[s].tok \in Tokens
  BY DEF Working, TypeOK
<1>3. CASE task[s].locked
  <2>1. TokenOf(task[s]) = {task[s].tok}
    BY <1>3 DEF TokenOf, AtWork, Running
  <2>2. lock' = lock \/ (lock = task[s].tok /\ lock' = NoToken)
    BY DEF Release, Holds
  <2>. QED BY <1>1, <1>2, <2>1, <2>2 DEF LeaseMove, Ceases
<1>4. CASE ~task[s].locked
  <2>1. TokenOf(task[s]) = {}
    BY <1>4 DEF TokenOf, AtWork
  <2>2. lock' = lock
    BY <1>4 DEF Release, Holds
  <2>. QED BY <1>1, <2>1, <2>2 DEF LeaseMove, Stays
<1>. QED BY <1>3, <1>4

\* A task that is not at work is replaced by one that is not.
LEMMA IdleMoves ==
    ASSUME TypeOK, OwnInv, NEW s \in Slots, NEW t, TokenOf(t) = TokenOf(task[s]),
           task' = [task EXCEPT ![s] = t], lock' = lock
    PROVE  LeaseMove
<1>1. Working' = (Working \ TokenOf(task[s])) \cup TokenOf(task[s])
  BY WorkChanges
<1>2. TokenOf(task[s]) \subseteq Working
  BY DEF Working
<1>. QED BY <1>1, <1>2 DEF LeaseMove, Stays

\* No execution is put back at work: its message is blank.
LEMMA RetryMoves ==
    ASSUME TypeOK, OwnInv, NEW s \in Slots, Running(s), Retry(s)
    PROVE  LeaseMove
<1>. DEFINE t == IF task[s].tries < MaxRetries
                   THEN [NoTask EXCEPT !.pc = "queued", !.kind = task[s].kind,
                                       !.tries = task[s].tries + 1]
                   ELSE NoTask
<1>1. task' = [task EXCEPT ![s] = t] /\ Release(s)
  BY DEF Retry
<1>2. TokenOf(t) = {}
  BY DEF TokenOf, AtWork, NoTask
<1>. HIDE DEF t
<1>. QED BY <1>1, <1>2, EndMoves

LEMMA WorkerMoves ==
    ASSUME TypeOK, OwnInv, NEW s \in Slots,
           Beat(s) \/ (\E kind \in ManualKinds : Request(s, kind))
              \/ Worker(s) \/ WorkerDisturbed(s)
    PROVE  LeaseMove
<1>1. ASSUME NEW kind, Queue(s, kind) PROVE LeaseMove
  <2>. DEFINE t == [NoTask EXCEPT !.pc = "queued", !.kind = kind]
  <2>1. task' = [task EXCEPT ![s] = t] /\ lock' = lock /\ TokenOf(task[s]) = {}
    BY <1>1 DEF Queue, TokenOf, AtWork
  <2>2. TokenOf(t) = {}
    BY DEF TokenOf, AtWork, NoTask
  <2>. HIDE DEF t
  <2>. QED BY <2>1, <2>2, IdleMoves
<1>2. CASE Beat(s) \/ \E kind \in ManualKinds : Request(s, kind)
  BY <1>1, <1>2 DEF Beat, Request
<1>3. CASE SkipBusy(s) \/ SkipGate(s) \/ TaskExpires(s)
  <2>1. task' = [task EXCEPT ![s] = NoTask] /\ lock' = lock /\ TokenOf(task[s]) = {}
    BY <1>3 DEF SkipBusy, SkipGate, TaskExpires, TokenOf, AtWork
  <2>2. TokenOf(NoTask) = {}
    BY DEF TokenOf, AtWork, NoTask
  <2>. QED BY <2>1, <2>2, IdleMoves
<1>4. ASSUME NEW k \in Tokens, NEW locked \in BOOLEAN, Execute(s, k, locked)
      PROVE  /\ TokenOf(task[s]) = {} /\ k \notin Working
             /\ \E t : /\ task' = [task EXCEPT ![s] = t]
                       /\ TokenOf(t) = IF locked THEN {k} ELSE {}
  <2>. DEFINE t == [task[s] EXCEPT !.pc = "deals", !.tok = k, !.locked = locked,
                                   !.full = (task[s].kind \in {"full", "recal"} \/ ~lastFull)]
  <2>1. task' = [task EXCEPT ![s] = t] /\ TokenOf(task[s]) = {}
    BY <1>4 DEF Execute, TokenOf, AtWork
  <2>2. t.pc = "deals" /\ t.tok = k /\ t.locked = locked
    BY DEF TypeOK, Tasks
  <2>3. k \notin Working
    BY <1>4 DEF Execute, Unused, Working, TokenOf
  <2>. HIDE DEF t
  <2>4. TokenOf(t) = IF locked THEN {k} ELSE {}
    BY <2>2 DEF TokenOf, AtWork
  <2>. QED BY <2>1, <2>3, <2>4
<1>5. ASSUME NEW k \in Tokens, Start(s, k) PROVE LeaseMove
  <2>1. lock = NoToken /\ lock' = k /\ Execute(s, k, TRUE)
    BY <1>5 DEF Start
  <2>2. PICK t : task' = [task EXCEPT ![s] = t] /\ TokenOf(t) = {k}
    BY <1>4, <2>1
  <2>3. Working' = Working \cup {k} /\ k \notin Working
    BY <1>4, <2>1, <2>2, WorkChanges
  <2>. QED BY <2>1, <2>3 DEF LeaseMove, Enters
<1>6. ASSUME NEW k \in Tokens, StartUnlocked(s, k) PROVE LeaseMove
  <2>1. lock' = lock /\ Execute(s, k, FALSE)
    BY <1>6 DEF StartUnlocked
  <2>2. PICK t : task' = [task EXCEPT ![s] = t] /\ TokenOf(t) = {}
    BY <1>4, <2>1
  <2>. QED BY <1>4, <2>1, <2>2, IdleMoves
<1>7. ASSUME NEW t, task' = [task EXCEPT ![s] = t], lock' = lock,
             AtWork(t) <=> AtWork(task[s]), t.tok = task[s].tok
      PROVE  LeaseMove
  <2>1. TokenOf(t) = TokenOf(task[s])
    BY <1>7 DEF TokenOf
  <2>. QED BY <1>7, <2>1, IdleMoves
<1>8. ASSUME NEW from \in {"deals", "positions"}, NEW to \in {"positions", "post"},
             NEW rows, Fetch(s, from, to, rows)
      PROVE  LeaseMove
  <2>. DEFINE t == [task[s] EXCEPT !.pc = to, !.rows = rows]
  <2>1. t.pc = to /\ t.tok = task[s].tok /\ t.locked = task[s].locked
    BY DEF TypeOK, Tasks
  <2>2. task' = [task EXCEPT ![s] = t] /\ lock' = lock /\ task[s].pc = from
    BY <1>8 DEF Fetch
  <2>. HIDE DEF t
  <2>3. AtWork(t) <=> AtWork(task[s])
    BY <2>1, <2>2 DEF AtWork
  <2>. QED BY <1>7, <2>1, <2>2, <2>3
<1>9. CASE ReadDeals(s) \/ ReadNoDeals(s) \/ ReadPositions(s) \/ ReadNoPositions(s)
  <2>1. CASE ReadDeals(s)
    BY <1>8, <2>1 DEF ReadDeals
  <2>2. CASE ReadNoDeals(s)
    BY <1>8, <2>2 DEF ReadNoDeals
  <2>3. CASE ReadPositions(s)
    BY <1>8, <2>3 DEF ReadPositions
  <2>4. CASE ReadNoPositions(s)
    BY <1>8, <2>4 DEF ReadNoPositions
  <2>. QED BY <1>9, <2>1, <2>2, <2>3, <2>4
<1>10. CASE Post(s)
  <2>. DEFINE t == [task[s] EXCEPT !.pc = "wait", !.rows = NoRows]
  <2>1. t.pc = "wait" /\ t.tok = task[s].tok /\ t.locked = task[s].locked
    BY DEF TypeOK, Tasks
  <2>2. task' = [task EXCEPT ![s] = t] /\ lock' = lock /\ task[s].pc = "post"
    BY <1>10 DEF Post
  <2>. HIDE DEF t
  <2>3. AtWork(t) <=> AtWork(task[s])
    BY <2>1, <2>2 DEF AtWork
  <2>. QED BY <1>7, <2>1, <2>2, <2>3
<1>11. CASE Finish(s)
  <2>1. TokenOf(NoTask) = {}
    BY DEF TokenOf, AtWork, NoTask
  <2>. QED BY <1>11, <2>1, EndMoves DEF Finish, Running
<1>12. CASE Refused(s) \/ WorkerFails(s) \/ Timeout(s) \/ ReplyLost(s)
  BY <1>12, RetryMoves DEF Refused, WorkerFails, Timeout, ReplyLost, Running
<1>13. CASE Crash(s)
  <2>. DEFINE t == [NoTask EXCEPT !.pc = "queued", !.kind = task[s].kind, !.tries = task[s].tries]
  <2>1. task' = [task EXCEPT ![s] = t] /\ lock' = lock /\ Running(s)
    BY <1>13 DEF Crash
  <2>2. TokenOf(t) = {}
    BY DEF TokenOf, AtWork, NoTask
  <2>. HIDE DEF t
  <2>. QED BY <2>1, <2>2, EndMoves
<1>. QED BY <1>2, <1>3, <1>5, <1>6, <1>9, <1>10, <1>11, <1>12, <1>13
         DEF Worker, WorkerDisturbed

\* Every step of the pipeline is a move of the lease or leaves it alone.
LEMMA AllMoves == ASSUME TypeOK, OwnInv, [Next]_vars PROVE LeaseMove
<1>1. CASE task' = task /\ lock' = lock
  <2>1. Working' = Working
    BY <1>1 DEF Working
  <2>. QED BY <1>1, <2>1 DEF LeaseMove, Stays
<1>2. ASSUME NEW s \in Slots,
             Beat(s) \/ (\E kind \in ManualKinds : Request(s, kind))
                \/ Worker(s) \/ WorkerDisturbed(s)
      PROVE  LeaseMove
  BY <1>2, WorkerMoves
<1>3. CASE LockExpires \/ LockExpiresInUse
  <2>1. Working' = Working
    BY <1>3 DEF LockExpires, LockExpiresInUse, Working
  <2>. QED BY <1>3, <2>1 DEF LockExpires, LockExpiresInUse, LeaseMove, Lapses
<1>4. ASSUME NEW k \in Tokens, Handler(k) \/ HandlerFails(k) PROVE task' = task /\ lock' = lock
  <2>1. CASE Reject(k)
    BY <2>1 DEF Reject
  <2>2. CASE ReadTrades(k)
    BY <2>2 DEF ReadTrades
  <2>3. CASE BuildBatch(k)
    BY <2>3 DEF BuildBatch
  <2>4. CASE Commit(k)
    BY <2>4 DEF Commit
  <2>5. CASE CommitStale(k) \/ HandlerFails(k)
    BY <2>5 DEF CommitStale, HandlerFails, Rollback
  <2>. QED BY <1>4, <2>1, <2>2, <2>3, <2>4, <2>5 DEF Handler
<1>5. ASSUME NEW p \in Positions, Market(p) PROVE task' = task /\ lock' = lock
  BY <1>5 DEF Market, OpenPosition, PartialClose, ClosePosition, Age, Deal
<1>6. CASE User /\ ~(\E s \in Slots, kind \in ManualKinds : Request(s, kind))
  <2>1. task' = task /\ lock' = lock
    BY <1>6 DEF User, GateChanges, UploadRead, UploadCommit, UploadConflict, DeleteTrade
  <2>. QED BY <1>1, <2>1
<1>7. CASE UNCHANGED vars
  BY <1>1, <1>7 DEF vars
<1>. QED BY <1>1, <1>2, <1>3, <1>4, <1>5, <1>6, <1>7 DEF Next, User

LEMMA AccountStepLeases ==
    ASSUME TypeOK, OwnInv, lapsed \in BOOLEAN, [Next]_vars, [RemembersStep]_<<vars, lapsed>>
    PROVE  [AccountLease!LeaseNext]_(AccountLease!leaseVars)
<1>1. lapsed' = (lapsed \/ LapsesAtWork)
  BY DEF RemembersStep, LapsesAtWork, vars
<1>2. LeaseMove
  BY AllMoves
<1>3. CASE Stays
  <2>1. ~LapsesAtWork
    BY <1>3 DEF Stays, LapsesAtWork
  <2>. QED BY <1>1, <1>3, <2>1 DEF Stays, AccountLease!leaseVars
<1>4. CASE Lapses
  <2>1. LapsesAtWork <=> lock \in Working
    BY <1>4 DEF Lapses, LapsesAtWork
  <2>2. AccountLease!Lapse
    BY <1>1, <1>4, <2>1 DEF Lapses, AccountLease!Lapse
  <2>. QED BY <2>2 DEF AccountLease!LeaseNext
<1>5. ASSUME NEW k \in Tokens, Enters(k) PROVE AccountLease!Enter(k)
  <2>1. ~LapsesAtWork
    BY <1>5 DEF Enters, LapsesAtWork
  <2>. QED BY <1>1, <1>5, <2>1 DEF Enters, AccountLease!Enter
<1>6. ASSUME NEW k \in Tokens, Ceases(k) PROVE AccountLease!Leave(k) \/ AccountLease!Abandon(k)
  <2>1. ~LapsesAtWork
    BY <1>6, ConstantsAssumption DEF Ceases, LapsesAtWork
  <2>2. lapsed' = lapsed
    BY <1>1, <2>1
  <2>3. CASE lock' = lock
    BY <1>6, <2>2, <2>3 DEF Ceases, AccountLease!Abandon
  <2>4. CASE lock = k /\ lock' = NoToken
    BY <1>6, <2>2, <2>4 DEF Ceases, AccountLease!Leave
  <2>. QED BY <1>6, <2>3, <2>4 DEF Ceases
<1>. QED BY <1>2, <1>3, <1>4, <1>5, <1>6 DEF LeaseMove, AccountLease!LeaseNext

\* What holds of every lease, of this one.
LEMMA AccountStaysExclusive ==
    ASSUME AccountLease!LeaseTypeOK, AccountLease!LeaseInv,
           [AccountLease!LeaseNext]_(AccountLease!leaseVars)
    PROVE  AccountLease!LeaseTypeOK' /\ AccountLease!LeaseInv'
<1>1. CASE \E k \in Tokens : AccountLease!Enter(k)
  BY <1>1, ConstantsAssumption
     DEF AccountLease!Enter, AccountLease!LeaseTypeOK, AccountLease!LeaseInv
<1>2. CASE \E k \in Tokens : AccountLease!Leave(k) \/ AccountLease!Abandon(k)
  BY <1>2, ConstantsAssumption
     DEF AccountLease!Leave, AccountLease!Abandon, AccountLease!LeaseTypeOK, AccountLease!LeaseInv
<1>3. CASE AccountLease!Lapse
  BY <1>3 DEF AccountLease!Lapse, AccountLease!LeaseTypeOK, AccountLease!LeaseInv
<1>4. CASE UNCHANGED AccountLease!leaseVars
  BY <1>4 DEF AccountLease!leaseVars, AccountLease!LeaseTypeOK, AccountLease!LeaseInv
<1>. QED BY <1>1, <1>2, <1>3, <1>4 DEF AccountLease!LeaseNext

\* The account lock is a lease (mt5_sync_tasks.py:790): between its
\* claim and its end at most one execution works under it, whatever retries,
\* redeliveries, crashes and lost releases came before, unless the TTL ended
\* under one.
THEOREM AccountLockLeased ==
    Spec /\ Remembers => AccountLease!LeaseSpec /\ []AccountLease!Exclusive
<1>1. Init /\ lapsed = FALSE => AccountLease!LeaseInit
  BY DEF Init, NoTask, Working, TokenOf, AtWork, AccountLease!LeaseInit
<1>2. lapsed = FALSE => lapsed \in BOOLEAN
  OBVIOUS
<1>3. lapsed \in BOOLEAN /\ [RemembersStep]_<<vars, lapsed>> => (lapsed \in BOOLEAN)'
  BY DEF RemembersStep
<1>4. TypeOK /\ OwnInv /\ lapsed \in BOOLEAN /\ [Next]_vars /\ [RemembersStep]_<<vars, lapsed>>
         => [AccountLease!LeaseNext]_(AccountLease!leaseVars)
  BY AccountStepLeases
<1>5. AccountLease!LeaseInit => AccountLease!LeaseTypeOK /\ AccountLease!LeaseInv
  BY DEF AccountLease!LeaseInit, AccountLease!LeaseTypeOK, AccountLease!LeaseInv
<1>6. AccountLease!LeaseTypeOK /\ AccountLease!LeaseInv
         /\ [AccountLease!LeaseNext]_(AccountLease!leaseVars)
         => (AccountLease!LeaseTypeOK /\ AccountLease!LeaseInv)'
  BY AccountStaysExclusive
<1>7. AccountLease!LeaseInv => AccountLease!Exclusive
  BY DEF AccountLease!LeaseInv, AccountLease!Exclusive
<1>. QED BY <1>1, <1>2, <1>3, <1>4, <1>5, <1>6, <1>7, TypeCorrect, OwnInvariant, PTL
         DEF Spec, Remembers, AccountLease!LeaseSpec
=============================================================================
