------------------------------ MODULE Mt5Sync ------------------------------
(***************************************************************************)
(* The trade synchronisation pipeline of one linked MT5 account.           *)
(*                                                                         *)
(*   broker  --deals, positions-->  worker task  --HTTP POST-->  handler   *)
(*                                                                         *)
(* Celery messages of the sync task (sync_mt5_account) are executed by     *)
(* the Windows workers; a task claims the account's Redis lock, reads the  *)
(* broker's deal history and then its running positions, and posts the     *)
(* rows to the web server.  The handler (sync_mt5_trades) reads the        *)
(* trades it knows, reads the known positions a second time, and commits   *)
(* updates and inserts in one transaction.  A user may upload an MT5       *)
(* report (import_trade_file), which writes the same table without the     *)
(* lock.                                                                   *)
(*                                                                         *)
(* Time is abstracted: a lock or a message expires, a request times out    *)
(* and a deal leaves the seven-day window by a step of its own.  Every     *)
(* such event, every failure and every user action the pipeline does not   *)
(* schedule itself spends one of MaxMoves "moves".                         *)
(***************************************************************************)
EXTENDS Naturals, FiniteSets

CONSTANTS
    Positions,    \* MT5 position identifiers of the account
    Importable,   \* those whose rows pass the insert validation
    Ageing,       \* those whose deals may leave the seven-day window
    Scaled,       \* those the trader may close in part first
    Legacy,       \* those opened and closed long before the account was linked
    Slots,        \* places for sync task messages, queued or running
    Tokens,       \* lock tokens (uuid4), one per execution of a task
    NoToken,      \* the lock key is absent
    NoTrade,      \* no trade is known for a position
    Uploads,      \* concurrent report uploads
    ManualKinds,  \* kinds of sync a person may request
    MaxRetries,   \* max_retries of sync_mt5_account
    MaxMoves      \* bound on disturbances, see Disturb

ASSUME ConstantsAssumption ==
    /\ Importable \subseteq Positions
    /\ Legacy \subseteq Positions
    /\ Ageing \subseteq Positions
    /\ Scaled \subseteq Positions
    /\ NoToken \notin Tokens
    /\ ManualKinds \subseteq {"manual", "full", "recal"}
    /\ MaxRetries \in Nat
    /\ MaxMoves \in Nat

VARIABLES
    deals,     \* deals[p]: the broker's deals on position p, in this order: entry, part, exit
    old,       \* old[p]: those of them that have left the rolling seven-day window
    gate,      \* what the account row lets the pipeline do
    lastFull,  \* MT5Account.last_full_history_sync_at is set
    lock,      \* the Redis key of the account's sync lock
    task,      \* task[s]: a message of sync_mt5_account, queued or being executed
    req,       \* req[k]: the request posted by the execution whose lock token is k
    journal,   \* the Trade rows of the linked trade account
    nextId,    \* the next value of their id sequence
    upload,    \* upload[u]: positions an upload will insert, between its read and its commit
    deleted,   \* positions of trades the user deleted
    faulted,   \* history: the lock stopped protecting a running sync
    mixed,     \* history: an upload and a sync overlapped between read and commit
    blind,     \* history: the broker returned no history to a task that asked for it
    moves      \* disturbances so far

broker == <<deals, old>>
history == <<faulted, mixed, blind>>
vars == <<deals, old, gate, lastFull, lock, task, req, journal, nextId, upload,
          deleted, faulted, mixed, blind, moves>>

-----------------------------------------------------------------------------
(* Types *)

DealKinds == {"entry", "part", "exit"}
Gates == {"open", "paused", "inactive"}
Kinds == {"beat"} \cup ManualKinds

\* A pnl is named by what it sums: exit deals, the floating profit of a running
\* position, or nothing.
Exits == {"part", "exit"}
Floating == {"floating"}
Pnls == (SUBSET Exits) \cup {Floating}

\* The row of a position: none, an open trade, a closed trade, or exits whose
\* entry is unknown.
RowsOfPosition == [state : {"absent"}, pnl : {{}}]
                  \cup [state : {"open"}, pnl : {{}, Floating}]
                  \cup [state : {"closed", "exits"}, pnl : (SUBSET Exits) \ {{}}]
Row(state, pnl) == [state |-> state, pnl |-> pnl]
Rows == [Positions -> RowsOfPosition]

\* id orders the trades of one position; trades committed together share one.
\* keyed: the row carries an import_dedupe_key.
Trades == [id : Nat, pos : Positions, closed : BOOLEAN, pnl : Pnls, keyed : BOOLEAN]

ASSUME NoTradeAssumption == NoTrade \notin Trades

Tasks == [pc : {"off", "queued", "deals", "positions", "post", "wait"},
          kind : Kinds, tries : 0 .. MaxRetries, tok : Tokens \cup {NoToken},
          locked : BOOLEAN, full : BOOLEAN, rows : Rows]

Requests == [phase : {"idle", "sent", "read", "built", "saved", "failed"},
             rows : Rows, full : BOOLEAN, recal : BOOLEAN,
             seen : [Positions -> Trades \cup {NoTrade}],
             ins : SUBSET Positions]

NoRows == [p \in Positions |-> Row("absent", {})]
NoTask == [pc |-> "off", kind |-> "beat", tries |-> 0, tok |-> NoToken,
           locked |-> FALSE, full |-> FALSE, rows |-> NoRows]
NoRequest == [phase |-> "idle", rows |-> NoRows, full |-> FALSE, recal |-> FALSE,
              seen |-> [p \in Positions |-> NoTrade], ins |-> {}]

-----------------------------------------------------------------------------
(* Helpers *)

Running(s) == task[s].pc \in {"deals", "positions", "post", "wait"}
InFlight(k) == req[k].phase \in {"sent", "read", "built"}
Holds(s) == task[s].locked /\ lock = task[s].tok
Unused(k) == lock # k /\ req[k].phase = "idle" /\ \A s \in Slots : task[s].tok # k

\* One of the events the pipeline does not schedule.
Disturb == moves < MaxMoves /\ moves' = moves + 1

IsRunning(p) == "entry" \in deals[p] /\ "exit" \notin deals[p]

\* history_deals_get: every deal, or those of the last seven days.
Window(full, p) == IF full THEN deals[p] ELSE deals[p] \ old[p]

\* Mutation of Aggregate: any exit closes, whatever its volume.
AggregateAnyExit(ds) ==
    CASE "entry" \in ds /\ ds # {"entry"} -> Row("closed", ds \cap Exits)
      [] ds = {"entry"} -> Row("open", {})
      [] "entry" \notin ds /\ ds # {} -> Row("exits", ds)
      [] OTHER -> Row("absent", {})

\* aggregate_deals_to_trades on the deals of one position it was given.  With the
\* entry it is closed once the exits offset the entry's volume, which the last
\* one does; without the entry any exits make a "close-only" row that sums them.
Aggregate(ds) ==
    CASE {"entry", "exit"} \subseteq ds -> Row("closed", ds \cap Exits)
      [] "entry" \in ds /\ "exit" \notin ds -> Row("open", {})
      [] "entry" \notin ds /\ ds # {} -> Row("exits", ds)
      [] OTHER -> Row("absent", {})

\* The rows after positions_get: an open row takes the position's floating
\* pnl, and a running position without any row gets an open row.
Supplement(r, running) ==
    IF running /\ r.state \in {"absent", "open"} THEN Row("open", Floating) ELSE r

Closes(r) == r.state \in {"closed", "exits"}

\* The row _prefer_existing_mt5_trade keeps among the trades of one position:
\* an open one before a closed one, then the latest.
Preferred(ts) ==
    LET running == {t \in ts : ~t.closed}
        best == IF running # {} THEN running ELSE ts
    IN  {t \in best : \A u \in best : u.id <= t.id}

OfPosition(p) == {t \in journal : t.pos = p}
Known == {t.pos : t \in journal}

-----------------------------------------------------------------------------
Init ==
    /\ deals = [p \in Positions |-> IF p \in Legacy THEN {"entry", "exit"} ELSE {}]
    /\ old = deals
    /\ gate = "open"
    /\ lastFull = FALSE
    /\ lock = NoToken
    /\ task = [s \in Slots |-> NoTask]
    /\ req = [k \in Tokens |-> NoRequest]
    /\ journal = {}
    /\ nextId = 0
    /\ upload = [u \in Uploads |-> {}]
    /\ deleted = {}
    /\ faulted = FALSE
    /\ mixed = FALSE
    /\ blind = FALSE
    /\ moves = 0

-----------------------------------------------------------------------------
(* The broker, as the worker sees it *)

Deal(p, d) ==
    /\ deals' = [deals EXCEPT ![p] = @ \cup {d}]
    /\ UNCHANGED <<old, gate, lastFull, lock, task, req, journal, nextId, upload,
                   deleted, history, moves>>

OpenPosition(p) == deals[p] = {} /\ Deal(p, "entry")
PartialClose(p) == p \in Scaled /\ deals[p] = {"entry"} /\ Deal(p, "part")
ClosePosition(p) == IsRunning(p) /\ Deal(p, "exit")

\* The oldest deal still in the seven-day window leaves it.
Age(p) ==
    /\ p \in Ageing
    /\ \E d \in deals[p] \ old[p] :
          /\ d = "part" => "entry" \in old[p]
          /\ d = "exit" => deals[p] \ {"exit"} \subseteq old[p]
          /\ old' = [old EXCEPT ![p] = @ \cup {d}]
    /\ UNCHANGED <<deals, gate, lastFull, lock, task, req, journal, nextId, upload,
                   deleted, history, moves>>

\* Pausing, resuming, deactivating or reactivating the account.
GateChanges ==
    /\ Disturb
    /\ gate' \in Gates \ {gate}
    /\ UNCHANGED <<broker, lastFull, lock, task, req, journal, nextId, upload,
                   deleted, history>>

-----------------------------------------------------------------------------
(* Queueing *)

Queue(s, kind) ==
    /\ task[s].pc = "off"
    /\ task' = [task EXCEPT ![s] = [NoTask EXCEPT !.pc = "queued", !.kind = kind]]
    /\ UNCHANGED <<broker, gate, lastFull, lock, req, journal, nextId, upload,
                   deleted, history>>

\* sync_all_active_mt5_accounts: nobody holds the lock and the VM's sync queue
\* is empty (a message waiting for its retry is no longer in the queue).
Beat(s) ==
    /\ gate = "open"
    /\ lock = NoToken
    /\ \A r \in Slots : ~(task[r].pc = "queued" /\ task[r].kind = "beat" /\ task[r].tries = 0)
    /\ Queue(s, "beat")
    /\ UNCHANGED moves

\* A sync, a full sync or a recalibration requested by a user or an admin.
Request(s, kind) ==
    /\ gate # "inactive"
    /\ Queue(s, kind)
    /\ Disturb

\* The broker drops a beat message nobody took within its 600 s.
TaskExpires(s) ==
    /\ Disturb
    /\ task[s].pc = "queued" /\ task[s].kind = "beat"
    /\ task' = [task EXCEPT ![s] = NoTask]
    /\ UNCHANGED <<broker, gate, lastFull, lock, req, journal, nextId, upload,
                   deleted, history>>

-----------------------------------------------------------------------------
(* sync_mt5_account on a worker *)

\* Mutation of SkipBusy: the finally block deletes the key without having
\* acquired it.
SkipBusyFreesLock(s) ==
    /\ task[s].pc = "queued"
    /\ lock # NoToken
    /\ task' = [task EXCEPT ![s] = NoTask]
    /\ lock' = NoToken
    /\ UNCHANGED <<broker, gate, lastFull, req, journal, nextId, upload,
                   deleted, history, moves>>

\* The lock is taken: the message is consumed and nothing is retried.
SkipBusy(s) ==
    /\ task[s].pc = "queued"
    /\ lock # NoToken
    /\ task' = [task EXCEPT ![s] = NoTask]
    /\ UNCHANGED <<broker, gate, lastFull, lock, req, journal, nextId, upload,
                   deleted, history, moves>>

\* The lock is claimed, the account turns out to be paused or inactive, and
\* the early return releases the lock in the finally block.
SkipGate(s) ==
    /\ task[s].pc = "queued"
    /\ lock = NoToken
    /\ gate # "open"
    /\ task' = [task EXCEPT ![s] = NoTask]
    /\ UNCHANGED <<broker, gate, lastFull, lock, req, journal, nextId, upload,
                   deleted, history, moves>>

Execute(s, k, locked) ==
    /\ task[s].pc = "queued"
    /\ gate = "open"
    /\ Unused(k)
    /\ task' = [task EXCEPT ![s] = [@ EXCEPT !.pc = "deals", !.tok = k, !.locked = locked,
                                             !.full = (task[s].kind \in {"full", "recal"} \/ ~lastFull)]]
    /\ UNCHANGED <<broker, gate, lastFull, req, journal, nextId, upload, deleted,
                   mixed, blind>>

Start(s, k) ==
    /\ lock = NoToken
    /\ lock' = k
    /\ Execute(s, k, TRUE)
    /\ UNCHANGED <<faulted, moves>>

\* Redis is unreachable: the task runs without the lock.
StartUnlocked(s, k) ==
    /\ Disturb
    /\ Execute(s, k, FALSE)
    /\ faulted' = TRUE
    /\ UNCHANGED lock

Fetch(s, from, to, rows) ==
    /\ task[s].pc = from
    /\ task' = [task EXCEPT ![s] = [@ EXCEPT !.pc = to, !.rows = rows]]
    /\ UNCHANGED <<broker, gate, lastFull, lock, req, journal, nextId, upload,
                   deleted, faulted, mixed>>

\* history_deals_get and the aggregation of its deals.
ReadDeals(s) ==
    /\ Fetch(s, "deals", "positions",
             [p \in Positions |-> Aggregate(Window(task[s].full, p))])
    /\ UNCHANGED <<blind, moves>>

\* history_deals_get returned None, which the task takes for "no deals".
ReadNoDeals(s) ==
    /\ Disturb
    /\ Fetch(s, "deals", "positions", NoRows)
    /\ blind' = TRUE

\* positions_get, after the deals and at another moment.
ReadPositions(s) ==
    /\ Fetch(s, "positions", "post",
             [p \in Positions |-> Supplement(task[s].rows[p], IsRunning(p))])
    /\ UNCHANGED <<blind, moves>>

\* positions_get returned None, taken for "nothing is running".
ReadNoPositions(s) ==
    /\ Disturb
    /\ Fetch(s, "positions", "post", task[s].rows)
    /\ UNCHANGED blind

Post(s) ==
    /\ task[s].pc = "post"
    /\ task' = [task EXCEPT ![s] = [@ EXCEPT !.pc = "wait", !.rows = NoRows]]
    /\ req' = [req EXCEPT ![task[s].tok] =
                  [NoRequest EXCEPT !.phase = "sent", !.rows = task[s].rows,
                                    !.full = task[s].full, !.recal = (task[s].kind = "recal")]]
    /\ UNCHANGED <<broker, gate, lastFull, lock, journal, nextId, upload, deleted,
                   history, moves>>

\* The finally block: compare-and-delete, unless Redis is unreachable now.
Release(s) == lock' \in IF Holds(s) THEN {NoToken, lock} ELSE {lock}

\* raise task.retry(...), or the last exception once the retries are spent.
Retry(s) ==
    /\ task' = [task EXCEPT ![s] =
                   IF task[s].tries < MaxRetries
                     THEN [NoTask EXCEPT !.pc = "queued", !.kind = task[s].kind,
                                         !.tries = task[s].tries + 1]
                     ELSE NoTask]
    /\ Release(s)
    /\ UNCHANGED <<broker, gate, journal, nextId, upload, deleted, mixed, blind, lastFull>>

\* 200: stamp the account, release the lock, acknowledge the message.
Finish(s) ==
    LET k == task[s].tok IN
    /\ task[s].pc = "wait"
    /\ req[k].phase = "saved"
    /\ task' = [task EXCEPT ![s] = NoTask]
    /\ req' = [req EXCEPT ![k] = NoRequest]
    /\ lastFull' = (lastFull \/ task[s].full)
    /\ Release(s)
    /\ UNCHANGED <<broker, gate, journal, nextId, upload, deleted, history, moves>>

\* 409 or 500: raise_for_status, then the retry.
Refused(s) ==
    LET k == task[s].tok IN
    /\ task[s].pc = "wait"
    /\ req[k].phase = "failed"
    /\ req' = [req EXCEPT ![k] = NoRequest]
    /\ Retry(s)
    /\ UNCHANGED <<faulted, moves>>

\* MT5 cannot be initialised or logged in, or the server cannot be reached.
WorkerFails(s) ==
    /\ Disturb
    /\ task[s].pc \in {"deals", "positions", "post"}
    /\ Retry(s)
    /\ UNCHANGED <<req, faulted>>

\* The POST times out after 30 s.  The handler knows nothing of it and keeps
\* running, while the task releases the lock and is retried.
Timeout(s) ==
    /\ Disturb
    /\ task[s].pc = "wait"
    /\ InFlight(task[s].tok)
    /\ faulted' = TRUE
    /\ Retry(s)
    /\ UNCHANGED req

\* The handler answered but the answer never arrives.
ReplyLost(s) ==
    LET k == task[s].tok IN
    /\ Disturb
    /\ task[s].pc = "wait"
    /\ req[k].phase \in {"saved", "failed"}
    /\ req' = [req EXCEPT ![k] = NoRequest]
    /\ Retry(s)
    /\ UNCHANGED faulted

\* The worker dies: acks_late and reject_on_worker_lost put the message back,
\* the lock stays until its TTL, and a running handler keeps running.
Crash(s) ==
    LET k == task[s].tok IN
    /\ Disturb
    /\ Running(s)
    /\ task' = [task EXCEPT ![s] = [NoTask EXCEPT !.pc = "queued", !.kind = task[s].kind,
                                                  !.tries = task[s].tries]]
    /\ req' = [req EXCEPT ![k] = IF InFlight(k) THEN @ ELSE NoRequest]
    /\ UNCHANGED <<broker, gate, lastFull, lock, journal, nextId, upload, deleted, history>>

\* Mutation of LockExpires: SET NX without EX.
LockNeverExpires == FALSE /\ UNCHANGED vars

\* The 600 s TTL ends.  Nobody works under the lock any more ...
LockExpires ==
    /\ lock # NoToken
    /\ ~InFlight(lock)
    /\ \A s \in Slots : ~(Running(s) /\ Holds(s))
    /\ lock' = NoToken
    /\ UNCHANGED <<broker, gate, lastFull, task, req, journal, nextId, upload,
                   deleted, history, moves>>

\* ... or its execution is still under way.
LockExpiresInUse ==
    /\ Disturb
    /\ lock # NoToken
    /\ InFlight(lock) \/ \E s \in Slots : Running(s) /\ Holds(s)
    /\ lock' = NoToken
    /\ faulted' = TRUE
    /\ UNCHANGED <<broker, gate, lastFull, task, req, journal, nextId, upload,
                   deleted, mixed, blind>>

-----------------------------------------------------------------------------
(* sync_mt5_trades on the web server *)

\* The response, if the task that posted the request still waits for it.
Answer(k, phase) ==
    req' = [req EXCEPT ![k] =
               IF \E s \in Slots : task[s].pc = "wait" /\ task[s].tok = k
                 THEN [NoRequest EXCEPT !.phase = phase]
                 ELSE NoRequest]

\* 404/409: the account is gone, inactive or without credentials.
Reject(k) ==
    /\ req[k].phase = "sent"
    /\ gate = "inactive"
    /\ Answer(k, "failed")
    /\ UNCHANGED <<broker, gate, lastFull, lock, task, journal, nextId, upload,
                   deleted, history, moves>>

\* Load the trades of the incoming positions, one per position.
ReadTrades(k) ==
    /\ req[k].phase = "sent"
    /\ gate # "inactive"
    /\ \E seen \in [Positions -> journal \cup {NoTrade}] :
          /\ \A p \in Positions :
                IF req[k].rows[p].state # "absent" /\ p \in Known
                  THEN seen[p] \in Preferred(OfPosition(p))
                  ELSE seen[p] = NoTrade
          /\ req' = [req EXCEPT ![k] = [@ EXCEPT !.phase = "read", !.seen = seen]]
    /\ UNCHANGED <<broker, gate, lastFull, lock, task, journal, nextId, upload,
                   deleted, history, moves>>

\* Mutation of BuildBatch: the batch trusts the trades loaded before.
BuildBatchOnce(k) ==
    /\ req[k].phase = "read"
    /\ req' = [req EXCEPT ![k] =
                  [@ EXCEPT !.phase = "built",
                            !.ins = {p \in Importable :
                                        /\ req[k].seen[p] = NoTrade
                                        /\ req[k].rows[p].state \in {"open", "closed"}}]]
    /\ UNCHANGED <<broker, gate, lastFull, lock, task, journal, nextId, upload,
                   deleted, history, moves>>

\* build_normalized_trade_insert_batch for the rows without a trade: it reads
\* the known positions again and drops the rows that fail validation.
BuildBatch(k) ==
    /\ req[k].phase = "read"
    /\ req' = [req EXCEPT ![k] =
                  [@ EXCEPT !.phase = "built",
                            !.ins = {p \in Importable \ Known :
                                        /\ req[k].seen[p] = NoTrade
                                        /\ req[k].rows[p].state \in {"open", "closed"}}]]
    /\ UNCHANGED <<broker, gate, lastFull, lock, task, journal, nextId, upload,
                   deleted, history, moves>>

\* Mutation of Updates: a running row also updates a closed trade.
UpdatesClosed(k) ==
    {p \in Positions :
        /\ req[k].seen[p] # NoTrade
        /\ Closes(req[k].rows[p]) \/ (req[k].rows[p].pnl = Floating /\ ~req[k].recal)}

\* Positions whose loaded trade the request changes.  Only an open trade is:
\* by a closing row, or by a floating pnl unless this is a recalibration.
Updates(k) ==
    {p \in Positions :
        /\ req[k].seen[p] # NoTrade
        /\ ~req[k].seen[p].closed
        /\ Closes(req[k].rows[p]) \/ (req[k].rows[p].pnl = Floating /\ ~req[k].recal)}

Targets(k, t) == t.pos \in Updates(k) /\ t.id = req[k].seen[t.pos].id

\* Mutation of Written: the whole row is written back.
WrittenWhole(k, t) ==
    LET r == req[k].rows[t.pos] IN
    IF Targets(k, t) THEN [t EXCEPT !.closed = Closes(r), !.pnl = r.pnl] ELSE t

\* UPDATE ... WHERE id: only the columns the handler assigned are written.
Written(k, t) ==
    LET r == req[k].rows[t.pos] IN
    IF Targets(k, t)
      THEN [t EXCEPT !.closed = @ \/ Closes(r), !.pnl = r.pnl]
      ELSE t

Inserted(k) ==
    {[id |-> nextId, pos |-> p, closed |-> (req[k].rows[p].state = "closed"),
      pnl |-> req[k].rows[p].pnl, keyed |-> FALSE] : p \in req[k].ins}

\* An updated trade was deleted meanwhile: the flush matches no row.
Stale(k) == \E p \in Updates(k) : \A t \in journal : ~(t.pos = p /\ Targets(k, t))

\* One transaction: updates, inserts and the account's stamps.
Commit(k) ==
    /\ req[k].phase = "built"
    /\ ~Stale(k)
    /\ journal' = {Written(k, t) : t \in journal} \cup Inserted(k)
    /\ nextId' = nextId + IF req[k].ins = {} THEN 0 ELSE 1
    /\ lastFull' = (lastFull \/ req[k].full)
    /\ mixed' = (mixed \/ \E u \in Uploads : upload[u] # {})
    /\ Answer(k, "saved")
    /\ UNCHANGED <<broker, gate, lock, task, upload, deleted, faulted, blind, moves>>

\* Mutation of Rollback: the stamp survives the rollback.
RollbackKeepsStamp(k) ==
    /\ Answer(k, "failed")
    /\ lastFull' = (lastFull \/ req[k].full)
    /\ UNCHANGED <<broker, gate, lock, task, journal, nextId, upload, deleted, history>>

\* Any exception: rollback and 500.
Rollback(k) ==
    /\ Answer(k, "failed")
    /\ UNCHANGED <<broker, gate, lastFull, lock, task, journal, nextId, upload,
                   deleted, history>>

CommitStale(k) == req[k].phase = "built" /\ Stale(k) /\ Rollback(k) /\ UNCHANGED moves
HandlerFails(k) == req[k].phase \in {"read", "built"} /\ Rollback(k) /\ Disturb

-----------------------------------------------------------------------------
(* The user *)

\* import_trade_file: a report of closed positions; those already known are
\* skipped, and the upload ends here when none is left.
UploadRead(u) ==
    /\ Disturb
    /\ upload[u] = {}
    /\ \E file \in SUBSET {p \in Importable : "exit" \in deals[p]} :
          /\ file \ Known # {}
          /\ upload' = [upload EXCEPT ![u] = file \ Known]
    /\ UNCHANGED <<broker, gate, lastFull, lock, task, req, journal, nextId,
                   deleted, history>>

\* The unique index on import_dedupe_key sees keyed rows only.
KeyTaken(u) == \E t \in journal : t.keyed /\ t.pos \in upload[u]

Uploaded(u) ==
    {[id |-> nextId, pos |-> p, closed |-> TRUE, pnl |-> deals[p] \cap Exits, keyed |-> TRUE] :
        p \in upload[u]}

UploadCommit(u) ==
    /\ upload[u] # {}
    /\ ~KeyTaken(u)
    /\ journal' = journal \cup Uploaded(u)
    /\ nextId' = nextId + 1
    /\ upload' = [upload EXCEPT ![u] = {}]
    /\ mixed' = (mixed \/ \E k \in Tokens : req[k].phase = "built")
    /\ UNCHANGED <<broker, gate, lastFull, lock, task, req, deleted, faulted, blind, moves>>

\* IntegrityError: the whole upload is rolled back.
UploadConflict(u) ==
    /\ upload[u] # {}
    /\ KeyTaken(u)
    /\ upload' = [upload EXCEPT ![u] = {}]
    /\ UNCHANGED <<broker, gate, lastFull, lock, task, req, journal, nextId,
                   deleted, history, moves>>

DeleteTrade(t) ==
    /\ Disturb
    /\ journal' = journal \ {t}
    /\ deleted' = deleted \cup {t.pos}
    /\ UNCHANGED <<broker, gate, lastFull, lock, task, req, nextId, upload, history>>

-----------------------------------------------------------------------------
Worker(s) ==
    \/ SkipBusy(s) \/ SkipGate(s) \/ \E k \in Tokens : Start(s, k)
    \/ ReadDeals(s) \/ ReadPositions(s) \/ Post(s)
    \/ Finish(s) \/ Refused(s)

WorkerDisturbed(s) ==
    \/ TaskExpires(s) \/ \E k \in Tokens : StartUnlocked(s, k)
    \/ ReadNoDeals(s) \/ ReadNoPositions(s)
    \/ WorkerFails(s) \/ Timeout(s) \/ ReplyLost(s) \/ Crash(s)

Handler(k) ==
    Reject(k) \/ ReadTrades(k) \/ BuildBatch(k) \/ Commit(k) \/ CommitStale(k)

Market(p) == OpenPosition(p) \/ PartialClose(p) \/ ClosePosition(p) \/ Age(p)

User ==
    \/ GateChanges
    \/ \E s \in Slots, kind \in ManualKinds : Request(s, kind)
    \/ \E u \in Uploads : UploadRead(u) \/ UploadCommit(u) \/ UploadConflict(u)
    \/ \E t \in journal : DeleteTrade(t)

Next ==
    \/ \E p \in Positions : Market(p)
    \/ \E s \in Slots : Beat(s) \/ Worker(s) \/ WorkerDisturbed(s)
    \/ \E k \in Tokens : Handler(k) \/ HandlerFails(k)
    \/ LockExpires \/ LockExpiresInUse
    \/ User

Spec == Init /\ [][Next]_vars

\* The beat fires, delivered messages are executed, handlers end and TTLs run
\* out; nothing is asked of the market, the user or the failures.
Fairness ==
    /\ WF_vars(\E s \in Slots : Beat(s))
    /\ \A s \in Slots : WF_vars(Worker(s))
    /\ \A k \in Tokens : WF_vars(Handler(k))
    /\ WF_vars(LockExpires)

FairSpec == Spec /\ Fairness

-----------------------------------------------------------------------------
(* Properties *)

\* Every variable keeps its type, ids are below the sequence and an execution
\* has a token.
TypeOK ==
    /\ deals \in [Positions -> SUBSET DealKinds]
    /\ old \in [Positions -> SUBSET DealKinds]
    /\ gate \in Gates
    /\ lastFull \in BOOLEAN
    /\ lock \in Tokens \cup {NoToken}
    /\ task \in [Slots -> Tasks]
    /\ \A s \in Slots : Running(s) => task[s].tok \in Tokens
    /\ req \in [Tokens -> Requests]
    /\ journal \subseteq Trades
    /\ nextId \in Nat
    /\ \A t \in journal : t.id < nextId
    /\ upload \in [Uploads -> SUBSET Positions]
    /\ deleted \subseteq Positions
    /\ faulted \in BOOLEAN /\ mixed \in BOOLEAN /\ blind \in BOOLEAN
    /\ moves \in Nat

\* While the lock protects every running sync, at most one posted request is
\* between its arrival and its commit, whatever retries, redeliveries, crashes
\* and lost answers came before: this is all that keeps the handler's
\* read-then-insert from interleaving with another one (mt5_sync_tasks.py:785).
LockSerialisesIngest ==
    ~faulted => \A k, l \in Tokens : InFlight(k) /\ InFlight(l) => k = l

\* No position is recorded twice, although trades.mt5_position has no unique
\* index and the sync rows carry no dedupe key: as long as the lock held and no
\* upload overlapped a sync, the two reads of the handler are enough.
OneTradePerPosition ==
    ~faulted /\ ~mixed => \A t, u \in journal : t.pos = u.pos => t = u

\* A closed trade shows a realised amount: no late floating pnl of a running
\* position overwrites what the exit deals paid.
ClosedTradesAreRealised ==
    ~faulted => \A t \in journal : t.closed => t.pnl \in (SUBSET Exits) \ {{}}

\* While none of a position's deals has left the window, its trade is closed only
\* if the broker closed the position, and then shows every exit: neither the two
\* moments at which a sync reads deals and positions, nor a retry with rows read
\* earlier, nor an upload makes a partial exit pass for the whole.  (Once the
\* entry is out of the window it does, see RunningTradesStayOpen.)
ClosedWithEveryExit ==
    ~faulted => \A t \in journal : t.closed /\ old[t.pos] = {} =>
        "exit" \in deals[t.pos] /\ t.pnl = deals[t.pos] \cap Exits

\* Once the account is stamped as fully synchronised, no task asks for the
\* whole history unasked: then every trade older than the link that passes
\* validation has been recorded, unless a history read silently came back empty
\* or the user deleted the trade.
FullStampSound ==
    lastFull /\ ~blind => (Legacy \cap Importable) \subseteq (Known \cup deleted)

\* A sync never reopens a trade, not even a stale one whose handler loaded the
\* trade while it was open.
ClosedNeverReopened ==
    [][\A t \in journal, u \in journal' :
          t.id = u.id /\ t.pos = u.pos /\ t.closed => u.closed]_vars

\* A trade whose deals are all in the seven-day window is recorded as closed in
\* the end: no crash, timeout, lost answer or expired message stops the beat
\* from catching up, unless the trade ages first, the account does not stay
\* open or the user deletes the trade.
Caught(p) == \E t \in OfPosition(p) : t.closed
ClosedEventuallyRecorded ==
    \A p \in Importable :
        ("exit" \in deals[p] /\ old[p] = {})
            ~> (Caught(p) \/ old[p] # {} \/ gate # "open" \/ p \in deleted)

\* A doc comment of the worker: "positions_get() is authoritative for running
\* trades regardless of when they were opened" (mt5_sync_tasks.py:1083).  So a
\* position that keeps running is not recorded as closed.
RunningTradesStayOpen ==
    \A t \in journal : t.closed => "exit" \in deals[t.pos]
=============================================================================
