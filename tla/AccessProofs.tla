---------------------------- MODULE AccessProofs ----------------------------
(***************************************************************************)
(* What holds of Access for any accounts, batches, sessions and bounds.    *)
(***************************************************************************)
EXTENDS Access, FiniteSetTheorems, SequenceTheorems, TLAPS

USE AccessAssumption, RowsAssumption

-----------------------------------------------------------------------------
(* Type correctness *)

LEMMA MonusType == ASSUME NEW m \in Nat, NEW n \in Nat PROVE Monus(m, n) \in Nat
BY DEF Monus

\* A finite number of rows is counted.
LEMMA CountType ==
    ASSUME NEW S, S \subseteq Requests \/ S \subseteq TradeAccounts
    PROVE  IsFiniteSet(S) /\ Cardinality(S) \in Nat
BY FS_Subset, FS_CardinalityType

\* Writing a counter of a batch gives a batch.
LEMMA BatchType ==
    ASSUME NEW x \in BatchRows, NEW n \in Nat
    PROVE  /\ [x EXCEPT !.capacity = n] \in BatchRows /\ [x EXCEPT !.claimed = n] \in BatchRows
           /\ [x EXCEPT !.open = FALSE] \in BatchRows
BY DEF BatchRows

LEMMA InitType == Init => TypeOK
<1> SUFFICES ASSUME Init PROVE TypeOK
    OBVIOUS
<1>1. queue \in Seq(Tasks)
    BY DEF Init
<1> QED BY <1>1 DEF Init, TypeOK

\* The batches, their reviews, and what an administrator removes.
LEMMA AdminType ==
    ASSUME TypeOK,
           \/ \E b \in Batches : (\E n \in 1 .. MaxCapacity : CreateBatch(b, n))
                                    \/ AddSlots(b) \/ CloseBatch(b)
           \/ \E r \in Requests : Approve(r) \/ Reject(r)
           \/ \E t \in TradeAccounts : DeleteLink(t) \/ DropAccount(t)
    PROVE  TypeOK'
<1>1. ASSUME NEW b \in Batches, NEW n \in 1 .. MaxCapacity, CreateBatch(b, n) PROVE TypeOK'
  <2>1. batch' \in [Batches -> BatchRows \cup {None}]
    BY <1>1 DEF CreateBatch, TypeOK, BatchRows
  <2> QED BY <1>1, <2>1 DEF CreateBatch, TypeOK, trialVars
<1>2. ASSUME NEW b \in Batches, AddSlots(b) \/ CloseBatch(b) PROVE TypeOK'
  <2>1. batch[b] \in BatchRows
    BY <1>2 DEF AddSlots, CloseBatch, TypeOK
  <2>2. /\ [batch[b] EXCEPT !.capacity = @ + 1] \in BatchRows
        /\ [batch[b] EXCEPT !.open = FALSE] \in BatchRows
    <3>1. batch[b].capacity + 1 \in Nat
      BY <2>1 DEF BatchRows
    <3> QED BY <2>1, <3>1, BatchType
  <2>3. batch' \in [Batches -> BatchRows \cup {None}]
    BY <1>2, <2>2, ZenonT(40) DEF AddSlots, CloseBatch, TypeOK
  <2> QED BY <1>2, <2>3 DEF AddSlots, CloseBatch, TypeOK, trialVars
<1>3. ASSUME NEW r \in Requests, Approve(r) \/ Reject(r) PROVE TypeOK'
  <2>1. request[r] \in RequestRows
    BY <1>3 DEF Approve, Reject, TypeOK
  <2>2. \A s \in Statuses : [request[r] EXCEPT !.status = s] \in RequestRows
    BY <2>1 DEF RequestRows
  <2>3. request' \in [Requests -> RequestRows \cup {None}]
    BY <1>3, <2>2, ZenonT(40) DEF Approve, Reject, TypeOK, Statuses
  <2>4. link' \in [TradeAccounts -> LinkRows \cup {None}]
    BY <1>3 DEF Approve, Reject, TypeOK
  <2> QED BY <1>3, <2>3, <2>4 DEF Approve, Reject, TypeOK, trialVars
<1>4. ASSUME NEW t \in TradeAccounts, DeleteLink(t) \/ DropAccount(t) PROVE TypeOK'
  <2>1. request' \in [Requests -> RequestRows \cup {None}] /\ account' \subseteq TradeAccounts
    BY <1>4 DEF DeleteLink, DropAccount, TypeOK, batchVars
  <2>2. link' \in [TradeAccounts -> LinkRows \cup {None}]
    BY <1>4 DEF DeleteLink, DropAccount, TypeOK
  <2>3. moves' \in Nat
    BY <1>4 DEF DeleteLink, DropAccount, TypeOK, Move
  <2> QED BY <1>4, <2>1, <2>2, <2>3 DEF DeleteLink, DropAccount, TypeOK, batchVars, trialVars
<1> QED BY <1>1, <1>2, <1>3, <1>4

\* The row a submission continues has the account it is submitted for.
LEMMA CurrentType ==
    ASSUME TypeOK, NEW t \in TradeAccounts, NEW r \in Current(t)
    PROVE  r = None \/ (r \in RowsOf(t) /\ r \in Requests /\ request[r] \in RequestRows)
<1>1. \A q \in RowsOf(t) : q \in Requests /\ request[q] \in RequestRows
    BY DEF RowsOf, TypeOK
<1>2. r = None \/ r \in RowsOf(t)
    BY DEF Current
<1> QED BY <1>1, <1>2

LEMMA SubmitReadType ==
    ASSUME TypeOK, NEW w \in Sessions, NEW t \in TradeAccounts, SubmitRead(w, t)
    PROVE  TypeOK'
<1>1. PICK r \in Current(t), b \in IF OpenBatch = {} THEN {None} ELSE OpenBatch :
         web' = [web EXCEPT ![w] =
           [op |-> "submit", account |-> t, batch |-> b,
            capacity |-> IF b = None THEN 0 ELSE batch[b].capacity,
            claimed |-> IF b = None THEN 0 ELSE batch[b].claimed,
            request |-> r,
            status |-> IF r = None THEN "pending" ELSE request[r].status,
            slot |-> IF r = None THEN None ELSE request[r].batch]]
    BY DEF SubmitRead
<1>2. r = None \/ (r \in Requests /\ request[r] \in RequestRows)
    BY CurrentType
<1>3. b = None \/ (b \in Batches /\ batch[b] \in BatchRows)
    BY DEF OpenBatch, TypeOK
<1>4. (IF b = None THEN 0 ELSE batch[b].capacity) \in Nat
      /\ (IF b = None THEN 0 ELSE batch[b].claimed) \in Nat
    BY <1>3 DEF BatchRows
<1>5. (IF r = None THEN "pending" ELSE request[r].status) \in Statuses
      /\ (IF r = None THEN None ELSE request[r].batch) \in Batches \cup {None}
    BY <1>2 DEF RequestRows, Statuses
<1>6. web' \in [Sessions -> Reads \cup {Idle}]
    BY <1>1, <1>2, <1>3, <1>4, <1>5 DEF TypeOK, Reads
<1>7. moves' \in Nat
    BY DEF SubmitRead, Move, TypeOK
<1> QED BY <1>6, <1>7 DEF SubmitRead, TypeOK, batchVars, trialVars

LEMMA UnlinkReadType ==
    ASSUME TypeOK, NEW w \in Sessions, NEW t \in TradeAccounts, UnlinkRead(w, t)
    PROVE  TypeOK'
<1> DEFINE slots == [r \in Requests |-> IF r \in RowsOf(t) THEN request[r].batch ELSE None]
           claims == [b \in Batches |-> IF batch[b] = None THEN 0 ELSE batch[b].claimed]
<1>1. slots \in [Requests -> Batches \cup {None}]
    BY DEF TypeOK, RowsOf, RequestRows
<1>2. claims \in [Batches -> Nat]
    BY DEF TypeOK, BatchRows
<1>3. link[t].id \in Nat /\ RowsOf(t) \in SUBSET Requests
    BY DEF UnlinkRead, TypeOK, LinkRows, RowsOf
<1>4. web' = [web EXCEPT ![w] = [op |-> "unlink", account |-> t, id |-> link[t].id,
                                 rows |-> RowsOf(t), slots |-> slots, claims |-> claims]]
    BY DEF UnlinkRead
<1> HIDE DEF slots, claims
<1>5. web' \in [Sessions -> Reads \cup {Idle}]
    BY <1>1, <1>2, <1>3, <1>4 DEF TypeOK, Reads
<1>6. moves' \in Nat
    BY DEF UnlinkRead, Move, TypeOK
<1> QED BY <1>5, <1>6 DEF UnlinkRead, TypeOK, batchVars, trialVars

\* What a submission has in memory.
Submissions == {s \in Reads : s.op = "submit"}

LEMMA SubmissionType ==
    ASSUME TypeOK, NEW w \in Sessions, web[w].op = "submit"
    PROVE  /\ web[w].account \in TradeAccounts /\ web[w].batch \in Batches \cup {None}
           /\ web[w].capacity \in Nat /\ web[w].claimed \in Nat
           /\ web[w].request \in Requests \cup {None} /\ web[w].status \in Statuses
           /\ web[w].slot \in Batches \cup {None}
BY DEF TypeOK, Reads, Idle

\* A submission writes to a row of the table.
LEMMA RowType ==
    ASSUME TypeOK, NEW w \in Sessions, web[w].op = "submit", HasRow(web[w])
    PROVE  /\ Row(web[w]) \in Requests
           /\ web[w].request = None => request[Row(web[w])] = None
           /\ web[w].request # None => Row(web[w]) = web[w].request
<1>1. web[w].request \in Requests \cup {None}
    BY SubmissionType
<1> QED BY <1>1 DEF HasRow, Row

LEMMA SubmitRowsType ==
    ASSUME TypeOK, NEW w \in Sessions, web[w].op = "submit",
           NEW r \in Requests, NEW slot \in Batches \cup {None}, SubmitRows(web[w], r, slot)
    PROVE  /\ request' \in [Requests -> RequestRows \cup {None}]
           /\ unseen' \subseteq Batches \cup {None}
           /\ links' \in [TradeAccounts -> Nat] /\ link' \in [TradeAccounts -> LinkRows \cup {None}]
           /\ queue' \in Seq(Tasks)
<1> DEFINE s == web[w]
           row == [account |-> s.account,
                   batch |-> IF slot # s.slot \/ request[r] = None THEN slot ELSE request[r].batch,
                   status |-> IF request[r] = None \/ s.status # "pending"
                                THEN "pending" ELSE request[r].status]
<1>1. s.account \in TradeAccounts
    BY SubmissionType
<1>2. request[r] = None \/ request[r] \in RequestRows
    BY DEF TypeOK
<1>3. row \in RequestRows
    BY <1>1, <1>2 DEF RequestRows, Statuses
<1>4. request' = [request EXCEPT ![r] = row]
    BY DEF SubmitRows
<1>5. request' \in [Requests -> RequestRows \cup {None}] /\ request'[r].batch = row.batch
    BY <1>3, <1>4 DEF TypeOK
<1>6. row.batch \in Batches \cup {None}
    BY <1>3 DEF RequestRows
<1>7. unseen' \subseteq Batches \cup {None}
    BY <1>5, <1>6 DEF SubmitRows, TypeOK
<1>8. links' \in [TradeAccounts -> Nat]
    BY <1>1 DEF SubmitRows, TypeOK
<1>9. links'[s.account] \in Nat
    BY <1>1, <1>8
<1>10. link' \in [TradeAccounts -> LinkRows \cup {None}]
    BY <1>1, <1>9 DEF SubmitRows, TypeOK, LinkRows
<1>11. [kind |-> "setup", account |-> s.account, id |-> links'[s.account]] \in Tasks
    BY <1>1, <1>9 DEF Tasks
<1>12. queue' \in Seq(Tasks)
    BY <1>11 DEF SubmitRows, TypeOK
<1> QED BY <1>5, <1>7, <1>8, <1>10, <1>12

LEMMA SubmitCommitType ==
    ASSUME TypeOK, NEW w \in Sessions, SubmitCommit(w)
    PROVE  TypeOK'
<1> DEFINE s == web[w]
           r == Row(s)
<1>1. s.op = "submit" /\ HasRow(s)
    BY DEF SubmitCommit
<1>2. r \in Requests
    BY <1>1, RowType
<1>3. s.slot \in Batches \cup {None} /\ s.claimed \in Nat
    BY <1>1, SubmissionType
<1>4. PICK slot \in Batches \cup {None} :
        /\ SubmitRows(s, r, slot)
        /\ \/ UNCHANGED batch
           \/ slot \in OpenBatch /\ batch' = [batch EXCEPT ![slot].claimed = Seen(s, slot).claimed + 1]
    BY <1>3 DEF SubmitCommit, OpenBatch
<1>5. batch' \in [Batches -> BatchRows \cup {None}]
  <2>1. CASE UNCHANGED batch
    BY <2>1 DEF TypeOK
  <2>2. CASE slot \in OpenBatch /\ batch' = [batch EXCEPT ![slot].claimed = Seen(s, slot).claimed + 1]
    <3>1. batch[slot] \in BatchRows /\ slot \in Batches
      BY <2>2 DEF OpenBatch, TypeOK
    <3>2. Seen(s, slot).claimed \in Nat
      BY <1>3, <3>1 DEF Seen, BatchRows
    <3>3. [batch[slot] EXCEPT !.claimed = Seen(s, slot).claimed + 1] \in BatchRows
      BY <3>1, <3>2 DEF BatchRows
    <3> QED BY <2>2, <3>1, <3>3 DEF TypeOK
  <2> QED BY <1>4, <2>1, <2>2
<1>6. /\ request' \in [Requests -> RequestRows \cup {None}]
      /\ unseen' \subseteq Batches \cup {None}
      /\ links' \in [TradeAccounts -> Nat] /\ link' \in [TradeAccounts -> LinkRows \cup {None}]
      /\ queue' \in Seq(Tasks)
    BY <1>1, <1>2, <1>4, SubmitRowsType
<1>7. web' \in [Sessions -> Reads \cup {Idle}]
    BY DEF SubmitCommit, TypeOK
<1> QED BY <1>5, <1>6, <1>7 DEF SubmitCommit, TypeOK

LEMMA UnlinkCommitType ==
    ASSUME TypeOK, NEW w \in Sessions, UnlinkCommit(w)
    PROVE  TypeOK'
<1> DEFINE s == web[w]
<1>1. /\ s.account \in TradeAccounts /\ s.rows \subseteq Requests
      /\ s.claims \in [Batches -> Nat]
    BY DEF UnlinkCommit, TypeOK, Reads, Idle
<1>2. ASSUME NEW b \in Batches PROVE Released(s, b) \in Nat
  <2>1. Cardinality({r \in s.rows : s.slots[r] = b}) \in Nat
    BY <1>1, CountType
  <2> QED BY <1>1, <2>1, MonusType DEF Released
<1>3. ASSUME NEW b \in Batches, batch[b] # None
      PROVE  [batch[b] EXCEPT !.claimed = Released(s, b)] \in BatchRows
  <2>1. batch[b] \in BatchRows
    BY <1>3 DEF TypeOK
  <2> QED BY <1>2, <2>1, BatchType
<1>4. batch' \in [Batches -> BatchRows \cup {None}]
    BY <1>3 DEF UnlinkCommit, TypeOK
<1>5. request' \in [Requests -> RequestRows \cup {None}]
    BY DEF UnlinkCommit, TypeOK
<1>6. link' \in [TradeAccounts -> LinkRows \cup {None}] /\ web' \in [Sessions -> Reads \cup {Idle}]
    BY DEF UnlinkCommit, TypeOK
<1> QED BY <1>4, <1>5, <1>6 DEF UnlinkCommit, TypeOK, trialVars

\* The sequences of setups of paused accounts.
LEMMA SetupsType ==
    ASSUME TypeOK, NEW tasks \in SetupsOf(PausedAccounts)
    PROVE  tasks \in Seq(Tasks)
<1> DEFINE s == PausedAccounts
           n == Cardinality(s)
<1>1. s \subseteq TradeAccounts /\ n \in Nat
    BY CountType DEF PausedAccounts
<1>2. PICK f \in [1 .. n -> s] :
        tasks = [i \in 1 .. n |-> [kind |-> "setup", account |-> f[i], id |-> link[f[i]].id]]
    BY DEF SetupsOf
<1>3. ASSUME NEW i \in 1 .. n
      PROVE  [kind |-> "setup", account |-> f[i], id |-> link[f[i]].id] \in Tasks
  <2>1. f[i] \in TradeAccounts /\ link[f[i]] # None
    BY <1>2 DEF PausedAccounts
  <2>2. link[f[i]].id \in Nat
    BY <2>1 DEF TypeOK, LinkRows
  <2> QED BY <2>1, <2>2 DEF Tasks
<1> HIDE DEF n, s
<1>4. tasks \in [1 .. n -> Tasks]
    BY <1>2, <1>3
<1> QED BY <1>1, <1>4, SeqDef

\* Writing a flag of a link gives a link.
LEMMA LinkType ==
    ASSUME NEW x \in LinkRows, NEW y \in BOOLEAN
    PROVE  /\ [x EXCEPT !.paused = y] \in LinkRows
           /\ [x EXCEPT !.paused = y, !.running = FALSE] \in LinkRows
           /\ [x EXCEPT !.installed = TRUE, !.running = TRUE] \in LinkRows
BY DEF LinkRows

LEMMA ExtendType ==
    ASSUME TypeOK, NEW d \in ExtensionDays, NEW c \in BOOLEAN, Extend(d, c)
    PROVE  TypeOK'
<1>1. queue' \in Seq(Tasks)
  <2>1. PICK tasks \in SetupsOf(PausedAccounts) : queue' = queue \o tasks
    BY DEF Extend
  <2>2. queue \in Seq(Tasks) /\ tasks \in Seq(Tasks)
    BY SetupsType DEF TypeOK
  <2> QED BY <2>1, <2>2, ConcatProperties
<1>2. trial' \in Int \cup {None}
    BY DEF Extend, TypeOK
<1>3. link' \in [TradeAccounts -> LinkRows \cup {None}]
  <2>1. \A t \in PausedAccounts : [link[t] EXCEPT !.paused = FALSE] \in LinkRows
    BY LinkType DEF PausedAccounts, TypeOK
  <2>2. \/ link' = [t \in TradeAccounts |->
                     IF t \in PausedAccounts THEN [link[t] EXCEPT !.paused = FALSE] ELSE link[t]]
        \/ link' = link
    BY DEF Extend
  <2>3. link \in [TradeAccounts -> LinkRows \cup {None}]
    BY DEF TypeOK
  <2> QED BY <2>1, <2>2, <2>3
<1>4. moves' \in Nat
    BY DEF Extend, Move, TypeOK
<1> QED BY <1>1, <1>2, <1>3, <1>4 DEF Extend, TypeOK, batchVars

LEMMA UseType ==
    ASSUME TypeOK,
           \/ ChatUsed \/ Tick \/ TogglePrivilege
           \/ \E t \in TradeAccounts : Synced(t)
    PROVE  TypeOK'
<1>1. trial' \in Int \cup {None} /\ day' \in Nat
    BY DEF ChatUsed, Tick, TogglePrivilege, Synced, Used, TypeOK
<1>2. privileged' \in BOOLEAN
    BY DEF ChatUsed, Tick, TogglePrivilege, Synced, TypeOK
<1>3. moves' \in Nat
    BY DEF ChatUsed, Tick, TogglePrivilege, Synced, Move, TypeOK
<1> QED BY <1>1, <1>2, <1>3 DEF ChatUsed, Tick, TogglePrivilege, Synced, TypeOK, batchVars

LEMMA GateType ==
    ASSUME TypeOK, NEW t \in TradeAccounts, GateRefuses(t)
    PROVE  TypeOK'
<1>1. link[t].id \in Nat
    BY DEF GateRefuses, TypeOK, LinkRows
<1>2. gate' \in [TradeAccounts -> Nat \cup {None}]
    BY <1>1 DEF GateRefuses, TypeOK
<1> QED BY <1>2 DEF GateRefuses, TypeOK, batchVars

LEMMA PauseType ==
    ASSUME TypeOK, NEW t \in TradeAccounts,
           Pause(t) \/ PauseNotSaved(t) \/ PauseNotQueued(t)
    PROVE  TypeOK'
<1>1. gate[t] \in Nat /\ gate' \in [TradeAccounts -> Nat \cup {None}]
    BY DEF Pause, PauseNotSaved, PauseNotQueued, TypeOK
<1>2. link' \in [TradeAccounts -> LinkRows \cup {None}]
  <2> DEFINE x == [link[t] EXCEPT !.paused = TRUE]
  <2>1. link \in [TradeAccounts -> LinkRows \cup {None}] /\ (link[t] # None => x \in LinkRows)
    BY LinkType DEF TypeOK
  <2>2. link' = link \/ (link[t] # None /\ link' = [link EXCEPT ![t] = x])
    BY DEF Pause, PauseNotSaved, PauseNotQueued, Stamped
  <2> HIDE DEF x
  <2> QED BY <2>1, <2>2
<1>3. queue' \in Seq(Tasks)
  <2> DEFINE x == [kind |-> "pause", account |-> t, id |-> gate[t]]
  <2>1. x \in Tasks /\ queue \in Seq(Tasks)
    BY <1>1 DEF Tasks, TypeOK
  <2>2. queue' = queue \/ queue' = Append(queue, x)
    BY DEF Pause, PauseNotSaved, PauseNotQueued, Stamp
  <2> HIDE DEF x
  <2> QED BY <2>1, <2>2
<1>4. astray' \subseteq TradeAccounts \X Nat
    BY <1>1 DEF Pause, PauseNotSaved, PauseNotQueued, Stamp, TypeOK
<1>5. moves' \in Nat
    BY DEF Pause, PauseNotSaved, PauseNotQueued, Move, TypeOK
<1> QED BY <1>1, <1>2, <1>3, <1>4, <1>5
        DEF Pause, PauseNotSaved, PauseNotQueued, TypeOK, batchVars

LEMMA WorkerType ==
    ASSUME TypeOK, Worker
    PROVE  TypeOK'
<1> DEFINE t == Head(queue).account
<1>1. Head(queue) \in Tasks /\ Tail(queue) \in Seq(Tasks)
    BY HeadTailProperties DEF Worker, PauseTask, SetupTask, TypeOK
<1>2. t \in TradeAccounts
    BY <1>1 DEF Tasks
<1>3. link[t] # None => link[t] \in LinkRows /\ link[t].id \in Nat
    BY <1>2 DEF TypeOK, LinkRows
<1>4. link[t] # None =>
        /\ [link[t] EXCEPT !.paused = TRUE, !.running = FALSE] \in LinkRows
        /\ [link[t] EXCEPT !.installed = TRUE, !.running = TRUE] \in LinkRows
    BY <1>3, LinkType
<1>5. link' \in [TradeAccounts -> LinkRows \cup {None}]
  <2> DEFINE x == [link[t] EXCEPT !.paused = TRUE, !.running = FALSE]
             y == [link[t] EXCEPT !.installed = TRUE, !.running = TRUE]
  <2>1. \/ link' = link
        \/ link[t] # None /\ link' = [link EXCEPT ![t] = x]
        \/ link[t] # None /\ link' = [link EXCEPT ![t] = y]
    BY DEF Worker, PauseTask, SetupTask
  <2>2. link \in [TradeAccounts -> LinkRows \cup {None}]
    BY DEF TypeOK
  <2>3. link[t] # None => x \in LinkRows /\ y \in LinkRows
    BY <1>4
  <2> HIDE DEF x, y
  <2> QED BY <2>1, <2>2, <2>3
<1>6. astray' \subseteq TradeAccounts \X Nat
    BY <1>2, <1>3 DEF Worker, PauseTask, SetupTask, TypeOK
<1>7. queue' \in Seq(Tasks)
    BY <1>1 DEF Worker, PauseTask, SetupTask
<1> QED BY <1>5, <1>6, <1>7 DEF Worker, PauseTask, SetupTask, TypeOK, batchVars

LEMMA TypeStep == ASSUME TypeOK, [Next]_vars PROVE TypeOK'
<1>1. CASE Administration
    BY <1>1, AdminType, ExtendType, UseType DEF Administration
<1>2. CASE Web
  <2>1. ASSUME NEW w \in Sessions, SubmitRefused(w) PROVE TypeOK'
    BY <2>1 DEF SubmitRefused, TypeOK, batchVars, trialVars
  <2> QED BY <1>2, <2>1, SubmitReadType, UnlinkReadType, SubmitCommitType, UnlinkCommitType DEF Web
<1>3. CASE Worker
    BY <1>3, WorkerType
<1>4. CASE Tick \/ ChatUsed
    BY <1>4, UseType
<1>5. CASE \E t \in TradeAccounts : Sync(t)
    BY <1>5, UseType, GateType, PauseType DEF Sync
<1>6. CASE UNCHANGED vars
    BY <1>6 DEF vars, batchVars, trialVars, TypeOK
<1> QED BY <1>1, <1>2, <1>3, <1>4, <1>5, <1>6 DEF Next

\* Every variable keeps its type, for any accounts, batches, sessions and days.
THEOREM AccessTypeCorrect == Spec => []TypeOK
<1>1. TypeOK /\ [Next]_vars => TypeOK'
    BY TypeStep
<1> QED BY <1>1, InitType, PTL DEF Spec

-----------------------------------------------------------------------------
(* The capacity of a batch *)

\* A request holds a slot of a batch that exists.
SlotsExist ==
    \A r \in Requests :
        request[r] # None /\ request[r].batch # None => batch[request[r].batch] # None

\* What a submission has in memory may be old, but batches are never deleted
\* and their capacity only grows.
SubmissionKnows(s) ==
    /\ s.slot # None => batch[s.slot] # None
    /\ s.batch # None => batch[s.batch] # None /\ s.capacity <= batch[s.batch].capacity
    /\ s.request = None => s.slot = None /\ s.status = "pending"

SubmissionsKnow ==
    \A w \in Sessions : web[w].op = "submit" => SubmissionKnows(web[w])

CapacityInv == SlotsExist /\ SubmissionsKnow /\ ActiveWithinCapacity

LEMMA CapacityInitially == Init => CapacityInv
BY DEF Init, CapacityInv, SlotsExist, SubmissionsKnow, ActiveWithinCapacity, Idle

\* The batches keep what was seen of them.
BatchesGrow ==
    \A b \in Batches : batch[b] # None => batch'[b] # None /\ batch[b].capacity <= batch'[b].capacity

LEMMA KnowledgeLasts ==
    ASSUME TypeOK, TypeOK', SubmissionsKnow, BatchesGrow,
           \A w \in Sessions : web'[w] = web[w] \/ web'[w].op # "submit"
    PROVE  SubmissionsKnow'
<1> SUFFICES ASSUME NEW w \in Sessions, web[w].op = "submit", web'[w] = web[w]
             PROVE  SubmissionKnows(web[w])'
    BY DEF SubmissionsKnow
<1> DEFINE s == web[w]
<1>1. s.slot \in Batches \cup {None} /\ s.batch \in Batches \cup {None} /\ s.capacity \in Nat
    BY SubmissionType
<1>2. SubmissionKnows(s)
    BY DEF SubmissionsKnow
<1>3. s.slot # None => batch'[s.slot] # None
    BY <1>1, <1>2 DEF SubmissionKnows, BatchesGrow
<1>4. ASSUME s.batch # None PROVE batch'[s.batch] # None /\ s.capacity <= batch'[s.batch].capacity
  <2>1. batch[s.batch] \in BatchRows /\ s.capacity <= batch[s.batch].capacity
    BY <1>1, <1>2, <1>4 DEF SubmissionKnows, TypeOK
  <2>2. batch'[s.batch] # None /\ batch[s.batch].capacity <= batch'[s.batch].capacity
    BY <1>1, <1>2, <1>4 DEF SubmissionKnows, BatchesGrow
  <2>3. batch'[s.batch] \in BatchRows
    BY <1>1, <1>4, <2>2 DEF TypeOK
  <2>4. batch[s.batch].capacity \in Nat /\ batch'[s.batch].capacity \in Nat
    BY <2>1, <2>3 DEF BatchRows
  <2> QED BY <1>1, <2>1, <2>2, <2>4
<1> QED BY <1>2, <1>3, <1>4 DEF SubmissionKnows

\* No request takes a slot.
SlotsKept ==
    \A r \in Requests : request'[r] # None =>
        /\ request[r] # None /\ request'[r].batch = request[r].batch
        /\ request'[r].status \in {"pending", "approved"} => request[r].status \in {"pending", "approved"}

LEMMA ActiveType ==
    ASSUME NEW b
    PROVE  /\ IsFiniteSet(Active(b)) /\ Cardinality(Active(b)) \in Nat
           /\ Active(b) \subseteq Requests
<1>1. Active(b) \subseteq Requests
    BY DEF Active
<1> QED BY <1>1, CountType

\* As long as no request takes a slot, no batch exceeds its capacity.
LEMMA SlotsKeptKeeps ==
    ASSUME TypeOK, TypeOK', CapacityInv, BatchesGrow, SlotsKept, unseen \subseteq unseen',
           \A b \in Batches : batch'[b] # None => batch[b] # None,
           \A w \in Sessions : web'[w] = web[w] \/ web'[w].op # "submit"
    PROVE  CapacityInv'
<1>1. SubmissionsKnow'
    BY KnowledgeLasts DEF CapacityInv
<1>2. SlotsExist'
  <2> SUFFICES ASSUME NEW r \in Requests, request'[r] # None, request'[r].batch # None
               PROVE  batch'[request'[r].batch] # None
    BY DEF SlotsExist
  <2>1. request[r] # None /\ request'[r].batch = request[r].batch
    BY DEF SlotsKept
  <2>2. request[r].batch \in Batches
    BY <2>1 DEF TypeOK, RequestRows
  <2> QED BY <2>1, <2>2 DEF CapacityInv, SlotsExist, BatchesGrow
<1>3. ActiveWithinCapacity'
  <2> SUFFICES ASSUME NEW b \in Batches, batch'[b] # None, b \notin unseen'
               PROVE  Cardinality(Active(b)') <= batch'[b].capacity
    BY DEF ActiveWithinCapacity
  <2>1. Active(b)' \subseteq Active(b)
    BY DEF Active, SlotsKept
  <2>2. Cardinality(Active(b)') <= Cardinality(Active(b)) /\ Cardinality(Active(b)') \in Nat
    BY <2>1, ActiveType, FS_Subset, FS_CardinalityType
  <2>3. Cardinality(Active(b)) <= batch[b].capacity /\ Cardinality(Active(b)) \in Nat
    BY ActiveType DEF CapacityInv, ActiveWithinCapacity
  <2>4. batch[b].capacity <= batch'[b].capacity
    BY DEF BatchesGrow
  <2>5. batch[b].capacity \in Nat /\ batch'[b].capacity \in Nat
    BY DEF TypeOK, BatchRows
  <2> QED BY <2>2, <2>3, <2>4, <2>5
<1> QED BY <1>1, <1>2, <1>3 DEF CapacityInv

\* A batch that opens has no requests yet.
LEMMA CreateBatchKeeps ==
    ASSUME TypeOK, TypeOK', CapacityInv, NEW b \in Batches, NEW n \in 1 .. MaxCapacity,
           CreateBatch(b, n)
    PROVE  CapacityInv'
<1>1. /\ batch[b] = None /\ UNCHANGED <<request, unseen, web>>
      /\ batch' = [batch EXCEPT ![b] = [open |-> TRUE, capacity |-> n, claimed |-> 0]]
    BY DEF CreateBatch
<1>2. batch'[b] \in BatchRows /\ batch'[b].capacity = n
    BY <1>1 DEF TypeOK, BatchRows
<1>3. \A c \in Batches \ {b} : batch'[c] = batch[c]
    BY <1>1 DEF TypeOK
<1>4. BatchesGrow
    BY <1>1, <1>3 DEF TypeOK, BatchesGrow, BatchRows
<1>5. SubmissionsKnow'
    BY <1>1, <1>4, KnowledgeLasts DEF CapacityInv
<1>6. SlotsExist'
  <2> SUFFICES ASSUME NEW r \in Requests, request[r] # None, request[r].batch # None
               PROVE  batch'[request[r].batch] # None
    BY <1>1 DEF SlotsExist
  <2>1. request[r].batch \in Batches
    BY DEF TypeOK, RequestRows
  <2> QED BY <2>1, <1>4 DEF CapacityInv, SlotsExist, BatchesGrow
<1>7. ActiveWithinCapacity'
  <2> SUFFICES ASSUME NEW c \in Batches, batch'[c] # None, c \notin unseen
               PROVE  Cardinality(Active(c)') <= batch'[c].capacity
    BY <1>1 DEF ActiveWithinCapacity
  <2>1. Active(c)' = Active(c)
    BY <1>1 DEF Active
  <2>2. CASE c = b
    <3>1. Active(b) = {}
      BY <1>1 DEF Active, CapacityInv, SlotsExist
    <3> QED BY <1>2, <2>1, <2>2, <3>1, FS_EmptySet
  <2>3. CASE c # b
    BY <1>3, <2>1, <2>3 DEF CapacityInv, ActiveWithinCapacity
  <2> QED BY <2>2, <2>3
<1> QED BY <1>5, <1>6, <1>7 DEF CapacityInv

\* A submission remembers what is there.
LEMMA SubmitReadKeeps ==
    ASSUME TypeOK, CapacityInv, NEW w \in Sessions, NEW t \in TradeAccounts, SubmitRead(w, t)
    PROVE  CapacityInv'
<1>1. UNCHANGED <<batch, request, unseen>>
    BY DEF SubmitRead, batchVars
<1>2. PICK r \in Current(t), b \in IF OpenBatch = {} THEN {None} ELSE OpenBatch :
         web' = [web EXCEPT ![w] =
           [op |-> "submit", account |-> t, batch |-> b,
            capacity |-> IF b = None THEN 0 ELSE batch[b].capacity,
            claimed |-> IF b = None THEN 0 ELSE batch[b].claimed,
            request |-> r,
            status |-> IF r = None THEN "pending" ELSE request[r].status,
            slot |-> IF r = None THEN None ELSE request[r].batch]]
    BY DEF SubmitRead
<1> DEFINE s == web'[w]
<1>3. /\ s.batch = b /\ s.capacity = (IF b = None THEN 0 ELSE batch[b].capacity)
      /\ s.request = r /\ s.status = (IF r = None THEN "pending" ELSE request[r].status)
      /\ s.slot = (IF r = None THEN None ELSE request[r].batch)
    BY <1>2 DEF TypeOK
<1>4. \A v \in Sessions \ {w} : web'[v] = web[v]
    BY <1>2 DEF TypeOK
<1>5. r = None \/ (r \in Requests /\ r \in RowsOf(t))
    BY CurrentType
<1>6. b = None \/ (b \in Batches /\ batch[b] # None /\ batch[b] \in BatchRows)
    BY DEF OpenBatch, TypeOK
<1>7. s.slot # None => batch[s.slot] # None
    BY <1>3, <1>5 DEF CapacityInv, SlotsExist, RowsOf
<1>8. s.batch # None => batch[s.batch] # None /\ s.capacity <= batch[s.batch].capacity
    BY <1>3, <1>6 DEF BatchRows
<1>9. s.request = None => s.slot = None /\ s.status = "pending"
    BY <1>3
<1> HIDE DEF s
<1>10. SubmissionKnows(s)
    BY <1>7, <1>8, <1>9 DEF SubmissionKnows
<1>11. SubmissionsKnow'
  <2> SUFFICES ASSUME NEW v \in Sessions, web'[v].op = "submit" PROVE SubmissionKnows(web[v])'
    BY DEF SubmissionsKnow
  <2>1. SubmissionKnows(web'[v])
    BY <1>4, <1>10 DEF s, CapacityInv, SubmissionsKnow
  <2> QED BY <2>1, <1>1 DEF SubmissionKnows
<1>12. SlotsExist' /\ ActiveWithinCapacity'
    BY <1>1 DEF CapacityInv, SlotsExist, ActiveWithinCapacity, Active
<1> QED BY <1>11, <1>12 DEF CapacityInv

\* A submission that commits takes the slot it counted, keeps the one its row
\* had, or overwrites a review that it had not seen.
LEMMA SubmitCommitKeeps ==
    ASSUME TypeOK, TypeOK', CapacityInv, NEW w \in Sessions, SubmitCommit(w)
    PROVE  CapacityInv'
<1> DEFINE s == web[w]
           r == Row(s)
           active == {"pending", "approved"}
<1>1. s.op = "submit" /\ HasRow(s) /\ ~Conflict(s, r)
    BY DEF SubmitCommit
<1>2. /\ s.batch \in Batches \cup {None} /\ s.capacity \in Nat /\ s.claimed \in Nat
      /\ s.status \in Statuses /\ s.slot \in Batches \cup {None}
    BY <1>1, SubmissionType
<1>3. /\ r \in Requests
      /\ s.request = None => request[r] = None
      /\ s.request # None => request[r] # None
    BY <1>1, RowType DEF Conflict
<1>4. SubmissionKnows(s)
    BY <1>1 DEF CapacityInv, SubmissionsKnow
<1>5. PICK slot \in Batches \cup {None} :
        /\ SubmitRows(s, r, slot)
        /\ \/ /\ ~NeedsSlot(s) /\ slot = s.slot /\ UNCHANGED batch
           \/ /\ NeedsSlot(s) /\ slot \in OpenBatch /\ SlotsLeft(s, slot) > 0
              /\ batch' = [batch EXCEPT ![slot].claimed = Seen(s, slot).claimed + 1]
    BY <1>2 DEF SubmitCommit, OpenBatch
<1>6. \A b \in Batches : /\ batch'[b] # None <=> batch[b] # None
                         /\ batch[b] # None => batch'[b].capacity = batch[b].capacity
  <2>1. CASE UNCHANGED batch
    BY <2>1
  <2>2. CASE slot \in OpenBatch /\ batch' = [batch EXCEPT ![slot].claimed = Seen(s, slot).claimed + 1]
    <3> DEFINE x == [batch[slot] EXCEPT !.claimed = Seen(s, slot).claimed + 1]
    <3>1. slot \in Batches /\ batch[slot] \in BatchRows /\ batch[slot] # None
      BY <2>2 DEF OpenBatch, TypeOK
    <3>2. x.capacity = batch[slot].capacity
      BY <3>1 DEF BatchRows
    <3>3. batch' = [batch EXCEPT ![slot] = x]
      BY <2>2
    <3>4. batch'[slot] \in BatchRows \cup {None} /\ batch'[slot] = x /\ \A b \in Batches \ {slot} : batch'[b] = batch[b]
      BY <3>1, <3>3 DEF TypeOK
    <3>5. x # None
      BY <3>1, <3>4, <1>2, BatchType DEF Seen, BatchRows
    <3> HIDE DEF x
    <3> QED BY <3>1, <3>2, <3>4, <3>5
  <2> QED BY <1>5, <2>1, <2>2
<1>7. /\ \A q \in Requests \ {r} : request'[q] = request[q]
      /\ request'[r] # None
      /\ request'[r].batch = (IF slot # s.slot \/ request[r] = None THEN slot ELSE request[r].batch)
      /\ request'[r].status = (IF request[r] = None \/ s.status # "pending"
                                 THEN "pending" ELSE request[r].status)
      /\ unseen' = IF s.request # None /\ s.status # "pending" /\ request[r].status = "rejected"
                     THEN unseen \cup {request'[r].batch} ELSE unseen
  <2> DEFINE x == [account |-> s.account,
                   batch |-> IF slot # s.slot \/ request[r] = None THEN slot ELSE request[r].batch,
                   status |-> IF request[r] = None \/ s.status # "pending"
                                THEN "pending" ELSE request[r].status]
  <2>1. request' = [request EXCEPT ![r] = x]
    BY <1>5 DEF SubmitRows
  <2>2. request'[r] = x /\ \A q \in Requests \ {r} : request'[q] = request[q]
    BY <1>3, <2>1 DEF TypeOK
  <2>3. request'[r] # None
    <3>1. request'[r] = None \/ request'[r] \in RequestRows
      BY <1>3 DEF TypeOK
    <3>2. x \in RequestRows
      <4>1. s.account \in TradeAccounts
        BY <1>1, SubmissionType
      <4>2. request[r] = None \/ request[r] \in RequestRows
        BY <1>3 DEF TypeOK
      <4> QED BY <1>2, <4>1, <4>2 DEF RequestRows, Statuses
    <3> QED BY <2>2, <3>2
  <2> QED BY <1>5, <2>2, <2>3 DEF SubmitRows
<1>8. BatchesGrow
    BY <1>6 DEF BatchesGrow, TypeOK, BatchRows
<1>9. SubmissionsKnow'
  <2>1. \A v \in Sessions : web'[v] = web[v] \/ web'[v].op # "submit"
    BY DEF SubmitCommit, TypeOK, Idle
  <2> QED BY <1>8, <2>1, KnowledgeLasts DEF CapacityInv
<1>10. slot # None => batch[slot] # None
    BY <1>4, <1>5 DEF SubmissionKnows, OpenBatch
<1>11. SlotsExist'
  <2> SUFFICES ASSUME NEW q \in Requests, request'[q] # None, request'[q].batch # None
               PROVE  batch'[request'[q].batch] # None
    BY DEF SlotsExist
  <2>1. request'[q].batch \in Batches
    BY DEF TypeOK, RequestRows
  <2>2. batch[request'[q].batch] # None
    BY <1>3, <1>7, <1>10 DEF CapacityInv, SlotsExist
  <2> QED BY <1>6, <2>1, <2>2
<1>12. ActiveWithinCapacity'
  <2> SUFFICES ASSUME NEW b \in Batches, batch'[b] # None, b \notin unseen'
               PROVE  Cardinality(Active(b)') <= batch'[b].capacity
    BY DEF ActiveWithinCapacity
  <2>1. batch[b] # None /\ batch'[b].capacity = batch[b].capacity /\ b \notin unseen
    BY <1>6, <1>7
  <2>2. Cardinality(Active(b)) <= batch[b].capacity /\ batch[b].capacity \in Nat
    BY <2>1 DEF CapacityInv, ActiveWithinCapacity, TypeOK, BatchRows
  <2>3. IsFiniteSet(Active(b)) /\ Cardinality(Active(b)) \in Nat
    BY ActiveType
  <2>4. Active(b)' \ {r} \subseteq Active(b)
    BY <1>7 DEF Active
  <2>5. CASE Active(b)' \subseteq Active(b)
    <3>1. Cardinality(Active(b)') <= Cardinality(Active(b)) /\ Cardinality(Active(b)') \in Nat
      BY <2>3, <2>5, FS_Subset, FS_CardinalityType
    <3> QED BY <2>1, <2>2, <2>3, <3>1
  <2>6. CASE ~(Active(b)' \subseteq Active(b))
    <3>1. r \in Active(b)' /\ r \notin Active(b)
      BY <2>4, <2>6
    <3>2. request'[r].batch = b
      BY <3>1 DEF Active
    <3>3. NeedsSlot(s) /\ slot = b
      <4>1. CASE NeedsSlot(s)
        <5>1. slot # s.slot
          BY <1>5, <4>1 DEF NeedsSlot, OpenBatch
        <5> QED BY <1>7, <3>2, <4>1, <5>1
      <4>2. CASE ~NeedsSlot(s)
        <5>1. slot = s.slot /\ s.slot # None
          BY <1>5, <2>1, <4>2 DEF NeedsSlot, BatchesEnabled
        <5>2. s.request # None /\ request[r] # None
          BY <1>3, <1>4, <5>1 DEF SubmissionKnows
        <5>3. request[r].batch = b
          BY <1>7, <3>2, <5>1, <5>2
        <5>4. request[r].status \notin active
          BY <1>3, <3>1, <5>2, <5>3 DEF Active
        <5>5. request[r].status = "rejected"
          BY <1>3, <5>2, <5>4 DEF TypeOK, RequestRows, Statuses
        <5>6. s.status # "pending"
          BY <1>7, <3>1, <5>2, <5>5 DEF Active
        <5> QED BY <1>7, <3>2, <5>2, <5>5, <5>6
      <4> QED BY <4>1, <4>2
    <3>4. SlotsLeft(s, b) > 0 /\ b \in OpenBatch
      BY <1>5, <3>3
    <3>5. Seen(s, b).capacity \in Nat /\ Seen(s, b).claimed \in Nat
          /\ Seen(s, b).capacity <= batch[b].capacity
      BY <1>2, <1>4, <2>1 DEF Seen, SubmissionKnows, TypeOK, BatchRows
    <3>6. Cardinality(Active(b)) < Seen(s, b).capacity
      BY <2>3, <3>4, <3>5 DEF SlotsLeft, Monus
    <3>7. Active(b)' \subseteq Active(b) \cup {r}
      BY <2>4
    <3>8. IsFiniteSet(Active(b) \cup {r}) /\ Cardinality(Active(b) \cup {r}) = Cardinality(Active(b)) + 1
      BY <2>3, <3>1, FS_AddElement
    <3>9. Cardinality(Active(b)') <= Cardinality(Active(b)) + 1 /\ Cardinality(Active(b)') \in Nat
      BY <3>7, <3>8, FS_Subset, FS_CardinalityType
    <3> QED BY <2>1, <2>2, <2>3, <3>5, <3>6, <3>9
  <2> QED BY <2>5, <2>6
<1> QED BY <1>9, <1>11, <1>12 DEF CapacityInv

\* All other steps take no slot.
LEMMA BatchesStay ==
    ASSUME TypeOK, TypeOK', CapacityInv, UNCHANGED <<batch, unseen>>, SlotsKept,
           \A w \in Sessions : web'[w] = web[w] \/ web'[w].op # "submit"
    PROVE  CapacityInv'
<1>1. BatchesGrow
    BY DEF BatchesGrow, TypeOK, BatchRows
<1> QED BY <1>1, SlotsKeptKeeps

LEMMA AdminCapacity ==
    ASSUME TypeOK, TypeOK', CapacityInv, Administration PROVE CapacityInv'
<1>1. ASSUME NEW b \in Batches, AddSlots(b) \/ CloseBatch(b) PROVE CapacityInv'
  <2>1. batch[b] \in BatchRows /\ UNCHANGED <<request, unseen, web>>
    BY <1>1 DEF AddSlots, CloseBatch, TypeOK
  <2>2. PICK x \in BatchRows : batch' = [batch EXCEPT ![b] = x] /\ batch[b].capacity <= x.capacity
    <3>1. CASE AddSlots(b)
      <4> DEFINE y == [batch[b] EXCEPT !.capacity = @ + 1]
      <4>1. batch[b].capacity \in Nat /\ batch[b].capacity + 1 \in Nat
        BY <2>1 DEF BatchRows
      <4>2. y \in BatchRows /\ y.capacity = batch[b].capacity + 1
        BY <2>1, <4>1, BatchType DEF BatchRows
      <4>3. batch' = [batch EXCEPT ![b] = y]
        BY <3>1 DEF AddSlots
      <4>4. batch[b].capacity <= y.capacity
        BY <4>1, <4>2
      <4> HIDE DEF y
      <4> QED BY <4>2, <4>3, <4>4
    <3>2. CASE CloseBatch(b)
      <4> DEFINE y == [batch[b] EXCEPT !.open = FALSE]
      <4>1. y \in BatchRows /\ y.capacity = batch[b].capacity /\ batch[b].capacity \in Nat
        BY <2>1, BatchType DEF BatchRows
      <4>2. batch' = [batch EXCEPT ![b] = y]
        BY <3>2 DEF CloseBatch
      <4>3. batch[b].capacity <= y.capacity
        BY <4>1
      <4> HIDE DEF y
      <4> QED BY <4>1, <4>2, <4>3
    <3> QED BY <1>1, <3>1, <3>2
  <2>3. batch'[b] = x /\ batch[b] # None /\ \A c \in Batches \ {b} : batch'[c] = batch[c]
    BY <1>1, <2>2 DEF TypeOK, AddSlots, CloseBatch
  <2>4. BatchesGrow
    BY <2>2, <2>3 DEF BatchesGrow, TypeOK, BatchRows
  <2>5. SlotsKept
    BY <2>1 DEF SlotsKept
  <2>6. \A c \in Batches : batch'[c] # None => batch[c] # None
    BY <2>3
  <2> QED BY <2>1, <2>4, <2>5, <2>6, SlotsKeptKeeps
<1>2. ASSUME NEW r \in Requests, Approve(r) \/ Reject(r) PROVE CapacityInv'
  <2>1. request[r] \in RequestRows /\ request[r].status = "pending" /\ UNCHANGED <<batch, unseen, web>>
    BY <1>2 DEF Approve, Reject, TypeOK
  <2>2. PICK s \in Statuses : request' = [request EXCEPT ![r].status = s]
    BY <1>2 DEF Approve, Reject, Statuses
  <2>3. /\ request'[r].batch = request[r].batch /\ request[r] # None
        /\ \A q \in Requests \ {r} : request'[q] = request[q]
    BY <2>1, <2>2 DEF TypeOK, RequestRows
  <2>4. SlotsKept
    BY <2>1, <2>3 DEF SlotsKept
  <2> QED BY <2>1, <2>4, BatchesStay
<1>3. ASSUME NEW t \in TradeAccounts, DeleteLink(t) \/ DropAccount(t) PROVE CapacityInv'
  <2>1. UNCHANGED <<batch, unseen, web>> /\ SlotsKept
    BY <1>3 DEF DeleteLink, DropAccount, batchVars, SlotsKept
  <2> QED BY <2>1, BatchesStay
<1>4. ASSUME \/ \E d \in ExtensionDays, c \in BOOLEAN : Extend(d, c)
             \/ TogglePrivilege
      PROVE  CapacityInv'
  <2>1. UNCHANGED <<batch, request, unseen, web>>
    BY <1>4 DEF Extend, TogglePrivilege, batchVars
  <2> QED BY <2>1, BatchesStay DEF SlotsKept
<1> QED BY <1>1, <1>2, <1>3, <1>4, CreateBatchKeeps DEF Administration

LEMMA UnlinkCapacity ==
    ASSUME TypeOK, TypeOK', CapacityInv, NEW w \in Sessions, UnlinkCommit(w)
    PROVE  CapacityInv'
<1> DEFINE s == web[w]
<1>1. s.claims \in [Batches -> Nat] /\ s.rows \subseteq Requests
    BY DEF UnlinkCommit, TypeOK, Reads, Idle
<1>2. ASSUME NEW b \in Batches
      PROVE  IF batch[b] = None THEN batch'[b] = None
             ELSE batch'[b] # None /\ batch'[b].capacity = batch[b].capacity
  <2>1. batch'[b] = IF batch[b] # None /\ Released(s, b) # s.claims[b]
                      THEN [batch[b] EXCEPT !.claimed = Released(s, b)] ELSE batch[b]
    BY DEF UnlinkCommit
  <2>2. CASE batch[b] # None /\ Released(s, b) # s.claims[b]
    <3> DEFINE x == [batch[b] EXCEPT !.claimed = Released(s, b)]
    <3>1. batch[b] \in BatchRows
      BY <2>2 DEF TypeOK
    <3>2. Cardinality({r \in s.rows : s.slots[r] = b}) \in Nat
      BY <1>1, CountType
    <3>3. Released(s, b) \in Nat
      BY <1>1, <3>2, MonusType DEF Released
    <3>4. x \in BatchRows /\ x.capacity = batch[b].capacity
      BY <3>1, <3>3, BatchType DEF BatchRows
    <3>5. batch'[b] = x
      BY <2>1, <2>2
    <3> HIDE DEF x
    <3> QED BY <2>2, <3>4, <3>5
  <2> QED BY <2>1, <2>2
<1>3. BatchesGrow
    BY <1>2 DEF BatchesGrow, TypeOK, BatchRows
<1>4. SlotsKept /\ unseen \subseteq unseen'
    BY DEF UnlinkCommit, SlotsKept
<1>5. \A v \in Sessions : web'[v] = web[v] \/ web'[v].op # "submit"
    BY DEF UnlinkCommit, TypeOK, Idle
<1>6. \A b \in Batches : batch'[b] # None => batch[b] # None
    BY <1>2
<1> QED BY <1>3, <1>4, <1>5, <1>6, SlotsKeptKeeps

LEMMA WebCapacity ==
    ASSUME TypeOK, TypeOK', CapacityInv, Web PROVE CapacityInv'
<1>1. ASSUME NEW w \in Sessions, NEW t \in TradeAccounts, UnlinkRead(w, t) PROVE CapacityInv'
  <2>1. \A v \in Sessions : web'[v] = web[v] \/ web'[v].op # "submit"
    BY <1>1 DEF UnlinkRead, TypeOK
  <2>2. UNCHANGED <<batch, request, unseen>>
    BY <1>1 DEF UnlinkRead, batchVars
  <2> QED BY <2>1, <2>2, BatchesStay DEF SlotsKept
<1>2. ASSUME NEW w \in Sessions, SubmitRefused(w) PROVE CapacityInv'
  <2>1. \A v \in Sessions : web'[v] = web[v] \/ web'[v].op # "submit"
    BY <1>2 DEF SubmitRefused, TypeOK, Idle
  <2>2. UNCHANGED <<batch, request, unseen>>
    BY <1>2 DEF SubmitRefused, batchVars
  <2> QED BY <2>1, <2>2, BatchesStay DEF SlotsKept
<1> QED BY <1>1, <1>2, SubmitReadKeeps, SubmitCommitKeeps, UnlinkCapacity DEF Web

LEMMA CapacityStep == ASSUME TypeOK, CapacityInv, [Next]_vars PROVE CapacityInv'
<1>1. TypeOK'
    BY TypeStep
<1>2. CASE Administration
    BY <1>1, <1>2, AdminCapacity
<1>3. CASE Web
    BY <1>1, <1>3, WebCapacity
<1>4. CASE \/ Worker \/ Tick \/ ChatUsed \/ UNCHANGED vars
           \/ \E t \in TradeAccounts : Sync(t)
  <2>1. UNCHANGED <<batch, request, unseen, web>>
    BY <1>4 DEF Worker, PauseTask, SetupTask, Tick, ChatUsed, vars, batchVars, Sync,
                Synced, GateRefuses, Pause, PauseNotSaved, PauseNotQueued
  <2> QED BY <1>1, <2>1, BatchesStay DEF SlotsKept
<1> QED BY <1>2, <1>3, <1>4 DEF Next

\* However submissions and disconnections overlap and whatever they do to the
\* counter total_slots_claimed, no batch has more pending and approved requests
\* than slots, unless a submission overwrote a rejection it had not read
\* (trade_accounts.py:303).
THEOREM CapacityIsKept == Spec => []ActiveWithinCapacity
<1>1. TypeOK /\ CapacityInv /\ [Next]_vars => CapacityInv'
    BY CapacityStep
<1>2. CapacityInv => ActiveWithinCapacity
    BY DEF CapacityInv
<1> QED BY <1>1, <1>2, CapacityInitially, AccessTypeCorrect, PTL DEF Spec

-----------------------------------------------------------------------------
(* Pauses *)

PauseOf(t, i) == [kind |-> "pause", account |-> t, id |-> i]

LEMMA AppendQueued ==
    ASSUME NEW q \in Seq(Tasks), NEW x \in Tasks, NEW y
    PROVE  (\E i \in DOMAIN Append(q, x) : Append(q, x)[i] = y)
              <=> (y = x \/ \E i \in DOMAIN q : q[i] = y)
<1>1. Len(q) \in Nat /\ DOMAIN q = 1 .. Len(q)
    BY LenProperties
<1>2. DOMAIN Append(q, x) = 1 .. Len(q) + 1
      /\ Append(q, x)[Len(q) + 1] = x
      /\ \A i \in 1 .. Len(q) : Append(q, x)[i] = q[i]
    BY <1>1
<1> QED BY <1>1, <1>2

LEMMA ConcatQueued ==
    ASSUME NEW q \in Seq(Tasks), NEW p \in Seq(Tasks), NEW i \in DOMAIN q
    PROVE  i \in DOMAIN (q \o p) /\ (q \o p)[i] = q[i]
<1>1. Len(q) \in Nat /\ DOMAIN q = 1 .. Len(q) /\ Len(p) \in Nat
    BY LenProperties
<1>2. q \o p \in Seq(Tasks) /\ Len(q \o p) = Len(q) + Len(p)
      /\ \A j \in 1 .. Len(q) + Len(p) : (q \o p)[j] = IF j <= Len(q) THEN q[j] ELSE p[j - Len(q)]
    BY ConcatProperties
<1>3. DOMAIN (q \o p) = 1 .. Len(q) + Len(p)
    BY <1>2, LenProperties
<1> QED BY <1>1, <1>2, <1>3

\* A task that is not the head is still there when the head is taken.
LEMMA TailQueued ==
    ASSUME NEW q \in Seq(Tasks), q # <<>>, NEW i \in DOMAIN q, q[i] # Head(q)
    PROVE  \E j \in DOMAIN Tail(q) : Tail(q)[j] = q[i]
<1>1. Len(q) \in Nat /\ DOMAIN q = 1 .. Len(q) /\ Head(q) = q[1]
    BY LenProperties
<1>2. Tail(q) \in Seq(Tasks) /\ Len(Tail(q)) = Len(q) - 1
      /\ \A j \in 1 .. Len(Tail(q)) : Tail(q)[j] = q[j + 1]
    BY HeadTailProperties
<1>3. DOMAIN Tail(q) = 1 .. Len(q) - 1
    BY <1>2, LenProperties
<1>4. i - 1 \in 1 .. Len(q) - 1
    BY <1>1
<1> QED BY <1>2, <1>3, <1>4

\* A row of t whose pause is in the queue q, or that is among those gone astray.
Covered(q, s, t, i) == (\E n \in DOMAIN q : q[n] = PauseOf(t, i)) \/ <<t, i>> \in s

\* The link of a paused account that still runs.
StillRuns(x) == x # None /\ x.paused /\ x.running

LEMMA CoveredIsStopped ==
    PausedIsStopped <=> \A t \in TradeAccounts : StillRuns(link[t]) => Covered(queue, astray, t, link[t].id)
BY DEF PausedIsStopped, PausedAccounts, StillRuns, Covered, PauseOf

\* Nothing leaves the queue, and no account is paused or started.
Lasts ==
    /\ astray \subseteq astray'
    /\ \/ queue' = queue
       \/ \E x \in Tasks : queue' = Append(queue, x)
       \/ \E p \in Seq(Tasks) : queue' = queue \o p

LEMMA CoveredLasts ==
    ASSUME TypeOK, Lasts, NEW t, NEW i, Covered(queue, astray, t, i) PROVE Covered(queue', astray', t, i)
<1>1. CASE <<t, i>> \in astray
    BY <1>1 DEF Lasts, Covered
<1>2. CASE \E n \in DOMAIN queue : queue[n] = PauseOf(t, i)
  <2>1. queue \in Seq(Tasks)
    BY DEF TypeOK
  <2>2. CASE queue' = queue
    BY <1>2, <2>2 DEF Covered
  <2>3. CASE \E x \in Tasks : queue' = Append(queue, x)
    BY <1>2, <2>1, <2>3, AppendQueued DEF Covered
  <2>4. CASE \E p \in Seq(Tasks) : queue' = queue \o p
    BY <1>2, <2>1, <2>4, ConcatQueued DEF Covered
  <2> QED BY <2>2, <2>3, <2>4 DEF Lasts
<1> QED BY <1>1, <1>2 DEF Covered

\* Every account that still runs did so before, under the same row.
NoneStarts ==
    \A t \in TradeAccounts : StillRuns(link'[t]) => StillRuns(link[t]) /\ link'[t].id = link[t].id

LEMMA QuietPauses ==
    ASSUME TypeOK, PausedIsStopped, Lasts, NoneStarts PROVE PausedIsStopped'
<1>1. \A t \in TradeAccounts : StillRuns(link'[t]) => Covered(queue', astray', t, link'[t].id)
  <2> SUFFICES ASSUME NEW t \in TradeAccounts, StillRuns(link'[t])
               PROVE  Covered(queue', astray', t, link'[t].id)
    OBVIOUS
  <2>1. StillRuns(link[t]) /\ link'[t].id = link[t].id
    BY DEF NoneStarts
  <2>2. Covered(queue, astray, t, link[t].id)
    BY <2>1, CoveredIsStopped
  <2>3. ASSUME NEW i, i = link[t].id PROVE Covered(queue', astray', t, i)
    BY <2>2, <2>3, CoveredLasts
  <2> QED BY <2>1, <2>3 DEF Covered
<1> QED BY <1>1 DEF PausedIsStopped, PausedAccounts, StillRuns, Covered, PauseOf

\* A sync that stamps the pause queues its task, or the broker refuses it.
LEMMA PauseKeepsStopped ==
    ASSUME TypeOK, PausedIsStopped, NEW t \in TradeAccounts,
           Pause(t) \/ PauseNotSaved(t) \/ PauseNotQueued(t)
    PROVE  PausedIsStopped'
<1>1. gate[t] \in Nat /\ queue \in Seq(Tasks)
    BY DEF Pause, PauseNotSaved, PauseNotQueued, TypeOK
<1>2. PauseOf(t, gate[t]) \in Tasks
    BY <1>1 DEF PauseOf, Tasks
<1>3. \/ queue' = Append(queue, PauseOf(t, gate[t])) /\ astray' = astray
      \/ queue' = queue /\ astray' = astray \cup {<<t, gate[t]>>}
    BY DEF Pause, PauseNotSaved, PauseNotQueued, Stamp, PauseOf
<1>4. Lasts
    BY <1>2, <1>3 DEF Lasts
<1>5. Covered(queue', astray', t, gate[t])
    BY <1>1, <1>2, <1>3, AppendQueued DEF Covered
<1>6. \/ link' = link
      \/ link[t] # None /\ link[t].id = gate[t] /\ link' = [link EXCEPT ![t].paused = TRUE]
    BY DEF Pause, PauseNotSaved, PauseNotQueued, Stamped
<1>7. CASE link' = link
    BY <1>4, <1>7, QuietPauses DEF NoneStarts, StillRuns
<1>8. CASE link[t] # None /\ link[t].id = gate[t] /\ link' = [link EXCEPT ![t].paused = TRUE]
  <2>1. link'[t].id = gate[t] /\ \A u \in TradeAccounts \ {t} : link'[u] = link[u]
    BY <1>8 DEF TypeOK, LinkRows
  <2>2. ASSUME NEW u \in TradeAccounts \ {t}, StillRuns(link'[u]) PROVE Covered(queue', astray', u, link'[u].id)
    <3>1. link'[u].id = link[u].id /\ Covered(queue, astray, u, link[u].id)
      BY <2>1, <2>2, CoveredIsStopped DEF StillRuns
    <3>2. ASSUME NEW i, i = link[u].id PROVE Covered(queue', astray', u, i)
      BY <1>4, <3>1, <3>2, CoveredLasts
    <3> QED BY <3>1, <3>2 DEF Covered
  <2>3. Covered(queue', astray', t, link'[t].id)
    BY <1>5, <2>1 DEF Covered
  <2> QED BY <2>2, <2>3 DEF PausedIsStopped, PausedAccounts, StillRuns, Covered, PauseOf
<1> QED BY <1>6, <1>7, <1>8

\* The pause task stops the terminal it is for.
LEMMA PauseTaskKeepsStopped ==
    ASSUME TypeOK, PausedIsStopped, PauseTask PROVE PausedIsStopped'
<1> DEFINE h == Head(queue)
           t == h.account
<1>1. queue \in Seq(Tasks) /\ queue # <<>> /\ h \in Tasks /\ h.kind = "pause"
    BY HeadTailProperties DEF PauseTask, TypeOK
<1>2. t \in TradeAccounts /\ h = PauseOf(t, h.id)
    BY <1>1 DEF Tasks, PauseOf
<1>3. queue' = Tail(queue) /\ astray' = astray
    BY DEF PauseTask
<1>4. link' = IF link[t] # None /\ link[t].id = h.id
                THEN [link EXCEPT ![t].paused = TRUE, ![t].running = FALSE] ELSE link
    BY DEF PauseTask
<1>5. ASSUME NEW u \in TradeAccounts, StillRuns(link'[u]) PROVE Covered(queue', astray', u, link'[u].id)
  <2>1. link'[u] = link[u] /\ StillRuns(link[u]) /\ ~(u = t /\ link[u].id = h.id)
    <3>1. CASE link[t] # None /\ link[t].id = h.id
      <4>1. link[t] \in LinkRows /\ link' = [link EXCEPT ![t].paused = TRUE, ![t].running = FALSE]
        BY <1>2, <1>4, <3>1 DEF TypeOK
      <4>2. ~link'[t].running /\ \A v \in TradeAccounts \ {t} : link'[v] = link[v]
        BY <1>2, <4>1 DEF TypeOK, LinkRows
      <4> QED BY <1>5, <4>2 DEF StillRuns
    <3>2. CASE ~(link[t] # None /\ link[t].id = h.id)
      BY <1>4, <1>5, <3>2 DEF StillRuns
    <3> QED BY <3>1, <3>2
  <2>2. Covered(queue, astray, u, link[u].id)
    BY <2>1, CoveredIsStopped
  <2>3. PauseOf(u, link[u].id) # h
    BY <1>2, <2>1 DEF PauseOf
  <2>4. ASSUME \E n \in DOMAIN queue : queue[n] = PauseOf(u, link[u].id)
        PROVE  \E j \in DOMAIN queue' : queue'[j] = PauseOf(u, link[u].id)
    <3>1. PICK i \in DOMAIN queue : queue[i] = PauseOf(u, link[u].id)
      BY <2>4
    <3> QED BY <1>1, <1>3, <2>3, <3>1, TailQueued
  <2> QED BY <1>3, <2>1, <2>2, <2>4 DEF Covered, PauseOf
<1> QED BY <1>5 DEF PausedIsStopped, PausedAccounts, StillRuns, Covered, PauseOf

\* A setup leaves the pause tasks in the queue; if it starts a paused account,
\* the account has gone astray.
LEMMA SetupTaskKeepsStopped ==
    ASSUME TypeOK, PausedIsStopped, SetupTask PROVE PausedIsStopped'
<1> DEFINE h == Head(queue)
           t == h.account
           here == link[t] # None /\ link[t].id = h.id
<1>1. queue \in Seq(Tasks) /\ queue # <<>> /\ h \in Tasks /\ h.kind = "setup"
    BY HeadTailProperties DEF SetupTask, TypeOK
<1>2. t \in TradeAccounts
    BY <1>1 DEF Tasks
<1>3. queue' = Tail(queue)
    BY DEF SetupTask
<1>4. /\ link' = IF here THEN [link EXCEPT ![t].installed = TRUE, ![t].running = TRUE] ELSE link
      /\ astray' = IF here /\ link[t].paused THEN astray \cup {<<t, link[t].id>>} ELSE astray
    BY DEF SetupTask
<1>5. ASSUME NEW u \in TradeAccounts, NEW i, Covered(queue, astray, u, i) PROVE Covered(queue', astray', u, i)
  <2>1. CASE <<u, i>> \in astray
    BY <1>4, <2>1 DEF Covered
  <2>2. CASE \E n \in DOMAIN queue : queue[n] = PauseOf(u, i)
    <3>1. PICK j \in DOMAIN queue : queue[j] = PauseOf(u, i)
      BY <2>2
    <3>2. queue[j] # h
      BY <1>1, <3>1 DEF PauseOf
    <3> QED BY <1>1, <1>3, <3>1, <3>2, TailQueued DEF Covered
  <2> QED BY <1>5, <2>1, <2>2 DEF Covered
<1>6. ASSUME NEW u \in TradeAccounts, StillRuns(link'[u]) PROVE Covered(queue', astray', u, link'[u].id)
  <2>1. CASE here /\ u = t
    <3>1. link[t] \in LinkRows /\ link' = [link EXCEPT ![t].installed = TRUE, ![t].running = TRUE]
      BY <1>2, <1>4, <2>1 DEF TypeOK
    <3>2. link'[t].id = link[t].id /\ link'[t].paused = link[t].paused
      BY <1>2, <3>1 DEF TypeOK, LinkRows
    <3>3. <<t, link'[t].id>> \in astray'
      <4>1. link[t].paused /\ here
        BY <1>6, <2>1, <3>2 DEF StillRuns
      <4>2. astray' = astray \cup {<<t, link[t].id>>}
        BY <1>4, <4>1
      <4> QED BY <3>2, <4>2
    <3> QED BY <2>1, <3>3 DEF Covered
  <2>2. CASE ~(here /\ u = t)
    <3>1. link'[u] = link[u]
      BY <1>2, <1>4, <2>2 DEF TypeOK
    <3>2. Covered(queue, astray, u, link[u].id)
      BY <1>6, <3>1, CoveredIsStopped DEF StillRuns
    <3>3. ASSUME NEW i, i = link[u].id PROVE Covered(queue', astray', u, i)
      BY <1>5, <3>2, <3>3
    <3> QED BY <3>1, <3>3 DEF Covered
  <2> QED BY <2>1, <2>2
<1> QED BY <1>6 DEF PausedIsStopped, PausedAccounts, StillRuns, Covered, PauseOf

LEMMA OthersKeepStopped ==
    ASSUME TypeOK, TypeOK', PausedIsStopped, [Next]_vars,
           ~Worker, ~\E t \in TradeAccounts : Pause(t) \/ PauseNotSaved(t) \/ PauseNotQueued(t)
    PROVE  PausedIsStopped'
<1>1. CASE UNCHANGED <<link, queue, astray>>
    BY <1>1 DEF PausedIsStopped, PausedAccounts
<1>2. ASSUME NEW r \in Requests, Approve(r) \/ Reject(r) PROVE PausedIsStopped'
  <2>1. UNCHANGED <<queue, astray>>
        /\ \A t \in TradeAccounts : link'[t] = link[t] \/ link'[t] = None
    BY <1>2 DEF Approve, Reject, TypeOK, trialVars
  <2> QED BY <2>1, QuietPauses DEF Lasts, NoneStarts, StillRuns
<1>3. ASSUME NEW t \in TradeAccounts, DeleteLink(t) \/ DropAccount(t) PROVE PausedIsStopped'
  <2>1. UNCHANGED <<queue, astray>>
        /\ \A u \in TradeAccounts : link'[u] = link[u] \/ link'[u] = None
    BY <1>3 DEF DeleteLink, DropAccount, TypeOK, trialVars
  <2> QED BY <2>1, QuietPauses DEF Lasts, NoneStarts, StillRuns
<1>4. ASSUME NEW w \in Sessions, UnlinkCommit(w) PROVE PausedIsStopped'
  <2>1. UNCHANGED <<queue, astray>>
        /\ \A u \in TradeAccounts : link'[u] = link[u] \/ link'[u] = None
    BY <1>4 DEF UnlinkCommit, TypeOK, trialVars
  <2> QED BY <2>1, QuietPauses DEF Lasts, NoneStarts, StillRuns
<1>5. ASSUME NEW w \in Sessions, SubmitCommit(w) PROVE PausedIsStopped'
  <2> DEFINE s == web[w]
             x == [id |-> links'[s.account], installed |-> FALSE, running |-> FALSE, paused |-> FALSE]
             task == [kind |-> "setup", account |-> s.account, id |-> links'[s.account]]
  <2>1. s.account \in TradeAccounts
    BY <1>5, SubmissionType DEF SubmitCommit
  <2>2. astray' = astray /\ queue' = Append(queue, task) /\ link' = [link EXCEPT ![s.account] = x]
    BY <1>5 DEF SubmitCommit, SubmitRows
  <2>3. task \in Tasks
    BY <2>1 DEF Tasks, TypeOK
  <2>4. Lasts
    BY <2>2, <2>3 DEF Lasts
  <2>5. \A u \in TradeAccounts : link'[u] = link[u] \/ link'[u] = x
    BY <2>2 DEF TypeOK
  <2>6. NoneStarts
    BY <2>5 DEF NoneStarts, StillRuns
  <2> QED BY <2>4, <2>6, QuietPauses
<1>6. ASSUME NEW d \in ExtensionDays, NEW c \in BOOLEAN, Extend(d, c) PROVE PausedIsStopped'
  <2>1. Lasts
    BY <1>6, SetupsType DEF Extend, Lasts
  <2>2. CASE link' = link
    BY <2>1, <2>2, QuietPauses DEF NoneStarts
  <2>3. CASE link' = [t \in TradeAccounts |->
                        IF t \in PausedAccounts THEN [link[t] EXCEPT !.paused = FALSE] ELSE link[t]]
    <3>1. ASSUME NEW t \in TradeAccounts PROVE ~StillRuns(link'[t])
      <4>1. CASE t \in PausedAccounts
        <5>1. link[t] \in LinkRows
          BY <4>1 DEF PausedAccounts, TypeOK
        <5>2. link'[t] = [link[t] EXCEPT !.paused = FALSE]
          BY <2>3, <4>1
        <5> QED BY <5>1, <5>2 DEF StillRuns, LinkRows
      <4>2. CASE t \notin PausedAccounts
        <5>1. link'[t] = link[t]
          BY <2>3, <4>2
        <5> QED BY <4>2, <5>1 DEF StillRuns, PausedAccounts
      <4> QED BY <4>1, <4>2
    <3> QED BY <2>1, <3>1, QuietPauses DEF NoneStarts
  <2> QED BY <1>6, <2>2, <2>3 DEF Extend
<1>7. CASE Next
  <2>1. CASE Administration
    <3>1. ASSUME NEW b \in Batches, (\E n \in 1 .. MaxCapacity : CreateBatch(b, n))
                                        \/ AddSlots(b) \/ CloseBatch(b)
          PROVE  UNCHANGED <<link, queue, astray>>
      BY <3>1 DEF CreateBatch, AddSlots, CloseBatch, trialVars
    <3>2. TogglePrivilege => UNCHANGED <<link, queue, astray>>
      BY DEF TogglePrivilege
    <3> QED BY <2>1, <3>1, <3>2, <1>1, <1>2, <1>3, <1>6 DEF Administration
  <2>2. CASE Web
    <3>1. ASSUME NEW w \in Sessions,
                 SubmitRefused(w) \/ \E t \in TradeAccounts : SubmitRead(w, t) \/ UnlinkRead(w, t)
          PROVE  UNCHANGED <<link, queue, astray>>
      BY <3>1 DEF SubmitRefused, SubmitRead, UnlinkRead, trialVars
    <3> QED BY <2>2, <3>1, <1>1, <1>4, <1>5 DEF Web
  <2>3. CASE Tick \/ ChatUsed \/ \E t \in TradeAccounts : Synced(t) \/ GateRefuses(t)
    BY <2>3, <1>1 DEF Tick, ChatUsed, Synced, GateRefuses
  <2> QED BY <1>7, <2>1, <2>2, <2>3 DEF Next, Sync
<1> QED BY <1>1, <1>7 DEF vars, trialVars

\* A terminal whose account is paused has stopped or will be stopped, in
\* whatever order the tasks of pauses and extensions run, unless its pause was
\* not queued or a setup ran on the paused account.
THEOREM PausesStop == Spec => []PausedIsStopped
<1>1. Init => PausedIsStopped
    BY DEF Init, PausedIsStopped, PausedAccounts
<1>2. TypeOK /\ PausedIsStopped /\ [Next]_vars => PausedIsStopped'
    BY TypeStep, PauseKeepsStopped, PauseTaskKeepsStopped, SetupTaskKeepsStopped, OthersKeepStopped
       DEF Worker
<1> QED BY <1>1, <1>2, AccessTypeCorrect, PTL DEF Spec

-----------------------------------------------------------------------------
(* The trial *)

LEMMA TrialStep ==
    ASSUME TypeOK, [Next]_vars, TrialOver
    PROVE  TrialOver' \/ \E d \in ExtensionDays : Extend(d, TRUE)
<1>1. trial \in Int /\ day \in Nat /\ day - trial >= TrialDays
    BY DEF TrialOver, TypeOK
<1>2. CASE trial' = trial /\ day' \in {day, day + 1}
  <2>1. trial # None
      BY DEF TrialOver
  <2>2. TrialDays \in Nat
      BY AccessAssumption
  <2>3. day' - trial >= TrialDays
    <3>1. (day + 1) - trial >= TrialDays
      BY <1>1, <2>2
    <3>2. day' = day \/ day' = day + 1
      BY <1>2
    <3> QED BY <1>1, <3>1, <3>2
  <2> QED BY <1>2, <2>1, <2>3 DEF TrialOver
<1>3. (trial' = trial /\ day' \in {day, day + 1}) \/ \E d \in ExtensionDays : Extend(d, TRUE)
  <2>1. CASE Administration
    <3>1. ASSUME NEW d \in ExtensionDays, NEW c \in BOOLEAN, Extend(d, c)
          PROVE  (trial' = trial /\ day' = day) \/ Extend(d, TRUE)
      BY <3>1 DEF Extend
    <3> QED BY <2>1, <3>1 DEF Administration, CreateBatch, AddSlots, CloseBatch, Approve, Reject,
                DeleteLink, DropAccount, TogglePrivilege, trialVars
  <2>2. CASE Web
    BY <2>2 DEF Web, SubmitRead, UnlinkRead, SubmitCommit, SubmitRefused, UnlinkCommit, trialVars
  <2>3. CASE Worker \/ Tick \/ UNCHANGED vars
    BY <2>3 DEF Worker, PauseTask, SetupTask, Tick, vars, trialVars
  <2>4. CASE ChatUsed \/ \E t \in TradeAccounts : Sync(t)
    BY <2>4, <1>1 DEF ChatUsed, Sync, Synced, GateRefuses, Pause, PauseNotSaved, PauseNotQueued, Used
  <2> QED BY <2>1, <2>2, <2>3, <2>4 DEF Next
<1> QED BY <1>2, <1>3

\* Only an extension by an administrator makes a trial run that is over: no
\* later use, new link or loss of a privilege does (start_premium_trial_if_needed,
\* entitlements.py:171).
THEOREM TrialEndsOnce == Spec => TrialNotRenewed
<1>1. TypeOK /\ [Next]_vars =>
        (TrialOver => TrialOver' \/ \E d \in ExtensionDays : Extend(d, TRUE))
    BY TrialStep
<1> QED BY <1>1, AccessTypeCorrect, PTL DEF Spec, TrialNotRenewed
=============================================================================
