--------------------------- MODULE WeeklyAIProofs ---------------------------
(* Theorems about WeeklyAI: its types, that a week is reviewed once, that the *)
(* dashboard does not wait for nothing, and the limits of the chat.           *)
EXTENDS WeeklyAI, TLAPS, FiniteSetTheorems, WellFoundedInduction

LEMMA Limits ==
    /\ MaxWeek \in Nat /\ MaxFaults \in Nat /\ MaxRetries \in Nat /\ KeepWeeks \in Nat
    /\ MinClosed \in Nat \ {0} /\ ChatLimit \in Nat \ {0} /\ MinuteLimit \in Nat \ {0}
    /\ IsFiniteSet(Tabs) /\ Tabs # {} /\ IsFiniteSet(Syncs) /\ Tabs \cap Syncs = {}
    /\ None \notin {"queued", "running", "failed"}
    BY WeeklyAssumption

USE Limits

-----------------------------------------------------------------------------
(* Types *)

\* A bounded, inhabited set of numbers has a greatest one.
LEMMA MaxIn ==
    ASSUME NEW n \in Nat, NEW s \in SUBSET (0 .. n), s # {}
    PROVE  Max(s) \in s
<1> DEFINE R == OpToRel(<, Nat)
           rest == {n - x : x \in s}
<1>1. rest \subseteq Nat /\ rest # {}
  <2> HIDE DEF R
  <2>1. PICK x \in s : TRUE
      OBVIOUS
  <2>2. n - x \in rest
      BY <2>1
  <2> QED BY <2>2
<1>2. PICK m \in rest : \A y \in rest : ~(<<y, m>> \in R)
  <2>1. IsWellFoundedOn(R, Nat)
      BY NatLessThanWellFounded
  <2> HIDE DEF R, rest
  <2> QED BY <1>1, <2>1, WFMin
<1>3. \A y \in rest : ~(y < m)
    BY <1>1, <1>2 DEF OpToRel
<1>4. PICK x \in s : m = n - x
    BY <1>2
<1>5. ASSUME NEW y \in s PROVE x >= y
  <2>1. n - y \in rest
      OBVIOUS
  <2>2. ~(n - y < n - x)
      BY <1>3, <1>4, <2>1
  <2>3. x \in Nat /\ y \in Nat
      OBVIOUS
  <2> HIDE DEF rest
  <2> QED BY <2>2, <2>3
<1> QED BY <1>4, <1>5 DEF Max

\* The week the producers and the task agree on is a week, or 0.
LEMMA LatestType == Latest \in 0 .. MaxWeek
<1> DEFINE past == {w \in TradeWeeks : w <= DashboardWeek}
           s == {0} \cup IF past # {} THEN past ELSE TradeWeeks
<1>1. MaxWeek \in Nat /\ s \subseteq 0 .. MaxWeek /\ s # {}
    BY DEF TradeWeeks, Weeks
<1>2. Max(s) \in s
  <2> HIDE DEF s
  <2> QED BY <1>1, MaxIn
<1>3. Latest = Max(s)
    BY DEF Latest
<1> HIDE DEF s
<1> QED BY <1>1, <1>2, <1>3

LEMMA RunNotIdle == ASSUME NEW r \in Runs PROVE r # Idle
    BY DEF Runs, Idle

LEMMA ReadyType == ASSUME NEW w, w = Latest, Ready(w) PROVE w \in Weeks
    BY LatestType DEF Ready, Weeks

LEMMA GeneratesType == ASSUME NEW t PROVE Generates(t) \in 0 .. MaxWeek
    BY LatestType DEF Generates

LEMMA TaskType ==
    ASSUME NEW w \in Weeks, NEW email \in BOOLEAN, NEW force \in BOOLEAN
    PROVE  Task(w, email, force) \in Tasks
    BY DEF Task, Tasks

\* What a worker has taken is a task of a week, and it was the head of the queue.
LEMMA StartType ==
    ASSUME TypeOK, NEW k \in Workers, TaskStart(k)
    PROVE  /\ Head(queue) \in Tasks
           /\ [task |-> Head(queue), week |-> Generates(Head(queue)), saved |-> FALSE] \in Runs
<1>1. queue \in Seq(Tasks) /\ queue # <<>>
    BY DEF TypeOK, TaskStart
<1>2. Head(queue) \in Tasks
    BY <1>1
<1> QED BY <1>2, GeneratesType DEF Runs

LEMMA BusyType ==
    ASSUME TypeOK, NEW k \in Workers, running[k] # Idle
    PROVE  /\ running[k] \in Runs /\ running[k].task \in Tasks /\ running[k].task.key \in Weeks
           /\ running[k].week \in 0 .. MaxWeek /\ running[k].saved \in BOOLEAN
    BY DEF TypeOK, Runs, Tasks

LEMMA RetryType ==
    ASSUME NEW t \in Tasks, ~Exhausted(t)
    PROVE  [t EXCEPT !.retries = @ + 1] \in Tasks
    BY DEF Tasks, Exhausted

LEMMA OneMore ==
    ASSUME NEW f \in [Weeks -> Nat], NEW w \in Weeks
    PROVE  [f EXCEPT ![w] = @ + 1] \in [Weeks -> Nat]
    OBVIOUS

LEMMA InitType == Init => TypeOK
<1> SUFFICES ASSUME Init PROVE TypeOK
    OBVIOUS
<1>1. <<>> \in Seq(Tasks)
    OBVIOUS
<1> QED BY <1>1 DEF Init, TypeOK, Zero

LEMMA TraderType == ASSUME TypeOK, Trader PROVE TypeOK'
<1>1. CASE \E w \in Weeks : Close(w) \/ Delete(w)
  <2>1. ASSUME NEW w \in Weeks, Close(w) PROVE TypeOK'
    <3>1. closed' \in [Weeks -> 0 .. MinClosed]
        BY <2>1 DEF TypeOK, Close
    <3> QED BY <2>1, <3>1 DEF TypeOK, Close, chat, history
  <2>2. ASSUME NEW w \in Weeks, Delete(w) PROVE TypeOK'
    <3>1. closed' \in [Weeks -> 0 .. MinClosed] /\ faults' \in 0 .. MaxFaults
        BY <2>2 DEF TypeOK, Delete, Fault
    <3> QED BY <2>2, <3>1 DEF TypeOK, Delete, chat, history
  <2> QED BY <1>1, <2>1, <2>2
<1>2. CASE Tick
  <2>1. now' \in Nat
      BY <1>2 DEF TypeOK, Tick
  <2> QED BY <1>2, <2>1 DEF TypeOK, Tick, chat, history
<1>3. CASE CleanUp
    BY <1>3 DEF TypeOK, CleanUp, chat, history
<1>4. CASE \E a \in {"answered", "skipped"} : CheckIn(a)
    BY <1>4 DEF TypeOK, CheckIn, chat, history
<1> QED BY <1>1, <1>2, <1>3, <1>4 DEF Trader

LEMMA ProduceType == ASSUME TypeOK, NEW email \in BOOLEAN, Produce(email) PROVE TypeOK'
<1>1. Latest \in Weeks /\ Task(Latest, email, FALSE) \in Tasks
    BY ReadyType, TaskType DEF Produce
<1>2. queue' \in Seq(Tasks)
  <2> DEFINE t == Task(Latest, email, FALSE)
  <2>1. queue' = Append(queue, t)
      BY DEF Produce, Send
  <2>2. t \in Tasks
      BY <1>1
  <2> HIDE DEF t
  <2> QED BY <2>1, <2>2 DEF TypeOK
<1>3. status' \in [Weeks -> {None, "queued", "running", "failed"}]
    BY <1>1 DEF TypeOK, Produce
<1> QED BY <1>2, <1>3 DEF TypeOK, Produce, trades, chat, history

LEMMA ProducerType == ASSUME TypeOK, Producer PROVE TypeOK'
<1>1. CASE Ingest \/ \E asked \in BOOLEAN : Dashboard(asked)
    BY <1>1, ProduceType DEF Ingest, Dashboard
<1>2. CASE DispatchFails
  <2>1. Latest \in Weeks
      BY <1>2, ReadyType DEF DispatchFails
  <2>2. status' \in [Weeks -> {None, "queued", "running", "failed"}] /\ orphan' \subseteq Weeks
      BY <1>2, <2>1 DEF TypeOK, DispatchFails
  <2> QED BY <1>2, <2>2 DEF TypeOK, DispatchFails, Fault, trades, chat
<1>3. CASE Regenerate
  <2>1. Latest \in Weeks /\ Task(Latest, FALSE, TRUE) \in Tasks
    <3>1. Latest \in Weeks
        BY <1>3, LatestType DEF Regenerate, Weeks
    <3> QED BY <3>1, TaskType
  <2>2. status' \in [Weeks -> {None, "queued", "running", "failed"}] /\ lapsed' \subseteq Weeks
      BY <1>3, <2>1 DEF TypeOK, Regenerate
  <2>3. queue' \in Seq(Tasks)
    <3> DEFINE t == Task(Latest, FALSE, TRUE)
    <3>1. queue' = Append(queue, t)
        BY <1>3 DEF Regenerate, Send
    <3>2. t \in Tasks
        BY <2>1
    <3> HIDE DEF t
    <3> QED BY <3>1, <3>2 DEF TypeOK
  <2> QED BY <1>3, <2>2, <2>3 DEF TypeOK, Regenerate, Fault, trades, chat
<1> QED BY <1>1, <1>2, <1>3 DEF Producer

LEMMA TaskStartType == ASSUME TypeOK, NEW k \in Workers, TaskStart(k) PROVE TypeOK'
<1> DEFINE t == Head(queue)
           run == [task |-> t, week |-> Generates(t), saved |-> FALSE]
<1>1. t \in Tasks /\ t.key \in Weeks /\ run \in Runs
    BY StartType DEF Tasks
<1>2. queue' \in Seq(Tasks)
    BY DEF TypeOK, TaskStart
<1>3. status' \in [Weeks -> {None, "queued", "running", "failed"}]
    BY <1>1 DEF TypeOK, TaskStart
<1>4. running' = [running EXCEPT ![k] = run]
    BY DEF TaskStart
<1>5. crossed' \subseteq Weeks
  <2> DEFINE w == Generates(Head(queue))
  <2>1. w \in 0 .. MaxWeek
      BY GeneratesType
  <2>2. crossed' = IF w # 0 /\ w # Head(queue).key THEN crossed \cup {w} ELSE crossed
      BY DEF TaskStart
  <2> HIDE DEF w
  <2> QED BY <2>1, <2>2 DEF TypeOK, Weeks
<1>6. running' \in [Workers -> Runs \cup {Idle}]
  <2> HIDE DEF run
  <2> QED BY <1>1, <1>4 DEF TypeOK
<1> QED BY <1>2, <1>3, <1>5, <1>6 DEF TypeOK, TaskStart, trades, chat

LEMMA TaskSavesType == ASSUME TypeOK, NEW k \in Workers, TaskSaves(k) PROVE TypeOK'
<1> DEFINE run == [running[k] EXCEPT !.saved = TRUE]
<1>1. running[k] \in Runs /\ running[k].week \in Weeks
    BY BusyType DEF TaskSaves, Weeks
<1>2. run \in Runs
    BY <1>1 DEF Runs
<1>3. running' = [running EXCEPT ![k] = run]
    BY DEF TaskSaves
<1>4. running' \in [Workers -> Runs \cup {Idle}]
  <2> HIDE DEF run
  <2> QED BY <1>2, <1>3 DEF TypeOK
<1>5. reviews' \in [Weeks -> Nat] /\ forced' \in [Weeks -> Nat]
  <2> DEFINE w == running[k].week
  <2>1. \/ reviews' = [reviews EXCEPT ![w] = @ + 1] /\ forced' = forced
        \/ forced' = [forced EXCEPT ![w] = @ + 1] /\ reviews' = reviews
      BY DEF TaskSaves
  <2>2. w \in Weeks
      BY <1>1
  <2>3. reviews \in [Weeks -> Nat] /\ forced \in [Weeks -> Nat]
      BY DEF TypeOK
  <2> HIDE DEF w
  <2>4. CASE reviews' = [reviews EXCEPT ![w] = @ + 1] /\ forced' = forced
      BY <2>2, <2>3, <2>4, OneMore
  <2>5. CASE forced' = [forced EXCEPT ![w] = @ + 1] /\ reviews' = reviews
      BY <2>2, <2>3, <2>5, OneMore
  <2> QED BY <2>1, <2>4, <2>5
<1> QED BY <1>4, <1>5 DEF TypeOK, TaskSaves, trades, chat, history

LEMMA TaskEndsType == ASSUME TypeOK, NEW k \in Workers, TaskEnds(k) PROVE TypeOK'
<1>1. running[k] \in Runs /\ running[k].task.key \in Weeks
    BY BusyType DEF TaskEnds
<1>2. mails' \in [Weeks -> Nat]
  <2>1. CASE running[k].task.email /\ running[k].saved
    <3> DEFINE w == running[k].week
    <3>1. mails' = [mails EXCEPT ![w] = @ + 1]
        BY <2>1 DEF TaskEnds
    <3> HIDE DEF w
    <3> QED BY <3>1, OneMore DEF TypeOK
  <2>2. CASE ~(running[k].task.email /\ running[k].saved)
      BY <2>2 DEF TypeOK, TaskEnds
  <2> QED BY <2>1, <2>2
<1>3. status' \in [Weeks -> {None, "queued", "running", "failed"}]
    BY <1>1 DEF TypeOK, TaskEnds, Cleared
<1>4. orphan' \subseteq Weeks /\ lapsed' \subseteq Weeks
    BY <1>1 DEF TypeOK, TaskEnds
<1>5. running' \in [Workers -> Runs \cup {Idle}]
    BY DEF TypeOK, TaskEnds
<1> QED BY <1>2, <1>3, <1>4, <1>5 DEF TypeOK, TaskEnds, trades, chat

LEMMA TaskFailsType == ASSUME TypeOK, NEW k \in Workers, TaskFails(k) PROVE TypeOK'
<1> DEFINE t == running[k].task
<1>1. t \in Tasks /\ t.key \in Weeks
    BY BusyType DEF TaskFails
<1>2. queue' \in Seq(Tasks)
  <2> DEFINE again == [t EXCEPT !.retries = @ + 1]
  <2>1. ~Exhausted(t) => again \in Tasks
      BY <1>1, RetryType
  <2>2. queue' = IF Exhausted(t) THEN queue ELSE Append(queue, again)
      BY DEF TaskFails, Send
  <2> HIDE DEF again, t
  <2> QED BY <2>1, <2>2 DEF TypeOK
<1>3. status' \in [Weeks -> {None, "queued", "running", "failed"}] /\ orphan' \subseteq Weeks
    BY <1>1 DEF TypeOK, TaskFails
<1>4. running' \in [Workers -> Runs \cup {Idle}] /\ faults' \in 0 .. MaxFaults
    BY SMTT(40) DEF TypeOK, TaskFails, Fault
<1> QED BY <1>2, <1>3, <1>4 DEF TypeOK, TaskFails, trades, chat

LEMMA CrashType == ASSUME TypeOK, NEW k \in Workers, Crash(k) PROVE TypeOK'
<1>1. running[k].task.key \in Weeks
    BY BusyType DEF Crash
<1>2. running' \in [Workers -> Runs \cup {Idle}] /\ faults' \in 0 .. MaxFaults
    BY DEF TypeOK, Crash, Fault
<1> QED BY <1>1, <1>2 DEF TypeOK, Crash, trades, chat

LEMMA RedisType == ASSUME TypeOK, Redis PROVE TypeOK'
<1>1. CASE CacheFails \/ CacheReturns
  <2>1. up' \in BOOLEAN /\ faults' \in 0 .. MaxFaults
    <3>1. CASE CacheFails
      <4>1. up' \in BOOLEAN
          BY <3>1 DEF CacheFails
      <4>2. faults' \in 0 .. MaxFaults
          BY <3>1 DEF TypeOK, CacheFails, Fault
      <4> QED BY <4>1, <4>2
    <3>2. CASE CacheReturns
        BY <3>2 DEF TypeOK, CacheReturns
    <3> QED BY <1>1, <3>1, <3>2
  <2> QED BY <1>1, <2>1 DEF TypeOK, CacheFails, CacheReturns, trades, chat, history
<1>2. ASSUME NEW w \in Weeks, Lapse(w) PROVE TypeOK'
  <2>1. faults' \in 0 .. MaxFaults /\ lapsed' \subseteq Weeks /\ orphan' \subseteq Weeks
      BY <1>2 DEF TypeOK, Lapse, Fault
  <2>2. status' \in [Weeks -> {None, "queued", "running", "failed"}]
      BY <1>2 DEF TypeOK, Lapse
  <2> QED BY <1>2, <2>1, <2>2 DEF TypeOK, Lapse, trades, chat
<1> QED BY <1>1, <1>2 DEF Redis

\* The chat and the trial touch nothing else.
LEMMA ChatLeaves == Chat => UNCHANGED unchatted
    BY DEF Chat, Ages, TrialEnds, Ask, Answer, NoAnswer, SyncLoads, SyncEnds

LEMMA StartTrialType ==
    ASSUME TypeOK, NEW x, NEW more \in Nat, StartTrial(x, more)
    PROVE  /\ unstarted' \subseteq Tabs \cup Syncs /\ trial' \in {"not_started", "active", "over"}
           /\ sent' \in Nat /\ made' \in Nat /\ restarts' \in Nat
<1>1. unstarted' \subseteq Tabs \cup Syncs /\ made' \in Nat
    BY DEF TypeOK, StartTrial
<1>2. CASE x \in unstarted
  <2>1. PICK kept \in 0 .. sent : sent' = kept + more
      BY <1>2 DEF StartTrial
  <2>2. sent' \in Nat
      BY <2>1 DEF TypeOK
  <2>3. trial' = "active" /\ restarts' \in Nat
      BY <1>2 DEF TypeOK, StartTrial
  <2> QED BY <1>1, <2>2, <2>3
<1>3. CASE x \notin unstarted
    BY <1>1, <1>3 DEF TypeOK, StartTrial
<1> QED BY <1>2, <1>3

LEMMA ChatType == ASSUME TypeOK, Chat PROVE TypeOK'
<1> DEFINE Typed == /\ trial' \in {"not_started", "active", "over"} /\ asking' \subseteq Tabs
                    /\ unstarted' \subseteq Tabs \cup Syncs
                    /\ sent' \in Nat /\ recent' \in Nat /\ made' \in Nat /\ restarts' \in Nat
<1>1. ASSUME Ages \/ TrialEnds PROVE Typed
    BY <1>1 DEF TypeOK, Ages, TrialEnds
<1>2. ASSUME NEW t \in Tabs, Ask(t) \/ NoAnswer(t) PROVE Typed
    BY <1>2 DEF TypeOK, Ask, NoAnswer
<1>3. ASSUME NEW t \in Tabs, Answer(t) PROVE Typed
  <2>1. asking' \subseteq Tabs /\ recent' \in Nat /\ StartTrial(t, 1)
      BY <1>3 DEF TypeOK, Answer
  <2> QED BY <2>1, StartTrialType
<1>4. ASSUME NEW x \in Syncs, SyncLoads(x) PROVE Typed
    BY <1>4 DEF TypeOK, SyncLoads
<1>5. ASSUME NEW x \in Syncs, SyncEnds(x) PROVE Typed
  <2>1. UNCHANGED <<asking, recent>>
      BY <1>5 DEF SyncEnds
  <2>2. CASE StartTrial(x, 0)
      BY <2>1, <2>2, StartTrialType DEF TypeOK
  <2>3. CASE unstarted' = unstarted \ {x} /\ UNCHANGED <<trial, sent, made, restarts>>
      BY <2>1, <2>3 DEF TypeOK
  <2> QED BY <1>5, <2>2, <2>3 DEF SyncEnds
<1>6. Typed
    BY <1>1, <1>2, <1>3, <1>4, <1>5 DEF Chat
<1> QED BY <1>6, ChatLeaves DEF TypeOK, unchatted, trades, history

LEMMA TypeStep == TypeOK /\ [Next]_vars => TypeOK'
<1> SUFFICES ASSUME TypeOK, [Next]_vars PROVE TypeOK'
    OBVIOUS
<1>1. CASE UNCHANGED vars
    BY <1>1 DEF TypeOK, vars, trades, chat, history
<1> QED BY <1>1, TraderType, ProducerType, TaskStartType, TaskSavesType, TaskEndsType, TaskFailsType,
           CrashType, RedisType, ChatType DEF Next, Worker

\* Keys, tasks, reviews and the chat keep their types for any workers, tabs and
\* limits: in particular the week every producer and task settles on is a week.
THEOREM WeeklyTypeCorrect == Spec => []TypeOK
    BY InitType, TypeStep, PTL DEF Spec

-----------------------------------------------------------------------------
(* Once a week.                                                            *)
(*                                                                         *)
(* Only tasks that nobody forced count.  While no key of week w has ended  *)
(* under a pending task, at most one of them is for w, and while there is  *)
(* one the key stands: so the claim of the next producer fails.  A task    *)
(* that generates w and was queued for another week is "crossed"; every    *)
(* other one that has not saved finds w without a review.                  *)

InQueue(q, i, w) == q[i].key = w /\ ~q[i].force
AtWorker(r, w) == r # Idle /\ r.task.key = w /\ ~r.task.force

\* The unforced tasks of w in queue q and at workers r are at most one.
Solo(q, r, w) ==
    /\ \A i, j \in DOMAIN q : InQueue(q, i, w) /\ InQueue(q, j, w) => i = j
    /\ \A k, l \in Workers : AtWorker(r[k], w) /\ AtWorker(r[l], w) => k = l
    /\ \A i \in DOMAIN q, k \in Workers : ~(InQueue(q, i, w) /\ AtWorker(r[k], w))

Held(q, r, w) == \/ \E i \in DOMAIN q : InQueue(q, i, w)
                 \/ \E k \in Workers : AtWorker(r[k], w)

Alone == \A w \in Weeks \ lapsed : Solo(queue, running, w) /\ (Held(queue, running, w) => status[w] # None)

Crosses(r, c) == r # Idle /\ r.week \notin {0, r.task.key} => r.week \in c
Crossing == \A k \in Workers : Crosses(running[k], crossed)

Generating(r, w) == AtWorker(r, w) /\ ~r.saved /\ r.week = w
Fresh == \A w \in Weeks \ (lapsed \cup crossed) :
           /\ reviews[w] <= 1
           /\ (\E k \in Workers : Generating(running[k], w)) => reviews[w] = 0

OnceInv == Alone /\ Crossing /\ Fresh

LEMMA HeldIsPending ==
    ASSUME TypeOK, NEW w \in Weeks, Held(queue, running, w)
    PROVE  Pending(w)
    BY DEF Held, InQueue, AtWorker, Pending, Busy

LEMMA SoloAppend ==
    ASSUME NEW q \in Seq(Tasks), NEW r, NEW w, NEW t \in Tasks, Solo(q, r, w),
           t.key = w /\ ~t.force => ~Held(q, r, w)
    PROVE  Solo(Append(q, t), r, w)
<1> DEFINE p == Append(q, t)
<1>1. DOMAIN p = 1 .. Len(q) + 1 /\ DOMAIN q = 1 .. Len(q) /\ Len(q) \in Nat
    OBVIOUS
<1>2. p[Len(q) + 1] = t /\ \A i \in DOMAIN q : p[i] = q[i]
    OBVIOUS
<1> HIDE DEF p
<1>3. ASSUME NEW i \in DOMAIN p, InQueue(p, i, w)
      PROVE  \/ i \in DOMAIN q /\ InQueue(q, i, w)
             \/ i = Len(q) + 1 /\ ~Held(q, r, w)
  <2>1. CASE i \in DOMAIN q
      BY <1>2, <1>3, <2>1 DEF InQueue
  <2>2. CASE i = Len(q) + 1
      BY <1>2, <1>3, <2>2 DEF InQueue
  <2> QED BY <1>1, <2>1, <2>2
<1> QED BY <1>3 DEF Solo, Held, p

LEMMA HeldAppend ==
    ASSUME NEW q \in Seq(Tasks), NEW r, NEW w, NEW t \in Tasks, Held(Append(q, t), r, w)
    PROVE  Held(q, r, w) \/ (t.key = w /\ ~t.force)
<1> DEFINE p == Append(q, t)
<1>1. DOMAIN p = 1 .. Len(q) + 1 /\ DOMAIN q = 1 .. Len(q) /\ Len(q) \in Nat
    OBVIOUS
<1>2. p[Len(q) + 1] = t /\ \A i \in DOMAIN q : p[i] = q[i]
    OBVIOUS
<1> HIDE DEF p
<1>3. ASSUME NEW i \in DOMAIN p, InQueue(p, i, w)
      PROVE  Held(q, r, w) \/ (t.key = w /\ ~t.force)
  <2>1. CASE i \in DOMAIN q
      BY <1>2, <1>3, <2>1 DEF InQueue, Held
  <2>2. CASE i = Len(q) + 1
      BY <1>2, <1>3, <2>2 DEF InQueue
  <2> QED BY <1>1, <2>1, <2>2
<1>4. Held(p, r, w)
    BY DEF p
<1> QED BY <1>3, <1>4 DEF Held

LEMMA SoloLeave ==
    ASSUME NEW q, NEW r \in [Workers -> Runs \cup {Idle}], NEW w, NEW k \in Workers, Solo(q, r, w)
    PROVE  LET s == [r EXCEPT ![k] = Idle]
           IN  /\ Solo(q, s, w) /\ (Held(q, s, w) => Held(q, r, w))
               /\ AtWorker(r[k], w) => ~Held(q, s, w)
<1> DEFINE s == [r EXCEPT ![k] = Idle]
<1>1. \A l \in Workers : AtWorker(s[l], w) => l # k /\ AtWorker(r[l], w)
    BY DEF AtWorker
<1> HIDE DEF s
<1>2. Solo(q, s, w) /\ (Held(q, s, w) => Held(q, r, w)) /\ (AtWorker(r[k], w) => ~Held(q, s, w))
    BY <1>1 DEF Solo, Held
<1> QED BY <1>2 DEF s

\* A task that starts moves from the queue to a worker.
LEMMA SoloStart ==
    ASSUME NEW q \in Seq(Tasks), q # <<>>, NEW r \in [Workers -> Runs \cup {Idle}], NEW w,
           NEW k \in Workers, r[k] = Idle, NEW run \in Runs, run.task = Head(q), Solo(q, r, w)
    PROVE  LET s == [r EXCEPT ![k] = run]
           IN  Solo(Tail(q), s, w) /\ (Held(Tail(q), s, w) => Held(q, r, w))
<1> DEFINE s == [r EXCEPT ![k] = run]
           p == Tail(q)
<1>1. /\ 1 \in DOMAIN q /\ Head(q) = q[1]
      /\ \A i \in DOMAIN p : i + 1 \in DOMAIN q /\ p[i] = q[i + 1] /\ i + 1 # 1 /\ i \in Nat
    OBVIOUS
<1>2. \A l \in Workers : AtWorker(s[l], w) =>
        \/ AtWorker(r[l], w)
        \/ l = k /\ InQueue(q, 1, w)
    BY <1>1 DEF AtWorker, InQueue
<1> HIDE DEF s, p
<1>3. \A i \in DOMAIN p : InQueue(p, i, w) => i + 1 \in DOMAIN q /\ InQueue(q, i + 1, w) /\ i \in Nat
    BY <1>1 DEF InQueue
<1>4. \A i, j \in DOMAIN p : InQueue(p, i, w) /\ InQueue(p, j, w) => i = j
    BY <1>3 DEF Solo
<1>5. \A l, m \in Workers : AtWorker(s[l], w) /\ AtWorker(s[m], w) => l = m
    BY <1>1, <1>2 DEF Solo
<1>6. \A i \in DOMAIN p, l \in Workers : ~(InQueue(p, i, w) /\ AtWorker(s[l], w))
    BY <1>1, <1>2, <1>3 DEF Solo
<1>7. Held(p, s, w) => Held(q, r, w)
    BY <1>1, <1>2, <1>3 DEF Held
<1> QED BY <1>4, <1>5, <1>6, <1>7 DEF Solo, s, p

\* A task is Solo whatever its worker has saved.
LEMMA SoloSave ==
    ASSUME NEW q, NEW r \in [Workers -> Runs \cup {Idle}], NEW w, NEW k \in Workers,
           r[k] # Idle, NEW run \in Runs, run.task = r[k].task, Solo(q, r, w)
    PROVE  LET s == [r EXCEPT ![k] = run]
           IN  Solo(q, s, w) /\ (Held(q, s, w) => Held(q, r, w))
<1> DEFINE s == [r EXCEPT ![k] = run]
<1>1. \A l \in Workers : AtWorker(s[l], w) => AtWorker(r[l], w)
    BY DEF AtWorker
<1> HIDE DEF s
<1>2. Solo(q, s, w) /\ (Held(q, s, w) => Held(q, r, w))
    BY <1>1 DEF Solo, Held
<1> QED BY <1>2 DEF s

LEMMA AloneStep == ASSUME TypeOK, Alone, [Next]_vars PROVE Alone'
<1> SUFFICES ASSUME NEW w \in Weeks, w \notin lapsed'
             PROVE  Solo(queue', running', w) /\ (Held(queue', running', w) => status'[w] # None)
    BY DEF Alone
<1>1. queue \in Seq(Tasks) /\ running \in [Workers -> Runs \cup {Idle}]
    BY DEF TypeOK
<1>2. ASSUME w \notin lapsed
      PROVE  Solo(queue, running, w) /\ (Held(queue, running, w) => status[w] # None)
    BY <1>2 DEF Alone
<1>3. CASE UNCHANGED <<queue, running, status, lapsed>>
    BY <1>2, <1>3
<1>4. ASSUME NEW email \in BOOLEAN, Produce(email)
      PROVE  Solo(queue', running', w) /\ (Held(queue', running', w) => status'[w] # None)
  <2> DEFINE t == Task(Latest, email, FALSE)
  <2>1. t \in Tasks /\ t.key = Latest /\ Latest \in Weeks
      BY <1>4, ReadyType, TaskType DEF Produce, Task
  <2>2. /\ queue' = Append(queue, t) /\ running' = running
        /\ status[Latest] = None /\ status' = [status EXCEPT ![Latest] = "queued"] /\ lapsed' = lapsed
      BY <1>4 DEF Produce, Send, Claimable, history
  <2>3. status'[w] = IF w = Latest THEN "queued" ELSE status[w]
      BY <2>2 DEF TypeOK
  <2> HIDE DEF t
  <2>4. t.key = w => ~Held(queue, running, w)
      BY <1>2, <2>1, <2>2
  <2>5. Solo(queue', running', w)
      BY <1>1, <1>2, <2>1, <2>2, <2>4, SoloAppend
  <2>6. Held(queue', running', w) => Held(queue, running, w) \/ w = Latest
      BY <1>1, <2>1, <2>2, HeldAppend
  <2> QED BY <1>2, <2>2, <2>3, <2>5, <2>6
<1>5. CASE DispatchFails
  <2>1. queue' = queue /\ running' = running /\ lapsed' = lapsed
      BY <1>5 DEF DispatchFails
  <2>2. status'[w] = status[w] \/ status'[w] \in {"failed", "queued"}
      BY <1>5 DEF DispatchFails, TypeOK
  <2> QED BY <1>2, <2>1, <2>2
<1>6. CASE Regenerate
  <2> DEFINE t == Task(Latest, FALSE, TRUE)
  <2>1. t \in Tasks /\ t.key = Latest /\ t.force /\ Latest \in Weeks
    <3>1. Latest \in Weeks
        BY <1>6, LatestType DEF Regenerate, Weeks
    <3> QED BY <3>1, TaskType DEF Task
  <2>2. queue' = Append(queue, t) /\ running' = running /\ lapsed \subseteq lapsed'
      BY <1>6 DEF Regenerate, Send
  <2>3. status'[w] = status[w] \/ (w = Latest /\ ~Pending(w))
      BY <1>6 DEF Regenerate, TypeOK
  <2> HIDE DEF t
  <2>4. Solo(queue', running', w)
      BY <1>1, <1>2, <2>1, <2>2, SoloAppend
  <2>5. Held(queue', running', w) => Held(queue, running, w)
      BY <1>1, <2>1, <2>2, HeldAppend
  <2> QED BY <1>2, <2>2, <2>3, <2>4, <2>5, HeldIsPending
<1>7. ASSUME NEW k \in Workers, TaskStart(k)
      PROVE  Solo(queue', running', w) /\ (Held(queue', running', w) => status'[w] # None)
  <2> DEFINE t == Head(queue)
             run == [task |-> t, week |-> Generates(t), saved |-> FALSE]
  <2>1. run \in Runs /\ run.task = Head(queue)
      BY <1>7, StartType
  <2>2. /\ queue # <<>> /\ running[k] = Idle
        /\ queue' = Tail(queue) /\ running' = [running EXCEPT ![k] = run] /\ lapsed' = lapsed
      BY <1>7 DEF TaskStart
  <2>3. status'[w] = status[w] \/ status'[w] = "running"
      BY <1>7 DEF TaskStart, TypeOK
  <2> HIDE DEF run
  <2>4. Solo(queue', running', w) /\ (Held(queue', running', w) => Held(queue, running, w))
      BY <1>1, <1>2, <2>1, <2>2, SoloStart
  <2> QED BY <1>2, <2>2, <2>3, <2>4
<1>8. ASSUME NEW k \in Workers, TaskSaves(k)
      PROVE  Solo(queue', running', w) /\ (Held(queue', running', w) => status'[w] # None)
  <2> DEFINE run == [running[k] EXCEPT !.saved = TRUE]
  <2>1. run \in Runs /\ run.task = running[k].task /\ running[k] # Idle
      BY <1>8, BusyType DEF TaskSaves, Runs
  <2>2. queue' = queue /\ running' = [running EXCEPT ![k] = run] /\ lapsed' = lapsed /\ status' = status
      BY <1>8 DEF TaskSaves, history
  <2> HIDE DEF run
  <2>3. Solo(queue', running', w) /\ (Held(queue', running', w) => Held(queue, running, w))
      BY <1>1, <1>2, <2>1, <2>2, SoloSave
  <2> QED BY <1>2, <2>2, <2>3
<1>9. ASSUME NEW k \in Workers, TaskEnds(k)
      PROVE  Solo(queue', running', w) /\ (Held(queue', running', w) => status'[w] # None)
  <2> DEFINE key == running[k].task.key
             others == \/ \E i \in DOMAIN queue : queue[i].key = key
                       \/ \E j \in Busy \ {k} : running[j].task.key = key
  <2>1. /\ queue' = queue /\ running' = [running EXCEPT ![k] = Idle]
        /\ lapsed \subseteq lapsed' /\ (up /\ others => key \in lapsed')
        /\ status' = IF up THEN [status EXCEPT ![key] = Cleared(k)] ELSE status
      BY <1>9 DEF TaskEnds
  <2>2. status'[w] = status[w] \/ (up /\ w = key)
      BY <2>1 DEF TypeOK
  <2>3. ASSUME Held(queue', running', w), up, w = key
        PROVE  FALSE
    <3>1. ~others
        BY <2>1, <2>3
    <3>2. \A j \in Workers : AtWorker(running'[j], w) => j \in Busy \ {k} /\ running[j].task.key = key
        BY <1>1, <2>1, <2>3 DEF AtWorker, Busy
    <3>3. \A i \in DOMAIN queue' : InQueue(queue', i, w) => queue[i].key = key
        BY <2>1, <2>3 DEF InQueue
    <3> QED BY <2>1, <2>3, <3>1, <3>2, <3>3 DEF Held
  <2> HIDE DEF others, key
  <2>4. Solo(queue', running', w) /\ (Held(queue', running', w) => Held(queue, running, w))
      BY <1>1, <1>2, <2>1, SoloLeave
  <2> QED BY <1>2, <2>1, <2>2, <2>3, <2>4
<1>10. ASSUME NEW k \in Workers, TaskFails(k)
       PROVE  Solo(queue', running', w) /\ (Held(queue', running', w) => status'[w] # None)
  <2> DEFINE t == running[k].task
             again == [t EXCEPT !.retries = @ + 1]
             left == [running EXCEPT ![k] = Idle]
  <2>1. t \in Tasks /\ running[k] # Idle
      BY <1>10, BusyType DEF TaskFails
  <2>2. Solo(queue, left, w) /\ (Held(queue, left, w) => Held(queue, running, w))
        /\ (AtWorker(running[k], w) => ~Held(queue, left, w))
      BY <1>1, <1>2, <1>10, SoloLeave DEF TaskFails
  <2>3. running' = left /\ lapsed' = lapsed
      BY <1>10 DEF TaskFails
  <2>4. CASE Exhausted(t)
    <3>1. queue' = queue /\ (status'[w] = status[w] \/ status'[w] = "failed")
        BY <1>10, <2>4 DEF TaskFails, TypeOK
    <3> QED BY <1>2, <2>2, <2>3, <3>1
  <2>5. CASE ~Exhausted(t)
    <3>1. queue' = Append(queue, again) /\ status' = status
        BY <1>10, <2>5 DEF TaskFails, Send
    <3>2. again \in Tasks /\ again.key = t.key /\ again.force = t.force
        BY <2>1, <2>5, RetryType DEF Tasks
    <3> HIDE DEF again, left
    <3>3. again.key = w /\ ~again.force => AtWorker(running[k], w)
        BY <2>1, <3>2 DEF AtWorker
    <3>4. Solo(queue', running', w)
        BY <1>1, <2>2, <2>3, <3>1, <3>2, <3>3, SoloAppend
    <3>5. Held(queue', running', w) => Held(queue, left, w) \/ AtWorker(running[k], w)
        BY <1>1, <2>3, <3>1, <3>2, <3>3, HeldAppend
    <3>6. AtWorker(running[k], w) => Held(queue, running, w)
        BY DEF Held
    <3> QED BY <1>2, <2>2, <2>3, <3>1, <3>4, <3>5, <3>6
  <2> QED BY <2>4, <2>5
<1>11. ASSUME NEW k \in Workers, Crash(k)
       PROVE  Solo(queue', running', w) /\ (Held(queue', running', w) => status'[w] # None)
  <2>1. queue' = queue /\ running' = [running EXCEPT ![k] = Idle] /\ lapsed' = lapsed /\ status' = status
      BY <1>11 DEF Crash
  <2>2. Solo(queue', running', w) /\ (Held(queue', running', w) => Held(queue, running, w))
      BY <1>1, <1>2, <2>1, SoloLeave
  <2> QED BY <1>2, <2>1, <2>2
<1>12. ASSUME NEW v \in Weeks, Lapse(v)
       PROVE  Solo(queue', running', w) /\ (Held(queue', running', w) => status'[w] # None)
  <2>1. queue' = queue /\ running' = running /\ lapsed \subseteq lapsed'
      BY <1>12 DEF Lapse
  <2>2. status'[w] = status[w] \/ (w = v /\ ~Pending(w))
      BY <1>12 DEF Lapse, TypeOK
  <2> QED BY <1>2, <2>1, <2>2, HeldIsPending
<1>13. Trader \/ Chat \/ CacheFails \/ CacheReturns \/ UNCHANGED vars
         => UNCHANGED <<queue, running, status, lapsed>>
    BY ChatLeaves DEF Trader, Close, Delete, Tick, CleanUp, CheckIn, unchatted,
           CacheFails, CacheReturns, vars, history
<1> QED BY <1>3, <1>4, <1>5, <1>6, <1>7, <1>8, <1>9, <1>10, <1>11, <1>12, <1>13
           DEF Next, Producer, Ingest, Dashboard, Worker, Redis

\* The steps at which a worker takes up, saves or leaves a task; in all others
\* the workers go on.
LEMMA WorkersStay ==
    ASSUME [Next]_vars, \A k \in Workers : ~Worker(k) /\ ~TaskFails(k) /\ ~Crash(k)
    PROVE  UNCHANGED <<running, reviews, crossed>> /\ lapsed \subseteq lapsed'
<1>1. Trader \/ Chat \/ Redis \/ UNCHANGED vars => UNCHANGED <<running, reviews, crossed>> /\ lapsed \subseteq lapsed'
    BY ChatLeaves DEF Trader, Close, Delete, Tick, CleanUp, CheckIn, unchatted,
           Redis, Lapse, CacheFails, CacheReturns, vars, history
<1>2. Producer => UNCHANGED <<running, reviews, crossed>> /\ lapsed \subseteq lapsed'
    BY DEF Producer, Ingest, Dashboard, Produce, DispatchFails, Regenerate, history
<1> QED BY <1>1, <1>2 DEF Next

LEMMA CrossingStep == ASSUME TypeOK, Crossing, [Next]_vars PROVE Crossing'
<1> SUFFICES ASSUME NEW l \in Workers PROVE Crosses(running'[l], crossed')
    BY DEF Crossing
<1>1. running \in [Workers -> Runs \cup {Idle}] /\ Crosses(running[l], crossed)
    BY DEF TypeOK, Crossing
<1>2. ASSUME crossed' = crossed, running'[l] = running[l] \/ running'[l] = Idle
      PROVE  Crosses(running'[l], crossed')
    BY <1>1, <1>2 DEF Crosses
<1>3. ASSUME NEW k \in Workers, TaskStart(k)
      PROVE  Crosses(running'[l], crossed')
  <2> DEFINE t == Head(queue)
             run == [task |-> t, week |-> Generates(t), saved |-> FALSE]
  <2>1. running' = [running EXCEPT ![k] = run]
        /\ crossed' = IF Generates(t) # 0 /\ Generates(t) # t.key THEN crossed \cup {Generates(t)} ELSE crossed
      BY <1>3 DEF TaskStart
  <2>2. run.week = Generates(t) /\ run.task = t
      OBVIOUS
  <2> HIDE DEF run, t
  <2> QED BY <1>1, <2>1, <2>2 DEF Crosses
<1>4. ASSUME NEW k \in Workers, TaskSaves(k)
      PROVE  Crosses(running'[l], crossed')
  <2> DEFINE run == [running[k] EXCEPT !.saved = TRUE]
  <2>1. run.task = running[k].task /\ run.week = running[k].week /\ running[k] # Idle
      BY <1>4, BusyType DEF TaskSaves, Runs
  <2>2. running' = [running EXCEPT ![k] = run] /\ crossed' = crossed
      BY <1>4 DEF TaskSaves, history
  <2> HIDE DEF run
  <2> QED BY <1>1, <2>1, <2>2 DEF Crosses
<1>5. ASSUME NEW k \in Workers, TaskEnds(k) \/ TaskFails(k) \/ Crash(k)
      PROVE  crossed' = crossed /\ running' = [running EXCEPT ![k] = Idle]
    BY <1>5 DEF TaskEnds, TaskFails, Crash
<1>6. ASSUME NEW k \in Workers, TaskEnds(k) \/ TaskFails(k) \/ Crash(k)
      PROVE  Crosses(running'[l], crossed')
    BY <1>1, <1>2, <1>5, <1>6
<1> QED BY <1>2, <1>3, <1>4, <1>6, WorkersStay DEF Worker

LEMMA FreshKept ==
    ASSUME Fresh, reviews' = reviews, lapsed \subseteq lapsed', crossed \subseteq crossed',
           \A w \in Weeks, l \in Workers : Generating(running'[l], w) => Generating(running[l], w)
    PROVE  Fresh'
    BY DEF Fresh

LEMMA FreshStep == ASSUME TypeOK, OnceInv, [Next]_vars PROVE Fresh'
<1>1. running \in [Workers -> Runs \cup {Idle}] /\ Fresh /\ reviews \in [Weeks -> Nat] /\ forced \in [Weeks -> Nat]
    BY DEF TypeOK, OnceInv
<1>2. ASSUME NEW k \in Workers, TaskStart(k)
      PROVE  Fresh'
  <2> DEFINE t == Head(queue)
             run == [task |-> t, week |-> Generates(t), saved |-> FALSE]
  <2>1. /\ running' = [running EXCEPT ![k] = run] /\ reviews' = reviews
        /\ lapsed' = lapsed /\ crossed \subseteq crossed'
      BY <1>2 DEF TaskStart
  <2>2. ASSUME NEW w \in Weeks, Generating(run, w)
        PROVE  reviews[w] = 0
    <3>1. ~t.force /\ Generates(t) = w /\ w # 0
        BY <2>2 DEF Generating, AtWorker, Weeks
    <3>2. ~Reviewed(w)
        BY <3>1 DEF Generates
    <3> QED BY <1>1, <3>2 DEF Reviewed
  <2> HIDE DEF run, t
  <2>3. SUFFICES ASSUME NEW w \in Weeks, w \notin lapsed' \cup crossed', NEW l \in Workers,
                        Generating(running'[l], w)
                 PROVE  reviews[w] = 0
      BY <1>1, <2>1, <2>3 DEF Fresh
  <2> QED BY <1>1, <2>1, <2>2, <2>3 DEF Fresh
<1>3. ASSUME NEW k \in Workers, TaskSaves(k)
      PROVE  Fresh'
  <2> DEFINE run == [running[k] EXCEPT !.saved = TRUE]
             v == running[k].week
  <2>1. /\ running[k] # Idle /\ running[k] \in Runs /\ ~running[k].saved /\ v \in Weeks
        /\ run.task = running[k].task /\ run.saved
      BY <1>3, BusyType DEF TaskSaves, Runs, Weeks
  <2>2. running' = [running EXCEPT ![k] = run] /\ lapsed' = lapsed /\ crossed' = crossed
      BY <1>3 DEF TaskSaves, history
  <2>3. reviews' = IF running[k].task.force THEN reviews ELSE [reviews EXCEPT ![v] = @ + 1]
      BY <1>3 DEF TaskSaves
  <2> HIDE DEF run
  <2>4. ASSUME NEW w \in Weeks, NEW l \in Workers, Generating(running'[l], w)
        PROVE  Generating(running[l], w) /\ l # k
      BY <1>1, <2>1, <2>2, <2>4 DEF Generating
  <2>5. CASE running[k].task.force
    <3>1. reviews' = reviews
        BY <2>3, <2>5
    <3> QED BY <2>2, <2>4, <3>1, <1>1, FreshKept
  <2>6. CASE ~running[k].task.force
    <3>1. reviews' = [reviews EXCEPT ![v] = @ + 1]
        BY <2>3, <2>6
    <3>2. ASSUME v \notin lapsed \cup crossed
          PROVE  Generating(running[k], v) /\ reviews[v] = 0
                 /\ \A l \in Workers : ~Generating(running'[l], v)
      <4>1. Crosses(running[k], crossed)
          BY DEF OnceInv, Crossing
      <4>2. running[k].task.key = v
          BY <2>1, <3>2, <4>1 DEF Crosses, Weeks
      <4>3. Generating(running[k], v)
          BY <2>1, <2>6, <4>2 DEF Generating, AtWorker
      <4>4. reviews[v] = 0
          BY <1>1, <2>1, <3>2, <4>3 DEF Fresh
      <4>5. \A l \in Workers : AtWorker(running[l], v) => l = k
          BY <2>1, <3>2, <4>3 DEF OnceInv, Alone, Solo, Generating
      <4> QED BY <2>1, <2>4, <4>3, <4>4, <4>5 DEF Generating
    <3>3. ASSUME NEW w \in Weeks, w \notin lapsed' \cup crossed'
          PROVE  reviews'[w] <= 1 /\ ((\E l \in Workers : Generating(running'[l], w)) => reviews'[w] = 0)
      <4>1. CASE w = v
        <5>1. reviews'[w] = 1
            BY <1>1, <2>1, <2>2, <3>1, <3>2, <3>3, <4>1
        <5> QED BY <2>2, <3>2, <3>3, <4>1, <5>1
      <4>2. CASE w # v
        <5>1. reviews'[w] = reviews[w]
            BY <1>1, <3>1, <4>2
        <5> QED BY <1>1, <2>2, <2>4, <3>3, <5>1 DEF Fresh
      <4> QED BY <4>1, <4>2
    <3> QED BY <3>3 DEF Fresh
  <2> QED BY <2>5, <2>6
<1>4. ASSUME NEW k \in Workers, TaskEnds(k) \/ TaskFails(k) \/ Crash(k)
      PROVE  Fresh'
  <2>1. /\ running' = [running EXCEPT ![k] = Idle] /\ reviews' = reviews
        /\ lapsed \subseteq lapsed' /\ crossed' = crossed
      BY <1>4 DEF TaskEnds, TaskFails, Crash
  <2>2. \A w \in Weeks, l \in Workers : Generating(running'[l], w) => Generating(running[l], w)
      BY <1>1, <2>1 DEF Generating, AtWorker
  <2> QED BY <1>1, <2>1, <2>2, FreshKept
<1>5. ASSUME \A k \in Workers : ~Worker(k) /\ ~TaskFails(k) /\ ~Crash(k)
      PROVE  Fresh'
    BY <1>1, <1>5, WorkersStay, FreshKept
<1> QED BY <1>2, <1>3, <1>4, <1>5 DEF Worker

\* However imports, syncs, visits, retries, crashes and regenerations interleave,
\* the claim in Redis gives a week one automatic review, unless its key ended
\* under a pending task or a task of another week found it
\* (enqueue_weekly_ai_if_ready, generate_weekly_ai_task).
THEOREM ReviewedOnce == Spec => []NoDuplicateReview
<1>1. Init => OnceInv
  <2> SUFFICES ASSUME Init PROVE OnceInv
      OBVIOUS
  <2>1. queue = <<>> /\ \A k \in Workers : running[k] = Idle
      BY DEF Init
  <2>2. \A w : Solo(queue, running, w) /\ ~Held(queue, running, w) /\ \A k \in Workers : ~Generating(running[k], w)
      BY <2>1 DEF Solo, Held, Generating, InQueue, AtWorker
  <2>3. \A w \in Weeks : reviews[w] = 0
      BY DEF Init, Zero
  <2> QED BY <2>1, <2>2, <2>3 DEF OnceInv, Alone, Crossing, Crosses, Fresh
<1>2. TypeOK /\ OnceInv /\ [Next]_vars => OnceInv'
    BY AloneStep, CrossingStep, FreshStep DEF OnceInv
<1>3. TypeOK /\ OnceInv => NoDuplicateReview
    BY DEF OnceInv, Fresh, NoDuplicateReview, TypeOK
<1> QED BY <1>1, <1>2, <1>3, WeeklyTypeCorrect, PTL DEF Spec

-----------------------------------------------------------------------------
(* The dashboard does not wait for nothing *)

PendingIn(q, r, w) == \/ \E i \in DOMAIN q : q[i].key = w
                      \/ \E k \in Workers : r[k] # Idle /\ r[k].task.key = w

\* status[w] = s tells of a task in queue q or at workers r, or w is an orphan.
Told(s, o, q, r, w) == s \in {"queued", "running"} /\ w \notin o => PendingIn(q, r, w)

LEMMA PendingAppend ==
    ASSUME NEW q \in Seq(Tasks), NEW r, NEW t \in Tasks
    PROVE  /\ PendingIn(Append(q, t), r, t.key)
           /\ \A w : PendingIn(q, r, w) => PendingIn(Append(q, t), r, w)
<1> DEFINE p == Append(q, t)
<1>1. Len(q) + 1 \in DOMAIN p /\ p[Len(q) + 1] = t
    OBVIOUS
<1>2. \A i \in DOMAIN q : i \in DOMAIN p /\ p[i] = q[i]
    OBVIOUS
<1> HIDE DEF p
<1>3. PendingIn(p, r, t.key)
    BY <1>1 DEF PendingIn
<1>4. ASSUME NEW w, PendingIn(q, r, w)
      PROVE  PendingIn(p, r, w)
    BY <1>2, <1>4 DEF PendingIn
<1> QED BY <1>3, <1>4 DEF p

\* Only the task of k leaves with it.
LEMMA PendingLeave ==
    ASSUME NEW q, NEW r \in [Workers -> Runs \cup {Idle}], NEW k \in Workers, NEW w,
           PendingIn(q, r, w), w # r[k].task.key
    PROVE  PendingIn(q, [r EXCEPT ![k] = Idle], w)
    BY DEF PendingIn

LEMMA PendingStart ==
    ASSUME NEW q \in Seq(Tasks), q # <<>>, NEW r \in [Workers -> Runs \cup {Idle}],
           NEW k \in Workers, r[k] = Idle, NEW run \in Runs, run.task = Head(q)
    PROVE  LET s == [r EXCEPT ![k] = run]
           IN  \A w : (PendingIn(q, r, w) \/ w = Head(q).key) => PendingIn(Tail(q), s, w)
<1> DEFINE s == [r EXCEPT ![k] = run]
           p == Tail(q)
<1>1. \A i \in DOMAIN q : i = 1 \/ (i - 1 \in DOMAIN p /\ p[i - 1] = q[i])
    OBVIOUS
<1>2. Head(q) = q[1]
    OBVIOUS
<1>3. s[k] = run /\ run # Idle /\ \A l \in Workers : r[l] # Idle => s[l] = r[l]
    BY RunNotIdle
<1> HIDE DEF p, s
<1>4. PendingIn(p, s, Head(q).key)
    BY <1>3 DEF PendingIn
<1>5. ASSUME NEW w, PendingIn(q, r, w)
      PROVE  PendingIn(p, s, w)
  <2>1. ASSUME NEW i \in DOMAIN q, q[i].key = w
        PROVE  PendingIn(p, s, w)
      BY <1>1, <1>2, <1>4, <2>1 DEF PendingIn
  <2>2. ASSUME NEW l \in Workers, r[l] # Idle, r[l].task.key = w
        PROVE  PendingIn(p, s, w)
      BY <1>3, <2>2 DEF PendingIn
  <2> QED BY <1>5, <2>1, <2>2 DEF PendingIn
<1> QED BY <1>4, <1>5 DEF p, s

LEMMA PendingMeans ==
    /\ GeneratingIsPending <=> \A w \in Weeks : Told(status[w], orphan, queue, running, w)
    /\ GeneratingIsPending' <=> \A w \in Weeks : Told(status'[w], orphan', queue', running', w)
    BY DEF GeneratingIsPending, Told, PendingIn, Pending, Busy

LEMMA GeneratingStep == ASSUME TypeOK, GeneratingIsPending, [Next]_vars PROVE GeneratingIsPending'
<1> SUFFICES ASSUME NEW w \in Weeks PROVE Told(status'[w], orphan', queue', running', w)
    BY PendingMeans
<1>1. queue \in Seq(Tasks) /\ running \in [Workers -> Runs \cup {Idle}]
    BY DEF TypeOK
<1>2. Told(status[w], orphan, queue, running, w)
    BY PendingMeans
<1>3. None \notin {"queued", "running"} /\ "failed" \notin {"queued", "running"}
    OBVIOUS
<1>4. CASE UNCHANGED <<queue, running, status, orphan>>
    BY <1>2, <1>4
<1>5. ASSUME NEW email \in BOOLEAN, Produce(email)
      PROVE  Told(status'[w], orphan', queue', running', w)
  <2> DEFINE t == Task(Latest, email, FALSE)
  <2>1. t \in Tasks /\ t.key = Latest
      BY <1>5, ReadyType, TaskType DEF Produce, Task
  <2>2. /\ queue' = Append(queue, t) /\ running' = running /\ orphan' = orphan
        /\ (w # Latest => status'[w] = status[w])
      BY <1>5 DEF Produce, Send, history, TypeOK
  <2> HIDE DEF t
  <2> QED BY <1>1, <1>2, <2>1, <2>2, PendingAppend DEF Told
<1>6. CASE DispatchFails
  <2>1. queue' = queue /\ running' = running /\ orphan \subseteq orphan'
        /\ (status'[w] = status[w] \/ status'[w] = "failed" \/ w \in orphan')
      BY <1>6 DEF DispatchFails, TypeOK
  <2> QED BY <1>2, <1>3, <2>1 DEF Told
<1>7. CASE Regenerate
  <2> DEFINE t == Task(Latest, FALSE, TRUE)
  <2>1. t \in Tasks
    <3>1. Latest \in Weeks
        BY <1>7, LatestType DEF Regenerate, Weeks
    <3> QED BY <3>1, TaskType
  <2>2. /\ queue' = Append(queue, t) /\ running' = running /\ orphan' = orphan
        /\ (status'[w] = status[w] \/ status'[w] = None)
      BY <1>7 DEF Regenerate, Send, TypeOK
  <2> HIDE DEF t
  <2> QED BY <1>1, <1>2, <1>3, <2>1, <2>2, PendingAppend DEF Told
<1>8. ASSUME NEW k \in Workers, TaskStart(k)
      PROVE  Told(status'[w], orphan', queue', running', w)
  <2> DEFINE t == Head(queue)
             run == [task |-> t, week |-> Generates(t), saved |-> FALSE]
  <2>1. run \in Runs /\ run.task = t
      BY <1>8, StartType
  <2>2. /\ queue # <<>> /\ running[k] = Idle /\ orphan' = orphan
        /\ queue' = Tail(queue) /\ running' = [running EXCEPT ![k] = run]
        /\ (w # t.key => status'[w] = status[w])
      BY <1>8 DEF TaskStart, TypeOK
  <2> HIDE DEF run
  <2> QED BY <1>1, <1>2, <2>1, <2>2, PendingStart DEF Told
<1>9. ASSUME NEW k \in Workers, TaskSaves(k)
      PROVE  Told(status'[w], orphan', queue', running', w)
  <2> DEFINE run == [running[k] EXCEPT !.saved = TRUE]
  <2>1. run \in Runs /\ run.task = running[k].task /\ running[k] # Idle
      BY <1>9, BusyType DEF TaskSaves, Runs
  <2>2. queue' = queue /\ running' = [running EXCEPT ![k] = run] /\ orphan' = orphan /\ status' = status
      BY <1>9 DEF TaskSaves, history
  <2>3. run # Idle
      BY <2>1, RunNotIdle
  <2> HIDE DEF run
  <2> QED BY <1>1, <1>2, <2>1, <2>2, <2>3 DEF Told, PendingIn
<1>10. ASSUME NEW k \in Workers, TaskEnds(k)
       PROVE  Told(status'[w], orphan', queue', running', w)
  <2> DEFINE key == running[k].task.key
  <2>1. queue' = queue /\ running' = [running EXCEPT ![k] = Idle] /\ orphan \subseteq orphan'
        /\ (up => status' = [status EXCEPT ![key] = None]) /\ (~up => key \in orphan' /\ status' = status)
      BY <1>10 DEF TaskEnds, Cleared
  <2>2. (w = key /\ status'[w] = None) \/ w \in orphan' \/ (w # key /\ status'[w] = status[w])
      BY <2>1 DEF TypeOK
  <2> HIDE DEF key
  <2>3. w # key => (PendingIn(queue, running, w) => PendingIn(queue', running', w))
      BY <1>1, <2>1, PendingLeave DEF key
  <2> QED BY <1>2, <1>3, <2>1, <2>2, <2>3 DEF Told
<1>11. ASSUME NEW k \in Workers, TaskFails(k)
       PROVE  Told(status'[w], orphan', queue', running', w)
  <2> DEFINE t == running[k].task
             again == [t EXCEPT !.retries = @ + 1]
             left == [running EXCEPT ![k] = Idle]
  <2>1. t \in Tasks /\ running' = left
      BY <1>11, BusyType DEF TaskFails
  <2>2. w # t.key => (PendingIn(queue, running, w) => PendingIn(queue, left, w))
      BY <1>1, PendingLeave
  <2>3. CASE Exhausted(t)
    <3>1. queue' = queue /\ orphan \subseteq orphan'
          /\ (up => status' = [status EXCEPT ![t.key] = "failed"])
          /\ (~up => t.key \in orphan' /\ status' = status)
        BY <1>11, <2>3 DEF TaskFails
    <3>2. (w = t.key /\ status'[w] = "failed") \/ w \in orphan' \/ (w # t.key /\ status'[w] = status[w])
        BY <3>1 DEF TypeOK
    <3> HIDE DEF left, t
    <3> QED BY <1>2, <1>3, <2>1, <2>2, <3>1, <3>2 DEF Told
  <2>4. CASE ~Exhausted(t)
    <3>1. queue' = Append(queue, again) /\ status' = status /\ orphan' = orphan
        BY <1>11, <2>4 DEF TaskFails, Send
    <3>2. again \in Tasks /\ again.key = t.key
        BY <2>1, <2>4, RetryType DEF Tasks
    <3> HIDE DEF again, left
    <3>3. PendingIn(queue', running', t.key)
        BY <1>1, <2>1, <3>1, <3>2, PendingAppend
    <3>4. PendingIn(queue, left, w) => PendingIn(queue', running', w)
        BY <1>1, <2>1, <3>1, <3>2, PendingAppend
    <3> HIDE DEF t
    <3> QED BY <1>2, <2>2, <3>1, <3>3, <3>4 DEF Told
  <2> QED BY <2>3, <2>4
<1>12. ASSUME NEW k \in Workers, Crash(k)
       PROVE  Told(status'[w], orphan', queue', running', w)
  <2>1. queue' = queue /\ running' = [running EXCEPT ![k] = Idle] /\ status' = status
        /\ orphan' = orphan \cup {running[k].task.key}
      BY <1>12 DEF Crash
  <2>2. w # running[k].task.key => (PendingIn(queue, running, w) => PendingIn(queue', running', w))
      BY <1>1, <2>1, PendingLeave
  <2> QED BY <1>2, <2>1, <2>2 DEF Told
<1>13. ASSUME NEW v \in Weeks, Lapse(v)
       PROVE  Told(status'[w], orphan', queue', running', w)
  <2>1. queue' = queue /\ running' = running /\ orphan' = orphan \ {v}
        /\ (status'[w] = None \/ (w # v /\ status'[w] = status[w]))
      BY <1>13 DEF Lapse, TypeOK
  <2> QED BY <1>2, <1>3, <2>1 DEF Told
<1>14. Trader \/ Chat \/ CacheFails \/ CacheReturns \/ UNCHANGED vars
         => UNCHANGED <<queue, running, status, orphan>>
    BY ChatLeaves DEF Trader, Close, Delete, Tick, CleanUp, CheckIn, unchatted,
           CacheFails, CacheReturns, vars, history
<1> QED BY <1>4, <1>5, <1>6, <1>7, <1>8, <1>9, <1>10, <1>11, <1>12, <1>13, <1>14
           DEF Next, Producer, Ingest, Dashboard, Worker, Redis

\* A review is shown as being generated only while a task for its week is in the
\* queue or at a worker, but for the ways a key outlives its task that "orphan"
\* names (get_ai_status in cache.py).
THEOREM GeneratingIsReal == Spec => []GeneratingIsPending
<1>1. Init => GeneratingIsPending
    BY DEF Init, GeneratingIsPending
<1>2. TypeOK /\ GeneratingIsPending /\ [Next]_vars => GeneratingIsPending'
    BY GeneratingStep
<1> QED BY <1>1, <1>2, WeeklyTypeCorrect, PTL DEF Spec

-----------------------------------------------------------------------------
(* The limits of the chat *)

\* Every request in progress may still add a message to those that are counted, and
\* every request or sync that loaded the user without a start may begin the count
\* anew.  What was made before is at most an allowance for each time that happened.
Rates ==
    /\ sent + Cardinality(asking) <= Allowance
    /\ recent + Cardinality(asking) <= MinuteLimit + Cardinality(Tabs) - 1
Restarts ==
    /\ trial = "not_started" => sent = 0 /\ restarts = 0 /\ asking \subseteq unstarted
    /\ trial # "not_started" => restarts + Cardinality(unstarted) < Cardinality(Tabs \cup Syncs)
ChatInv == Rates /\ Restarts /\ made <= restarts * Allowance + sent

LEMMA ChatNumbers ==
    ASSUME TypeOK
    PROVE  /\ IsFiniteSet(asking) /\ Cardinality(asking) \in Nat /\ Cardinality(Tabs) \in Nat \ {0}
           /\ Cardinality(asking) <= Cardinality(Tabs)
           /\ IsFiniteSet(unstarted) /\ Cardinality(unstarted) \in Nat
           /\ Cardinality(Tabs \cup Syncs) \in Nat \ {0}
           /\ Cardinality(unstarted) <= Cardinality(Tabs \cup Syncs)
           /\ Allowance \in Nat /\ sent \in Nat /\ recent \in Nat /\ made \in Nat /\ restarts \in Nat
<1>1. IsFiniteSet(asking) /\ Cardinality(asking) \in Nat /\ Cardinality(asking) <= Cardinality(Tabs)
    BY FS_Subset, FS_CardinalityType DEF TypeOK
<1>2. IsFiniteSet(Tabs \cup Syncs)
    BY FS_Union
<1>3. IsFiniteSet(unstarted) /\ Cardinality(unstarted) \in Nat
      /\ Cardinality(unstarted) <= Cardinality(Tabs \cup Syncs)
    BY <1>2, FS_Subset, FS_CardinalityType DEF TypeOK
<1>4. Cardinality(Tabs) \in Nat /\ Cardinality(Tabs) # 0
    BY FS_CardinalityType, FS_EmptySet
<1>5. Cardinality(Tabs \cup Syncs) \in Nat /\ Cardinality(Tabs \cup Syncs) # 0
    BY <1>2, FS_CardinalityType, FS_EmptySet
<1>6. Allowance \in Nat
    BY <1>4 DEF Allowance
<1> QED BY <1>1, <1>3, <1>4, <1>5, <1>6 DEF TypeOK

\* Another allowance, and a product of numbers is a number.
LEMMA OneMoreAllowance ==
    ASSUME NEW n \in Nat, NEW a \in Nat
    PROVE  n * a \in Nat /\ (n + 1) * a = n * a + a
    OBVIOUS

\* Whoever writes a start over another leaves one fewer to do so.
LEMMA StartTrialKeeps ==
    ASSUME TypeOK, ChatInv, NEW x \in Tabs \cup Syncs, NEW more \in {0, 1}, StartTrial(x, more),
           asking' = asking \ {x}, more = 1 => x \in asking, sent + more <= Allowance
    PROVE  Restarts' /\ made' <= restarts' * Allowance + sent' /\ sent' <= sent + more
<1> DEFINE n == Cardinality(unstarted)
           m == Cardinality(Tabs \cup Syncs)
           a == Allowance
           product == restarts * a
<1>1. /\ n \in Nat /\ m \in Nat \ {0} /\ n <= m /\ IsFiniteSet(unstarted) /\ a \in Nat
      /\ sent \in Nat /\ made \in Nat /\ restarts \in Nat
    BY ChatNumbers
<1>2. product \in Nat /\ (restarts + 1) * a = product + a /\ made <= product + sent
    BY <1>1, OneMoreAllowance DEF ChatInv
<1>3. unstarted' = unstarted \ {x} /\ made' = made + more
    BY DEF StartTrial
<1>4. CASE x \notin unstarted
  <2>1. sent' = sent + more /\ trial' = trial /\ restarts' = restarts /\ unstarted' = unstarted
      BY <1>3, <1>4 DEF StartTrial
  <2>2. trial = "not_started" => more = 0
      BY <1>4 DEF ChatInv, Restarts
  <2>3. trial' = "not_started" => sent' = 0 /\ restarts' = 0 /\ asking' \subseteq unstarted'
      BY <2>1, <2>2 DEF ChatInv, Restarts
  <2>4. trial' # "not_started" => restarts' + Cardinality(unstarted') < m
      BY <2>1 DEF ChatInv, Restarts
  <2>5. Restarts'
      BY <2>3, <2>4 DEF Restarts
  <2>6. restarts' * Allowance = product
      BY <2>1
  <2> HIDE DEF product
  <2>7. made' <= restarts' * Allowance + sent'
      BY <1>1, <1>2, <1>3, <2>1, <2>6
  <2> QED BY <1>1, <2>1, <2>5, <2>7
<1>5. CASE x \in unstarted
  <2>1. PICK kept \in 0 .. sent : sent' = kept + more
      BY <1>5 DEF StartTrial
  <2>2. trial' = "active" /\ restarts' = IF trial = "not_started" THEN restarts ELSE restarts + 1
      BY <1>5 DEF StartTrial
  <2>3. Cardinality(unstarted') = n - 1
      BY <1>1, <1>3, <1>5, FS_RemoveElement
  <2>4. restarts' + Cardinality(unstarted') < m
    <3>1. CASE trial = "not_started"
        BY <1>1, <2>2, <2>3, <3>1 DEF ChatInv, Restarts
    <3>2. CASE trial # "not_started"
        BY <1>1, <2>2, <2>3, <3>2 DEF ChatInv, Restarts
    <3> QED BY <3>1, <3>2
  <2>5. Restarts'
      BY <2>2, <2>4 DEF Restarts
  <2>6. sent' \in Nat /\ sent' <= sent + more /\ sent' >= more
      BY <1>1, <2>1
  <2>7. CASE trial = "not_started"
    <3>1. restarts' * Allowance = product /\ sent = 0
        BY <2>2, <2>7 DEF ChatInv, Restarts
    <3> HIDE DEF product
    <3>2. made' <= restarts' * Allowance + sent'
        BY <1>1, <1>2, <1>3, <2>6, <3>1
    <3> QED BY <2>5, <2>6, <3>2
  <2>8. CASE trial # "not_started"
    <3>1. restarts' * Allowance = product + a
        BY <1>2, <2>2, <2>8
    <3>2. made + more <= product + a
      <4>1. sent + more <= a
          OBVIOUS
      <4> HIDE DEF product, a
      <4> QED BY <1>1, <1>2, <4>1
    <3> HIDE DEF product, a
    <3>3. made' <= restarts' * Allowance + sent'
        BY <1>1, <1>2, <1>3, <2>6, <3>1, <3>2
    <3> QED BY <2>5, <2>6, <3>3
  <2> QED BY <2>7, <2>8
<1> QED BY <1>4, <1>5

\* One holder fewer leaves the rest as it was.
LEMMA FewerHolders ==
    ASSUME TypeOK, Restarts, NEW x, unstarted' = unstarted \ {x}, asking' = asking \ {x},
           UNCHANGED <<trial, sent, restarts>>
    PROVE  Restarts'
<1>1. Cardinality(unstarted') <= Cardinality(unstarted) /\ Cardinality(unstarted') \in Nat
  <2>1. IsFiniteSet(unstarted) /\ unstarted' \subseteq unstarted
      BY ChatNumbers
  <2> QED BY <2>1, FS_Subset, FS_CardinalityType
<1>2. restarts \in Nat /\ Cardinality(unstarted) \in Nat /\ Cardinality(Tabs \cup Syncs) \in Nat
    BY ChatNumbers
<1>3. trial' = "not_started" => sent' = 0 /\ restarts' = 0 /\ asking' \subseteq unstarted'
    BY DEF Restarts
<1>4. trial' # "not_started" => restarts' + Cardinality(unstarted') < Cardinality(Tabs \cup Syncs)
    BY <1>1, <1>2 DEF Restarts
<1> QED BY <1>3, <1>4 DEF Restarts

LEMMA ChatStep == ASSUME TypeOK, ChatInv, [Next]_vars PROVE ChatInv'
<1> DEFINE n == Cardinality(asking)
           m == Cardinality(Tabs)
<1>1. /\ n \in Nat /\ m \in Nat \ {0} /\ n <= m /\ IsFiniteSet(asking) /\ sent \in Nat /\ recent \in Nat
      /\ Allowance \in Nat /\ Allowance = ChatLimit + m - 1 /\ Allowance' = Allowance
      /\ sent + n <= Allowance /\ recent + n <= MinuteLimit + m - 1
    BY ChatNumbers DEF Allowance, ChatInv, Rates
<1>2. ASSUME NEW t \in Tabs, Ask(t)
      PROVE  ChatInv'
  <2>1. sent < ChatLimit /\ recent < MinuteLimit
    <3>1. Used = sent
        BY DEF Used, ChatInv, Restarts
    <3> QED BY <1>2, <3>1 DEF Ask
  <2>2. Cardinality(asking') = n + 1 /\ Cardinality(asking') <= m
    <3>1. asking' = asking \cup {t} /\ t \notin asking /\ asking' \subseteq Tabs
        BY <1>2 DEF Ask, TypeOK
    <3>2. Cardinality(asking') = n + 1
        BY <1>1, <3>1, FS_AddElement
    <3>3. Cardinality(asking') <= m
        BY <3>1, FS_Subset
    <3> QED BY <3>2, <3>3
  <2>3. UNCHANGED <<trial, sent, recent, made, restarts>>
      BY <1>2 DEF Ask
  <2>4. Rates'
    <3> HIDE DEF n
    <3>1. sent + Cardinality(asking') <= Allowance
          /\ recent + Cardinality(asking') <= MinuteLimit + m - 1
        BY <1>1, <2>1, <2>2
    <3> QED BY <1>1, <2>3, <3>1 DEF Rates
  <2>5. Restarts'
    <3>1. trial = "not_started" => asking' \subseteq unstarted'
        BY <1>2 DEF Ask, ChatInv, Restarts
    <3>2. trial # "not_started" => unstarted' = unstarted
        BY <1>2 DEF Ask
    <3> QED BY <2>3, <3>1, <3>2 DEF ChatInv, Restarts
  <2>6. (made <= restarts * Allowance + sent)'
      BY <1>1, <2>3 DEF ChatInv
  <2> QED BY <2>4, <2>5, <2>6 DEF ChatInv
<1>3. ASSUME NEW t \in asking, asking' = asking \ {t}
      PROVE  Cardinality(asking') = n - 1
    BY <1>1, <1>3, FS_RemoveElement
<1>4. ASSUME NEW t \in Tabs, Answer(t)
      PROVE  ChatInv'
  <2>1. /\ Cardinality(asking') = n - 1 /\ recent' = recent + 1 /\ StartTrial(t, 1)
        /\ t \in asking /\ asking' = asking \ {t}
      BY <1>3, <1>4 DEF Answer
  <2>2. n >= 1
    <3>1. n - 1 \in Nat
      <4>1. IsFiniteSet(asking')
          BY <1>1, <2>1, FS_RemoveElement
      <4> QED BY <2>1, <4>1, FS_CardinalityType
    <3> HIDE DEF n
    <3> QED BY <1>1, <3>1
  <2>3. sent + 1 <= Allowance
    <3> HIDE DEF n
    <3> QED BY <1>1, <2>2
  <2>4. Restarts' /\ made' <= restarts' * Allowance + sent' /\ sent' <= sent + 1
      BY <2>1, <2>3, StartTrialKeeps
  <2>5. sent' \in Nat
      BY <2>1, StartTrialType
  <2>6. Rates'
    <3>1. sent' + Cardinality(asking') <= Allowance
          /\ recent' + Cardinality(asking') <= MinuteLimit + m - 1
      <4> HIDE DEF n
      <4> QED BY <1>1, <2>1, <2>4, <2>5
    <3> QED BY <1>1, <3>1 DEF Rates
  <2> QED BY <1>1, <2>4, <2>6 DEF ChatInv
<1>5. ASSUME NEW t \in Tabs, NoAnswer(t)
      PROVE  ChatInv'
  <2>1. Cardinality(asking') = n - 1 /\ UNCHANGED <<trial, sent, recent, made, restarts>>
        /\ asking' = asking \ {t} /\ unstarted' = unstarted \ {t}
      BY <1>3, <1>5 DEF NoAnswer
  <2>2. Rates'
    <3>1. sent + Cardinality(asking') <= Allowance
          /\ recent + Cardinality(asking') <= MinuteLimit + m - 1
      <4> HIDE DEF n
      <4> QED BY <1>1, <2>1
    <3> QED BY <1>1, <2>1, <3>1 DEF Rates
  <2>3. Restarts'
      BY <2>1, FewerHolders DEF ChatInv
  <2> QED BY <1>1, <2>1, <2>2, <2>3 DEF ChatInv
<1>6. ASSUME NEW x \in Syncs, SyncLoads(x)
      PROVE  ChatInv'
  <2>1. UNCHANGED <<trial, asking, sent, recent, made, restarts>> /\ trial = "not_started"
        /\ unstarted \subseteq unstarted'
      BY <1>6 DEF SyncLoads
  <2> QED BY <2>1 DEF ChatInv, Rates, Restarts, Allowance
<1>7. ASSUME NEW x \in Syncs, SyncEnds(x)
      PROVE  ChatInv'
  <2>1. UNCHANGED <<asking, recent>> /\ asking' = asking \ {x}
      BY <1>7 DEF SyncEnds, TypeOK
  <2>2. CASE StartTrial(x, 0)
    <3>1. sent + 0 <= Allowance
      <4> HIDE DEF n
      <4> QED BY <1>1
    <3>2. Restarts' /\ made' <= restarts' * Allowance + sent' /\ sent' <= sent + 0
        BY <2>1, <2>2, <3>1, StartTrialKeeps
    <3>3. sent' \in Nat
        BY <2>2, StartTrialType
    <3>4. Rates'
      <4>1. sent' + n <= Allowance
        <5> HIDE DEF n
        <5> QED BY <1>1, <3>2, <3>3
      <4> QED BY <1>1, <2>1, <4>1 DEF Rates
    <3> QED BY <1>1, <3>2, <3>4 DEF ChatInv
  <2>3. CASE unstarted' = unstarted \ {x} /\ UNCHANGED <<trial, sent, made, restarts>>
    <3>1. Restarts'
        BY <2>1, <2>3, FewerHolders DEF ChatInv
    <3> QED BY <1>1, <2>1, <2>3, <3>1 DEF ChatInv, Rates
  <2> QED BY <1>7, <2>2, <2>3 DEF SyncEnds
<1>8. CASE Ages
  <2>1. UNCHANGED <<trial, asking, unstarted, sent, made, restarts>> /\ recent' = recent - 1 /\ recent > 0
      BY <1>8 DEF Ages
  <2>2. recent' + Cardinality(asking') <= MinuteLimit + m - 1
    <3>1. Cardinality(asking') = n
        BY <2>1
    <3> HIDE DEF n
    <3> QED BY <1>1, <2>1, <3>1
  <2> QED BY <1>1, <2>1, <2>2 DEF ChatInv, Rates, Restarts
<1>9. CASE TrialEnds
  <2>1. UNCHANGED <<asking, unstarted, sent, recent, made, restarts>>
        /\ trial # "not_started" /\ trial' # "not_started"
      BY <1>9 DEF TrialEnds
  <2> QED BY <1>1, <2>1 DEF ChatInv, Rates, Restarts
<1>10. CASE UNCHANGED chat
  <2>1. UNCHANGED <<trial, asking, unstarted, sent, recent, made, restarts>>
      BY <1>10 DEF chat
  <2> QED BY <1>1, <2>1 DEF ChatInv, Rates, Restarts
<1>11. Trader \/ Producer \/ Redis \/ UNCHANGED vars => UNCHANGED chat
    BY DEF Trader, Close, Delete, Tick, CleanUp, CheckIn, Producer, Ingest, Dashboard, Produce,
           DispatchFails, Regenerate, Redis, Lapse, CacheFails, CacheReturns, vars
<1>12. \A k \in Workers : Worker(k) \/ TaskFails(k) \/ Crash(k) => UNCHANGED chat
    BY DEF Worker, TaskStart, TaskSaves, TaskEnds, TaskFails, Crash
<1> QED BY <1>2, <1>4, <1>5, <1>6, <1>7, <1>8, <1>9, <1>10, <1>11, <1>12 DEF Next, Chat

\* The limits are read before the model is asked and counted after it answered:
\* overlapping requests exceed them by at most their number less one.  The trial's
\* start is read with them: the requests and syncs that found none begin the count
\* anew, and the trial has an allowance more for each but one of them.
THEOREM ChatIsLimited == Spec => []ChatWithinLimit
<1>1. Init => ChatInv
  <2> SUFFICES ASSUME Init PROVE ChatInv
      OBVIOUS
  <2>1. TypeOK
      BY InitType
  <2>2. Cardinality(asking) = 0 /\ Cardinality(unstarted) = 0
        /\ sent = 0 /\ recent = 0 /\ made = 0 /\ restarts = 0 /\ asking = {}
      BY FS_EmptySet DEF Init
  <2>3. /\ Cardinality(Tabs) \in Nat \ {0} /\ Cardinality(Tabs \cup Syncs) \in Nat \ {0}
        /\ Allowance \in Nat
      BY <2>1, ChatNumbers
  <2>4. Rates
      BY <2>2, <2>3 DEF Rates, Allowance
  <2>5. Restarts
      BY <2>2, <2>3 DEF Restarts
  <2>6. restarts * Allowance = 0
      BY <2>2, <2>3
  <2> QED BY <2>2, <2>4, <2>5, <2>6 DEF ChatInv
<1>2. TypeOK /\ ChatInv /\ [Next]_vars => ChatInv'
    BY ChatStep
<1>3. TypeOK /\ ChatInv => ChatWithinLimit
  <2> SUFFICES ASSUME TypeOK, ChatInv PROVE ChatWithinLimit
      OBVIOUS
  <2> DEFINE product == restarts * Allowance
             n == Cardinality(asking)
             m == Cardinality(Tabs)
             u == Cardinality(unstarted)
             h == Cardinality(Tabs \cup Syncs)
  <2>1. /\ n \in Nat /\ m \in Nat /\ u \in Nat /\ h \in Nat \ {0} /\ Allowance \in Nat
        /\ sent \in Nat /\ recent \in Nat /\ made \in Nat /\ restarts \in Nat
      BY ChatNumbers
  <2>2. /\ product \in Nat /\ (restarts + 1) * Allowance = product + Allowance
        /\ made <= product + sent
      BY <2>1, OneMoreAllowance DEF ChatInv
  <2>3. sent + n <= Allowance /\ recent + n <= MinuteLimit + m - 1
      BY DEF ChatInv, Rates
  <2>4. restarts = 0 \/ restarts + u < h
      BY DEF ChatInv, Restarts
  <2> HIDE DEF product, n, m, u, h
  <2>5. sent <= Allowance /\ recent <= MinuteLimit + m - 1 /\ restarts < h
      BY <2>1, <2>3, <2>4
  <2>6. made <= (restarts + 1) * Allowance
    <3>1. made <= product + Allowance
        BY <2>1, <2>2, <2>5
    <3> QED BY <2>2, <3>1
  <2> QED BY <2>5, <2>6 DEF ChatWithinLimit, m, h
<1> QED BY <1>1, <1>2, <1>3, WeeklyTypeCorrect, PTL DEF Spec
=============================================================================
