------------------------------ MODULE OpsProofs ------------------------------
(***************************************************************************)
(* The broker refresh, the monitoring and the broker names, for any        *)
(* requests, workers, VMs, checks, processes and tables of aliases.  Of a  *)
(* refresh: the runtime lock is a lease (a refinement), which keeps the    *)
(* jobs apart until it lapses, and nothing is left behind.  Of the         *)
(* monitoring: a delay is mailed about once.  Of the names: what a process *)
(* asks the terminal for is read back as the same instrument.  Of the      *)
(* cached pages: what they may show that is not the journal.               *)
(***************************************************************************)
EXTENDS Refresh, Monitor, Pages, Symbols, SequenceTheorems, TLAPS

-----------------------------------------------------------------------------
(* The broker refresh *)

\* The copy of a task appears when the task itself is over.
CopyComesLater ==
    \A r \in Requests : phase[<<r, 0>>] \in {"new", "queued"} => phase[<<r, 1>>] = "new"

\* A worker runs one job at a time.
OneJobEach ==
    \A i, j \in Jobs :
        phase[i] \in Active /\ phase[j] \in Active /\ job[i].by = job[j].by => i = j

\* Only jobs that drive the window have a terminal.
TerminalsDriven == \A j \in terminal : phase[j] \in Driving \/ j \in lost

GlobalOwned == global # Nobody => global \in Holding \/ global \in lost

GuiOwned ==
    \A v \in Machines :
        gui[v] # Nobody =>
           \/ gui[v] \in lost
           \/ job[gui[v]].vm = v /\ phase[gui[v]] \in Active \ {"started"}

\* Whoever is about to give the locks back has answered.
AnsweredInTime ==
    \A j \in Jobs : phase[j] \in {"leaving", "closing", "over"} => j \in answered \cup lost

\* As long as the runtime lock did not lapse, whoever is inside holds it.
HolderInside == lapsed \/ \A j \in Holding : j = global

RefreshInv ==
    /\ RefreshTypeOK
    /\ CopyComesLater /\ OneJobEach
    /\ TerminalsDriven /\ GlobalOwned /\ GuiOwned /\ AnsweredInTime
    /\ HolderInside

USE RefreshAssumption

LEMMA JobsArePairs ==
    /\ Nobody \notin Jobs
    /\ \A r \in Requests : <<r, 0>> \in Jobs /\ <<r, 1>> \in Jobs
    /\ \A j \in Jobs : Copy(j) \in Jobs /\ j[1] \in Requests /\ (j = <<j[1], 0>> \/ j = Copy(j))
BY DEF Jobs, Copy

LEMMA InvInitially == RefreshInit => RefreshInv
<1> SUFFICES ASSUME RefreshInit PROVE RefreshInv
    OBVIOUS
<1>1. RefreshTypeOK
    BY JobsArePairs DEF RefreshInit, RefreshTypeOK, Ticket, Phases
<1>2. CopyComesLater /\ OneJobEach
    BY JobsArePairs DEF RefreshInit, CopyComesLater, OneJobEach, Active, Driving
<1>3. TerminalsDriven /\ GlobalOwned /\ GuiOwned /\ AnsweredInTime
    BY DEF RefreshInit, TerminalsDriven, GlobalOwned, GuiOwned, AnsweredInTime
<1>4. HolderInside
    BY DEF RefreshInit, HolderInside, Holding, Driving
<1> QED BY <1>1, <1>2, <1>3, <1>4 DEF RefreshInv
-----------------------------------------------------------------------------
(* The steps that move one job and leave the tickets alone. *)

\* What every invariant but those on the locks asks of such a step.
Moves(j, p) ==
    /\ phase' = [phase EXCEPT ![j] = p]
    /\ UNCHANGED job
    /\ answered \subseteq answered' /\ answered' \subseteq Jobs
    /\ lost \subseteq lost' /\ lost' \subseteq Jobs
    /\ p \in {"leaving", "closing", "over"} => j \in answered' \cup lost'

LEMMA JobMoves ==
    ASSUME RefreshInv, NEW j \in Jobs, NEW p \in Phases, Moves(j, p),
           phase[j] \in Active, p \in Active \cup {"over"}
    PROVE  /\ phase' \in [Jobs -> Phases] /\ job' \in [Jobs -> Ticket]
           /\ phase'[j] = p
           /\ \A k \in Jobs \ {j} : phase'[k] = phase[k]
           /\ CopyComesLater' /\ OneJobEach' /\ AnsweredInTime'
<1>1. /\ phase' \in [Jobs -> Phases] /\ job' \in [Jobs -> Ticket] /\ phase'[j] = p
      /\ \A k \in Jobs \ {j} : phase'[k] = phase[k]
    BY DEF RefreshInv, RefreshTypeOK, Moves
<1>2. CopyComesLater'
    BY <1>1, JobsArePairs DEF RefreshInv, CopyComesLater, Active, Driving
<1>3. OneJobEach'
    BY <1>1 DEF RefreshInv, OneJobEach, Moves
<1>4. AnsweredInTime'
    BY <1>1 DEF RefreshInv, AnsweredInTime, Moves
<1> QED BY <1>1, <1>2, <1>3, <1>4

\* The window lock.
LEMMA ClaimGuiKeeps ==
    ASSUME RefreshInv, NEW j \in Jobs, ClaimGui(j)
    PROVE  RefreshInv'
<1>1. PICK p \in {"gui", "over"} : Moves(j, p)
    BY DEF ClaimGui, Moves, Move, Answer, RefreshInv, RefreshTypeOK
<1>2. phase[j] \in Active
    BY DEF ClaimGui, Active, Driving
<1>3. /\ phase' \in [Jobs -> Phases] /\ job' \in [Jobs -> Ticket] /\ job' = job
      /\ phase'[j] = p /\ \A k \in Jobs \ {j} : phase'[k] = phase[k]
      /\ CopyComesLater' /\ OneJobEach' /\ AnsweredInTime'
    BY <1>1, <1>2, JobMoves DEF Phases, Active, Driving, Moves
<1>4. RefreshTypeOK'
    BY <1>1, <1>3 DEF RefreshInv, RefreshTypeOK, ClaimGui, Moves, Terminate
<1>5. TerminalsDriven'
    BY <1>1, <1>3 DEF RefreshInv, RefreshTypeOK, TerminalsDriven, ClaimGui, Moves, Driving, Terminate
<1>6. GlobalOwned'
    BY <1>1, <1>3, JobsArePairs DEF RefreshInv, RefreshTypeOK, GlobalOwned, ClaimGui, Moves, Holding, Driving
<1>7. GuiOwned'
  <2>1. p = "gui" => gui' = [gui EXCEPT ![job[j].vm] = j]
    BY <1>1, <1>3 DEF ClaimGui, Move, RefreshInv, RefreshTypeOK
  <2>2. p = "over" => gui' = gui
    BY <1>1, <1>3 DEF ClaimGui, Move, RefreshInv, RefreshTypeOK
  <2>3. SUFFICES ASSUME NEW v \in Machines, gui'[v] # Nobody, gui'[v] \notin lost'
                 PROVE  job'[gui'[v]].vm = v /\ phase'[gui'[v]] \in Active \ {"started"}
    BY DEF GuiOwned
  <2>4. CASE p = "gui" /\ v = job[j].vm
    BY <1>3, <2>1, <2>4, JobsArePairs DEF RefreshInv, RefreshTypeOK, Active
  <2>5. CASE ~(p = "gui" /\ v = job[j].vm)
    <3>1. gui'[v] = gui[v] /\ gui[v] \in Jobs \ {j} /\ gui[v] \notin lost
      BY <1>1, <2>1, <2>2, <2>3, <2>5 DEF RefreshInv, RefreshTypeOK, GuiOwned, Moves, ClaimGui
    <3> QED BY <1>3, <3>1, JobsArePairs DEF RefreshInv, GuiOwned
  <2> QED BY <2>4, <2>5
<1>8. HolderInside'
    BY <1>1, <1>3, JobsArePairs DEF RefreshInv, RefreshTypeOK, HolderInside, ClaimGui, Moves, Holding, Driving
<1> QED BY <1>3, <1>4, <1>5, <1>6, <1>7, <1>8 DEF RefreshInv

\* A dry run.
LEMMA DryRunKeeps ==
    ASSUME RefreshInv, NEW j \in Jobs, DryRun(j)
    PROVE  RefreshInv'
<1>1. PICK p \in {"closing"} : Moves(j, p)
    BY DEF DryRun, Moves, Move, Answer, RefreshInv, RefreshTypeOK
<1>2. phase[j] \in Active
    BY DEF DryRun, Active, Driving
<1>3. /\ phase' \in [Jobs -> Phases] /\ job' \in [Jobs -> Ticket] /\ job' = job
      /\ phase'[j] = p /\ \A k \in Jobs \ {j} : phase'[k] = phase[k]
      /\ CopyComesLater' /\ OneJobEach' /\ AnsweredInTime'
    BY <1>1, <1>2, JobMoves DEF Phases, Active, Driving, Moves
<1>4. RefreshTypeOK'
    BY <1>1, <1>3 DEF RefreshInv, RefreshTypeOK, DryRun, Moves, Terminate
<1>5. TerminalsDriven'
    BY <1>1, <1>3 DEF RefreshInv, RefreshTypeOK, TerminalsDriven, DryRun, Moves, Driving, Terminate
<1>6. GlobalOwned'
    BY <1>1, <1>3, JobsArePairs DEF RefreshInv, RefreshTypeOK, GlobalOwned, DryRun, Moves, Holding, Driving
<1>7. GuiOwned'
    BY <1>1, <1>3, JobsArePairs DEF RefreshInv, RefreshTypeOK, GuiOwned, DryRun, Moves, Active, Driving
<1>8. HolderInside'
    BY <1>1, <1>3, JobsArePairs DEF RefreshInv, RefreshTypeOK, HolderInside, DryRun, Moves, Holding, Driving
<1> QED BY <1>3, <1>4, <1>5, <1>6, <1>7, <1>8 DEF RefreshInv

\* The runtime lock: nobody is inside when the key is free.
LEMMA ClaimGlobalKeeps ==
    ASSUME RefreshInv, NEW j \in Jobs, ClaimGlobal(j)
    PROVE  RefreshInv'
<1>1. PICK p \in {"snapshot", "closing"} : Moves(j, p)
    BY DEF ClaimGlobal, Moves, Move, Answer, RefreshInv, RefreshTypeOK
<1>2. phase[j] \in Active
    BY DEF ClaimGlobal, Active, Driving
<1>3. /\ phase' \in [Jobs -> Phases] /\ job' \in [Jobs -> Ticket] /\ job' = job
      /\ phase'[j] = p /\ \A k \in Jobs \ {j} : phase'[k] = phase[k]
      /\ CopyComesLater' /\ OneJobEach' /\ AnsweredInTime'
    BY <1>1, <1>2, JobMoves DEF Phases, Active, Driving, Moves
<1>4. RefreshTypeOK'
    BY <1>1, <1>3 DEF RefreshInv, RefreshTypeOK, ClaimGlobal, Moves, Terminate
<1>5. TerminalsDriven'
    BY <1>1, <1>3 DEF RefreshInv, RefreshTypeOK, TerminalsDriven, ClaimGlobal, Moves, Driving, Terminate
<1>5a. /\ p = "snapshot" => global = Nobody /\ global' = j /\ Holding' = Holding \cup {j}
       /\ p = "closing" => global' = global /\ Holding' = Holding
    BY <1>1, <1>3 DEF ClaimGlobal, Move, RefreshInv, RefreshTypeOK, Holding, Driving
<1>6. GlobalOwned'
    BY <1>1, <1>5a DEF RefreshInv, GlobalOwned, Moves
<1>7. GuiOwned'
    BY <1>1, <1>3, JobsArePairs DEF RefreshInv, RefreshTypeOK, GuiOwned, ClaimGlobal, Moves, Active, Driving
<1>8. HolderInside'
  <2>1. Holding \subseteq Jobs /\ lapsed' = lapsed
    BY DEF Holding, ClaimGlobal
  <2> QED BY <1>1, <1>5a, <2>1, JobsArePairs DEF RefreshInv, HolderInside
<1> QED BY <1>3, <1>4, <1>5, <1>6, <1>7, <1>8 DEF RefreshInv

\* The automation, as long as it goes on.
LEMMA AutomationKeeps ==
    ASSUME RefreshInv, NEW j \in Jobs, Launch(j) \/ WindowShown(j) \/ DialogThere(j) \/ DialogOpened(j) \/ Searched(j) \/ Pressed(j)
    PROVE  RefreshInv'
<1>1. PICK p \in {"window", "dialog", "search", "press", "verdict"} : Moves(j, p)
    BY DEF Launch, WindowShown, DialogThere, DialogOpened, Searched, Pressed, Drive, Moves, Move, Answer, RefreshInv, RefreshTypeOK
<1>2. phase[j] \in Active
    BY DEF Launch, WindowShown, DialogThere, DialogOpened, Searched, Pressed, Drive, Active, Driving
<1>3. /\ phase' \in [Jobs -> Phases] /\ job' \in [Jobs -> Ticket] /\ job' = job
      /\ phase'[j] = p /\ \A k \in Jobs \ {j} : phase'[k] = phase[k]
      /\ CopyComesLater' /\ OneJobEach' /\ AnsweredInTime'
    BY <1>1, <1>2, JobMoves DEF Phases, Active, Driving, Moves
<1>4. RefreshTypeOK'
    BY <1>1, <1>3 DEF RefreshInv, RefreshTypeOK, Launch, WindowShown, DialogThere, DialogOpened, Searched, Pressed, Drive, Moves, Terminate
<1>5. TerminalsDriven'
    BY <1>1, <1>3 DEF RefreshInv, RefreshTypeOK, TerminalsDriven, Launch, WindowShown, DialogThere, DialogOpened, Searched, Pressed, Drive, Moves, Driving, Terminate
<1>6. GlobalOwned'
    BY <1>1, <1>3, JobsArePairs DEF RefreshInv, RefreshTypeOK, GlobalOwned, Launch, WindowShown, DialogThere, DialogOpened, Searched, Pressed, Drive, Moves, Holding, Driving
<1>7. GuiOwned'
    BY <1>1, <1>3, JobsArePairs DEF RefreshInv, RefreshTypeOK, GuiOwned, Launch, WindowShown, DialogThere, DialogOpened, Searched, Pressed, Drive, Moves, Active, Driving
<1>8. HolderInside'
    BY <1>1, <1>3, JobsArePairs DEF RefreshInv, RefreshTypeOK, HolderInside, Launch, WindowShown, DialogThere, DialogOpened, Searched, Pressed, Drive, Moves, Holding, Driving
<1> QED BY <1>3, <1>4, <1>5, <1>6, <1>7, <1>8 DEF RefreshInv

\* The automation ends: the terminal goes, the answer stays.
LEMMA AutomationEnds ==
    ASSUME RefreshInv, NEW j \in Jobs, Verdict(j) \/ StepFails(j)
    PROVE  RefreshInv'
<1>1. PICK p \in {"leaving"} : Moves(j, p)
    BY DEF Verdict, StepFails, Moves, Move, Answer, RefreshInv, RefreshTypeOK
<1>2. phase[j] \in Active
    BY DEF Verdict, StepFails, Active, Driving
<1>3. /\ phase' \in [Jobs -> Phases] /\ job' \in [Jobs -> Ticket] /\ job' = job
      /\ phase'[j] = p /\ \A k \in Jobs \ {j} : phase'[k] = phase[k]
      /\ CopyComesLater' /\ OneJobEach' /\ AnsweredInTime'
    BY <1>1, <1>2, JobMoves DEF Phases, Active, Driving, Moves
<1>4. RefreshTypeOK'
    BY <1>1, <1>3 DEF RefreshInv, RefreshTypeOK, Verdict, StepFails, Moves, Terminate
<1>5. TerminalsDriven'
    BY <1>1, <1>3 DEF RefreshInv, RefreshTypeOK, TerminalsDriven, Verdict, StepFails, Moves, Driving, Terminate
<1>6. GlobalOwned'
    BY <1>1, <1>3, JobsArePairs DEF RefreshInv, RefreshTypeOK, GlobalOwned, Verdict, StepFails, Moves, Holding, Driving
<1>7. GuiOwned'
    BY <1>1, <1>3, JobsArePairs DEF RefreshInv, RefreshTypeOK, GuiOwned, Verdict, StepFails, Moves, Active, Driving
<1>8. HolderInside'
    BY <1>1, <1>3, JobsArePairs DEF RefreshInv, RefreshTypeOK, HolderInside, Verdict, StepFails, Moves, Holding, Driving
<1> QED BY <1>3, <1>4, <1>5, <1>6, <1>7, <1>8 DEF RefreshInv

\* The release of the runtime lock ...
LEMMA ReleaseGlobalKeeps ==
    ASSUME RefreshInv, NEW j \in Jobs, ReleaseGlobal(j)
    PROVE  RefreshInv'
<1>1. PICK p \in {"closing"} : Moves(j, p)
    BY DEF ReleaseGlobal, Moves, Move, RefreshInv, RefreshTypeOK, AnsweredInTime
<1>2. phase[j] \in Active
    BY DEF ReleaseGlobal, Active, Driving
<1>3. /\ phase' \in [Jobs -> Phases] /\ job' \in [Jobs -> Ticket] /\ job' = job
      /\ phase'[j] = p /\ \A k \in Jobs \ {j} : phase'[k] = phase[k]
      /\ CopyComesLater' /\ OneJobEach' /\ AnsweredInTime'
    BY <1>1, <1>2, JobMoves DEF Phases, Active, Driving, Moves
<1>4. RefreshTypeOK'
    BY <1>1, <1>3 DEF RefreshInv, RefreshTypeOK, ReleaseGlobal, Moves, Terminate
<1>5. TerminalsDriven'
    BY <1>1, <1>3 DEF RefreshInv, RefreshTypeOK, TerminalsDriven, ReleaseGlobal, Moves, Driving, Terminate
<1>6. GlobalOwned'
    BY <1>1, <1>3, JobsArePairs DEF RefreshInv, RefreshTypeOK, GlobalOwned, ReleaseGlobal, Moves, Holding, Driving
<1>7. GuiOwned'
    BY <1>1, <1>3, JobsArePairs DEF RefreshInv, RefreshTypeOK, GuiOwned, ReleaseGlobal, Moves, Active, Driving
<1>8. HolderInside'
    BY <1>1, <1>3, JobsArePairs DEF RefreshInv, RefreshTypeOK, HolderInside, ReleaseGlobal, Moves, Holding, Driving
<1> QED BY <1>3, <1>4, <1>5, <1>6, <1>7, <1>8 DEF RefreshInv

\* ... and of the window lock.
LEMMA ReleaseGuiKeeps ==
    ASSUME RefreshInv, NEW j \in Jobs, ReleaseGui(j)
    PROVE  RefreshInv'
<1>1. PICK p \in {"over"} : Moves(j, p)
    BY DEF ReleaseGui, Moves, Move, RefreshInv, RefreshTypeOK, AnsweredInTime
<1>2. phase[j] \in Active
    BY DEF ReleaseGui, Active, Driving
<1>3. /\ phase' \in [Jobs -> Phases] /\ job' \in [Jobs -> Ticket] /\ job' = job
      /\ phase'[j] = p /\ \A k \in Jobs \ {j} : phase'[k] = phase[k]
      /\ CopyComesLater' /\ OneJobEach' /\ AnsweredInTime'
    BY <1>1, <1>2, JobMoves DEF Phases, Active, Driving, Moves
<1>4. RefreshTypeOK'
    BY <1>1, <1>3 DEF RefreshInv, RefreshTypeOK, ReleaseGui, Moves, Terminate
<1>5. TerminalsDriven'
    BY <1>1, <1>3 DEF RefreshInv, RefreshTypeOK, TerminalsDriven, ReleaseGui, Moves, Driving, Terminate
<1>6. GlobalOwned'
    BY <1>1, <1>3, JobsArePairs DEF RefreshInv, RefreshTypeOK, GlobalOwned, ReleaseGui, Moves, Holding, Driving
<1>7. GuiOwned'
    BY <1>1, <1>3, JobsArePairs DEF RefreshInv, RefreshTypeOK, GuiOwned, ReleaseGui, Moves, Active, Driving
<1>8. HolderInside'
    BY <1>1, <1>3, JobsArePairs DEF RefreshInv, RefreshTypeOK, HolderInside, ReleaseGui, Moves, Holding, Driving
<1> QED BY <1>3, <1>4, <1>5, <1>6, <1>7, <1>8 DEF RefreshInv

\* Redis refuses.
LEMMA CacheFailsKeeps ==
    ASSUME RefreshInv, NEW j \in Jobs, CacheFails(j)
    PROVE  RefreshInv'
<1>1. PICK p \in {"closing", "over"} : Moves(j, p)
    BY DEF CacheFails, Moves, Move, Answer, RefreshInv, RefreshTypeOK
<1>2. phase[j] \in Active
    BY DEF CacheFails, Active, Driving
<1>3. /\ phase' \in [Jobs -> Phases] /\ job' \in [Jobs -> Ticket] /\ job' = job
      /\ phase'[j] = p /\ \A k \in Jobs \ {j} : phase'[k] = phase[k]
      /\ CopyComesLater' /\ OneJobEach' /\ AnsweredInTime'
    BY <1>1, <1>2, JobMoves DEF Phases, Active, Driving, Moves
<1>4. RefreshTypeOK'
    BY <1>1, <1>3 DEF RefreshInv, RefreshTypeOK, CacheFails, Moves, Terminate
<1>5. TerminalsDriven'
    BY <1>1, <1>3 DEF RefreshInv, RefreshTypeOK, TerminalsDriven, CacheFails, Moves, Driving, Terminate
<1>6. GlobalOwned'
    BY <1>1, <1>3, JobsArePairs DEF RefreshInv, RefreshTypeOK, GlobalOwned, CacheFails, Moves, Holding, Driving
<1>7. GuiOwned'
    BY <1>1, <1>3, JobsArePairs DEF RefreshInv, RefreshTypeOK, GuiOwned, CacheFails, Moves, Active, Driving
<1>8. HolderInside'
    BY <1>1, <1>3, JobsArePairs DEF RefreshInv, RefreshTypeOK, HolderInside, CacheFails, Moves, Holding, Driving
<1> QED BY <1>3, <1>4, <1>5, <1>6, <1>7, <1>8 DEF RefreshInv
-----------------------------------------------------------------------------
(* The steps of the administrator, of the queue, of crashes and of time. *)

\* A click queues a job that was new.
LEMMA RequestKeeps ==
    ASSUME RefreshInv, NEW r \in Requests, NEW v \in Machines, NEW dry \in BOOLEAN,
           Request(r, v, dry)
    PROVE  RefreshInv'
<1> DEFINE j == <<r, 0>>
<1>1. /\ j \in Jobs /\ phase[j] = "new"
      /\ UNCHANGED <<enabled, terminal, gui, global, answered, lost, lapsed>>
    BY JobsArePairs DEF Request
<1>2. /\ phase' \in [Jobs -> Phases] /\ phase'[j] = "queued"
      /\ \A k \in Jobs \ {j} : phase'[k] = phase[k] /\ job'[k] = job[k]
    BY <1>1 DEF Request, Move, RefreshInv, RefreshTypeOK, Phases
<1>3. job' \in [Jobs -> Ticket]
  <2>1. PICK t \in Ticket : job' = [job EXCEPT ![j] = t]
    <3>1. /\ job[j] \in Ticket
          /\ [job[j] EXCEPT !.vm = v, !.dry = dry] \in Ticket
      BY <1>1 DEF RefreshInv, RefreshTypeOK, Ticket
    <3>2. job' = [job EXCEPT ![j] = [job[j] EXCEPT !.vm = v, !.dry = dry]]
      BY <1>1 DEF Request, RefreshInv, RefreshTypeOK
    <3> QED BY <3>1, <3>2
  <2> QED BY <2>1, <1>1 DEF RefreshInv, RefreshTypeOK
<1>4. RefreshTypeOK'
    BY <1>2, <1>3 DEF Request, RefreshInv, RefreshTypeOK
<1>5. CopyComesLater' /\ OneJobEach' /\ AnsweredInTime'
    BY <1>1, <1>2, JobsArePairs DEF RefreshInv, CopyComesLater, OneJobEach,
       AnsweredInTime, Active, Driving
<1>6. Holding' = Holding
    BY <1>1, <1>2 DEF Holding, Driving
<1>7. TerminalsDriven' /\ GlobalOwned' /\ HolderInside'
    BY <1>1, <1>2, <1>6 DEF RefreshInv, RefreshTypeOK, TerminalsDriven, GlobalOwned,
       HolderInside, Driving
<1>8. GuiOwned'
    BY <1>1, <1>2 DEF RefreshInv, RefreshTypeOK, GuiOwned, Active, Driving
<1> QED BY <1>4, <1>5, <1>7, <1>8 DEF RefreshInv

\* The guard puts a copy into the queue that nobody has seen yet.
LEMMA WrongVmKeeps ==
    ASSUME RefreshInv, NEW j \in Jobs, NEW w \in Workers, WrongVm(w, j)
    PROVE  RefreshInv' /\ Holding' = Holding
<1>1. /\ j = Copy(j) \/ phase[Copy(j)] = "new"
      /\ Copy(j) \in Jobs /\ phase[j] = "queued"
    BY JobsArePairs DEF WrongVm, RefreshInv, CopyComesLater, Copy
<1>2. /\ phase' \in [Jobs -> Phases] /\ phase'[j] = "over"
      /\ Copy(j) # j => phase'[Copy(j)] = "queued"
      /\ \A k \in Jobs \ {j, Copy(j)} : phase'[k] = phase[k]
    BY <1>1 DEF WrongVm, RefreshInv, RefreshTypeOK, Phases
<1>3. job' \in [Jobs -> Ticket] /\ \A k \in Jobs \ {Copy(j)} : job'[k] = job[k]
    BY <1>1 DEF WrongVm, RefreshInv, RefreshTypeOK
<1>4. /\ answered \subseteq answered' /\ lost \subseteq lost' /\ j \in answered' \cup lost'
      /\ answered' \subseteq Jobs /\ lost' \subseteq Jobs
    BY DEF WrongVm, Answer, RefreshInv, RefreshTypeOK
<1>5. RefreshTypeOK'
    BY <1>2, <1>3, <1>4 DEF WrongVm, RefreshInv, RefreshTypeOK
<1>6. CopyComesLater'
    BY <1>1, <1>2, JobsArePairs DEF RefreshInv, CopyComesLater, Copy
<1>7. OneJobEach' /\ AnsweredInTime'
    BY <1>1, <1>2, <1>3, <1>4 DEF RefreshInv, OneJobEach, AnsweredInTime, Active, Driving
<1>8. Holding' = Holding
    BY <1>1, <1>2 DEF Holding, Driving
<1>9. TerminalsDriven' /\ GlobalOwned' /\ HolderInside'
    BY <1>1, <1>2, <1>4, <1>8 DEF WrongVm, RefreshInv, RefreshTypeOK, TerminalsDriven,
       GlobalOwned, HolderInside, Driving
<1>10. GuiOwned'
    BY <1>1, <1>2, <1>3, <1>4 DEF WrongVm, RefreshInv, RefreshTypeOK, GuiOwned, Active, Driving
<1> QED BY <1>5, <1>6, <1>7, <1>8, <1>9, <1>10 DEF RefreshInv

\* A worker starts a job only when it runs no other one.
LEMMA StartKeeps ==
    ASSUME RefreshInv, NEW j \in Jobs, NEW w \in Workers, Start(w, j)
    PROVE  RefreshInv' /\ Holding' = Holding
<1>1. phase[j] = "queued" /\ \A k \in Jobs : phase[k] \in Active => job[k].by # w
    BY DEF Start, Idle
<1>2. PICK p \in {"started", "over"} :
        /\ phase' = [phase EXCEPT ![j] = p]
        /\ p = "over" => j \in answered' \cup lost'
        /\ answered \subseteq answered' /\ lost \subseteq lost'
        /\ answered' \subseteq Jobs /\ lost' \subseteq Jobs
    BY DEF Start, Answer, Move, RefreshInv, RefreshTypeOK
<1>3. /\ phase' \in [Jobs -> Phases] /\ phase'[j] = p
      /\ \A k \in Jobs \ {j} : phase'[k] = phase[k]
    BY <1>2 DEF RefreshInv, RefreshTypeOK, Phases, Active
<1>4. /\ job' \in [Jobs -> Ticket] /\ job'[j].by = w /\ job'[j].vm = job[j].vm
      /\ \A k \in Jobs \ {j} : job'[k] = job[k]
  <2>1. /\ [job[j] EXCEPT !.by = w] \in Ticket
        /\ [job[j] EXCEPT !.by = w].by = w /\ [job[j] EXCEPT !.by = w].vm = job[j].vm
    <3>1. job[j] \in Ticket
      BY DEF RefreshInv, RefreshTypeOK
    <3> QED BY <3>1 DEF Ticket
  <2>2. job' = [job EXCEPT ![j] = [job[j] EXCEPT !.by = w]]
    BY DEF Start
  <2>3. PICK t \in Ticket : t = [job[j] EXCEPT !.by = w] /\ job' = [job EXCEPT ![j] = t]
    BY <2>1, <2>2
  <2> QED BY <2>1, <2>3 DEF RefreshInv, RefreshTypeOK
<1>5. RefreshTypeOK'
    BY <1>2, <1>3, <1>4 DEF Start, RefreshInv, RefreshTypeOK
<1>6. CopyComesLater' /\ AnsweredInTime'
    BY <1>1, <1>2, <1>3, JobsArePairs DEF RefreshInv, CopyComesLater, AnsweredInTime
<1>7. OneJobEach'
    BY <1>1, <1>3, <1>4 DEF RefreshInv, OneJobEach
<1>8. Holding' = Holding
    BY <1>1, <1>3 DEF Holding, Driving
<1>9. TerminalsDriven' /\ GlobalOwned' /\ HolderInside'
    BY <1>1, <1>2, <1>3, <1>8 DEF Start, RefreshInv, RefreshTypeOK, TerminalsDriven,
       GlobalOwned, HolderInside, Driving
<1>10. GuiOwned'
    BY <1>1, <1>2, <1>3, <1>4 DEF Start, RefreshInv, RefreshTypeOK, GuiOwned, Active, Driving
<1> QED BY <1>5, <1>6, <1>7, <1>8, <1>9, <1>10 DEF RefreshInv

\* A crash ends the one job of its worker.
LEMMA CrashKeeps ==
    ASSUME RefreshInv, NEW w \in Workers, Crash(w)
    PROVE  RefreshInv' /\ \E j \in Jobs : Holding' = Holding \ {j}
<1>1. PICK j \in Jobs : phase[j] \in Active /\ job[j].by = w
    BY DEF Crash, Idle
<1>2. {k \in Jobs : phase[k] \in Active /\ job[k].by = w} = {j}
    BY <1>1 DEF RefreshInv, OneJobEach
<1>3. /\ phase' \in [Jobs -> Phases] /\ phase'[j] = "over"
      /\ \A k \in Jobs \ {j} : phase'[k] = phase[k]
      /\ lost' = lost \cup {j}
    BY <1>2 DEF Crash, RefreshInv, RefreshTypeOK, Phases
<1>4. RefreshTypeOK'
    BY <1>3 DEF Crash, RefreshInv, RefreshTypeOK
<1>5. CopyComesLater' /\ OneJobEach' /\ AnsweredInTime'
    BY <1>1, <1>3, JobsArePairs DEF Crash, RefreshInv, CopyComesLater, OneJobEach,
       AnsweredInTime, Active, Driving
<1>6. Holding' = Holding \ {j}
    BY <1>3 DEF Holding, Driving
<1>7. TerminalsDriven' /\ GlobalOwned' /\ HolderInside'
    BY <1>3, <1>6 DEF Crash, RefreshInv, RefreshTypeOK, TerminalsDriven, GlobalOwned,
       HolderInside, Driving
<1>8. GuiOwned'
    BY <1>3 DEF Crash, RefreshInv, RefreshTypeOK, GuiOwned
<1> QED BY <1>4, <1>5, <1>6, <1>7, <1>8 DEF RefreshInv

\* The switch and the clocks.
LEMMA OthersKeep ==
    ASSUME RefreshInv,
           Switch \/ (\E v \in Machines : LapseGui(v)) \/ LapseGlobal \/ UNCHANGED refreshVars
    PROVE  RefreshInv'
<1>1. UNCHANGED <<phase, job, terminal, answered, lost>>
    BY DEF Switch, LapseGui, LapseGlobal, refreshVars
<1>2. RefreshTypeOK'
    BY <1>1 DEF RefreshInv, RefreshTypeOK, Switch, LapseGui, LapseGlobal, refreshVars
<1>3. CopyComesLater' /\ OneJobEach' /\ TerminalsDriven' /\ AnsweredInTime'
    BY <1>1 DEF RefreshInv, CopyComesLater, OneJobEach, TerminalsDriven, AnsweredInTime
<1>4. GlobalOwned' /\ HolderInside'
    BY <1>1 DEF RefreshInv, GlobalOwned, HolderInside, Holding, Switch, LapseGui, LapseGlobal,
       refreshVars
<1>5. GuiOwned'
    BY <1>1 DEF RefreshInv, RefreshTypeOK, GuiOwned, Switch, LapseGui, LapseGlobal, refreshVars
<1> QED BY <1>2, <1>3, <1>4, <1>5 DEF RefreshInv
-----------------------------------------------------------------------------
LEMMA InvKept == RefreshInv /\ [RefreshNext]_refreshVars => RefreshInv'
<1> SUFFICES ASSUME RefreshInv, [RefreshNext]_refreshVars PROVE RefreshInv'
    OBVIOUS
<1>1. CASE \E r \in Requests, v \in Machines, dry \in BOOLEAN : Request(r, v, dry)
    BY <1>1, RequestKeeps
<1>2. CASE \E j \in Jobs, w \in Workers : WrongVm(w, j) \/ Start(w, j)
    BY <1>2, WrongVmKeeps, StartKeeps
<1>3. CASE \E j \in Jobs : WorkerStep(j)
    BY <1>3, ClaimGuiKeeps, DryRunKeeps, ClaimGlobalKeeps, AutomationKeeps, AutomationEnds,
       ReleaseGlobalKeeps, ReleaseGuiKeeps, CacheFailsKeeps DEF WorkerStep
<1>4. CASE \E w \in Workers : Crash(w)
    BY <1>4, CrashKeeps
<1>5. CASE Switch \/ (\E v \in Machines : LapseGui(v)) \/ LapseGlobal \/ UNCHANGED refreshVars
    BY <1>5, OthersKeep
<1> QED BY <1>1, <1>2, <1>3, <1>4, <1>5 DEF RefreshNext, Take

LEMMA InvAlways == RefreshSpec => []RefreshInv
BY InvInitially, InvKept, PTL DEF RefreshSpec

\* Locks, terminals and unanswered pages outlive their job only through a crash
\* or a refusal of Redis (mt5_broker_discovery_refresh.py:1344, :1501, :1555).
THEOREM NothingStays == RefreshSpec => []NothingLeftBehind
<1>1. RefreshInv => NothingLeftBehind
    BY DEF RefreshInv, NothingLeftBehind, TerminalsDriven, GlobalOwned, GuiOwned, AnsweredInTime
<1> QED BY <1>1, InvAlways, PTL

\* Until the 600 s end under a job, at most one job of any VM drives a terminal
\* (acquire_mt5_global_lock, cache.py:377).
THEOREM OneAtATime == RefreshSpec => [](lapsed \/ \A i, j \in Holding : i = j)
<1>1. RefreshInv => (lapsed \/ \A i, j \in Holding : i = j)
    BY DEF RefreshInv, HolderInside
<1> QED BY <1>1, InvAlways, PTL
-----------------------------------------------------------------------------
(* The runtime lock implements Lease: a job is inside while it is Holding. *)

LEMMA LeaseInitImplemented == RefreshInit => GlobalLease!LeaseInit
BY DEF RefreshInit, Holding, Driving, GlobalLease!LeaseInit

\* Nothing but the claim, the release, a refusal, a crash and the TTL touches it.
LEMMA WorkerStepLeases ==
    ASSUME RefreshInv, NEW j \in Jobs, WorkerStep(j)
    PROVE  \/ GlobalLease!Enter(j) \/ GlobalLease!Leave(j) \/ GlobalLease!Abandon(j)
           \/ UNCHANGED <<global, Holding, lapsed>>
<1> USE DEF Move, RefreshInv, RefreshTypeOK, Holding, Driving
<1>1. CASE ClaimGlobal(j)
  <2>1. CASE global = Nobody
    BY <1>1, <2>1 DEF ClaimGlobal, GlobalLease!Enter
  <2>2. CASE global # Nobody
    BY <1>1, <2>2 DEF ClaimGlobal
  <2> QED BY <2>1, <2>2
<1>2. CASE ReleaseGlobal(j)
    BY <1>2 DEF ReleaseGlobal, GlobalLease!Leave
<1>3. CASE CacheFails(j)
  <2>1. CASE phase[j] = "leaving"
    BY <1>3, <2>1 DEF CacheFails, GlobalLease!Abandon
  <2>2. CASE phase[j] # "leaving"
    BY <1>3, <2>2 DEF CacheFails
  <2> QED BY <2>1, <2>2
<1>4. CASE ClaimGui(j) \/ DryRun(j) \/ ReleaseGui(j)
    BY <1>4 DEF ClaimGui, DryRun, ReleaseGui
<1>5. CASE \/ Launch(j) \/ WindowShown(j) \/ DialogThere(j) \/ DialogOpened(j)
           \/ Searched(j) \/ Pressed(j)
    BY <1>5 DEF Launch, WindowShown, DialogThere, DialogOpened, Searched, Pressed, Drive
<1>6. CASE Verdict(j) \/ StepFails(j)
    BY <1>6 DEF Verdict, StepFails
<1> QED BY <1>1, <1>2, <1>3, <1>4, <1>5, <1>6 DEF WorkerStep

LEMMA LeaseStepImplemented ==
    RefreshInv /\ [RefreshNext]_refreshVars => [GlobalLease!LeaseNext]_(GlobalLease!leaseVars)
<1> SUFFICES ASSUME RefreshInv, [RefreshNext]_refreshVars
             PROVE  GlobalLease!LeaseNext \/ UNCHANGED <<global, Holding, lapsed>>
    BY DEF GlobalLease!leaseVars
<1>1. CASE \E r \in Requests, v \in Machines, dry \in BOOLEAN : Request(r, v, dry)
  <2>1. PICK r \in Requests : phase[<<r, 0>>] = "new" /\ Move(<<r, 0>>, "queued")
                               /\ UNCHANGED <<global, lapsed>>
    BY <1>1 DEF Request
  <2> QED BY <2>1, JobsArePairs DEF Move, Holding, Driving, RefreshInv, RefreshTypeOK
<1>2. CASE \E j \in Jobs, w \in Workers : WrongVm(w, j) \/ Start(w, j)
  <2>1. UNCHANGED <<global, lapsed>>
    BY <1>2 DEF WrongVm, Start
  <2> QED BY <1>2, <2>1, WrongVmKeeps, StartKeeps
<1>3. CASE \E j \in Jobs : WorkerStep(j)
    BY <1>3, WorkerStepLeases DEF GlobalLease!LeaseNext
<1>4. CASE \E w \in Workers : Crash(w)
  <2>1. PICK j \in Jobs : Holding' = Holding \ {j}
    BY <1>4, CrashKeeps
  <2>2. UNCHANGED <<global, lapsed>>
    BY <1>4 DEF Crash
  <2>3. CASE j \in Holding
    BY <2>1, <2>2, <2>3 DEF GlobalLease!LeaseNext, GlobalLease!Abandon
  <2>4. CASE j \notin Holding
    BY <2>1, <2>2, <2>4
  <2> QED BY <2>3, <2>4
<1>5. CASE LapseGlobal
    BY <1>5 DEF LapseGlobal, Holding, GlobalLease!LeaseNext, GlobalLease!Lapse
<1>6. CASE Switch \/ (\E v \in Machines : LapseGui(v)) \/ UNCHANGED refreshVars
    BY <1>6 DEF Switch, LapseGui, refreshVars, Holding
<1> QED BY <1>1, <1>2, <1>3, <1>4, <1>5, <1>6 DEF RefreshNext, Take

\* The runtime lock is used as a lease, whatever crashes, refusals and delays
\* there are (mt5_broker_discovery_refresh.py:1471-1549, cache.py:377-403).
THEOREM RuntimeLeased == RefreshSpec => RuntimeIsLeased
<1>1. RefreshInit => GlobalLease!LeaseInit
    BY LeaseInitImplemented
<1>2. RefreshInv /\ [RefreshNext]_refreshVars => [GlobalLease!LeaseNext]_(GlobalLease!leaseVars)
    BY LeaseStepImplemented
<1> QED BY <1>1, <1>2, InvAlways, PTL DEF RefreshSpec, RuntimeIsLeased, GlobalLease!LeaseSpec

-----------------------------------------------------------------------------
(* The monitoring *)

Running == {c \in Checks : check[c].at # "idle"}

\* A check that runs beside another one spoils every VM.
AloneOrExcused == \A c, d \in Running : c = d \/ excused = Vms

\* A VM that nothing spoiled: a check that runs knows its row, and the alert that
\* was mailed is in the row or in the check that is about to commit it.
Committing(c, v) ==
    /\ check[c].at = "mailed" /\ check[c].saw[v] = "late"
    /\ check[c].was[v] # "alerted" /\ check[c].new[v] = "alerted"

RowsKnown == \A v \in Vms \ excused : \A c \in Running : check[c].was[v] = row[v]

AlertRemembered ==
    \A v \in Vms \ excused : mails[v] # 0 =>
        /\ mails[v] = 1
        /\ row[v] = "alerted" \/ \E c \in Checks : Committing(c, v)

\* A check mails about a delay that its row does not know, and keeps what it knows.
AlertedStays ==
    \A c \in Checks : check[c].at = "mailed" =>
        \A v \in Vms : check[c].saw[v] = "late" /\ check[c].was[v] = "alerted"
                         => check[c].new[v] = "alerted"

DelayTypeOK ==
    /\ state \in [Accounts -> States]
    /\ row \in [Vms -> Rows]
    /\ check \in [Checks -> [at : {"idle", "loaded", "mailed"}, saw : [Vms -> Views],
                             was : [Vms -> Rows], new : [Vms -> Rows]]]
    /\ mails \in [Vms -> 0..2] /\ excused \subseteq Vms

AlertInv == DelayTypeOK /\ AloneOrExcused /\ RowsKnown /\ AlertRemembered /\ AlertedStays

StallTypeOK ==
    /\ depth \subseteq Queues /\ running \subseteq Queues
    /\ processed \in [Queues -> Ages] /\ started \in Ages
    /\ flag \in [Kinds -> BOOLEAN]
    /\ shown \subseteq Hosts /\ legacy \in BOOLEAN

USE MonitorAssumption

LEMMA AlertInitially == AlertInit => AlertInv
<1> SUFFICES ASSUME AlertInit PROVE AlertInv
    OBVIOUS
<1>1. DelayTypeOK
    BY DEF AlertInit, DelayTypeOK, NoCheck, States, Rows, Views
<1>2. AloneOrExcused /\ RowsKnown /\ AlertRemembered /\ AlertedStays
    BY DEF AlertInit, AloneOrExcused, RowsKnown, AlertRemembered, AlertedStays, Running, NoCheck
<1> QED BY <1>1, <1>2 DEF AlertInv

LEMMA DriftKeeps ==
    ASSUME AlertInv, NEW a \in Accounts, NEW s \in States, Drift(a, s)
    PROVE  AlertInv'
<1>1. DelayTypeOK'
    BY DEF Drift, AlertInv, DelayTypeOK
<1> QED BY <1>1 DEF Drift, AlertInv, AloneOrExcused, RowsKnown, AlertRemembered, AlertedStays,
                Running, Committing

LEMMA LoadKeeps ==
    ASSUME AlertInv, NEW c \in Checks, Load(c)
    PROVE  AlertInv'
<1> DEFINE n == [at |-> "loaded", saw |-> [v \in Vms |-> View(v)], was |-> row, new |-> row]
<1>1. check' = [check EXCEPT ![c] = n]
    BY DEF Load
<1>2. n \in [at : {"idle", "loaded", "mailed"}, saw : [Vms -> Views],
             was : [Vms -> Rows], new : [Vms -> Rows]]
  <2>1. \A v \in Vms : View(v) \in Views
    BY DEF View, Views
  <2> QED BY <2>1 DEF AlertInv, DelayTypeOK
<1>3. n.at = "loaded" /\ n.was = row
    OBVIOUS
<1> HIDE DEF n
<1>4. UNCHANGED <<state, row, mails>> /\ check[c].at = "idle"
    BY DEF Load
<1>5. DelayTypeOK'
    BY <1>1, <1>2, <1>4 DEF Load, AlertInv, DelayTypeOK
<1>6. check'[c] = n /\ \A d \in Checks : d # c => check'[d] = check[d]
    BY <1>1 DEF AlertInv, DelayTypeOK
<1>7. AlertedStays'
    BY <1>3, <1>6 DEF AlertInv, AlertedStays
<1>8. CASE Running # {}
  <2>1. excused' = Vms
    BY <1>8 DEF Load, Running
  <2> QED BY <1>5, <1>7, <2>1 DEF AlertInv, AloneOrExcused, RowsKnown, AlertRemembered
<1>9. CASE Running = {}
  <2>1. excused' = excused /\ Running' = {c}
    BY <1>9, <1>3, <1>6 DEF Load, Running
  <2>2. AloneOrExcused' /\ RowsKnown'
    BY <2>1, <1>3, <1>4, <1>6 DEF AloneOrExcused, RowsKnown
  <2>3. AlertRemembered'
    BY <2>1, <1>9, <1>4 DEF AlertRemembered, AlertInv, Running, Committing
  <2> QED BY <1>5, <1>7, <2>2, <2>3 DEF AlertInv
<1> QED BY <1>8, <1>9

LEMMA MailKeeps ==
    ASSUME AlertInv, NEW c \in Checks, NEW sent \in SUBSET Vms, Mail(c, sent)
    PROVE  AlertInv'
<1> DEFINE new == [v \in Vms |-> RowAfter(check[c].saw[v], check[c].was[v], v \in sent)]
<1>1. /\ check[c].at = "loaded" /\ sent \subseteq ToMail(c)
      /\ UNCHANGED <<state, row, excused>>
    BY DEF Mail
<1>2. /\ check'[c].at = "mailed" /\ check'[c].new = new
      /\ check'[c].saw = check[c].saw /\ check'[c].was = check[c].was
      /\ \A d \in Checks : d # c => check'[d] = check[d]
    BY DEF Mail, AlertInv, DelayTypeOK
<1>3. new \in [Vms -> Rows]
    BY DEF RowAfter, Rows, AlertInv, DelayTypeOK
<1>4. \A v \in Vms : mails'[v] = IF v \in sent /\ mails[v] < 2 THEN mails[v] + 1 ELSE mails[v]
    BY DEF Mail
<1>5. \A v \in Vms : check[c].saw[v] = "late" /\ check[c].was[v] = "alerted" => new[v] = "alerted"
    BY DEF RowAfter
<1>6. \A v \in sent : /\ v \in Vms /\ check[c].saw[v] = "late" /\ check[c].was[v] # "alerted"
                      /\ new[v] = "alerted"
    BY <1>1 DEF RowAfter, ToMail
<1>7. check' = [check EXCEPT ![c] = [check[c] EXCEPT !.at = "mailed", !.new = new]]
    BY DEF Mail, AlertInv, DelayTypeOK
<1>8. mails' \in [Vms -> 0..2]
    BY DEF Mail, AlertInv, DelayTypeOK
<1> HIDE DEF new
<1>9. DelayTypeOK'
  <2> DEFINE r == [check[c] EXCEPT !.at = "mailed", !.new = new]
  <2>1. r \in [at : {"idle", "loaded", "mailed"}, saw : [Vms -> Views],
               was : [Vms -> Rows], new : [Vms -> Rows]]
    <3>1. check[c] \in [at : {"idle", "loaded", "mailed"}, saw : [Vms -> Views],
                        was : [Vms -> Rows], new : [Vms -> Rows]]
      BY DEF AlertInv, DelayTypeOK
    <3> QED BY <1>3, <3>1
  <2> HIDE DEF r
  <2>2. check' \in [Checks -> [at : {"idle", "loaded", "mailed"}, saw : [Vms -> Views],
                               was : [Vms -> Rows], new : [Vms -> Rows]]]
    BY <1>7, <2>1 DEF AlertInv, DelayTypeOK, r
  <2> QED BY <1>1, <1>8, <2>2 DEF AlertInv, DelayTypeOK
<1>10. AlertedStays'
    BY <1>2, <1>5 DEF AlertInv, AlertedStays
<1>11. Running' = Running
    BY <1>1, <1>2 DEF Running
<1>12. AloneOrExcused' /\ RowsKnown'
    BY <1>1, <1>2, <1>11 DEF AlertInv, AloneOrExcused, RowsKnown, Running
<1>13. AlertRemembered'
  <2> SUFFICES ASSUME NEW v \in Vms \ excused, mails'[v] # 0
               PROVE  mails'[v] = 1 /\ (row[v] = "alerted" \/ \E d \in Checks : Committing(d, v)')
    BY <1>1 DEF AlertRemembered
  <2>1. CASE v \in sent
    <3>1. check[c].was[v] = row[v]
      BY <1>1 DEF AlertInv, RowsKnown, Running
    <3>2. \A d \in Checks : ~Committing(d, v)
      BY <1>1 DEF AlertInv, AloneOrExcused, Running, Committing
    <3>3. mails[v] = 0
      BY <2>1, <1>6, <3>1, <3>2 DEF AlertInv, AlertRemembered
    <3>4. mails'[v] = 1
      BY <2>1, <3>3, <1>4
    <3> QED BY <2>1, <3>4, <1>2, <1>6 DEF Committing
  <2>2. CASE v \notin sent
    <3>1. mails'[v] = mails[v]
      BY <2>2, <1>4
    <3>2. \A d \in Checks : Committing(d, v) => d # c
      BY <1>1 DEF Committing
    <3>3. \A d \in Checks : Committing(d, v) => Committing(d, v)'
      BY <3>2, <1>2 DEF Committing
    <3> QED BY <3>1, <3>3 DEF AlertInv, AlertRemembered
  <2> QED BY <2>1, <2>2
<1> QED BY <1>9, <1>10, <1>12, <1>13 DEF AlertInv

\* A check that is over.
LEMMA CheckEnds ==
    ASSUME AlertInv, NEW c \in Checks, check' = [check EXCEPT ![c] = NoCheck]
    PROVE  /\ check' \in [Checks -> [at : {"idle", "loaded", "mailed"}, saw : [Vms -> Views],
                                     was : [Vms -> Rows], new : [Vms -> Rows]]]
           /\ \A d \in Checks : d # c => check'[d] = check[d]
           /\ Running' = Running \ {c}
           /\ AlertedStays'
           /\ \A v \in Vms, d \in Checks : d # c /\ Committing(d, v) => Committing(d, v)'
<1>1. /\ NoCheck \in [at : {"idle", "loaded", "mailed"}, saw : [Vms -> Views],
                      was : [Vms -> Rows], new : [Vms -> Rows]]
      /\ NoCheck.at = "idle"
    BY DEF NoCheck, Views, Rows
<1>2. check'[c] = NoCheck /\ \A d \in Checks : d # c => check'[d] = check[d]
    BY DEF AlertInv, DelayTypeOK
<1>3. check' \in [Checks -> [at : {"idle", "loaded", "mailed"}, saw : [Vms -> Views],
                             was : [Vms -> Rows], new : [Vms -> Rows]]]
    BY <1>1 DEF AlertInv, DelayTypeOK
<1>4. Running' = Running \ {c}
    BY <1>1, <1>2 DEF Running
<1>5. AlertedStays'
    BY <1>1, <1>2 DEF AlertInv, AlertedStays
<1> QED BY <1>2, <1>3, <1>4, <1>5 DEF Committing

LEMMA CommitKeeps ==
    ASSUME AlertInv, NEW c \in Checks, Commit(c)
    PROVE  AlertInv'
<1> DEFINE calm == {v \in Vms : check[c].saw[v] # "late"}
<1>1. /\ check[c].at = "mailed" /\ state' = state
      /\ check' = [check EXCEPT ![c] = NoCheck]
      /\ row' = [v \in Vms |-> IF v \in Changes(c) THEN check[c].new[v] ELSE row[v]]
      /\ mails' = [v \in Vms |-> IF v \in calm THEN 0 ELSE mails[v]]
      /\ excused' = IF \E d \in Checks \ {c} : check[d].at # "idle" THEN excused
                    ELSE excused \ calm
    BY DEF Commit
<1>2. DelayTypeOK'
  <2>1. row' \in [Vms -> Rows] /\ mails' \in [Vms -> 0..2] /\ excused' \subseteq Vms
    BY <1>1 DEF AlertInv, DelayTypeOK
  <2>2. state' \in [Accounts -> States]
    BY <1>1 DEF AlertInv, DelayTypeOK
  <2> QED BY <1>1, <2>1, <2>2, CheckEnds DEF DelayTypeOK
<1>3. Running' = Running \ {c} /\ AlertedStays' /\ c \in Running
    BY <1>1, CheckEnds DEF Running
<1>4. CASE Running \ {c} # {}
  <2>1. excused' = Vms
    BY <1>1, <1>3, <1>4 DEF AlertInv, AloneOrExcused, Running
  <2> QED BY <1>2, <1>3, <2>1 DEF AlertInv, AloneOrExcused, RowsKnown, AlertRemembered
<1>5. CASE Running = {c}
  <2>1. Running' = {} /\ excused' = excused \ calm
    BY <1>1, <1>3, <1>5 DEF Running
  <2>2. AloneOrExcused' /\ RowsKnown'
    BY <2>1 DEF AloneOrExcused, RowsKnown
  <2>3. AlertRemembered'
    <3> SUFFICES ASSUME NEW v \in Vms \ excused', mails'[v] # 0
                 PROVE  mails'[v] = 1 /\ row'[v] = "alerted"
      BY DEF AlertRemembered
    <3>1. check[c].saw[v] = "late" /\ mails'[v] = mails[v] /\ v \notin excused
      BY <1>1, <2>1
    <3>2. mails[v] = 1 /\ (row[v] = "alerted" \/ Committing(c, v))
      BY <3>1, <1>5 DEF AlertInv, AlertRemembered, Running, Committing
    <3>3. CASE Committing(c, v)
      BY <3>1, <3>2, <3>3, <1>1 DEF Committing, Changes
    <3>4. CASE row[v] = "alerted"
      <4>1. check[c].was[v] = "alerted"
        BY <3>1, <3>4, <1>3 DEF AlertInv, RowsKnown
      <4>2. check[c].new[v] = "alerted"
        BY <3>1, <4>1, <1>1 DEF AlertInv, AlertedStays
      <4> QED BY <3>1, <3>2, <3>4, <4>2, <1>1
    <3> QED BY <3>2, <3>3, <3>4
  <2> QED BY <1>2, <1>3, <2>2, <2>3 DEF AlertInv
<1> QED BY <1>3, <1>4, <1>5

LEMMA LoseCommitKeeps ==
    ASSUME AlertInv, NEW c \in Checks, LoseCommit(c)
    PROVE  AlertInv'
<1>1. /\ check' = [check EXCEPT ![c] = NoCheck] /\ UNCHANGED <<state, row, mails>>
      /\ excused' = excused \cup (IF check[c].at = "mailed" THEN ToMail(c) ELSE {})
    BY DEF LoseCommit
<1>2. ToMail(c) \subseteq Vms
    BY DEF ToMail
<1>3. DelayTypeOK'
    BY <1>1, <1>2, CheckEnds DEF AlertInv, DelayTypeOK
<1>4. Running' = Running \ {c} /\ AlertedStays'
    BY <1>1, CheckEnds
<1>5. AloneOrExcused'
    BY <1>1, <1>2, <1>4 DEF AlertInv, AloneOrExcused, DelayTypeOK
<1>6. RowsKnown'
    BY <1>1, <1>4, CheckEnds DEF AlertInv, RowsKnown, Running
<1>7. AlertRemembered'
  <2> SUFFICES ASSUME NEW v \in Vms \ excused', mails[v] # 0
               PROVE  mails[v] = 1 /\ (row[v] = "alerted" \/ \E d \in Checks : Committing(d, v)')
    BY <1>1 DEF AlertRemembered
  <2>1. ~Committing(c, v) /\ v \notin excused
    BY <1>1 DEF Committing, ToMail
  <2>2. mails[v] = 1 /\ (row[v] = "alerted" \/ \E d \in Checks : Committing(d, v))
    BY <2>1 DEF AlertInv, AlertRemembered
  <2>3. ASSUME NEW d \in Checks, Committing(d, v) PROVE Committing(d, v)'
    <3>1. d # c /\ v \in Vms
      BY <2>1, <2>3
    <3> QED BY <2>3, <3>1, <1>1, CheckEnds
  <2> QED BY <2>2, <2>3
<1> QED BY <1>3, <1>4, <1>5, <1>6, <1>7 DEF AlertInv

LEMMA AlertStep == AlertInv /\ [AlertNext]_alertVars => AlertInv'
<1> SUFFICES ASSUME AlertInv, [AlertNext]_alertVars PROVE AlertInv'
    OBVIOUS
<1>1. CASE UNCHANGED alertVars
    BY <1>1 DEF alertVars, AlertInv, DelayTypeOK, AloneOrExcused, RowsKnown, AlertRemembered,
                AlertedStays, Running, Committing
<1> QED BY <1>1, DriftKeeps, LoadKeeps, MailKeeps, CommitKeeps, LoseCommitKeeps
        DEF AlertNext, CheckStep

LEMMA StallStep == StallTypeOK /\ [StallNext]_stallVars => StallTypeOK'
<1> SUFFICES ASSUME StallTypeOK, [StallNext]_stallVars PROVE StallTypeOK'
    OBVIOUS
<1>1. ASSUME NEW q \in Queues, QueueStep(q) PROVE StallTypeOK'
  <2>0. HostsOf(q) \subseteq Hosts
    BY DEF HostsOf, Hosts
  <2>1. CASE Enqueue(q)
    BY <2>1 DEF Enqueue, StallTypeOK
  <2>2. CASE StartTask(q)
    BY <2>0, <2>2 DEF StartTask, StallTypeOK, Ages
  <2>3. CASE FinishTask(q)
    BY <2>0, <2>3 DEF FinishTask, StallTypeOK, Ages
  <2>4. CASE AgeProcessed(q)
    BY <2>4 DEF AgeProcessed, StallTypeOK, Ages
  <2>5. CASE LapseQueue(q)
    BY <2>5 DEF LapseQueue, StallTypeOK, Ages
  <2> QED BY <1>1, <2>1, <2>2, <2>3, <2>4, <2>5 DEF QueueStep
<1>2. CASE AgeStarted
    BY <1>2 DEF AgeStarted, StallTypeOK, Ages
<1>3. ASSUME NEW k \in Kinds, NEW found, CheckStall(k, found) PROVE StallTypeOK'
  <2>1. Stale(k, ReadQueues(k, found)) \in BOOLEAN
    BY DEF Stale
  <2> QED BY <1>3, <2>1 DEF CheckStall, StallTypeOK
<1>4. ASSUME NEW h \in Hosts, ShowsUp(h) \/ LapseWorker(h) PROVE StallTypeOK'
    BY <1>4 DEF ShowsUp, LapseWorker, StallTypeOK
<1>5. CASE UNCHANGED stallVars
    BY <1>5 DEF stallVars, StallTypeOK
<1> QED BY <1>1, <1>2, <1>3, <1>4, <1>5 DEF StallNext

LEMMA MonitorKept == MonitorSpec => [](AlertInv /\ StallTypeOK)
<1>1. MonitorInit => AlertInv /\ StallTypeOK
    BY AlertInitially DEF MonitorInit, StallInit, StallTypeOK, Ages
<1>2. AlertInv /\ StallTypeOK /\ [MonitorNext]_MonitorVars => (AlertInv /\ StallTypeOK)'
  <2>1. [MonitorNext]_MonitorVars => [AlertNext]_alertVars /\ [StallNext]_stallVars
    BY DEF MonitorNext, MonitorVars
  <2> QED BY <2>1, AlertStep, StallStep
<1> QED BY <1>1, <1>2, PTL DEF MonitorSpec

\* Everything the monitoring keeps has its type, whatever VMs, accounts, checks
\* and queues there are.
THEOREM MonitorTypeCorrect == MonitorSpec => []MonitorTypeOK
<1>1. AlertInv /\ StallTypeOK => MonitorTypeOK
    BY DEF AlertInv, DelayTypeOK, StallTypeOK, MonitorTypeOK
<1> QED BY <1>1, MonitorKept, PTL

\* Any number of delay checks, started while others run, mail once about the
\* delay of a VM until one finds it in time, but for a VM spoiled by a check that
\* lost its commit or ran beside another (mt5_monitoring.py:367-421).
THEOREM DelayMailedOnce == MonitorSpec => []OneAlertPerDelay
<1>1. AlertInv => OneAlertPerDelay
    BY DEF AlertInv, DelayTypeOK, AlertRemembered, OneAlertPerDelay
<1> QED BY <1>1, MonitorKept, PTL

-----------------------------------------------------------------------------
(* Broker symbols *)

USE SymbolsAssumption

\* m is shorter than n, or is n.
Fits(m, n) == Len(m) \in Nat /\ Len(m) <= Len(n) /\ (Len(n) <= Len(m) => m = n)

\* A name is the longest of its own lookup keys, and no other is as long.
LEMMA KeysOfName ==
    ASSUME NEW n, IsName(n)
    PROVE  /\ Len(n) \in Nat \ {0}
           /\ n \in LookupKeys(n)
           /\ \A m \in LookupKeys(n) : Fits(m, n)
<1>1. n \in Seq(Range(n)) /\ n # <<>>
    BY DEF IsName
<1>2. Len(n) \in Nat \ {0}
    BY <1>1, EmptySeq
<1>3. SubSeq(n, 1, Len(n)) = n
    BY <1>1, SubSeqFull
<1>4. n \in LookupKeys(n)
  <2> DEFINE k == Len(n)
             least == IF Head(n) \in ShortBases /\ Len(n) > 1 THEN 2 ELSE 1
  <2>1. k \in least .. k
    BY <1>2
  <2>2. n = SubSeq(n, 1, k)
    BY <1>3
  <2>3. LookupKeys(n) = {SubSeq(n, 1, j) : j \in least .. k}
    BY DEF LookupKeys
  <2> HIDE DEF k, least
  <2> QED BY <2>1, <2>2, <2>3
<1>5. ASSUME NEW k \in 1 .. Len(n)
      PROVE  Len(SubSeq(n, 1, k)) = k
  <2>1. \A i \in 1 .. k : n[i] \in Range(n)
    BY <1>1, <1>2, ElementOfSeq
  <2>2. Len(SubSeq(n, 1, k)) = IF 1 <= k THEN k - 1 + 1 ELSE 0
    BY <1>2, <2>1, SubSeqProperties
  <2> QED BY <1>2, <2>2
<1>6. ASSUME NEW m \in LookupKeys(n)
      PROVE  Fits(m, n)
  <2>1. PICK k \in 1 .. Len(n) : m = SubSeq(n, 1, k)
    BY <1>2 DEF LookupKeys
  <2>2. Len(m) = k
    BY <1>5, <2>1
  <2>3. CASE k = Len(n)
    BY <1>2, <1>3, <2>1, <2>3 DEF Fits
  <2>4. CASE k # Len(n)
    BY <1>2, <2>2, <2>4 DEF Fits
  <2> QED BY <2>3, <2>4
<1> QED BY <1>2, <1>4, <1>6

\* Where no key has two owners, a key is read as its instrument.
LEMMA KeyLeadsBack ==
    ASSUME NEW t, ~Conflict(t), IsTable(t), NEW i \in ActiveRows, NEW n \in KeysOf(t, i)
    PROVE  Canonical(t, n) = Order[i]
<1>1. IsName(n)
    BY DEF KeysOf, IsTable
<1>2. \A m \in KeysOf(t, i) : OwnersOf(t, m) = {i}
    BY DEF OwnersOf, Conflict
<1>3. \A m \in KeysOf(t, i) : Owner(t, m) = i
    BY <1>2 DEF Owner, Max
<1> DEFINE hits == {m \in LookupKeys(n) : OwnersOf(t, m) # {}}
           c == CHOOSE m \in hits : \A l \in hits : Len(l) <= Len(m)
<1>4. n \in hits /\ \A m \in hits : Len(m) <= Len(n) /\ (Len(n) <= Len(m) => m = n)
  <2>1. n \in LookupKeys(n) /\ \A m \in LookupKeys(n) : Fits(m, n)
    BY <1>1, KeysOfName
  <2> QED BY <1>2, <2>1 DEF Fits
<1>5. c \in hits /\ \A l \in hits : Len(l) <= Len(c)
    BY <1>4
<1>6. c = n
    BY <1>4, <1>5
<1> QED BY <1>3, <1>4, <1>6 DEF Canonical

\* A name with a suffix has the name itself as its second key, unless it is short.
LEMMA KeysOfSuffixed ==
    ASSUME NEW n, IsName(n), Head(n) \notin ShortBases, NEW s
    PROVE  /\ IsName(Append(n, s)) /\ n \in LookupKeys(Append(n, s))
           /\ \A m \in LookupKeys(Append(n, s)) \ {Append(n, s)} : Fits(m, n)
<1> DEFINE S == Range(n) \cup {s}
           a == Append(n, s)
<1>1. n \in Seq(Range(n)) /\ n # <<>>
    BY DEF IsName
<1>2. n \in Seq(S)
    BY <1>1, SeqMonotonic
<1>3. Len(n) \in Nat \ {0}
    BY <1>1, EmptySeq
<1>4. /\ a \in Seq(S) /\ a # <<>> /\ Len(a) = Len(n) + 1
      /\ \A i \in 1 .. Len(n) : a[i] = n[i]
    BY <1>2, AppendProperties
<1>5. a \in Seq(Range(a))
  <2>1. a \in [1 .. Len(a) -> S]
    BY <1>4, LenProperties
  <2>2. DOMAIN a = 1 .. Len(a) /\ a = [k \in 1 .. Len(a) |-> a[k]]
    BY <2>1
  <2>3. a \in [1 .. Len(a) -> Range(a)]
    BY <2>2 DEF Range
  <2>4. Len(a) \in Nat
    BY <1>3, <1>4
  <2> DEFINE T == Range(a)
             k == Len(a)
  <2>5. a \in [1 .. k -> T] /\ k \in Nat
    BY <2>3, <2>4
  <2> HIDE DEF a, k, T
  <2>6. a \in Seq(T)
    BY <2>5, SeqDef
  <2> QED BY <2>6 DEF T
<1>6. IsName(a)
    BY <1>4, <1>5 DEF IsName
<1>7. \A k \in 1 .. Len(n) : SubSeq(a, 1, k) = SubSeq(n, 1, k) /\ Len(SubSeq(n, 1, k)) = k
  <2> SUFFICES ASSUME NEW k \in 1 .. Len(n)
               PROVE  SubSeq(a, 1, k) = SubSeq(n, 1, k) /\ Len(SubSeq(n, 1, k)) = k
    OBVIOUS
  <2>1. \A i \in 1 .. k : n[i] \in S /\ a[i] \in S /\ a[i] = n[i]
    BY <1>2, <1>3, <1>4, ElementOfSeq
  <2>2. /\ SubSeq(n, 1, k) \in Seq(S) /\ Len(SubSeq(n, 1, k)) = k
        /\ \A i \in 1 .. k : SubSeq(n, 1, k)[i] = n[i]
    <3>1. /\ SubSeq(n, 1, k) \in Seq(S)
          /\ Len(SubSeq(n, 1, k)) = IF 1 <= k THEN k - 1 + 1 ELSE 0
          /\ \A i \in 1 .. k - 1 + 1 : SubSeq(n, 1, k)[i] = n[1 + i - 1]
      BY <1>3, <2>1, SubSeqProperties
    <3> QED BY <1>3, <3>1
  <2>3. /\ SubSeq(a, 1, k) \in Seq(S) /\ Len(SubSeq(a, 1, k)) = k
        /\ \A i \in 1 .. k : SubSeq(a, 1, k)[i] = a[i]
    <3>1. /\ SubSeq(a, 1, k) \in Seq(S)
          /\ Len(SubSeq(a, 1, k)) = IF 1 <= k THEN k - 1 + 1 ELSE 0
          /\ \A i \in 1 .. k - 1 + 1 : SubSeq(a, 1, k)[i] = a[1 + i - 1]
      BY <1>3, <2>1, SubSeqProperties
    <3> QED BY <1>3, <3>1
  <2>4. SubSeq(a, 1, k) = SubSeq(n, 1, k)
    BY <2>1, <2>2, <2>3, SeqEqual
  <2> QED BY <2>2, <2>4
<1>8. SubSeq(a, 1, Len(n)) = n /\ SubSeq(a, 1, Len(a)) = a
    BY <1>1, <1>3, <1>4, <1>7, SubSeqFull
<1>9. Head(a) \notin ShortBases
  <2>1. Head(a) = a[1] /\ Head(n) = n[1]
    OBVIOUS
  <2> QED BY <1>3, <1>4, <2>1
<1>10. LookupKeys(a) = {SubSeq(a, 1, k) : k \in 1 .. Len(a)}
    BY <1>9 DEF LookupKeys
<1>11. n \in LookupKeys(a)
  <2> DEFINE k == Len(n)
  <2>1. k \in 1 .. Len(a) /\ n = SubSeq(a, 1, k)
    BY <1>3, <1>4, <1>8
  <2> HIDE DEF k, a
  <2> QED BY <1>10, <2>1
<1>12. ASSUME NEW m \in LookupKeys(a) \ {a}
       PROVE  Fits(m, n)
  <2>1. PICK k \in 1 .. Len(a) : m = SubSeq(a, 1, k)
    BY <1>10
  <2>2. k # Len(a)
    BY <1>8, <2>1
  <2>3. k \in 1 .. Len(n)
    BY <1>3, <1>4, <2>2
  <2>4. Len(m) = k
    BY <1>7, <2>1, <2>3
  <2>5. CASE k = Len(n)
    <3>1. m = n
      BY <1>8, <2>1, <2>5
    <3> QED BY <1>3, <3>1 DEF Fits
  <2>6. CASE k # Len(n)
    BY <1>3, <2>3, <2>4, <2>6 DEF Fits
  <2> QED BY <2>5, <2>6
<1> QED BY <1>6, <1>11, <1>12

\* What a worker asks for is read as the instrument, or is itself another one's alias.
LEMMA CandidateLeadsBack ==
    ASSUME NEW t, ~Conflict(t), IsTable(t), NEW i \in ActiveRows, NEW n \in Candidates(t, i)
    PROVE  Canonical(t, n) = Order[i] \/ OwnersOf(t, n) # {}
<1>1. CASE n \in KeysOf(t, i)
    BY <1>1, KeyLeadsBack
<1>2. CASE n \notin KeysOf(t, i) /\ OwnersOf(t, n) = {}
  <2> DEFINE o == Order[i]
             hits == {m \in LookupKeys(n) : OwnersOf(t, m) # {}}
             c == CHOOSE m \in hits : \A l \in hits : Len(l) <= Len(m)
  <2>1. PICK s \in CommonSuffixes : n = Append(o, s) /\ Head(o) \notin ShortBases
    BY <1>2 DEF Candidates, WithSuffix
  <2>2. IsName(o) /\ Len(o) \in Nat \ {0}
    <3>1. IsName(o)
      OBVIOUS
    <3> QED BY <3>1, KeysOfName
  <2>3. OwnersOf(t, o) = {i}
    BY DEF KeysOf, OwnersOf, Conflict
  <2>4. Owner(t, o) = i
    BY <2>3 DEF Owner, Max
  <2> HIDE DEF o
  <2>5. o \in LookupKeys(n) /\ \A m \in LookupKeys(n) \ {n} : Fits(m, o)
    BY <2>1, <2>2, KeysOfSuffixed
  <2>6. o \in hits /\ \A m \in hits : Len(m) <= Len(o) /\ (Len(o) <= Len(m) => m = o)
    BY <1>2, <2>2, <2>3, <2>5 DEF Fits
  <2>7. c \in hits /\ \A l \in hits : Len(l) <= Len(c)
    BY <2>6
  <2>8. c = o
    BY <2>6, <2>7
  <2>9. Canonical(t, n) = Order[Owner(t, c)]
    BY <2>6 DEF Canonical
  <2> QED BY <2>4, <2>8, <2>9
<1> QED BY <1>1, <1>2

\* Tables hold names, and while no edits overlapped none of those that are, or will
\* be, in use gives a key to two instruments.
Sound(t) == IsTable(t) /\ (~raced => ~Conflict(t))

EditOK(e) ==
    /\ e.row \in SymbolRows /\ \A n \in e.aliases : IsName(n)
    /\ IsTable(e.seen)
    /\ e.row \in ActiveRows => ~Conflict([e.seen EXCEPT ![e.row] = e.aliases])

SymbolsInv ==
    /\ Sound(table) /\ raced \in BOOLEAN
    /\ known = [p \in Processes |-> known[p]]
    /\ \A p \in Processes : known[p] = Unread \/ Sound(known[p])
    /\ edit = [p \in Web |-> edit[p]]
    /\ \A p \in Web : edit[p] = NoEdit \/ EditOK(edit[p])

LEMMA TableEdited ==
    ASSUME NEW t, IsTable(t), NEW i \in SymbolRows, NEW names, \A n \in names : IsName(n)
    PROVE  IsTable([t EXCEPT ![i] = names])
BY DEF IsTable

\* The aliases of a row that is not active are nobody's keys.
LEMMA InactiveIsQuiet ==
    ASSUME NEW t, ~Conflict(t), NEW i, i \notin ActiveRows, NEW names
    PROVE  ~Conflict([t EXCEPT ![i] = names])
BY DEF Conflict, KeysOf, IsTable

LEMMA SymbolsInitially == ASSUME SymbolsInit PROVE SymbolsInv
BY DEF SymbolsInit, SymbolsInv, Sound

LEMMA ReadKeeps ==
    ASSUME SymbolsInv, NEW p \in Processes, ReadSymbols(p) \/ ReadDefaults(p) \/ RestartProcess(p)
    PROVE  SymbolsInv'
<1>1. Sound(table) /\ Sound(Defaults)
    BY DEF SymbolsInv, Sound
<1>2. CASE ReadSymbols(p)
  <2>1. /\ known' = [known EXCEPT ![p] = table] /\ UNCHANGED <<table, edit, edits, raced>>
    BY <1>2 DEF ReadSymbols
  <2> QED BY <1>1, <2>1 DEF SymbolsInv, Sound
<1>3. CASE ReadDefaults(p)
  <2>1. /\ known' = [known EXCEPT ![p] = Defaults] /\ UNCHANGED <<table, edit, edits, raced>>
    BY <1>3 DEF ReadDefaults
  <2> QED BY <1>1, <2>1 DEF SymbolsInv, Sound
<1>4. CASE RestartProcess(p)
  <2>1. /\ known' = [known EXCEPT ![p] = Unread] /\ UNCHANGED <<table, edits, raced>>
        /\ edit' = [w \in Web |-> IF w = p THEN NoEdit ELSE edit[w]]
    BY <1>4 DEF RestartProcess
  <2> QED BY <1>1, <2>1 DEF SymbolsInv, Sound
<1> QED BY <1>2, <1>3, <1>4

LEMMA BeginEditKeeps ==
    ASSUME SymbolsInv, NEW p \in Web, NEW i \in SymbolRows, NEW names \in Proposals,
           BeginEdit(p, i, names)
    PROVE  SymbolsInv'
<1> DEFINE e == [row |-> i, aliases |-> names, seen |-> table]
<1>1. /\ edit' = [edit EXCEPT ![p] = e] /\ UNCHANGED <<table, known, raced>>
      /\ i \in ActiveRows => ~Conflict([table EXCEPT ![i] = names])
    BY DEF BeginEdit
<1>2. EditOK(e)
    BY <1>1 DEF EditOK, SymbolsInv, Sound
<1> HIDE DEF e
<1> QED BY <1>1, <1>2 DEF SymbolsInv, Sound

LEMMA SaveEditKeeps ==
    ASSUME SymbolsInv, NEW p \in Web, SaveEdit(p)
    PROVE  SymbolsInv'
<1> DEFINE e == edit[p]
<1>1. /\ table' = [table EXCEPT ![e.row] = e.aliases]
      /\ known' = [known EXCEPT ![p] = Unread]
      /\ edit' = [edit EXCEPT ![p] = NoEdit]
      /\ raced' = (raced \/ table # e.seen)
    BY DEF SaveEdit
<1>2. EditOK(e) /\ Sound(table)
    BY DEF SaveEdit, SymbolsInv
<1> HIDE DEF e
<1>3. IsTable(table')
    BY <1>1, <1>2, TableEdited DEF EditOK, Sound
<1>4. ~raced' => ~raced /\ ~Conflict(table) /\ table = e.seen
    BY <1>1, <1>2 DEF Sound
<1>5. ~raced' => ~Conflict(table')
  <2> SUFFICES ASSUME ~raced' PROVE ~Conflict([table EXCEPT ![e.row] = e.aliases])
    BY <1>1
  <2>1. CASE e.row \in ActiveRows
    BY <1>2, <1>4, <2>1 DEF EditOK
  <2>2. CASE e.row \notin ActiveRows
    BY <1>4, <2>2, InactiveIsQuiet
  <2> QED BY <2>1, <2>2
<1>6. \A q \in Processes : known'[q] = Unread \/ (IsTable(known'[q]) /\ (~raced' => ~Conflict(known'[q])))
    BY <1>1, <1>4 DEF SymbolsInv, Sound
<1>7. known' = [q \in Processes |-> known'[q]]
    BY <1>1 DEF SymbolsInv
<1>8. edit' = [q \in Web |-> edit'[q]] /\ \A q \in Web : edit'[q] = NoEdit \/ EditOK(edit'[q])
    BY <1>1 DEF SymbolsInv
<1>9. raced' \in BOOLEAN
    BY <1>1
<1> QED BY <1>3, <1>5, <1>6, <1>7, <1>8, <1>9 DEF SymbolsInv, Sound

LEMMA SymbolsStep == SymbolsInv /\ [SymbolsNext]_symbolVars => SymbolsInv'
<1> SUFFICES ASSUME SymbolsInv, [SymbolsNext]_symbolVars PROVE SymbolsInv'
    OBVIOUS
<1>1. CASE \E p \in Processes : ReadSymbols(p) \/ ReadDefaults(p) \/ RestartProcess(p)
    BY <1>1, ReadKeeps
<1>2. CASE \E p \in Web : SaveEdit(p)
    BY <1>2, SaveEditKeeps
<1>3. CASE \E p \in Web, i \in SymbolRows, names \in Proposals : BeginEdit(p, i, names)
    BY <1>3, BeginEditKeeps
<1>4. CASE UNCHANGED symbolVars
    BY <1>4 DEF symbolVars, SymbolsInv, Sound
<1> QED BY <1>1, <1>2, <1>3, <1>4 DEF SymbolsNext

\* However the aliases are edited, kept and forgotten, a name that a process gives
\* an instrument leads back to it, as long as no two edits overlapped
\* (canonicalize_symbol and cfd_mt5_symbol_name_candidates, trading.py:838-1006).
THEOREM NamesAlwaysLeadBack == SymbolsSpec => []NamesLeadBack
<1>1. SymbolsInv => NamesLeadBack
    BY KeyLeadsBack, CandidateLeadsBack DEF SymbolsInv, Sound, NamesLeadBack
<1> QED BY <1>1, SymbolsInitially, SymbolsStep, PTL DEF SymbolsSpec
-----------------------------------------------------------------------------
(* The cached pages *)

Payloads == [trades : Nat, size : Nat]

PagesTypes ==
    /\ journal \in Payloads
    /\ stored \in [PageKeys -> Payloads]
    /\ view \in [Visits -> [at : {"closed", "loaded", "half", "unloaded", "built"},
                            made : Payloads, miss : SUBSET PageKeys]]

\* A visit that nothing overtook and whose trades loaded holds the journal.
Holds(v) ==
    /\ view[v].at \in {"half", "unloaded", "loaded", "built"} => view[v].made.size = journal.size
    /\ view[v].at \in {"loaded", "built"} => view[v].made.trades = journal.trades

VisitsTrue == \A v \in Visits \ spoiled : Holds(v)

PagesInv == PagesTypes /\ VisitsTrue /\ PagesShowJournal

LEMMA EmptyIsNat == Missing \in Payloads /\ Empty \in Nat
  BY PagesAssumption DEF Missing, Payload, Payloads, Empty

LEMMA PagesStart == PagesInit => PagesInv
  BY EmptyIsNat DEF PagesInit, PagesInv, PagesTypes, VisitsTrue, Holds, PagesShowJournal,
                    NoView, Payload, Payloads, PageKeys

\* A step that only opens or moves visit v on, to r.
LEMMA VisitMoves ==
    ASSUME PagesInv, NEW v \in Visits, NEW r, Show(v, r), UNCHANGED <<journal, stored, unsaid, behind>>,
           r \in [at : {"closed", "loaded", "half", "unloaded", "built"},
                  made : Payloads, miss : SUBSET PageKeys],
           spoiled' \in SUBSET (spoiled \cup {v}), spoiled \ {v} \subseteq spoiled',
           v \notin spoiled' =>
              /\ r.at \in {"half", "unloaded", "loaded", "built"} => r.made.size = journal.size
              /\ r.at \in {"loaded", "built"} => r.made.trades = journal.trades
    PROVE  PagesInv'
<1>1. PagesTypes'
    BY DEF PagesInv, PagesTypes, Show
<1>2. ASSUME NEW u \in Visits, u \notin spoiled' PROVE Holds(u)'
  <2>1. CASE u = v
    BY <1>2, <2>1 DEF PagesInv, PagesTypes, Show, Holds
  <2>2. CASE u # v
    BY <1>2, <2>2 DEF PagesInv, PagesTypes, VisitsTrue, Show, Holds
  <2> QED BY <2>1, <2>2
<1>3. PagesShowJournal'
    BY DEF PagesInv, PagesShowJournal, Current
<1> QED BY <1>1, <1>2, <1>3 DEF PagesInv, VisitsTrue

LEMMA OpenKeeps == ASSUME PagesInv, NEW v \in Visits, OpenPage(v) PROVE PagesInv'
<1>1. ASSUME NEW loads \in BOOLEAN, OpenDashboard(v, loads) PROVE PagesInv'
  <2>1. Loaded(v, journal.size, loads) \in Payloads
    BY EmptyIsNat DEF PagesInv, PagesTypes, Loaded, Payload, Payloads
  <2>2. loads => Loaded(v, journal.size, loads).trades = journal.trades
    BY DEF Loaded, Payload
  <2>3. Loaded(v, journal.size, loads).size = journal.size
    BY DEF Loaded, Payload
  <2> QED BY <1>1, <2>1, <2>2, <2>3, VisitMoves DEF OpenDashboard, SpoiledBy
<1>2. ASSUME NEW reachable \in BOOLEAN, OpenAnalytics(v, reachable) PROVE PagesInv'
  <2>1. Payload(Empty, journal.size) \in Payloads /\ Payload(Empty, journal.size).size = journal.size
    BY EmptyIsNat DEF PagesInv, PagesTypes, Payload, Payloads
  <2>2. MissedBy("analytics", reachable) \subseteq PageKeys
    BY DEF MissedBy, PageKeys
  <2> QED BY <1>2, <2>1, <2>2, VisitMoves DEF OpenAnalytics
<1> QED BY <1>1, <1>2 DEF OpenPage

LEMMA CloseKeeps ==
    ASSUME PagesInv, NEW v \in Visits, Close(v), UNCHANGED <<journal, stored, unsaid, behind>>
    PROVE  PagesInv'
  BY EmptyIsNat, VisitMoves DEF Close, NoView

LEMMA ReadPageKeeps ==
    ASSUME PagesInv, NEW v \in Visits, NEW reachable \in BOOLEAN
    PROVE  ReadDashboard(v, reachable) \/ ReadSummary(v, reachable) => PagesInv'
<1>1. view[v].miss \subseteq PageKeys /\ view[v].made \in Payloads /\ (v \notin spoiled => Holds(v))
  <2>1. view[v] \in [at : {"closed", "loaded", "half", "unloaded", "built"},
                    made : Payloads, miss : SUBSET PageKeys]
    BY DEF PagesInv, PagesTypes
  <2>2. v \notin spoiled => Holds(v)
    BY DEF PagesInv, VisitsTrue
  <2> QED BY <2>1, <2>2
<1>2. ASSUME ReadDashboard(v, reachable) PROVE PagesInv'
  <2>1. CASE MissedBy("dashboard", reachable) = {}
    BY <1>2, <2>1, CloseKeeps DEF ReadDashboard
  <2>2. CASE MissedBy("dashboard", reachable) # {}
    <3> DEFINE r == [view[v] EXCEPT !.at = "built", !.miss = {"dashboard"}]
    <3>1. r.at = "built" /\ r.made = view[v].made
          /\ r \in [at : {"closed", "loaded", "half", "unloaded", "built"},
                    made : Payloads, miss : SUBSET PageKeys]
      <4>1. {"dashboard"} \subseteq PageKeys
        BY DEF PageKeys
      <4> QED BY <1>1, <4>1 DEF PagesInv, PagesTypes
    <3>2. Show(v, r) /\ view[v].at = "loaded" /\ UNCHANGED <<spoiled, journal, stored, unsaid, behind>>
      BY <1>2, <2>2 DEF ReadDashboard
    <3> HIDE DEF r
    <3> QED BY <1>1, <3>1, <3>2, VisitMoves DEF Holds
  <2> QED BY <2>1, <2>2
<1>3. ASSUME ReadSummary(v, reachable) PROVE PagesInv'
  <2> DEFINE miss == view[v].miss \cup MissedBy("rr", reachable)
             r == [view[v] EXCEPT !.at = "unloaded", !.miss = miss]
  <2>1. CASE miss = {}
    BY <1>3, <2>1, CloseKeeps DEF ReadSummary
  <2>2. CASE miss # {}
    <3>1. miss \subseteq PageKeys
      BY <1>1 DEF MissedBy, PageKeys
    <3> HIDE DEF miss
    <3>2. r.at = "unloaded" /\ r.made = view[v].made
          /\ r \in [at : {"closed", "loaded", "half", "unloaded", "built"},
                    made : Payloads, miss : SUBSET PageKeys]
      <4>1. view[v] \in [at : {"closed", "loaded", "half", "unloaded", "built"},
                         made : Payloads, miss : SUBSET PageKeys]
        BY DEF PagesInv, PagesTypes
      <4> QED BY <3>1, <4>1
    <3>3. Show(v, r) /\ view[v].at = "half" /\ UNCHANGED <<spoiled, journal, stored, unsaid, behind>>
      BY <1>3, <2>2 DEF ReadSummary, miss
    <3> HIDE DEF r
    <3> QED BY <1>1, <3>2, <3>3, VisitMoves DEF Holds
  <2> QED BY <2>1, <2>2
<1> QED BY <1>2, <1>3

LEMMA LoadTradesKeeps ==
    ASSUME PagesInv, NEW v \in Visits, NEW loads \in BOOLEAN, LoadTrades(v, loads) PROVE PagesInv'
<1>1. view[v].made \in Payloads /\ (v \notin spoiled => Holds(v))
    BY DEF PagesInv, PagesTypes, VisitsTrue
<1> DEFINE made == Loaded(v, view[v].made.size, loads)
           r == [view[v] EXCEPT !.at = "built", !.made = made]
<1>2. made \in Payloads /\ made.size = view[v].made.size /\ (loads => made.trades = journal.trades)
    BY <1>1, EmptyIsNat DEF PagesInv, PagesTypes, Loaded, Payload, Payloads
<1>3. r.at = "built" /\ r.made = made
      /\ r \in [at : {"closed", "loaded", "half", "unloaded", "built"},
                made : Payloads, miss : SUBSET PageKeys]
    BY <1>2 DEF PagesInv, PagesTypes
<1>4. Show(v, r) /\ view[v].at = "unloaded" /\ UNCHANGED <<journal, stored, unsaid, behind>>
      /\ spoiled' = SpoiledBy(v, loads)
    BY DEF LoadTrades
<1> HIDE DEF r, made
<1> QED BY <1>1, <1>2, <1>3, <1>4, VisitMoves DEF Holds, SpoiledBy

\* The journal, the unsaid changes and the other visits stay as they are.
LEMMA StoreKeeps ==
    ASSUME PagesInv, NEW v \in Visits, NEW reachable \in BOOLEAN, Store(v, reachable) PROVE PagesInv'
<1> DEFINE k == IF view[v].miss = {"rr"} THEN "rr" ELSE CHOOSE x \in view[v].miss : x # "rr"
<1>1. /\ view[v].at = "built" /\ UNCHANGED <<journal, unsaid>>
      /\ \/ UNCHANGED <<stored, behind>>
         \/ /\ stored' = [stored EXCEPT ![k] = view[v].made]
            /\ behind' = IF v \in spoiled THEN behind \cup {k} ELSE behind \ {k}
      /\ \/ Close(v)
         \/ Show(v, [view[v] EXCEPT !.miss = @ \ {k}]) /\ UNCHANGED spoiled
    BY DEF Store
<1> HIDE DEF k
<1>2. view[v].made \in Payloads /\ (v \notin spoiled => Holds(v))
    BY DEF PagesInv, PagesTypes, VisitsTrue
<1>3. PagesTypes'
  <2>1. stored' \in [PageKeys -> Payloads] /\ journal' \in Payloads
    BY <1>1, <1>2 DEF PagesInv, PagesTypes
  <2>2. CASE Close(v)
    BY <2>1, <2>2, EmptyIsNat DEF PagesInv, PagesTypes, Close, Show, NoView
  <2>3. CASE Show(v, [view[v] EXCEPT !.miss = @ \ {k}])
    BY <2>1, <2>3 DEF PagesInv, PagesTypes, Show
  <2> QED BY <1>1, <2>2, <2>3
<1>4. ASSUME NEW u \in Visits, u \notin spoiled' PROVE Holds(u)'
  <2>1. CASE Close(v)
    <3>1. CASE u = v
      BY <1>4, <2>1, <3>1 DEF PagesInv, PagesTypes, Close, Show, NoView, Holds
    <3>2. CASE u # v
      BY <1>1, <1>4, <2>1, <3>2 DEF PagesInv, PagesTypes, VisitsTrue, Close, Show, Holds
    <3> QED BY <3>1, <3>2
  <2>2. CASE Show(v, [view[v] EXCEPT !.miss = @ \ {k}]) /\ UNCHANGED spoiled
    <3>1. Holds(u)
      BY <1>4, <2>2 DEF PagesInv, VisitsTrue
    <3>2. view'[u].at = view[u].at /\ view'[u].made = view[u].made
      BY <2>2 DEF PagesInv, PagesTypes, Show
    <3> QED BY <1>1, <3>1, <3>2 DEF Holds
  <2> QED BY <1>1, <2>1, <2>2
<1>5. PagesShowJournal'
  <2>1. CASE UNCHANGED <<stored, behind>>
    BY <1>1, <2>1 DEF PagesInv, PagesShowJournal, Current
  <2>2. CASE stored' = [stored EXCEPT ![k] = view[v].made]
             /\ behind' = IF v \in spoiled THEN behind \cup {k} ELSE behind \ {k}
    <3> SUFFICES ASSUME unsaid' = {}, NEW l \in PageKeys, l \notin behind'
                 PROVE  (stored[l] = Missing \/ Current(l))'
        BY DEF PagesShowJournal
    <3>1. CASE l = k
      <4>1. v \notin spoiled /\ stored'[l] = view[v].made
        BY <2>2, <3>1 DEF PagesInv, PagesTypes
      <4> QED BY <1>1, <1>2, <4>1 DEF Holds, Current
    <3>2. CASE l # k
      <4>1. l \notin behind /\ stored'[l] = stored[l]
        BY <2>2, <3>2 DEF PagesInv, PagesTypes
      <4> QED BY <1>1, <4>1 DEF PagesInv, PagesShowJournal, Current, Missing
    <3> QED BY <3>1, <3>2
  <2> QED BY <1>1, <2>1, <2>2
<1> QED BY <1>3, <1>4, <1>5 DEF PagesInv, VisitsTrue

\* A change that commits spoils the visits that hold what it changes.
LEMMA MoreTradesSpoils ==
    ASSUME PagesInv, MoreTrades, UNCHANGED <<stored, view>> PROVE PagesTypes' /\ VisitsTrue'
<1>1. journal' \in Payloads /\ journal'.size = journal.size
    BY DEF PagesInv, PagesTypes, MoreTrades, Payloads
<1>2. ASSUME NEW v \in Visits, v \notin spoiled' PROVE Holds(v)'
  <2>1. Holds(v) /\ view[v].at \notin {"loaded", "built"}
    BY <1>2 DEF PagesInv, VisitsTrue, MoreTrades, Opened
  <2> QED BY <1>1, <2>1 DEF Holds
<1> QED BY <1>1, <1>2 DEF PagesInv, PagesTypes, VisitsTrue

LEMMA EditorKeeps == ASSUME PagesInv, NEW e, EditorStep(e) PROVE PagesInv'
<1>1. CASE Change(e)
    BY <1>1, MoreTradesSpoils DEF Change, PagesInv, PagesShowJournal
<1>2. CASE Invalidate(e)
  <2>1. stored' = [l \in PageKeys |-> Missing]
    BY <1>2 DEF Invalidate, DeletedKeys
  <2> QED BY <1>2, <2>1, EmptyIsNat
          DEF Invalidate, PagesInv, PagesTypes, VisitsTrue, Holds, PagesShowJournal
<1>3. CASE NotInvalidated(e)
    BY <1>3 DEF NotInvalidated, PagesInv, PagesTypes, VisitsTrue, Holds, PagesShowJournal
<1> QED BY <1>1, <1>2, <1>3 DEF EditorStep

LEMMA ResizeKeeps == ASSUME PagesInv, Resize PROVE PagesInv'
<1>1. journal' \in Payloads /\ journal'.trades = journal.trades
    BY DEF PagesInv, PagesTypes, Resize, Payloads
<1>2. ASSUME NEW v \in Visits, v \notin spoiled' PROVE Holds(v)'
  <2>1. view'[v].at \notin {"half", "unloaded", "loaded", "built"}
    BY <1>2 DEF Resize, Opened
  <2> QED BY <2>1 DEF Holds
<1>3. ASSUME unsaid' = {}, NEW l \in PageKeys, l \notin behind'
      PROVE  (stored[l] = Missing \/ Current(l))'
  <2>1. l = "rr" /\ l \notin behind
    BY <1>3 DEF Resize, PageKeys
  <2>2. stored[l] = Missing \/ Current(l)
    BY <1>3, <2>1 DEF PagesInv, PagesShowJournal, Resize
  <2> QED BY <1>1, <2>1, <2>2 DEF Resize, Current, Missing
<1>4. PagesTypes'
    BY <1>1 DEF PagesInv, PagesTypes, Resize
<1> QED BY <1>2, <1>3, <1>4 DEF PagesInv, VisitsTrue, PagesShowJournal

LEMMA ExpireKeeps == ASSUME PagesInv, NEW k \in PageKeys, Expire(k) PROVE PagesInv'
<1>1. PagesTypes' /\ VisitsTrue'
    BY EmptyIsNat DEF Expire, PagesInv, PagesTypes, VisitsTrue, Holds
<1>2. ASSUME unsaid' = {}, NEW l \in PageKeys, l \notin behind'
      PROVE  (stored[l] = Missing \/ Current(l))'
  <2>1. CASE l = k
    BY <2>1 DEF Expire, PagesInv, PagesTypes, Missing
  <2>2. CASE l # k
    <3>1. stored'[l] = stored[l] /\ l \notin behind
      BY <1>2, <2>2 DEF Expire, PagesInv, PagesTypes
    <3> QED BY <1>2, <3>1 DEF Expire, PagesInv, PagesShowJournal, Current, Missing
  <2> QED BY <2>1, <2>2
<1> QED BY <1>1, <1>2 DEF PagesInv, PagesShowJournal

LEMMA PagesStep == PagesInv /\ [PagesNext]_pagesVars => PagesInv'
<1> SUFFICES ASSUME PagesInv, [PagesNext]_pagesVars PROVE PagesInv'
    OBVIOUS
<1>1. ASSUME NEW v \in Visits, ViewStep(v) PROVE PagesInv'
  <2>1. ASSUME NEW reachable \in BOOLEAN,
               ReadDashboard(v, reachable) \/ ReadSummary(v, reachable) PROVE PagesInv'
    BY <2>1, ReadPageKeeps
  <2>2. ASSUME NEW reachable \in BOOLEAN, Store(v, reachable) PROVE PagesInv'
    BY <2>2, StoreKeeps
  <2>3. ASSUME NEW loads \in BOOLEAN, LoadTrades(v, loads) PROVE PagesInv'
    BY <2>3, LoadTradesKeeps
  <2> QED BY <1>1, <2>1, <2>2, <2>3 DEF ViewStep
<1>2. ASSUME NEW v \in Visits, DropView(v) PROVE PagesInv'
    BY <1>2, CloseKeeps DEF DropView
<1>3. CASE ChangeQuietly
    BY <1>3, MoreTradesSpoils DEF ChangeQuietly, PagesInv, PagesShowJournal
<1>4. CASE UNCHANGED pagesVars
    BY <1>4 DEF pagesVars, PagesInv, PagesTypes, VisitsTrue, Holds, PagesShowJournal, Current
<1> QED BY <1>1, <1>2, <1>3, <1>4, OpenKeeps, EditorKeeps, ResizeKeeps, ExpireKeeps DEF PagesNext

\* For any number of visits and of editors: once every change has deleted the
\* keys, a page stored for an hour is that of the committed journal, but for the
\* exceptions the property names (dashboard.py:968-988, 1256-1306;
\* cache.py:139-156).
THEOREM PagesAlwaysShow == PagesSpec => []PagesShowJournal
<1>1. PagesInv => PagesShowJournal
    BY DEF PagesInv
<1> QED BY <1>1, PagesStart, PagesStep, PTL DEF PagesSpec
=============================================================================
