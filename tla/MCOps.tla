------------------------------- MODULE MCOps -------------------------------
(* The broker refresh, the two parts of the monitoring and the symbols,     *)
(* side by side: they share no state, so a behaviour moves one of them, and *)
(* the state space is the sum and not the product.                          *)
EXTENDS Refresh, Monitor, Symbols, TLC

CONSTANTS Parts,        \* the parts to explore
          r1, r2, w1, w2, vmA, vmB, acc1, chk1, chk2, qL, qA, qB, q0,
          web1, web2, sync1

MCHome == (w1 :> vmA) @@ (w2 :> vmB)
MCListens == (w1 :> {vmA}) @@ (w2 :> {vmA, vmB})
MCVmOf == acc1 :> vmA
MCHostOf == qB :> vmB

\* The feature is on and may be switched off; the first request is dry or
\* not, and for either VM, the second one is for vmA.
MCRefreshNext ==
    \/ Request(r1, vmA, TRUE)
    \/ \E v \in Machines : Request(r1, v, FALSE)
    \/ Request(r2, vmA, FALSE)
    \/ (enabled /\ Switch)
    \/ \E j \in Jobs : Take(j) \/ WorkerStep(j)
    \/ \E w \in Workers : Crash(w)
    \/ \E v \in Machines : LapseGui(v)
    \/ LapseGlobal

\* The queues and the check of one kind of worker.
MCStallNext(k) ==
    \/ \E q \in QueuesOf(k) : QueueStep(q)
    \/ k = "sync" /\ \E h \in Hosts : ShowsUp(h) \/ LapseWorker(h)
    \/ k = "setup" /\ AgeStarted
    \/ \E found \in {shown, {}} : CheckStall(k, found)

\* XAUUSD, which brokers also call GOLD, EURUSD, and GER40, which is inactive.
MCOrder == <<<<"XAUUSD">>, <<"EURUSD">>, <<"GER40">>>>
MCTable0 == <<{<<"GOLD">>}, {<<"EU">>}, {}>>
MCDefaults == <<{<<"GOLD">>}, {}, {}>>
MCProposals == {{}, {<<"GOLD">>}, {<<"XAUUSD">>}, {<<"EU">>, <<"GOLD", "M">>}, {<<"EURUSD", "M">>}}

VARIABLE part       \* the part that this behaviour explores

MCInit == /\ RefreshInit /\ enabled /\ MonitorInit /\ SymbolsInit
          /\ part \in Parts /\ (legacy => part = "sync")
MCvars == <<refreshVars, alertVars, stallVars, symbolVars, part>>

MCNext ==
    /\ UNCHANGED part
    /\ \/ part = "refresh" /\ MCRefreshNext /\ UNCHANGED <<alertVars, stallVars, symbolVars>>
       \/ part = "delay" /\ AlertNext /\ UNCHANGED <<refreshVars, stallVars, symbolVars>>
       \/ part \in Kinds /\ MCStallNext(part) /\ UNCHANGED <<refreshVars, alertVars, symbolVars>>
       \/ part = "symbols" /\ SymbolsNext /\ UNCHANGED <<refreshVars, alertVars, stallVars>>

\* AlertFairness and StallFairness, each in its own part.
Delay(A) == part = "delay" /\ A
Stall(k, A) == part = k /\ A
MCFairness ==
    \/ /\ part = "delay"
       /\ \A c \in Checks : /\ WF_alertVars(Delay(Load(c))) /\ WF_alertVars(Delay(CheckStep(c)))
                            /\ SF_alertVars(Delay(Mail(c, ToMail(c))))
                            /\ SF_alertVars(Delay(Commit(c) /\ AllSent(c)))
    \/ /\ part \in Kinds
       /\ \A k \in Kinds : WF_stallVars(Stall(k, CheckStall(k, shown)))
       /\ \A k \in Kinds, q \in Queues :
              WF_stallVars(Stall(k, q \in QueuesOf(k) /\ AgeProcessed(q)))
       /\ WF_stallVars(Stall("setup", AgeStarted))
    \/ part \in {"refresh", "symbols"}

MCSpec == MCInit /\ [][MCNext]_MCvars /\ MCFairness
=============================================================================
