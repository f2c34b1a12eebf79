------------------------------- MODULE MCDesk -------------------------------
(* What a member does at the desk: the account (Members), the replay bars   *)
(* (Bars), the review of trades (Review) and talks about them (Reflect),    *)
(* side by side: a behaviour moves one of them.                             *)
EXTENDS Members, Bars, Reflect, TLC

CONSTANTS Parts,        \* the parts to explore
          u1, u2, e1, e2, e3, s1, w1, w2, x1

VARIABLE part
MCvars == <<vars, barsVars, reflectVars, part>>
-----------------------------------------------------------------------------
\* The member there may be at first is u1 with address e1; the code has a use left.
MCMembersInit == user[u2] = None /\ (user[u1] # None => user[u1].email = e1) /\ uses < MaxUses

\* Addresses e1 and e2 sign up, e3 is only changed to.  The administrator acts
\* first, rows are inserted by the first two moves, and the fourth one goes to
\* the links of a change.
Started(w) == web[w] = Idle /\ web'[w] # Idle
Inserts(w) == Started(w) /\ web'[w].from = None
Decides(w) == /\ Started(w) /\ web'[w].from # None /\ web'[w].to # None
              /\ web'[w].from.status # web'[w].to.status
MCMembersNext ==
    /\ Next
    /\ \A w \in Sessions : /\ Inserts(w) => moves <= 1 /\ web'[w].to.email # e3
                           /\ Decides(w) => moves = 0
    /\ active' # active => moves = 0
    /\ moves' > moves /\ moves' = 4 => \E w \in Sessions : Started(w) /\ web'[w].opens # {}
-----------------------------------------------------------------------------
\* Trades 1 and 2 are settled, 3 will close, and the market closes after 2.
MCBarsInit == auto /\ ~plan /\ life = [t \in Trades |-> IF t = 3 THEN "open" ELSE "settled"]

\* While a batch with their bars is on the way, trade 2 is deleted, the times of
\* trade 3 move, and the administrator's task fetches trade 3 as well.  With the
\* switch off or the account paused or gone the clock stands still.
MCBarsNext ==
    /\ BarsNext
    /\ \A t \in Trades : /\ life[t] = "settled" => life'[t] \in {"settled", "deleted"}
                         /\ life'[t] # life[t] /\ life'[t] = "deleted" => t = 2 /\ 2 \in Items(1)
                         /\ times'[t] # times[t] => t = 3 /\ 3 \in Items(1) /\ life[3] = "settled"
    /\ \A j \in Singles : /\ job'[j].of \subseteq {3}
                          /\ job[j] = NoJob /\ job'[j] # NoJob => job[1].at = "fetched"
    /\ ~auto \/ account # "active" => <<life, times, bars>>' = <<life, times, bars>> \/ job' # job
    /\ auto' # auto \/ account' = "inactive" => life[3] = "open" /\ job[1] = NoJob
    /\ account' # account /\ account' = "tombstone" => job[1].at \in {"fetched", "posted"}
-----------------------------------------------------------------------------
\* A stop, a larger trade that wins, one more that loses, and one the
\* other way.
ATrade(i, from, to, side, lot, raw, com, swap, exit, sl, tp) ==
    [id |-> i, opened |-> from, closed |-> to, symbol |-> "EURUSD", side |-> side,
     lot |-> lot, raw |-> raw, commission |-> com, swap |-> swap, entry |-> 100,
     exit |-> exit, sl |-> sl, tp |-> tp, known |-> TRUE, bundle |-> Nil, flag |-> FALSE]
MCData ==
    <<ATrade(1, 100, 130, "BUY", 1, -50, 5, 0, 90, 90, 120),
      ATrade(2, 135, 200, "BUY", 2, 30, 5, -1, 110, 85, 120),
      ATrade(3, 150, 220, "BUY", 2, -10, 5, 0, 95, 85, 130),
      ATrade(4, 225, 260, "SELL", 2, 40, 0, 0, 92, 110, 80)>>
MCFlows == {[at |-> 210, amount |-> -25]}

MCReviewInit ==
    row = [i \in Ids |-> IF <<part, i>> \in ({"review"} \X {1, 3}) \cup ({"reflect"} \X {2, 3})
                         THEN "closed" ELSE "none"]
MCReviewNext == ReviewNext /\ (week' # week => form.stage = "checkin" /\ acts = 0)

\* A talk begins before the second change of the journal, a trade is open, closed
\* or gone, and the check-in stays closed.
MCReflectNext ==
    /\ ReflectNext
    /\ form' = NoForm /\ week' = week
    /\ \A x \in Talks : talk[x] = NoTalk /\ talk'[x] # NoTalk => acts <= 1 /\ talk'[x].of # 4
    /\ \A i \in Ids : row'[i] \in {"none", "open", "closed"}
-----------------------------------------------------------------------------
MCInit ==
    /\ part \in Parts
    /\ Init /\ MCMembersInit /\ (part # "members" => user[u1] = None /\ uses = 0)
    /\ BarsInit /\ MCBarsInit
    /\ ReflectInit /\ MCReviewInit

MCNext ==
    /\ UNCHANGED part
    /\ \/ part = "members" /\ MCMembersNext /\ UNCHANGED <<barsVars, reflectVars>>
       \/ part = "bars" /\ MCBarsNext /\ UNCHANGED <<vars, reflectVars>>
       \/ part = "review" /\ MCReviewNext /\ UNCHANGED <<vars, barsVars, talkVars>>
       \/ part = "reflect" /\ MCReflectNext /\ UNCHANGED <<vars, barsVars>>

\* FairSpec and BarsFairness, each in its own part.
OfMembers(A) == part = "members" /\ A
OfBars(A) == part = "bars" /\ A
MCFairness ==
    \/ /\ part = "members"
       /\ \A w \in Sessions : WF_vars(OfMembers(Commit(w) \/ Rollback(w)))
       /\ \A u \in Users : /\ WF_vars(OfMembers(Age(u)))
                           /\ SF_vars(OfMembers(\E w \in Sessions : Purge(w, u)))
    \/ /\ part = "bars"
       /\ \A j \in Jobs : WF_barsVars(OfBars(JobStep(j)))
       /\ \A j \in Batches : SF_barsVars(OfBars(Fetch(j, ToFetch(j))))
       /\ \A j \in Batches, t \in Trades \ Gapped :
             /\ SF_barsVars(OfBars(t \in Items(j) /\ Post(j)))
             /\ SF_barsVars(OfBars(t \in Items(j) /\ Store(j)))
       /\ \A t \in Trades : WF_barsVars(OfBars(life[t] = "young" /\ Mature(t)))
    \/ part \in {"review", "reflect"}

MCSpec == MCInit /\ [][MCNext]_MCvars /\ MCFairness
=============================================================================
