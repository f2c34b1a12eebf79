------------------------------- MODULE Review -------------------------------
(***************************************************************************)
(* The review of an account's trades: the bundle review of all closed      *)
(* trades (routes/trades.py:1684-1789) and the weekly check-in             *)
(* (routes/checkin.py), a form in three stages.  Every stage is a page of  *)
(* its own whose choices travel in the form; the server detects the        *)
(* suggestions anew at every post, and once more to save them.  Meanwhile  *)
(* trades arrive by a sync or an import and are edited.  The figures of    *)
(* module Figures are taken of the journal at every moment.                *)
(***************************************************************************)
EXTENDS Figures

CONSTANTS Ids,          \* trades that may come to the journal
          Data,         \* Data[i]: the trade as it ends up
          States,       \* the row states the journal is checked with
          WeekLength,   \* minutes
          MaxWeek,      \* bound: weeks that pass
          MaxActs       \* bound: arrivals, edits and forms sent

\* The columns of a trade that count here, see module Patterns.
TradeRecords ==
    [id : Ids, opened : Nat, closed : Nat, symbol : STRING, side : {"BUY", "SELL"}, lot : Nat,
     raw : Int, commission : Int, swap : Int, entry : Nat, exit : Nat, sl : Nat, tp : Nat,
     known : BOOLEAN, bundle : {Nil}, flag : {FALSE}]

ASSUME ReviewAssumption ==
    /\ Ids \subseteq Nat \ {0} /\ IsFiniteSet(Ids)
    /\ Data \in [Ids -> TradeRecords] /\ \A i \in Ids : Data[i].id = i
    /\ States \subseteq {"none", "open", "closed", "exited", "timed"}
    /\ WeekLength \in Nat \ {0} /\ MaxWeek \in Nat /\ MaxActs \in Nat

VARIABLES row,          \* row[i]: "none", "open", "closed"; "exited": closed with
                        \* a price only, "timed": with a time only
          mark,         \* mark[i]: what reviews have said of it
          week,         \* the latest completed trade week
          answered,     \* the weeks whose check-in is complete
          listing,      \* the groups the open bundle review page shows
          form,         \* the open page of the check-in
          acts

reviewVars == <<row, mark, week, answered, listing, form, acts>>

Trade(i) ==
    [Data[i] EXCEPT
        !.closed = IF row[i] \in {"closed", "timed"} THEN @ ELSE Nil,
        !.exit = IF row[i] \in {"closed", "exited"} THEN @ ELSE Nil,
        !.known = row[i] \in {"closed", "exited"},
        !.bundle = mark[i].bundle,
        !.flag = mark[i].revenge]

Journal == {Trade(i) : i \in {j \in Ids : row[j] # "none"}}

\* The closed trades of the account, and those of the completed week.
AllClosed == {t \in Journal : t.closed # Nil}
ThisWeek == {t \in AllClosed : t.closed \div WeekLength = week}

IdsOf(S) == {t.id : t \in S}
GroupsIn(T) == {IdsOf(g) : g \in Groups(T)}
AloneIn(T) == IdsOf(Alone(T))
SuspiciousIn(T) == {IdsOf(g) : g \in {h \in Groups(T) : SuspiciousGroup(T, h)}}

\* The form carries the ticked groups and the answers "revenge" (yes) and
\* "not revenge" or "not sure" (no), for a group by its members, for a single
\* trade by its pubkey: both are sets of ids here.
NoForm == [stage |-> "none", groups |-> {}, yes |-> {}, no |-> {}]

ReviewInit ==
    /\ row \in [Ids -> {"none", "closed"}]
    /\ mark = [i \in Ids |-> [bundle |-> Nil, revenge |-> FALSE]]
    /\ week = 0
    /\ answered = {}
    /\ listing = {}
    /\ form = NoForm
    /\ acts = 0

Act == acts < MaxActs /\ acts' = acts + 1
-----------------------------------------------------------------------------
(* The journal changes under the reviews. *)

\* A trade is entered, synchronised or edited; its marks stay.
Record(i, s) ==
    /\ Act
    /\ s # row[i] /\ s # "none"
    /\ row' = [row EXCEPT ![i] = s]
    /\ UNCHANGED <<mark, week, answered, listing, form>>

\* Another trade week is complete.
NextWeek ==
    /\ week < MaxWeek
    /\ week' = week + 1
    /\ UNCHANGED <<row, mark, answered, listing, form, acts>>

\* The administrator dissolves all bundles of the account.
Unbundle ==
    /\ Act
    /\ \E i \in Ids : mark[i].bundle # Nil
    /\ mark' = [i \in Ids |-> [mark[i] EXCEPT !.bundle = Nil]]
    /\ UNCHANGED <<row, week, answered, listing, form>>
-----------------------------------------------------------------------------
(* The bundle review of all closed trades. *)

\* Members of g that are in no bundle get a new one, named here after one of them.
BundleAs(m, g) ==
    LET free == {i \in g : m[i].bundle = Nil} IN
    [i \in Ids |-> IF i \in free THEN [m[i] EXCEPT !.bundle = CHOOSE k \in free : \A j \in free : k <= j]
                   ELSE m[i]]

OpenListing ==
    /\ listing' = GroupsIn(AllClosed)
    /\ listing' # listing
    /\ UNCHANGED <<row, mark, week, answered, form, acts>>

\* The trades named by the page, as many of them as are closed now.
ConfirmListed(gs) ==
    /\ Act
    /\ gs # {} /\ gs \subseteq listing
    /\ LET kept == {g \in {h \cap IdsOf(AllClosed) : h \in gs} : Cardinality(g) >= 2}
       IN  mark' = FoldSet(LAMBDA g, m : BundleAs(m, g), mark, kept)
    /\ listing' = {}
    /\ UNCHANGED <<row, week, answered, form>>
-----------------------------------------------------------------------------
(* The weekly check-in. *)

\* _render_checkin_page: the page asks about the ticked groups and the single
\* trades that are suspicious now.  What the form holds no answer for is
\* preset to what the detector found: revenge.
Page(stage, groups, no) ==
    LET asks == (groups \cap SuspiciousIn(ThisWeek)) \cup {{i} : i \in AloneIn(ThisWeek)}
    IN  [stage |-> stage, groups |-> groups \cap GroupsIn(ThisWeek),
         yes |-> asks \ no, no |-> asks \cap no]

\* Without anything to ask the classification is passed over.
PageAfterBundles(groups) ==
    LET page == Page("classification", groups, {})
    IN  IF page.yes = {} THEN [page EXCEPT !.stage = "checkin"] ELSE page

OpenCheckin ==
    /\ ThisWeek # {} /\ week \notin answered
    /\ form' = IF GroupsIn(ThisWeek) # {}
               THEN [NoForm EXCEPT !.stage = "bundles", !.groups = GroupsIn(ThisWeek)]
               ELSE PageAfterBundles({})
    /\ UNCHANGED <<row, mark, week, answered, listing, acts>>

\* checkin(), POST.  Without closed trades it ends at once.
PostBundles(ticked) ==
    /\ form.stage = "bundles" /\ ticked \subseteq form.groups
    /\ form' = IF ThisWeek = {} THEN NoForm ELSE PageAfterBundles(ticked)
    /\ UNCHANGED <<row, mark, week, answered, listing, acts>>

PostClassification(no) ==
    /\ form.stage = "classification" /\ no \subseteq form.yes \cup form.no
    /\ form' = IF ThisWeek = {} THEN NoForm ELSE Page("checkin", form.groups, no)
    /\ UNCHANGED <<row, mark, week, answered, listing, acts>>

\* The last stage without its three answers: shown again.
PostIncomplete ==
    /\ form.stage = "checkin"
    /\ form' = IF ThisWeek = {} THEN NoForm ELSE Page("checkin", form.groups, form.no)
    /\ UNCHANGED <<row, mark, week, answered, listing, acts>>

\* The groups and trades that are marked, of those the detector finds now.
TakenGroups == form.groups \cap GroupsIn(ThisWeek)
Guilty ==
    UNION ({g \in TakenGroups : g \in form.yes \/ (g \notin form.no /\ g \in SuspiciousIn(ThisWeek))}
           \cup ({{i} : i \in AloneIn(ThisWeek)} \ form.no))

SaveCheckin ==
    /\ form.stage = "checkin"
    /\ form' = NoForm
    /\ IF ThisWeek = {}
       THEN UNCHANGED <<mark, answered>>
       ELSE /\ LET bundled == FoldSet(LAMBDA g, m : BundleAs(m, g), mark, TakenGroups)
               IN  mark' = [i \in Ids |-> [bundled[i] EXCEPT !.revenge = @ \/ i \in Guilty]]
            /\ answered' = answered \cup {week}
    /\ UNCHANGED <<row, week, listing, acts>>

\* Skipped for now, or left.
LeaveCheckin ==
    /\ form # NoForm /\ form' = NoForm
    /\ UNCHANGED <<row, mark, week, answered, listing, acts>>

ReviewNext ==
    \/ \E i \in Ids, s \in States : Record(i, s)
    \/ NextWeek \/ Unbundle \/ OpenListing
    \/ \E gs \in SUBSET listing : ConfirmListed(gs)
    \/ OpenCheckin \/ PostIncomplete \/ SaveCheckin \/ LeaveCheckin
    \/ \E gs \in SUBSET form.groups : PostBundles(gs)
    \/ \E no \in SUBSET (form.yes \cup form.no) : PostClassification(no)

ReviewSpec == ReviewInit /\ [][ReviewNext]_reviewVars
-----------------------------------------------------------------------------
(* Properties. *)

ReviewTypeOK ==
    /\ row \in [Ids -> States \cup {"none", "closed"}]
    /\ mark \in [Ids -> [bundle : Ids \cup {Nil}, revenge : BOOLEAN]]
    /\ week \in 0..MaxWeek /\ answered \subseteq 0..MaxWeek
    /\ listing \subseteq SUBSET Ids
    /\ form.groups \subseteq SUBSET Ids

\* The equity curve of the records, from zero.
Curve(s) ==
    LET equity[i \in 0..Len(s)] == IF i = 0 THEN 0 ELSE equity[i - 1] + Net(s[i])
    IN  equity

\* The commissions of a bundle have one sign, and it misses no close and no
\* P&L: its net P&L is then that of its members.
Tidy(g) ==
    /\ \A t \in g : t.closed # Nil /\ t.known
    /\ (\A t \in g : t.commission >= 0) \/ (\A t \in g : t.commission <= 0)

KnownTrades(T) == {t \in T : Closed(t) /\ t.known}

\* The figures agree however the trades were bundled and edited: the drawdown
\* is the deepest fall of the equity curve from any earlier point, and the
\* best streaks are the longest runs (trading.py:2504, 2959); a confirmed
\* bundle whose members are all closed changes no total, and the running P&L
\* ends at the net P&L of the analytics page and adds up over adjacent time
\* ranges (helpers/running_pnl.py:39); the trades counted as closed before
\* their target made less than was planned, the others no less, and the same
\* for stops (trading.py:1274, 2586, 3096).
FiguresAgree ==
    LET T == Journal
        s == Records(T)
        equity == Curve(s)
        ends == {Realized(t) : t \in Merged(T)}
        longest(o) == LET Runs == {r \in (1..Len(s)) \X (1..Len(s)) :
                                     r[1] <= r[2] /\ \A i \in r[1]..r[2] : Outcome(s[i]) = o}
                      IN  {0} \cup {r[2] - r[1] + 1 : r \in Runs}
        now == Max({0} \cup ends) + 1
    IN  /\ Drawdown(T) = Max({equity[r[1]] - equity[r[2]] :
                                r \in {q \in (0..Len(s)) \X (0..Len(s)) : q[1] <= q[2]}})
        /\ \A o \in {"win", "loss"} : Streaks(T).best[o] = Max(longest(o))
        /\ (\A g \in Bundles(T) : Tidy(g)) =>
              /\ NetPnl(T) = Total(KnownTrades(T), Net)
              /\ RealizedPnl(T, 0, now) = NetPnl(T)
        /\ \A cut \in ends :
              NetResult(T, 0, cut) + NetResult(T, cut, now) = NetResult(T, 0, now)
        /\ \A t \in Rated(T) :
              /\ t \in ClosedBeforeTarget(T) => Actual(t) < Planned(t)
              /\ t \in Range(s) \ ClosedBeforeTarget(T) /\ Net(t) > 0
                    => Actual(t) >= Planned(t) - Tolerance
              /\ t \in ClosedBeforeStop(T) => Actual(t) > -Risk(t)
              /\ t \in Range(s) \ ClosedBeforeStop(T) /\ Net(t) < 0
                    => Actual(t) <= -Risk(t) + Tolerance

\* The groups that a step bundles and the trades that it marks
Bundled == {i \in Ids : mark[i].bundle = Nil /\ mark'[i].bundle # Nil}
BundledGroups == {{j \in Bundled : mark'[j].bundle = mark'[i].bundle} : i \in Bundled}
Marked == {i \in Ids : ~mark[i].revenge /\ mark'[i].revenge}

\* When they are all suggested for T, exactly the others are left.
SettledIn(T) ==
    BundledGroups \subseteq GroupsIn(T) /\ Marked \subseteq AloneIn(T) \cup UNION BundledGroups
        => /\ GroupsIn(T)' = GroupsIn(T) \ BundledGroups
           /\ AloneIn(T)' = AloneIn(T) \ Marked

\* Answering a suggestion settles it and raises no other, neither among those
\* for the account nor among those for the week, whatever the order of the
\* answers and of the trades (helpers/trade_analysis.py:431).
SuggestionsSettled ==
    Bundled \cup Marked # {} => SettledIn(AllClosed) /\ SettledIn(ThisWeek)
SuggestionsSound == [][SuggestionsSettled]_reviewVars
=============================================================================
