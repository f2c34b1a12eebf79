------------------------------ MODULE Figures ------------------------------
(***************************************************************************)
(* The figures of a journal: the analytics page (trading.py:2504-3198) and *)
(* the running P&L (helpers/running_pnl.py, routes/dashboard.py:2994-3092) *)
(* count the trades of a confirmed bundle as one trade.  Amounts are whole *)
(* numbers, prices ticks: formatting and rounding are left out, and so are *)
(* averages and ratios of the sums below.                                  *)
(***************************************************************************)
EXTENDS Patterns, FiniteSetsExt

CONSTANTS Flows         \* deposits and so on: [at, amount], withdrawals negative

ASSUME FiguresAssumption ==
    IsFiniteSet(Flows) /\ \A f \in Flows : f.at \in Nat /\ f.amount \in Int

Total(T, Amount(_)) == MapThenSumSet(Amount, T)

\* trade_is_closed: a close time or an exit price alone will do.
Closed(t) == t.closed # Nil \/ t.exit # Nil

\* When the P&L of a trade counts: at the close, or at the entry if the
\* close has no time.
Realized(t) == IF t.closed # Nil THEN t.closed ELSE t.opened

\* The member of a bundle whose close is the bundle's
LastClosed(g) == CHOOSE t \in g : \A u \in g : u.closed < t.closed \/ (u.closed = t.closed /\ u.id <= t.id)

\* merge_bundled_trades: one trade for the members g.  While a member has no
\* close time it is an open trade, whatever the others made.
OneTrade(g) ==
    LET done == {t \in g : t.closed # Nil} IN
    [FirstOf(g) EXCEPT
        !.closed = IF done = g THEN LastClosed(g).closed ELSE Nil,
        !.exit = IF done = g THEN LastClosed(g).exit ELSE Nil,
        !.known = done = g,
        !.raw = Total({t \in done : t.known}, LAMBDA t : t.raw),
        !.commission = Total(g, LAMBDA t : t.commission),
        !.swap = Total(g, LAMBDA t : t.swap),
        !.lot = Total(g, LAMBDA t : t.lot)]

Bundles(T) == {{u \in T : u.bundle = t.bundle} : t \in {v \in T : v.bundle # Nil}}

Merged(T) == {t \in T : t.bundle = Nil} \cup {OneTrade(g) : g \in Bundles(T)}
-----------------------------------------------------------------------------
(* build_trade_analytics *)

\* closed_records, in the order of the equity curve
Recorded(T) == {t \in Merged(T) : Closed(t) /\ t.known}
ByRealized(t, u) ==
    Realized(t) < Realized(u) \/ (Realized(t) = Realized(u) /\ t.id < u.id)
Records(T) == Arranged(Recorded(T), ByRealized)

NetPnl(T) == FoldLeft(LAMBDA sum, t : sum + Net(t), 0, Records(T))

HighestOf(m, n) == IF m > n THEN m ELSE n

\* Mutant: the highest peak starts at the first point of the curve, not at zero.
DrawdownFromFirst(T) ==
    FoldLeft(LAMBDA c, t :
                LET equity == c.equity + Net(t)
                    peak == HighestOf(c.peak, equity)
                IN  [equity |-> equity, peak |-> peak, drawdown |-> HighestOf(c.drawdown, peak - equity)],
             [equity |-> 0, peak |-> IF Records(T) = <<>> THEN 0 ELSE Net(Records(T)[1]),
              drawdown |-> 0], Records(T)).drawdown

\* max_drawdown, in the pass that draws the equity curve
Drawdown(T) ==
    FoldLeft(LAMBDA c, t :
                LET equity == c.equity + Net(t)
                    peak == HighestOf(c.peak, equity)
                IN  [equity |-> equity, peak |-> peak, drawdown |-> HighestOf(c.drawdown, peak - equity)],
             [equity |-> 0, peak |-> 0, drawdown |-> 0], Records(T)).drawdown

Outcome(t) == IF Net(t) > 0 THEN "win" ELSE IF Net(t) < 0 THEN "loss" ELSE "breakeven"

\* calculate_streaks
Streaks(T) ==
    FoldLeft(LAMBDA s, t :
                LET length == IF Outcome(t) = s.type THEN s.length + 1 ELSE 1 IN
                [type |-> Outcome(t), length |-> length,
                 best |-> [s.best EXCEPT ![Outcome(t)] = HighestOf(@, length)]],
             [type |-> "none", length |-> 0,
              best |-> [o \in {"win", "loss", "breakeven"} |-> 0]], Records(T))
-----------------------------------------------------------------------------
(* Stops and targets.  Towards(t, p, q): how far p lies from q in the      *)
(* direction in which t makes money.                                       *)

Towards(t, p, q) == IF t.side = "SELL" THEN q - p ELSE p - q

\* get_trade_level_validation_issues finds nothing wrong with the level; a
\* level is on its side of the entry by more than the tolerance.
GoodStop(t) == t.sl # Nil => Towards(t, t.entry, t.sl) > Tolerance
GoodTarget(t) == t.tp # Nil => Towards(t, t.tp, t.entry) > Tolerance

\* Mutant: the direction of a short trade is forgotten.
ReachedAsLong(t, level) == t.exit # Nil /\ t.exit >= level - Tolerance

\* did_trade_reach_level for the target and for the stop
ReachedTarget(t, level) == t.exit # Nil /\ Towards(t, t.exit, level) >= -Tolerance
ReachedStop(t, level) == t.exit # Nil /\ Towards(t, level, t.exit) >= -Tolerance

\* closed_before_tp_count, closed_before_sl_count
ClosedBeforeTarget(T) ==
    {t \in Range(Records(T)) :
        Net(t) > 0 /\ t.tp # Nil /\ GoodTarget(t) /\ ~ReachedTarget(t, t.tp)}
ClosedBeforeStop(T) ==
    {t \in Range(Records(T)) :
        Net(t) < 0 /\ t.sl # Nil /\ GoodStop(t) /\ ~ReachedStop(t, t.sl)}

\* build_rr_summary: the trades whose planned and actual reward, relative
\* to the risk, are averaged.
Rated(T) ==
    {t \in Merged(T) :
        /\ t.sl # Nil /\ t.tp # Nil /\ t.exit # Nil
        /\ GoodStop(t) /\ GoodTarget(t)
        /\ Abs(t.exit - t.entry) > Tolerance}

\* _calculate_trade_risk_reward, as the reward for a risk of Risk(t)
Risk(t) == Abs(t.entry - t.sl)
Planned(t) == Towards(t, t.tp, t.entry)
Actual(t) == Towards(t, t.exit, t.entry)
-----------------------------------------------------------------------------
(* running_pnl_api, build_running_pnl_events, summarize_running_pnl: the   *)
(* totals over the time from <= x < to.  Only closed trades are loaded,    *)
(* and bundles are merged after that.                                      *)

In(x, from, to) == from <= x /\ x < to

RealizedPnl(T, from, to) ==
    Total({t \in Merged({u \in T : Closed(u)}) :
              Closed(t) /\ t.known /\ In(Realized(t), from, to)}, Net)

CashFlow(from, to) == Total({f \in Flows : In(f.at, from, to)}, LAMBDA f : f.amount)

NetResult(T, from, to) == RealizedPnl(T, from, to) + CashFlow(from, to)
=============================================================================
