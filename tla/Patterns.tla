------------------------------ MODULE Patterns ------------------------------
(***************************************************************************)
(* What the review of trades suggests (helpers/trade_analysis.py): groups  *)
(* of trades that look like one idea entered in parts, and single trades   *)
(* that look like revenge for a loss.  The suggestions are worked out anew *)
(* on every page from the closed trades T of an account or of a week;      *)
(* nothing of them is stored.                                              *)
(*                                                                         *)
(* A trade is a record with its id, times in minutes, prices in ticks,     *)
(* money, symbol and side, and the marks of earlier reviews: bundle (0:    *)
(* none) and flag (is_revenge, is_reactive or is_corrective).  Scores are  *)
(* in hundredths.                                                          *)
(***************************************************************************)
EXTENDS Integers, Sequences, FiniteSets, SequencesExt

CONSTANT Tolerance      \* two prices so close count as the same

ASSUME PatternsAssumption == Tolerance \in Nat

Nil == 0               \* no close time, no price, no bundle

\* get_trade_sort_key
Before(t, u) ==
    \/ t.opened < u.opened
    \/ t.opened = u.opened /\ t.closed < u.closed
    \/ t.opened = u.opened /\ t.closed = u.closed /\ t.id < u.id

\* The members of S in the order Less: k - 1 of them come before the k-th.
Arranged(S, Less(_, _)) ==
    [k \in 1..Cardinality(S) |-> CHOOSE t \in S : Cardinality({u \in S : Less(u, t)}) = k - 1]

Chronological(T) == Arranged(T, Before)

\* calculate_trade_net_pnl
Abs(n) == IF n < 0 THEN -n ELSE n
Net(t) == t.raw - Abs(t.commission) + t.swap

\* resolve_net_pnl, where an unknown P&L is no loss
Lost(t) == t.known /\ Net(t) < 0

SameIdea(t, u) == t.symbol = u.symbol /\ t.side = u.side

\* get_split_group_key: entries into one idea within the same five minutes
SplitBucketMinutes == 5
SplitKey(t) == <<t.symbol, t.side, t.opened \div SplitBucketMinutes>>
InSplit(T, t) == \E u \in T \ {t} : SplitKey(u) = SplitKey(t)

\* minutes_between(from, to) exists and is at most m
Within(from, to, m) == from <= to /\ to - from <= m
-----------------------------------------------------------------------------
(* build_trade_annotations: a trade against those opened before it.        *)

Earlier(T, t) == {u \in T : Before(u, t)}
Latest(S) == CHOOSE u \in S : \A v \in S : v = u \/ Before(v, u)

\* The latest one of S as a set, none if it is a part of the same split.
LastOther(S, t) == IF S = {} \/ SplitKey(Latest(S)) = SplitKey(t) THEN {} ELSE {Latest(S)}

Previous(T, t) == IF Earlier(T, t) = {} THEN {} ELSE {Latest(Earlier(T, t))}
PreviousOfSymbol(T, t) == LastOther({u \in Earlier(T, t) : u.symbol = t.symbol}, t)
PreviousOfIdea(T, t) == LastOther({u \in Earlier(T, t) : SameIdea(u, t)}, t)

\* loss_streak_before_trade: losses in a row, in the order the trades were
\* opened, whether or not they were closed by then.
LossStreak(T, t) ==
    Cardinality({u \in Earlier(T, t) :
                    \A v \in Earlier(T, t) : (v = u \/ Before(u, v)) => Lost(v)})

\* _describe_size_change, against any of the two trades compared with
Larger(S, t) == \E u \in S : t.lot > u.lot
SameSize(S, t) == \E u \in S : t.lot = u.lot

RevengeWindow == 90

\* same_symbol_reentry, same_trade_idea_reentry: opened after the close
SameSymbolReentry(T, t) ==
    \E u \in Previous(T, t) : u.closed <= t.opened /\ u.symbol = t.symbol
SameIdeaReentry(T, t) ==
    \E u \in PreviousOfIdea(T, t) : Within(u.closed, t.opened, RevengeWindow)

\* The steps of waiting time for which a re-entry scores less and less.
Ladder(S, t, steps) ==
    LET Hit == {i \in DOMAIN steps : \E u \in S : Within(u.closed, t.opened, steps[i][1])}
    IN  IF Hit = {} THEN 0 ELSE steps[CHOOSE i \in Hit : \A j \in Hit : i <= j][2]

\* _score_revenge_signal
PostLoss(T, t) ==
    IF \E u \in PreviousOfSymbol(T, t) : u.closed <= t.opened /\ Lost(u)
    THEN IF \E u \in PreviousOfSymbol(T, t) : Within(u.closed, t.opened, RevengeWindow)
         THEN 100 ELSE 0
    ELSE IF /\ SameIdeaReentry(T, t)
            /\ \E u \in Previous(T, t) : Lost(u) /\ Within(u.closed, t.opened, RevengeWindow)
         THEN 85 ELSE 0

Waiting(T, t) ==
    IF \E u \in PreviousOfSymbol(T, t) : u.closed <= t.opened
    THEN Ladder(PreviousOfSymbol(T, t), t, <<<<10, 75>>, <<30, 50>>, <<RevengeWindow, 25>>>>)
    ELSE Ladder(Previous(T, t), t, <<<<10, 40>>, <<30, 25>>>>)

Revenge(T, t) ==
    LET compared == Previous(T, t) \cup PreviousOfSymbol(T, t) IN
    IF InSplit(T, t) THEN 0
    ELSE   (IF PostLoss(T, t) > 0 THEN PostLoss(T, t) ELSE Waiting(T, t))
         + (IF SameSymbolReentry(T, t) THEN 25 ELSE 0)
         + (IF SameIdeaReentry(T, t) THEN 35 ELSE 0)
         + (IF Larger(compared, t) THEN 55 ELSE IF SameSize(compared, t) THEN 10 ELSE 0)
         + (IF LossStreak(T, t) >= 2 THEN 70 ELSE IF LossStreak(T, t) = 1 THEN 22 ELSE 0)

\* is_potential_revenge
Suspicious(T, t) == Revenge(T, t) >= 150
-----------------------------------------------------------------------------
(* detect_outliers *)

Eligible(T) == {t \in T : t.bundle = Nil /\ ~t.flag}

\* _prices_match
Alike(p, q) == p # Nil /\ q # Nil /\ Abs(p - q) <= Tolerance

ReentryWindow == 240

\* u may be a part of the idea that t, opened before it, stands for.
PartOf(t, u) ==
    /\ Before(t, u)
    /\ u.opened <= t.closed
    /\ Within(t.opened, u.opened, ReentryWindow)
    /\ SameIdea(t, u)
    /\ SplitKey(t) = SplitKey(u) \/ Alike(t.tp, u.tp) \/ Alike(t.sl, u.sl) \/ Alike(t.exit, u.exit)

\* Every trade that is in no group yet gathers its parts among the others.
Groups(T) ==
    FoldLeft(LAMBDA found, t :
                LET free == Eligible(T) \ UNION found
                    group == {t} \cup {u \in free : PartOf(t, u)}
                IN  IF t \in free /\ group # {t} THEN found \cup {group} ELSE found,
             {}, Chronological(Eligible(T)))

\* Mutant: the single trades are compared with the others still under review only.
ComparedWithEligible(T) ==
    {t \in Eligible(T) \ UNION Groups(T) : Suspicious(Eligible(T) \ UNION Groups(T), t)}

\* The single trades to ask about: compared with all trades, those of bundles, too.
Alone(T) == {t \in Eligible(T) \ UNION Groups(T) : Suspicious(T, t)}

\* The type a group is suggested with: that of its first trade.
FirstOf(g) == CHOOSE t \in g : \A u \in g : u = t \/ Before(t, u)
SuspiciousGroup(T, g) == Suspicious(T, FirstOf(g))
=============================================================================
