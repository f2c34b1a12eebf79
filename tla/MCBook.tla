------------------------------- MODULE MCBook -------------------------------
(* The journal and the pages cached of it, side by side: they share no state, *)
(* so a behaviour moves one of them.                                         *)
EXTENDS Book, Pages, TLC

CONSTANTS t1, t2, p1, v1, v2, w1, w2, visit1, visit2, e1

VARIABLE part       \* the part that this behaviour explores

TwoTrades == {t1, t2}
OneProfile == {p1}
TwoValues == {v1, v2}
OneSplit == {{v1, v2}}
TwoSessions == {w1, w2}

Symmetry == Permutations(TwoTrades) \cup Permutations(TwoSessions) \cup Permutations(TwoValues)

\* Two accounts and no strategy, or one account and a strategy.
MCInit ==
    \/ Init /\ row[1].default
    \/ /\ \E both \in BOOLEAN :
            row = [i \in Ids |-> IF both /\ i \in {1, 2} THEN NewAccount(i = 2, None)
                                 ELSE IF i = 1 THEN NewAccount(TRUE, p1)
                                 ELSE IF ~both /\ i = p1 THEN [archived |-> FALSE, current |-> 1]
                                 ELSE None]
       /\ last = [t \in Trades |-> NoMarks] /\ web = [w \in Sessions |-> None]
       /\ raced = {} /\ moves = 0

\* The steps of Next, by whether a session is free to begin a request: the same
\* steps, found without trying the requests of a session that has one.
Steps ==
    \E w \in Sessions :
        IF web[w] # None
        THEN Commit(w) \/ Rollback(w) \/ QueueReview(w)
        ELSE /\ moves < MaxMoves
             /\ Accounting(w) \/ Strategy(w) \/ Trading(w) \/ Reporting(w) \/ Reviewing(w)

\* A user with a strategy trades, and only deletes accounts; one without does not
\* trade, and makes three moves.  The fourth request overlaps no
\* other, and goes for trades that exist or uploads.
Begins(w) == web[w] = None /\ web'[w] # None
MCNext ==
    /\ Steps
    /\ \A w \in Sessions : Begins(w) =>
         LET ids == DOMAIN web'[w].to IN
         /\ IF row[p1] # None THEN \A a \in ids \cap Accounts : row[a] = None => Deleted(w)' # {}
                              ELSE ids \cap Trades = {} /\ moves < 3
         /\ moves = 3 => /\ \A v \in Sessions : web[v] = None
                         /\ web'[w].queue # None \/ ids \cap Live(Trades) # {}

\* One of the two requests opens the dashboard, the other one the analytics.
\* The second change comes while at most one of them is open, and only the
\* analytics page is opened after it.
MCPagesNext ==
    /\ PagesNext
    /\ view'[visit1].at # "half" /\ view'[visit2].at # "loaded"
    /\ journal'.trades + journal'.size = 2 =>
          view'[visit1] = NoView \/ (view[visit1] # NoView /\ view'[visit2] = NoView)

SideInit == PagesInit /\ MCInit /\ part \in {"book", "pages"} /\ (part = "pages" => Init /\ row[1].default)
SideNext ==
    /\ UNCHANGED part
    /\ \/ part = "book" /\ MCNext /\ UNCHANGED pagesVars
       \/ part = "pages" /\ MCPagesNext /\ UNCHANGED vars
MCSpec == SideInit /\ [][SideNext]_<<vars, pagesVars, part>>
=============================================================================
