-------------------------------- MODULE Book --------------------------------
(***************************************************************************)
(* The journal of one user: trade accounts with their default, trades      *)
(* entered by hand or uploaded, strategies with their versions, and the    *)
(* review of split fills.                                                  *)
(*                                                                         *)
(* Every request is a transaction: it loads rows, decides, and at its      *)
(* commit writes the columns whose value it changed; other requests may    *)
(* commit in between.  Unique in the database are the default account of   *)
(* the user, the import key within an account, and the number of a version *)
(* within its strategy.                                                    *)
(*                                                                         *)
(* The accounts are of type FUTURES: a report row is recognised by its     *)
(* values.  (Of a CFD account it is recognised by its position, and the    *)
(* synchronisation writes too: module Mt5Sync.)  A value stands for symbol, *)
(* side, prices, size, times and pnl together.  Every request spends one   *)
(* of MaxMoves moves, and is the time of the stamps it writes.             *)
(***************************************************************************)
EXTENDS Naturals, FiniteSets, Functions

CONSTANTS
    NumAccounts, \* primary keys of trade_accounts: 1 .. NumAccounts
    Trades,      \* primary keys of trades
    Profiles,    \* primary keys of trade_profiles (strategies)
    Values,      \* values of a trade
    Splits,      \* pairs of values that look like fills of one order
    Sessions,    \* requests that may be in progress at once
    None,        \* NULL
    MaxMoves

Accounts == 1 .. NumAccounts
Ids == Accounts \cup Trades \cup Profiles

ASSUME BookAssumption ==
    /\ NumAccounts \in Nat \ {0} /\ MaxMoves \in Nat
    /\ Splits \subseteq {{v, x} : v, x \in Values}
    /\ Accounts \cap Trades = {} /\ Accounts \cap Profiles = {} /\ Trades \cap Profiles = {}
    /\ None \notin Trades \cup Values \cup Profiles \cup Nat \cup (Profiles \X Nat)

VARIABLES
    row,   \* row[i]: the row of primary key i, or None
    last,  \* last[t]: the newest row of trade_interpretation_history of trade t
    web,   \* web[w]: the transaction of request w
    raced, \* history: rows written, and accounts booked in, on a stale view
    moves

vars == <<row, last, web, raced, moves>>

-----------------------------------------------------------------------------
(* Rows *)

\* asked, done: bundle_review_requested_at and _completed_at.
AccountRows == [default : BOOLEAN, profile : Profiles \cup {None}, asked : Nat, done : Nat]

\* trade_interpretations: the bundle and the behaviour flags.  A trade without a
\* row there has NoMarks.
Marks == [bundle : Nat, flag : BOOLEAN]
NoMarks == [bundle |-> 0, flag |-> FALSE]

\* key: the values the import key was made from; batch: import_signature, 0 for a
\* trade entered by hand; cost: commission and swap as in the report.
TradeRows == [account : Accounts, value : Values, key : Values \cup {None}, batch : Nat,
              cost : BOOLEAN, profile : Profiles \cup {None},
              version : (Profiles \X Nat) \cup {None}, marks : Marks]

\* The versions of a strategy are numbered 1 .. current.
ProfileRows == [archived : BOOLEAN, current : Nat]

ASSUME RowsAssumption == None \notin AccountRows \cup TradeRows \cup ProfileRows

Live(S) == {i \in S : row[i] # None}
First(S) == CHOOSE i \in S : \A j \in S : i <= j
Of(a) == {t \in Live(Trades) : row[t].account = a}
Default == {a \in Live(Accounts) : row[a].default}

\* A primary key for an insert: no row and no request in progress has it.
Fresh(i) == row[i] = None /\ \A w \in Sessions : web[w] # None => i \notin DOMAIN web[w].to
FreshAccount(a) == Fresh(a) /\ \A b \in Live(Accounts) : b < a

NewAccount(default, p) == [default |-> default, profile |-> p, asked |-> 0, done |-> 0]

\* resolve_user_trade_profile_attachment
Attachable(p) == p # None => row[p] # None /\ ~row[p].archived

VersionOf(p) == IF p = None THEN None ELSE <<p, row[p].current>>

NewTrade(a, v, p) ==
    [account |-> a, value |-> v, key |-> None, batch |-> 0, cost |-> FALSE,
     profile |-> p, version |-> VersionOf(p), marks |-> NoMarks]

-----------------------------------------------------------------------------
(* Transactions *)

\* seen, to: the rows that are written, as loaded and as they are to be.  log:
\* rows for the history.  clears: an UPDATE of every account precedes.  early:
\* a query flushed the deletions before the rest.  queue: the account of an upload.
Transaction(to) ==
    [seen |-> [i \in DOMAIN to |-> row[i]], to |-> to, log |-> <<>>, clears |-> FALSE,
     early |-> FALSE, late |-> FALSE, queue |-> None]

Begin(w, t) ==
    /\ moves < MaxMoves /\ moves' = moves + 1
    /\ web[w] = None
    /\ web' = [web EXCEPT ![w] = t]
    /\ UNCHANGED <<row, last, raced>>

\* What an UPDATE leaves in a row: columns that were not changed keep what is there.
Updated(now, s, t) == [c \in DOMAIN now |-> IF t[c] = s[c] THEN now[c] ELSE t[c]]

UpdatedMarks(now, s, t) == IF t = s THEN now ELSE IF t = NoMarks THEN t ELSE Updated(now, s, t)

UpdatedRow(now, s, t) ==
    IF "marks" \in DOMAIN now
    THEN [Updated(now, s, t) EXCEPT !.marks = UpdatedMarks(now.marks, s.marks, t.marks)]
    ELSE Updated(now, s, t)

\* The table before the request's own statements.
Base(w) == [i \in Ids |-> IF web[w].clears /\ i \in Accounts /\ row[i] # None
                          THEN [row[i] EXCEPT !.default = FALSE] ELSE row[i]]

Deleted(w) == {i \in DOMAIN web[w].to : web[w].to[i] = None}
Inserted(w) == {i \in DOMAIN web[w].to : web[w].seen[i] = None}
Changed(w) == DOMAIN web[w].to \ (Deleted(w) \cup Inserted(w))

\* The table when inserts and updates are done, and when the deletes are too: a
\* deleted account takes its trades along.
Flushed(w) ==
    LET base == Base(w) IN
    [i \in Ids |-> CASE i \in Inserted(w) -> web[w].to[i]
                     [] i \in Changed(w) /\ row[i] # None ->
                          UpdatedRow(base[i], web[w].seen[i], web[w].to[i])
                     [] OTHER -> base[i]]
After(w) ==
    LET flushed == Flushed(w) IN
    [i \in Ids |-> IF \/ i \in Deleted(w)
                      \/ /\ i \in Trades /\ flushed[i] # None
                         /\ flushed[i].account \in Deleted(w)
                   THEN None ELSE flushed[i]]

Unique(table) ==
    LET Has(S, Test(_)) == {i \in S : table[i] # None /\ Test(table[i])}
        Keyed == Has(Trades, LAMBDA r : r.key # None)
    IN /\ Cardinality(Has(Accounts, LAMBDA r : r.default)) <= 1
       /\ \A t, u \in Keyed : <<table[t].account, table[t].key>> = <<table[u].account, table[u].key>>
                              => t = u

\* The row of an interpretation was inserted, or deleted, by another request.
MarksMoved(w, t) ==
    LET s == web[w].seen[t].marks IN
    /\ web[w].to[t].marks \notin {s, NoMarks}
    /\ (s = NoMarks) # (row[t].marks = NoMarks)

\* What the database, or the mapper, refuses.
Fails(w) ==
    \/ ~Unique(IF web[w].early THEN After(w) ELSE Flushed(w))
    \/ \E i \in Changed(w) : row[i] = None
    \/ \E t \in Changed(w) \cap Trades : row[t] # None /\ MarksMoved(w, t)
    \/ \E t \in Inserted(w) \cap Trades : row[web[w].to[t].account] = None
    \/ \E p \in Changed(w) \cap Profiles :
          row[p].current # web[w].seen[p].current /\ web[w].to[p].current # web[w].seen[p].current

\* The accounts whose trades the request compared with its own.
Booked(w) == {web[w].to[t].account : t \in (Inserted(w) \cup Changed(w)) \cap Trades}

Commit(w) ==
    /\ web[w] # None /\ web[w].to # <<>> /\ ~Fails(w)
    /\ row' = After(w)
    /\ last' = [t \in Trades |-> IF t \in DOMAIN web[w].log THEN web[w].log[t]
                                 ELSE IF t \in Inserted(w) THEN NoMarks ELSE last[t]]
    /\ raced' = {i \in Ids : row'[i] # None
                   /\ \/ i \in raced
                      \/ i \in Changed(w) /\ row[i] # web[w].seen[i]
                      \/ web[w].late /\ i \in Booked(w)}
    /\ web' = [v \in Sessions |->
                 IF v = w THEN IF web[w].queue = None THEN None
                               ELSE [Transaction(<<>>) EXCEPT !.queue = web[w].queue]
                 ELSE IF web[v] = None THEN None ELSE [web[v] EXCEPT !.late = TRUE]]
    /\ UNCHANGED moves

\* A request that fails, or is refused, leaves nothing.
Rollback(w) ==
    /\ web[w] # None
    /\ web' = [web EXCEPT ![w] = None]
    /\ UNCHANGED <<row, last, raced, moves>>

-----------------------------------------------------------------------------
(* Accounts *)

\* A page: a user without accounts, or without a default one, gets one.
Visit(w) ==
    /\ Default = {}
    /\ IF Live(Accounts) = {}
       THEN \E a \in Accounts : FreshAccount(a)
              /\ Begin(w, Transaction([i \in {a} |-> NewAccount(TRUE, None)]))
       ELSE Begin(w, Transaction([i \in {First(Live(Accounts))} |-> [row[i] EXCEPT !.default = TRUE]]))

\* The query for a free pubkey flushes the old default before the insert.
CreateAccount(w, a, wants, p) ==
    /\ FreshAccount(a) /\ Attachable(p)
    /\ LET default == wants \/ Live(Accounts) = {}
           olds == IF default THEN Default ELSE {}
       IN Begin(w, Transaction([i \in olds \cup {a} |->
                     IF i = a THEN NewAccount(default, p) ELSE [row[i] EXCEPT !.default = FALSE]]))

\* The selected row was loaded before the UPDATE that clears every default; when it
\* was the default, setting TRUE changes nothing, and is not written.
SetDefault(w, a) ==
    /\ row[a] # None
    /\ Begin(w, [Transaction([i \in {a} |-> [row[i] EXCEPT !.default = TRUE]])
                   EXCEPT !.clears = TRUE])

SetProfile(w, a, p) ==
    /\ row[a] # None /\ Attachable(p)
    /\ Begin(w, Transaction([i \in {a} |-> [row[i] EXCEPT !.profile = p]]))

\* Mutant of Heir: the deletion of a default account leaves no default.
NoHeir(a) == {}

\* The oldest other account inherits the default.
Heir(a) == IF row[a].default /\ Live(Accounts) # {a} THEN {First(Live(Accounts) \ {a})} ELSE {}

\* The last account is replaced; the query for its pubkey flushes the deletion.
\* Else the deletion comes after the heir is made the default.
DeleteAccount(w, a) ==
    /\ row[a] # None
    /\ IF Live(Accounts) = {a}
       THEN \E b \in Accounts : FreshAccount(b)
              /\ Begin(w, [Transaction([i \in {a, b} |->
                             IF i = b THEN NewAccount(TRUE, None) ELSE None]) EXCEPT !.early = TRUE])
       ELSE Begin(w, Transaction([i \in {a} \cup Heir(a) |->
                       IF i = a THEN None ELSE [row[i] EXCEPT !.default = TRUE]]))

DeleteAll(w) ==
    \E b \in Accounts : FreshAccount(b)
      /\ Begin(w, [Transaction([i \in Live(Accounts) \cup {b} |->
                     IF i = b THEN NewAccount(TRUE, None) ELSE None]) EXCEPT !.early = TRUE])

-----------------------------------------------------------------------------
(* Strategies *)

CreateProfile(w, p) ==
    /\ Fresh(p)
    /\ Begin(w, Transaction([i \in {p} |-> [archived |-> FALSE, current |-> 1]]))

\* An edit that changes something adds the next version.
UpdateProfile(w, p) ==
    /\ row[p] # None /\ ~row[p].archived
    /\ Begin(w, Transaction([i \in {p} |-> [row[i] EXCEPT !.current = @ + 1]]))

ArchiveProfile(w, p) ==
    /\ row[p] # None /\ ~row[p].archived
    /\ Begin(w, Transaction([i \in {p} |-> [row[i] EXCEPT !.archived = TRUE]]))

-----------------------------------------------------------------------------
(* Trades *)

\* A trade of account a with value v, other than u.
Duplicate(a, v, u) == \E t \in Of(a) \ {u} : row[t].value = v

\* apply_interpretation: a change of the marks goes to the history.
Logged(to) ==
    [t \in {u \in DOMAIN to : to[u].marks # IF row[u] = None THEN NoMarks ELSE row[u].marks}
       |-> to[t].marks]

Marking(to) == [Transaction(to) EXCEPT !.log = Logged(to)]

Enter(w, t, a, v, p, flag) ==
    /\ Fresh(t) /\ row[a] # None /\ Attachable(p)
    /\ ~Duplicate(a, v, None)
    /\ Begin(w, Marking([i \in {t} |-> [NewTrade(a, v, p) EXCEPT !.marks.flag = flag]]))

\* Mutant of EditedTo: the edited trade is not compared with the others.
EditedFreely(t, v) == TRUE

EditedTo(t, v) == ~Duplicate(row[t].account, v, t)

\* Mutant of Attached: the version of the former strategy stays.
AttachedOnly(r, p) == [r EXCEPT !.profile = p]

\* The import key is not changed by an edit.
Attached(r, p) == [r EXCEPT !.profile = p, !.version = VersionOf(p)]

Edit(w, t, v, p, flag) ==
    /\ row[t] # None /\ Attachable(p)
    /\ EditedTo(t, v)
    /\ Begin(w, Marking([i \in {t} |->
                  [Attached(row[i], p) EXCEPT !.value = v, !.marks.flag = flag]]))

SetStrategy(w, a, S, p) ==
    /\ row[a] # None /\ S \subseteq Of(a) /\ S # {} /\ Attachable(p)
    /\ Begin(w, Transaction([i \in S |-> Attached(row[i], p)]))

DeleteTrades(w, S) ==
    /\ S \subseteq Live(Trades) /\ S # {}
    /\ Begin(w, Transaction([i \in S |-> None]))

DeleteBatch(w, a, b) ==
    /\ row[a] # None /\ b # 0
    /\ DeleteTrades(w, {t \in Of(a) : row[t].batch = b})

\* Values of the account, as they are now.
Known(a) == {row[t].value : t \in Of(a)}

\* An upload with the values S.  Rows that are known refresh the costs of the
\* trades they match, the others are inserted, S \ Known(a) as the trades of T.
Upload(w, a, S, T) ==
    LET new == S \ Known(a)
        costs == {t \in Of(a) : row[t].value \in S /\ ~row[t].cost}
        p == row[a].profile
    IN /\ row[a] # None
       /\ new # {} \/ costs # {}
       /\ \A t \in DOMAIN T : Fresh(t)
       /\ IsInjective(T) /\ Range(T) = new
       /\ Begin(w, [Transaction([i \in costs \cup DOMAIN T |->
              IF i \in costs THEN [row[i] EXCEPT !.cost = TRUE]
              ELSE [NewTrade(a, T[i], IF Attachable(p) THEN p ELSE None)
                      EXCEPT !.key = T[i], !.batch = moves + 1, !.cost = TRUE]])
            EXCEPT !.queue = a])

-----------------------------------------------------------------------------
(* Review of split fills *)

\* detect_outliers: closed trades of one order that bear no mark.
Candidates(a) ==
    LET plain == {t \in Of(a) : row[t].marks = NoMarks} IN
    {t \in plain : \E u \in plain \ {t} : {row[t].value, row[u].value} \in Splits}

Pending(a) == row[a].asked # 0 /\ row[a].done < row[a].asked

\* The request of an upload goes on after its commit.
QueueReview(w) ==
    /\ web[w] # None /\ web[w].to = <<>>
    /\ LET a == web[w].queue IN
       IF row[a] # None /\ Candidates(a) # {}
       THEN web' = [web EXCEPT ![w] = Transaction([i \in {a} |->
                                         [row[i] EXCEPT !.asked = moves]])]
       ELSE web' = [web EXCEPT ![w] = None]
    /\ UNCHANGED <<row, last, raced, moves>>

\* Opening the review when nothing is left to confirm completes it.
OpenReview(w, a) ==
    /\ row[a] # None /\ Pending(a) /\ Candidates(a) = {}
    /\ Begin(w, Transaction([i \in {a} |-> [row[i] EXCEPT !.done = moves + 1]]))

CompleteReview(w, a) ==
    /\ row[a] # None
    /\ Begin(w, Transaction([i \in {a} |-> [row[i] EXCEPT !.done = moves + 1]]))

\* The group posted is from a page shown earlier: trades that are in a bundle by now
\* keep it.
ConfirmBundle(w, a, S) ==
    /\ row[a] # None /\ S \subseteq Of(a) /\ Cardinality(S) >= 2
    /\ LET free == {t \in S : row[t].marks.bundle = 0}
           Bundled(t) == [row[t] EXCEPT !.marks.bundle = moves + 1]
       IN Begin(w, [Transaction([i \in free \cup {a} |->
                        IF i = a THEN [row[a] EXCEPT !.done = moves + 1] ELSE Bundled(i)])
                    EXCEPT !.log = Logged([t \in free |-> Bundled(t)])])

-----------------------------------------------------------------------------
Init ==
    /\ \E default \in BOOLEAN :
         row = [i \in Ids |-> IF i = 1 THEN NewAccount(default, None) ELSE None]
    /\ last = [t \in Trades |-> NoMarks]
    /\ web = [w \in Sessions |-> None]
    /\ raced = {}
    /\ moves = 0

Accounting(w) ==
    \/ Visit(w) \/ DeleteAll(w)
    \/ \E a \in Accounts :
         \/ SetDefault(w, a) \/ DeleteAccount(w, a)
         \/ \E p \in Profiles \cup {None} :
              SetProfile(w, a, p) \/ \E wants \in BOOLEAN : CreateAccount(w, a, wants, p)

Strategy(w) ==
    \E p \in Profiles : CreateProfile(w, p) \/ UpdateProfile(w, p) \/ ArchiveProfile(w, p)

Trading(w) ==
    \/ \E a \in Accounts, p \in Profiles \cup {None} :
         \/ \E t \in Trades, v \in Values, flag \in BOOLEAN :
              Enter(w, t, a, v, p, flag) \/ Edit(w, t, v, p, flag)
         \/ \E S \in SUBSET Trades : SetStrategy(w, a, S, p)
    \/ \E S \in SUBSET Trades : DeleteTrades(w, S)
    \/ \E a \in Accounts, b \in 1 .. MaxMoves : DeleteBatch(w, a, b)

Reporting(w) ==
    \/ \E a \in Accounts, S \in SUBSET Values, T \in UNION {[X -> Values] : X \in SUBSET Trades} :
         Upload(w, a, S, T)
    \/ QueueReview(w)

Reviewing(w) ==
    \E a \in Accounts :
      \/ OpenReview(w, a) \/ CompleteReview(w, a)
      \/ \E S \in SUBSET Trades : ConfirmBundle(w, a, S)

Next == \E w \in Sessions : \/ Accounting(w) \/ Strategy(w) \/ Trading(w) \/ Reporting(w)
                            \/ Reviewing(w) \/ Commit(w) \/ Rollback(w)

Spec == Init /\ [][Next]_vars

-----------------------------------------------------------------------------
(* Properties *)

\* Every row has its columns, and what a request is about to write is a row.
TypeOK ==
    /\ \A a \in Live(Accounts) : row[a] \in AccountRows
    /\ \A t \in Live(Trades) : row[t] \in TradeRows
    /\ \A p \in Live(Profiles) : row[p] \in ProfileRows /\ row[p].current >= 1
    /\ last \in [Trades -> Marks]
    /\ \A w \in Sessions : web[w] # None =>
         /\ DOMAIN web[w].seen = DOMAIN web[w].to /\ DOMAIN web[w].to \subseteq Ids
         /\ DOMAIN web[w].log \subseteq DOMAIN web[w].to
    /\ raced \subseteq Ids /\ moves \in 0 .. MaxMoves

\* One account does not hold the same trade twice, whether it was entered, edited or
\* uploaded, in any order, as long as no two requests overlapped in the account
\* (_find_duplicate_trade, build_normalized_trade_insert_batch: checked, not locked).
NothingTwice ==
    \A t, u \in Live(Trades) :
        (/\ row[t].account = row[u].account /\ row[t].value = row[u].value
         /\ row[t].account \notin raced) => t = u

\* A trade's strategy and version belong together, its version exists, and the
\* newest entry of its history is what it is marked with - but for trades that were
\* written by a request that had not seen their last change.
TradeIsCoherent ==
    \A t \in Live(Trades) \ raced :
        /\ row[t].marks = last[t]
        /\ (row[t].profile = None) = (row[t].version = None)
        /\ row[t].version # None =>
             /\ row[t].version[1] = row[t].profile
             /\ row[row[t].profile] # None
             /\ row[t].version[2] \in 1 .. row[row[t].profile].current

\* A user who has a default account is not left without: not by creating, deleting or
\* replacing accounts.  Only setting the default once more (SetDefault), or a request
\* that overlapped another, does that.
DefaultKept ==
    [][Default # {} /\ Default' = {} =>
         \E w \in Sessions : /\ web[w] # None /\ web'[w] = None
                             /\ web[w].clears \/ web[w].late]_vars
=============================================================================
