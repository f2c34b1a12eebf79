----------------------------- MODULE BookProofs -----------------------------
(***************************************************************************)
(* The journal of one user, for any accounts, trades, strategies, requests *)
(* and moves: no trade is booked twice, the columns of a trade agree, and  *)
(* the default account stays.                                              *)
(*                                                                         *)
(* The argument is about the transactions in progress.  One beside which   *)
(* nothing was committed still sees the rows as they are, so what it       *)
(* decided on holds at its commit (TxView, TxValues, TxDefault); the       *)
(* others may write, but spoil what they write, or are refused.            *)
(***************************************************************************)
EXTENDS Book, WellFoundedInduction, TLAPS

RowsOf(i) ==
    IF i \in Accounts THEN AccountRows ELSE IF i \in Trades THEN TradeRows ELSE ProfileRows

\* The rows that a transaction deletes, inserts and updates, and its trades.
Gone(x) == {i \in DOMAIN x.to : x.to[i] = None}
Born(x) == {i \in DOMAIN x.to : x.seen[i] = None}
Kept(x) == DOMAIN x.to \ (Gone(x) \cup Born(x))
Booking(x) == (Born(x) \cup Kept(x)) \cap Trades

\* Rows have their columns, and a trade has its account.
TableOK(table) ==
    /\ \A i \in Ids : table[i] # None => table[i] \in RowsOf(i)
    /\ \A p \in Profiles : table[p] # None => table[p].current >= 1
    /\ \A t \in Trades : table[t] # None => table[table[t].account] # None

OthersOK ==
    /\ \A i \in raced : i \in Ids /\ row[i] # None
    /\ last \in [Trades -> Marks]
    /\ web = [w \in Sessions |-> web[w]]
    /\ moves \in 0 .. MaxMoves

TxType(x) ==
    /\ x = [seen |-> x.seen, to |-> x.to, log |-> x.log, clears |-> x.clears,
            early |-> x.early, late |-> x.late, queue |-> x.queue]
    /\ DOMAIN x.seen = DOMAIN x.to /\ DOMAIN x.to \subseteq Ids
    /\ x.clears \in BOOLEAN /\ x.late \in BOOLEAN /\ x.queue \in Accounts \cup {None}
    /\ \A i \in DOMAIN x.to :
         /\ x.seen[i] # None => x.seen[i] \in RowsOf(i)
         /\ x.to[i] # None => x.to[i] \in RowsOf(i)
         /\ x.seen[i] # None \/ x.to[i] # None

\* Strategies are not deleted, and the number of versions does not sink.
TxProfiles(x) ==
    \A p \in DOMAIN x.to \cap Profiles :
        /\ x.to[p] # None /\ x.to[p].current >= 1
        /\ x.seen[p] # None => x.to[p].current >= x.seen[p].current

\* The transaction of an upload writes no account, and no other is left empty.
TxQueue(x) ==
    /\ x.queue # None => DOMAIN x.to \cap Accounts = {} /\ ~x.clears
    /\ DOMAIN x.to = {} => x.queue # None

\* The rows are as they were loaded, unless another request committed; the ones to
\* insert are not there, and a trade stays in its account.
TxView(table, x) ==
    /\ ~x.late => \A i \in DOMAIN x.to : x.seen[i] = table[i]
    /\ \A i \in Born(x) : table[i] = None
    /\ \A t \in Kept(x) \cap Trades :
         /\ x.to[t].account = x.seen[t].account
         /\ table[t] # None => table[t].account = x.seen[t].account

\* A change of the marks is in the log.
TxMarks(x) ==
    /\ \A i \in DOMAIN x.log : i \in DOMAIN x.to \cap Trades /\ x.log[i] \in Marks
    /\ \A t \in Booking(x) :
         IF t \in DOMAIN x.log THEN x.log[t] = x.to[t].marks
         ELSE x.to[t].marks = IF t \in Born(x) THEN NoMarks ELSE x.seen[t].marks

Versioned(table, r) ==
    /\ (r.profile = None) = (r.version = None)
    /\ r.version # None =>
         /\ r.version[1] = r.profile
         /\ table[r.profile] # None
         /\ r.version[2] \in 1 .. table[r.profile].current

TxVersions(table, spoiled, x) ==
    \A t \in Booking(x) :
        \/ Versioned(table, x.to[t])
        \/ t \in Kept(x) /\ (t \in spoiled \/ table[t] = None)

\* A new value is not in the account, and not twice in the transaction.
NewValue(table, x, t) ==
    /\ \A u \in Trades \ {t} : table[u] # None /\ table[u].account = x.to[t].account
                                 => table[u].value # x.to[t].value
    /\ \A u \in Booking(x) \ {t} : x.to[u].value # x.to[t].value

TxValues(table, x) ==
    ~x.late => \A t \in Booking(x) :
                  \/ t \in Kept(x) /\ x.to[t].value = x.seen[t].value
                  \/ NewValue(table, x, t)

IsDefault(table, a) == table[a] # None /\ table[a].default

\* A user with a default account will have one.
TxDefault(table, x) ==
    (/\ ~x.late /\ ~x.clears
     /\ \E a \in Accounts : IsDefault(table, a)) =>
    \/ \E a \in Accounts \ DOMAIN x.to : IsDefault(table, a)
    \/ \E a \in DOMAIN x.to \cap Accounts : IsDefault(x.to, a)

TxOK(table, spoiled, x) ==
    /\ TxType(x) /\ TxProfiles(x) /\ TxQueue(x) /\ TxView(table, x) /\ TxMarks(x)
    /\ TxVersions(table, spoiled, x) /\ TxValues(table, x) /\ TxDefault(table, x)

\* A primary key that a request is about to insert is in no other request.
Exclusive ==
    \A v, w \in Sessions :
        v # w /\ web[v] # None /\ web[w] # None => Born(web[v]) \cap DOMAIN web[w].to = {}

TransactionsOK == \A w \in Sessions : web[w] # None => TxOK(row, raced, web[w])

BookInv ==
    /\ TableOK(row) /\ OthersOK /\ Exclusive /\ TransactionsOK
    /\ NothingTwice /\ TradeIsCoherent

USE BookAssumption, RowsAssumption

-----------------------------------------------------------------------------
(* Rows *)

LEMMA FirstIsThere == ASSUME NEW S \in SUBSET Nat, S # {} PROVE First(S) \in S
<1>1. PICK x \in S : \A y \in S : ~ (<<y, x>> \in OpToRel(<, Nat))
    BY NatLessThanWellFounded, WFMin
<1>2. \A y \in S : <<y, x>> \in OpToRel(<, Nat) <=> y < x
    BY DEF OpToRel
<1>3. \A y \in S : x <= y
  <2> SUFFICES ASSUME NEW y \in S PROVE x <= y
    OBVIOUS
  <2>1. ~(y < x) /\ x \in Nat /\ y \in Nat
    BY <1>1, <1>2
  <2> QED BY <2>1
<1> QED BY <1>3 DEF First

LEMMA NoneIsNoRow == ASSUME NEW i \in Ids PROVE None \notin RowsOf(i)
BY DEF RowsOf

LEMMA KindsOfRows ==
    /\ \A a \in Accounts : a \in Ids /\ RowsOf(a) = AccountRows
    /\ \A t \in Trades : t \in Ids /\ t \notin Accounts /\ RowsOf(t) = TradeRows
    /\ \A p \in Profiles : /\ p \in Ids /\ p \notin Accounts /\ p \notin Trades
                           /\ RowsOf(p) = ProfileRows
    /\ \A i \in Ids : i \in Accounts \/ i \in Trades \/ i \in Profiles
BY DEF RowsOf, Ids

LEMMA AccountUpdated ==
    ASSUME NEW n \in AccountRows, NEW s \in AccountRows, NEW t \in AccountRows
    PROVE  UpdatedRow(n, s, t) \in AccountRows /\ UpdatedRow(n, n, t) = t
<1>1. DOMAIN n = {"default", "profile", "asked", "done"}
    BY DEF AccountRows
<1>2. UpdatedRow(n, s, t) = Updated(n, s, t) /\ UpdatedRow(n, n, t) = Updated(n, n, t)
    BY <1>1 DEF UpdatedRow
<1> QED BY <1>2 DEF Updated, AccountRows

LEMMA ProfileUpdated ==
    ASSUME NEW n \in ProfileRows, NEW s \in ProfileRows, NEW t \in ProfileRows
    PROVE  /\ UpdatedRow(n, s, t) \in ProfileRows
           /\ UpdatedRow(n, s, t).current = IF t.current = s.current THEN n.current ELSE t.current
<1>1. DOMAIN n = {"archived", "current"}
    BY DEF ProfileRows
<1>2. UpdatedRow(n, s, t) = Updated(n, s, t)
    BY <1>1 DEF UpdatedRow
<1> QED BY <1>2 DEF Updated, ProfileRows

LEMMA TradeUpdated ==
    ASSUME NEW n \in TradeRows, NEW s \in TradeRows, NEW t \in TradeRows
    PROVE  /\ UpdatedRow(n, s, t) \in TradeRows
           /\ t.account = s.account => UpdatedRow(n, s, t).account = n.account
           /\ UpdatedRow(n, n, t) = t
<1> DEFINE u == Updated(n, s, t)
<1>1. "marks" \in DOMAIN n /\ n.marks \in Marks /\ s.marks \in Marks /\ t.marks \in Marks
    BY DEF TradeRows
<1>2. u \in TradeRows /\ (t.account = s.account => u.account = n.account)
    BY DEF Updated, TradeRows
<1>3. UpdatedMarks(n.marks, s.marks, t.marks) \in Marks
  <2>1. Updated(n.marks, s.marks, t.marks) \in Marks
    BY <1>1 DEF Updated, Marks
  <2> QED BY <1>1, <2>1 DEF UpdatedMarks
<1>4. UpdatedRow(n, s, t) = [u EXCEPT !.marks = UpdatedMarks(n.marks, s.marks, t.marks)]
    BY <1>1 DEF UpdatedRow
<1>5. Updated(n, n, t) = t
    BY DEF Updated, TradeRows
<1>6. UpdatedMarks(n.marks, n.marks, t.marks) = t.marks
  <2>1. Updated(n.marks, n.marks, t.marks) = t.marks
    BY <1>1 DEF Updated, Marks
  <2> QED BY <2>1 DEF UpdatedMarks
<1>7. UpdatedRow(n, n, t) = [t EXCEPT !.marks = t.marks]
    BY <1>1, <1>5, <1>6 DEF UpdatedRow
<1>8. [t EXCEPT !.marks = t.marks] = t
    BY DEF TradeRows
<1> HIDE DEF u
<1>9. /\ [u EXCEPT !.marks = UpdatedMarks(n.marks, s.marks, t.marks)] \in TradeRows
      /\ [u EXCEPT !.marks = UpdatedMarks(n.marks, s.marks, t.marks)].account = u.account
    BY <1>2, <1>3 DEF TradeRows
<1> QED BY <1>2, <1>4, <1>7, <1>8, <1>9

LEMMA RowTypes ==
    ASSUME NEW table, TableOK(table)
    PROVE  /\ \A a \in Accounts : table[a] # None => table[a] \in AccountRows
           /\ \A t \in Trades : table[t] # None =>
                /\ table[t] \in TradeRows /\ table[t].account \in Accounts
                /\ table[table[t].account] # None
           /\ \A p \in Profiles : table[p] # None =>
                table[p] \in ProfileRows /\ table[p].current \in Nat /\ table[p].current >= 1
<1>1. \A a \in Accounts : table[a] # None => table[a] \in AccountRows
    BY KindsOfRows DEF TableOK
<1>2. \A t \in Trades : table[t] # None => table[t] \in TradeRows
    BY KindsOfRows DEF TableOK
<1>3. \A p \in Profiles : table[p] # None => table[p] \in ProfileRows
    BY KindsOfRows DEF TableOK
<1>4. \A r \in TradeRows : r.account \in Accounts
    BY DEF TradeRows
<1>5. \A r \in ProfileRows : r.current \in Nat
    BY DEF ProfileRows
<1> QED BY <1>1, <1>2, <1>3, <1>4, <1>5 DEF TableOK

-----------------------------------------------------------------------------
(* What a commit does to the rows *)

\* An UPDATE that clears every default precedes the other statements.
LEMMA BaseRows ==
    ASSUME TableOK(row), NEW w \in Sessions, NEW i \in Ids
    PROVE  /\ (Base(w)[i] = None) = (row[i] = None)
           /\ row[i] # None => Base(w)[i] \in RowsOf(i)
           /\ i \notin Accounts \/ ~web[w].clears => Base(w)[i] = row[i]
<1>1. Base(w)[i] = IF web[w].clears /\ i \in Accounts /\ row[i] # None
                   THEN [row[i] EXCEPT !.default = FALSE] ELSE row[i]
    BY DEF Base
<1>2. CASE web[w].clears /\ i \in Accounts /\ row[i] # None
  <2>1. row[i] \in AccountRows
    BY <1>2, KindsOfRows DEF TableOK
  <2>2. [row[i] EXCEPT !.default = FALSE] \in AccountRows
    BY <2>1 DEF AccountRows
  <2>3. Base(w)[i] = [row[i] EXCEPT !.default = FALSE]
    BY <1>1, <1>2
  <2>4. Base(w)[i] \in RowsOf(i)
    BY <1>2, <2>2, <2>3, KindsOfRows
  <2>5. Base(w)[i] # None
    BY <2>4, NoneIsNoRow
  <2> QED BY <1>2, <2>4, <2>5
<1>3. CASE ~(web[w].clears /\ i \in Accounts /\ row[i] # None)
    BY <1>1, <1>3 DEF TableOK
<1> QED BY <1>2, <1>3

LEMMA TransactionSets ==
    ASSUME NEW w \in Sessions, TxType(web[w])
    PROVE  /\ Deleted(w) = Gone(web[w]) /\ Inserted(w) = Born(web[w]) /\ Changed(w) = Kept(web[w])
           /\ \A i \in DOMAIN web[w].to : i \in Gone(web[w]) \/ i \in Born(web[w]) \/ i \in Kept(web[w])
           /\ \A i \in Gone(web[w]) : /\ i \in Ids /\ i \notin Born(web[w]) /\ i \notin Kept(web[w])
                                      /\ web[w].to[i] = None
           /\ \A i \in Born(web[w]) : /\ i \in Ids /\ i \notin Kept(web[w])
                                      /\ web[w].to[i] # None /\ web[w].to[i] \in RowsOf(i)
           /\ \A i \in Kept(web[w]) : /\ i \in Ids
                                      /\ web[w].seen[i] # None /\ web[w].seen[i] \in RowsOf(i)
                                      /\ web[w].to[i] # None /\ web[w].to[i] \in RowsOf(i)
BY DEF Deleted, Inserted, Changed, Gone, Born, Kept, TxType

LEMMA FlushedRows ==
    ASSUME TableOK(row), NEW w \in Sessions, TxType(web[w]), TxProfiles(web[w]),
           TxView(row, web[w]), ~Fails(w), NEW i \in Ids
    PROVE  /\ Flushed(w)[i] # None => Flushed(w)[i] \in RowsOf(i)
           /\ row[i] # None \/ i \in Born(web[w]) => Flushed(w)[i] # None
           /\ row[i] = None /\ i \notin Born(web[w]) => Flushed(w)[i] = None
           /\ i \in Born(web[w]) => Flushed(w)[i] = web[w].to[i]
           /\ i \in Kept(web[w]) =>
                /\ row[i] # None
                /\ i \in Profiles => Flushed(w)[i].current >= row[i].current
                /\ i \in Trades => Flushed(w)[i].account = row[i].account
                /\ row[i] = web[w].seen[i] /\ ~(i \in Accounts /\ web[w].clears) /\ i \notin Profiles
                     => Flushed(w)[i] = web[w].to[i]
           /\ i \notin Born(web[w]) \cup Kept(web[w]) /\ ~(i \in Accounts /\ web[w].clears)
                => Flushed(w)[i] = row[i]
<1> DEFINE x == web[w]
           f == Flushed(w)[i]
<1>1. f = CASE i \in Born(x) -> x.to[i]
            [] i \in Kept(x) /\ row[i] # None -> UpdatedRow(Base(w)[i], x.seen[i], x.to[i])
            [] OTHER -> Base(w)[i]
    BY TransactionSets DEF Flushed
<1>2. i \in Kept(x) => row[i] # None
    BY TransactionSets DEF Fails
<1>3. CASE i \in Born(x)
  <2>1. f = x.to[i]
    BY <1>1, <1>3, TransactionSets
  <2> QED BY <1>3, <2>1, TransactionSets
<1>4. CASE i \notin Born(x) /\ i \notin Kept(x)
  <2>1. f = Base(w)[i]
    BY <1>1, <1>4
  <2> QED BY <1>4, <2>1, BaseRows
<1>5. CASE i \in Kept(x)
  <2> DEFINE b == Base(w)[i]
             s == x.seen[i]
             t == x.to[i]
  <2>1. f = UpdatedRow(b, s, t)
    BY <1>1, <1>2, <1>5, TransactionSets
  <2>2. b \in RowsOf(i) /\ s \in RowsOf(i) /\ t \in RowsOf(i)
    BY <1>2, <1>5, BaseRows, TransactionSets
  <2>3. i \notin Accounts \/ ~x.clears => b = row[i]
    BY BaseRows
  <2>4. i \notin Born(x) /\ row[i] # None
    BY <1>2, <1>5, TransactionSets
  <2>5. i \in Profiles => t.current >= s.current /\ (row[i].current = s.current \/ t.current = s.current)
    BY <1>5, TransactionSets DEF Fails, TxProfiles, Kept
  <2>6. i \in Trades => t.account = s.account /\ row[i].account = s.account
    BY <1>5, <2>4 DEF TxView
  <2> HIDE DEF x, b, s, t, f
  <2>7. CASE i \in Accounts
    <3>1. f \in AccountRows /\ (b = s => f = t)
      BY <2>1, <2>2, <2>7, AccountUpdated, KindsOfRows
    <3>2. f \in RowsOf(i) /\ i \notin Trades /\ i \notin Profiles
      BY <2>7, <3>1, KindsOfRows
    <3>3. f # None
      BY <3>2, NoneIsNoRow
    <3> QED BY <1>5, <2>3, <2>4, <2>7, <3>1, <3>2, <3>3 DEF x, b, s, t, f
  <2>8. CASE i \in Trades
    <3>1. f \in TradeRows /\ f.account = b.account /\ (b = s => f = t)
      BY <2>1, <2>2, <2>6, <2>8, TradeUpdated, KindsOfRows
    <3>2. f \in RowsOf(i) /\ i \notin Accounts /\ i \notin Profiles
      BY <2>8, <3>1, KindsOfRows
    <3>3. f # None
      BY <3>2, NoneIsNoRow
    <3>4. f.account = row[i].account
      BY <2>3, <3>1, <3>2
    <3> QED BY <1>5, <2>3, <2>4, <2>8, <3>1, <3>2, <3>3, <3>4 DEF x, b, s, t, f
  <2>9. CASE i \in Profiles
    <3>1. b = row[i] /\ b \in ProfileRows /\ s \in ProfileRows /\ t \in ProfileRows
      BY <2>2, <2>3, <2>9, KindsOfRows
    <3>2. f \in ProfileRows /\ f.current = IF t.current = s.current THEN b.current ELSE t.current
      BY <2>1, <3>1, ProfileUpdated
    <3>3. b.current \in Nat /\ s.current \in Nat /\ t.current \in Nat
      BY <3>1 DEF ProfileRows
    <3>4. f.current >= row[i].current
      BY <2>5, <2>9, <3>1, <3>2, <3>3
    <3>5. f \in RowsOf(i) /\ i \notin Trades /\ i \notin Accounts
      BY <2>9, <3>2, KindsOfRows
    <3>6. f # None
      BY <3>5, NoneIsNoRow
    <3> QED BY <1>5, <2>4, <2>9, <3>4, <3>5, <3>6 DEF x, b, s, t, f
  <2> QED BY <2>7, <2>8, <2>9, KindsOfRows
<1> QED BY <1>3, <1>4, <1>5

\* A deleted account takes its trades along.
LEMMA CommittedRows ==
    ASSUME TableOK(row), NEW w \in Sessions, TxOK(row, raced, web[w]), Commit(w), NEW i \in Ids
    PROVE  /\ row'[i] = None \/ row'[i] = Flushed(w)[i]
           /\ row'[i] = None =>
                \/ Flushed(w)[i] = None \/ i \in Gone(web[w])
                \/ i \in Trades /\ Flushed(w)[i].account \in Gone(web[w])
           /\ i \in Gone(web[w]) => row'[i] = None
           /\ i \in Trades /\ row'[i] # None => row'[i].account \notin Gone(web[w])
<1>1. row'[i] = IF \/ i \in Gone(web[w])
                   \/ i \in Trades /\ Flushed(w)[i] # None /\ Flushed(w)[i].account \in Gone(web[w])
                THEN None ELSE Flushed(w)[i]
    BY TransactionSets DEF Commit, After, TxOK
<1> QED BY <1>1

LEMMA CommittedTable ==
    ASSUME TableOK(row), NEW w \in Sessions, TxOK(row, raced, web[w]), Commit(w)
    PROVE  TableOK(row')
<1>1. /\ TxType(web[w]) /\ TxProfiles(web[w]) /\ TxView(row, web[w]) /\ ~Fails(w)
    BY DEF TxOK, Commit
<1>2. ASSUME NEW i \in Ids, row'[i] # None PROVE row'[i] \in RowsOf(i)
  <2>1. row'[i] = Flushed(w)[i]
    BY <1>2, CommittedRows
  <2> QED BY <1>1, <1>2, <2>1, FlushedRows
<1>3. ASSUME NEW p \in Profiles, row'[p] # None PROVE row'[p].current >= 1
  <2>1. row'[p] = Flushed(w)[p] /\ p \in Ids /\ p \notin Accounts
    BY <1>3, CommittedRows, KindsOfRows
  <2>2. CASE p \in Born(web[w])
    <3>1. Flushed(w)[p] = web[w].to[p]
      BY <1>1, <2>1, <2>2, FlushedRows
    <3> QED BY <1>1, <2>1, <2>2, <3>1 DEF TxProfiles, Born
  <2>3. CASE p \in Kept(web[w])
    <3>1. row[p] # None /\ Flushed(w)[p].current >= row[p].current
      BY <1>1, <2>1, <2>3, FlushedRows
    <3>2. row[p].current \in Nat /\ row[p].current >= 1 /\ Flushed(w)[p].current \in Nat
      <4>1. row'[p] \in ProfileRows
        BY <1>2, <1>3, <2>1, KindsOfRows
      <4>2. row'[p].current \in Nat
        BY <4>1 DEF ProfileRows
      <4> QED BY <2>1, <3>1, <4>2, RowTypes
    <3> QED BY <2>1, <3>1, <3>2
  <2>4. CASE p \notin Born(web[w]) \cup Kept(web[w])
    <3>1. Flushed(w)[p] = row[p]
      BY <1>1, <2>1, <2>4, FlushedRows
    <3> QED BY <1>3, <2>1, <3>1 DEF TableOK
  <2> QED BY <2>2, <2>3, <2>4
<1>4. ASSUME NEW t \in Trades, row'[t] # None PROVE row'[row'[t].account] # None
  <2> DEFINE a == row'[t].account
  <2>1. /\ row'[t] = Flushed(w)[t] /\ t \in Ids /\ t \notin Accounts
        /\ a \in Accounts /\ a \in Ids /\ a \notin Trades /\ a \notin Gone(web[w])
    <3>1. row'[t] \in TradeRows /\ t \in Ids /\ t \notin Accounts
      BY <1>2, <1>4, KindsOfRows
    <3>2. a \in Accounts
      BY <3>1 DEF TradeRows
    <3> QED BY <1>4, <3>1, <3>2, CommittedRows, KindsOfRows
  <2>2. row[a] # None
    <3>1. CASE t \in Born(web[w])
      <4>1. row'[t] = web[w].to[t]
        BY <1>1, <2>1, <3>1, FlushedRows
      <4> QED BY <1>1, <3>1, <4>1, TransactionSets DEF Fails
    <3>2. CASE t \in Kept(web[w])
      <4>1. row[t] # None /\ a = row[t].account
        BY <1>1, <2>1, <3>2, FlushedRows
      <4> QED BY <4>1 DEF TableOK
    <3>3. CASE t \notin Born(web[w]) \cup Kept(web[w])
      <4>1. row'[t] = row[t]
        BY <1>1, <2>1, <3>3, FlushedRows
      <4> QED BY <1>4, <4>1 DEF TableOK
    <3> QED BY <3>1, <3>2, <3>3
  <2> HIDE DEF a
  <2>3. Flushed(w)[a] # None
    BY <1>1, <2>1, <2>2, FlushedRows
  <2>4. row'[a] # None
    BY <2>1, <2>3, CommittedRows
  <2> QED BY <2>4 DEF a
<1> QED BY <1>2, <1>3, <1>4 DEF TableOK

\* No strategy goes, and no number of versions sinks.
LEMMA VersionsStay ==
    ASSUME TableOK(row), NEW w \in Sessions, TxOK(row, raced, web[w]), Commit(w),
           NEW r \in TradeRows, Versioned(row, r)
    PROVE  Versioned(row', r)
<1>1. CASE r.version = None
    BY <1>1 DEF Versioned
<1>2. CASE r.version # None
  <2> DEFINE p == r.profile
  <2>1. /\ r.version[1] = p /\ p \in Profiles /\ row[p] # None
        /\ r.version[2] \in 1 .. row[p].current
    BY <1>2 DEF Versioned, TradeRows
  <2>2. p \in Ids /\ p \notin Accounts /\ p \notin Trades
    BY <2>1, KindsOfRows
  <2>3. TxType(web[w]) /\ TxProfiles(web[w]) /\ TxView(row, web[w]) /\ ~Fails(w)
    BY DEF TxOK, Commit
  <2> HIDE DEF p
  <2>4. p \notin Gone(web[w])
    BY <2>1, <2>3 DEF TxProfiles, Gone
  <2>5. Flushed(w)[p] # None
    BY <2>1, <2>2, <2>3, FlushedRows
  <2>6. row'[p] # None /\ row'[p] = Flushed(w)[p]
    BY <2>2, <2>4, <2>5, CommittedRows
  <2>7. p \notin Born(web[w])
    BY <2>1, <2>3 DEF TxView
  <2>8. row'[p].current >= row[p].current
    <3>1. CASE p \in Kept(web[w])
      BY <2>1, <2>2, <2>3, <2>6, <3>1, FlushedRows
    <3>2. CASE p \notin Kept(web[w])
      <4>1. row'[p] = row[p]
        BY <2>2, <2>3, <2>6, <2>7, <3>2, FlushedRows
      <4>2. row[p].current \in Nat
        BY <2>1, RowTypes
      <4> QED BY <4>1, <4>2
    <3> QED BY <3>1, <3>2
  <2>9. row[p].current \in Nat /\ row'[p].current \in Nat
    BY <2>1, <2>6, RowTypes, CommittedTable
  <2>10. r.version[2] \in 1 .. row'[p].current
    BY <2>1, <2>8, <2>9
  <2> QED BY <1>2, <2>1, <2>6, <2>10 DEF Versioned, p
<1> QED BY <1>1, <1>2

LEMMA CommittedOthers ==
    ASSUME TableOK(row), OthersOK, NEW w \in Sessions, TxOK(row, raced, web[w]), Commit(w)
    PROVE  OthersOK'
<1>1. \A i \in raced' : i \in Ids /\ row'[i] # None
    BY DEF Commit
<1>2. last' \in [Trades -> Marks]
  <2>1. NoMarks \in Marks /\ \A t \in DOMAIN web[w].log : web[w].log[t] \in Marks
    BY DEF NoMarks, Marks, TxOK, TxMarks
  <2>2. last' = [t \in Trades |-> IF t \in DOMAIN web[w].log THEN web[w].log[t]
                                  ELSE IF t \in Inserted(w) THEN NoMarks ELSE last[t]]
    BY DEF Commit
  <2> QED BY <2>1, <2>2 DEF OthersOK
<1>3. web' = [v \in Sessions |-> web'[v]]
    BY DEF Commit
<1>4. moves' \in 0 .. MaxMoves
    BY DEF Commit, OthersOK
<1> QED BY <1>1, <1>2, <1>3, <1>4 DEF OthersOK

-----------------------------------------------------------------------------
(* What a commit does to the other requests *)

\* A trade that was not inserted just now is in the account it was in.
LEMMA AccountsStay ==
    ASSUME TableOK(row), NEW w \in Sessions, TxOK(row, raced, web[w]), Commit(w),
           NEW t \in Trades, t \notin Born(web[w]), row'[t] # None
    PROVE  row[t] # None /\ row'[t].account = row[t].account
<1>1. t \in Ids /\ t \notin Accounts /\ t \notin Profiles
    BY KindsOfRows
<1>2. row'[t] = Flushed(w)[t]
    BY <1>1, CommittedRows
<1>3. TxType(web[w]) /\ TxProfiles(web[w]) /\ TxView(row, web[w]) /\ ~Fails(w)
    BY DEF TxOK, Commit
<1>4. row[t] # None
    BY <1>1, <1>2, <1>3, FlushedRows
<1> QED BY <1>1, <1>2, <1>3, <1>4, FlushedRows

LEMMA LateTransaction ==
    ASSUME TableOK(row), NEW w \in Sessions, TxOK(row, raced, web[w]), Commit(w),
           NEW x, TxOK(row, raced, x), Born(x) \cap DOMAIN web[w].to = {},
           Born(web[w]) \cap DOMAIN x.to = {},
           NEW y, y = [x EXCEPT !.late = TRUE]
    PROVE  TxOK(row', raced', y)
<1>1. /\ y = [seen |-> x.seen, to |-> x.to, log |-> x.log, clears |-> x.clears,
              early |-> x.early, late |-> TRUE, queue |-> x.queue]
  <2>1. x = [seen |-> x.seen, to |-> x.to, log |-> x.log, clears |-> x.clears,
             early |-> x.early, late |-> x.late, queue |-> x.queue]
    BY DEF TxOK, TxType
  <2> QED BY <2>1
<1>2. /\ y.seen = x.seen /\ y.to = x.to /\ y.log = x.log /\ y.clears = x.clears
      /\ y.early = x.early /\ y.late = TRUE /\ y.queue = x.queue
    BY <1>1
<1>3. Gone(y) = Gone(x) /\ Born(y) = Born(x) /\ Kept(y) = Kept(x) /\ Booking(y) = Booking(x)
    BY <1>2 DEF Gone, Born, Kept, Booking
<1>4. TxType(y)
  <2>1. y = [seen |-> y.seen, to |-> y.to, log |-> y.log, clears |-> y.clears,
             early |-> y.early, late |-> y.late, queue |-> y.queue]
    BY <1>1, <1>2
  <2> QED BY <1>2, <2>1 DEF TxOK, TxType
<1>5. TxProfiles(y) /\ TxQueue(y)
    BY <1>2 DEF TxOK, TxProfiles, TxQueue
<1>6. TxMarks(y)
    BY <1>2, <1>3 DEF TxOK, TxMarks
<1>7. TxValues(row', y) /\ TxDefault(row', y)
    BY <1>2 DEF TxValues, TxDefault
<1>8. TxView(row', y)
  <2>1. ASSUME NEW i \in Born(x) PROVE row'[i] = None
    <3>1. i \in Ids /\ row[i] = None /\ i \notin Born(web[w])
      BY DEF TxOK, TxType, TxView, Born
    <3>2. Flushed(w)[i] = None
      BY <3>1, FlushedRows DEF TxOK, Commit
    <3> QED BY <3>1, <3>2, CommittedRows
  <2>2. ASSUME NEW t \in Kept(x) \cap Trades
        PROVE  /\ x.to[t].account = x.seen[t].account
               /\ row'[t] # None => row'[t].account = x.seen[t].account
    <3>1. t \notin Born(web[w])
      BY DEF Kept
    <3>2. x.to[t].account = x.seen[t].account /\ (row[t] # None => row[t].account = x.seen[t].account)
      BY DEF TxOK, TxView
    <3> QED BY <3>1, <3>2, AccountsStay
  <2> QED BY <1>2, <1>3, <2>1, <2>2, ZenonT(40) DEF TxView
<1>9. TxVersions(row', raced', y)
  <2> SUFFICES ASSUME NEW t \in Booking(x)
               PROVE  \/ Versioned(row', x.to[t])
                      \/ t \in Kept(x) /\ (t \in raced' \/ row'[t] = None)
    BY <1>2, <1>3 DEF TxVersions
  <2>1. CASE Versioned(row, x.to[t])
    <3>1. x.to[t] \in TradeRows
      BY KindsOfRows DEF TxOK, TxType, Booking, Born, Kept, Gone
    <3> QED BY <2>1, <3>1, VersionsStay
  <2>2. CASE t \in Kept(x) /\ row[t] = None
    <3>1. t \notin Born(web[w]) /\ t \in Trades
      BY <2>2 DEF Kept, Booking
    <3>2. row'[t] = None
      BY <2>2, <3>1, AccountsStay
    <3> QED BY <2>2, <3>2
  <2>3. CASE t \in Kept(x) /\ t \in raced
    <3>1. t \in Ids
      BY KindsOfRows DEF Booking
    <3>2. row'[t] # None => t \in raced'
      BY <2>3, <3>1 DEF Commit
    <3> QED BY <2>3, <3>2
  <2> QED BY <2>1, <2>2, <2>3 DEF TxOK, TxVersions
<1> QED BY <1>4, <1>5, <1>6, <1>7, <1>8, <1>9 DEF TxOK

\* The request of an upload that goes on holds no row.
LEMMA EmptyTransaction ==
    ASSUME NEW table, NEW spoiled, NEW q \in Accounts, NEW x,
           x = [Transaction(<<>>) EXCEPT !.queue = q]
    PROVE  TxOK(table, spoiled, x) /\ DOMAIN x.to = {}
<1>1. DOMAIN <<>> = {}
    OBVIOUS
<1>2. x = [seen |-> [i \in DOMAIN <<>> |-> row[i]], to |-> <<>>, log |-> <<>>, clears |-> FALSE,
           early |-> FALSE, late |-> FALSE, queue |-> q]
    BY DEF Transaction
<1>3. /\ DOMAIN x.to = {} /\ DOMAIN x.seen = {} /\ DOMAIN x.log = {} /\ x.queue = q
      /\ x.clears = FALSE /\ x.late = FALSE /\ q # None
    BY <1>1, <1>2 DEF Accounts
<1>4. x = [seen |-> x.seen, to |-> x.to, log |-> x.log, clears |-> x.clears,
           early |-> x.early, late |-> x.late, queue |-> x.queue]
    BY <1>2
<1>5. Born(x) = {} /\ Kept(x) = {} /\ Booking(x) = {}
    BY <1>3 DEF Born, Kept, Booking
<1> QED BY <1>3, <1>4, <1>5 DEF TxOK, TxType, TxProfiles, TxQueue, TxView, TxMarks, TxVersions,
                               TxValues, TxDefault

LEMMA CommittedTransactions ==
    ASSUME TableOK(row), OthersOK, Exclusive, TransactionsOK, NEW w \in Sessions, Commit(w)
    PROVE  Exclusive' /\ TransactionsOK'
<1>1. /\ web[w] # None /\ TxOK(row, raced, web[w])
      /\ web' = [v \in Sessions |->
                   IF v = w THEN IF web[w].queue = None THEN None
                                 ELSE [Transaction(<<>>) EXCEPT !.queue = web[w].queue]
                   ELSE IF web[v] = None THEN None ELSE [web[v] EXCEPT !.late = TRUE]]
    BY DEF Commit, TransactionsOK
<1>2. web'[w] # None => TxOK(row', raced', web'[w]) /\ DOMAIN web'[w].to = {}
  <2> SUFFICES ASSUME web'[w] # None PROVE TxOK(row', raced', web'[w]) /\ DOMAIN web'[w].to = {}
    OBVIOUS
  <2>1. /\ web'[w] = [Transaction(<<>>) EXCEPT !.queue = web[w].queue]
        /\ web[w].queue \in Accounts
    BY <1>1 DEF TxOK, TxType
  <2> QED BY <2>1, EmptyTransaction
<1>3. ASSUME NEW v \in Sessions, v # w, web'[v] # None
      PROVE  /\ web[v] # None /\ TxOK(row', raced', web'[v])
             /\ web'[v].to = web[v].to /\ web'[v].seen = web[v].seen
  <2>1. web[v] # None /\ web'[v] = [web[v] EXCEPT !.late = TRUE]
    BY <1>1, <1>3
  <2>2. TxOK(row, raced, web[v])
    BY <2>1 DEF TransactionsOK
  <2>3. Born(web[v]) \cap DOMAIN web[w].to = {} /\ Born(web[w]) \cap DOMAIN web[v].to = {}
    BY <1>1, <1>3, <2>1 DEF Exclusive
  <2>4. TxOK(row', raced', web'[v])
    BY <1>1, <2>1, <2>2, <2>3, LateTransaction
  <2>5. web[v] = [seen |-> web[v].seen, to |-> web[v].to, log |-> web[v].log,
                  clears |-> web[v].clears, early |-> web[v].early, late |-> web[v].late,
                  queue |-> web[v].queue]
    BY <2>2 DEF TxOK, TxType
  <2>6. web'[v].to = web[v].to /\ web'[v].seen = web[v].seen
    BY <2>1, <2>5
  <2> QED BY <2>1, <2>4, <2>6
<1>4. TransactionsOK'
    BY <1>2, <1>3 DEF TransactionsOK
<1>5. Exclusive'
  <2> SUFFICES ASSUME NEW u \in Sessions, NEW v \in Sessions, u # v, web'[u] # None, web'[v] # None
               PROVE  Born(web'[u]) \cap DOMAIN web'[v].to = {}
    BY DEF Exclusive
  <2>1. CASE u = w
    BY <1>2, <2>1 DEF Born
  <2>2. CASE v = w
    BY <1>2, <2>2
  <2>3. CASE u # w /\ v # w
    <3>1. web[u] # None /\ web[v] # None /\ Born(web'[u]) = Born(web[u]) /\ web'[v].to = web[v].to
      BY <1>3, <2>3 DEF Born
    <3> QED BY <3>1 DEF Exclusive
  <2> QED BY <2>1, <2>2, <2>3
<1> QED BY <1>4, <1>5

-----------------------------------------------------------------------------
(* What a commit does to the properties *)

LEMMA CommittedTrade ==
    ASSUME TableOK(row), NEW w \in Sessions, TxOK(row, raced, web[w]), Commit(w),
           NEW t \in Trades, row'[t] # None
    PROVE  /\ t \in Booking(web[w]) \/ (t \notin DOMAIN web[w].to /\ row'[t] = row[t])
           /\ t \in Born(web[w]) => row'[t] = web[w].to[t]
           /\ t \in Kept(web[w]) =>
                /\ row[t] # None /\ row[t].account = web[w].to[t].account
                /\ row[t] = web[w].seen[t] => row'[t] = web[w].to[t]
           /\ t \in Booking(web[w]) =>
                row'[t].account = web[w].to[t].account /\ web[w].to[t].account \in Booked(w)
<1> DEFINE x == web[w]
<1>1. t \in Ids /\ t \notin Accounts /\ t \notin Profiles
    BY KindsOfRows
<1>2. row'[t] = Flushed(w)[t] /\ t \notin Gone(x)
    BY <1>1, CommittedRows
<1>3. TxType(x) /\ TxProfiles(x) /\ TxView(row, x) /\ ~Fails(w)
    BY DEF TxOK, Commit
<1>4. t \in Booking(x) \/ t \notin DOMAIN x.to
    BY <1>2, <1>3, TransactionSets DEF Booking
<1>5. t \notin DOMAIN x.to => t \notin Born(x) \cup Kept(x)
    BY DEF Born, Kept
<1>6. t \notin DOMAIN x.to => row'[t] = row[t]
    BY <1>1, <1>2, <1>3, <1>5, FlushedRows
<1>7. t \in Born(x) => row'[t] = x.to[t]
    BY <1>1, <1>2, <1>3, FlushedRows
<1>8. t \in Kept(x) => /\ row[t] # None /\ row'[t].account = row[t].account
                       /\ row[t] = x.seen[t] => row'[t] = x.to[t]
    BY <1>1, <1>2, <1>3, FlushedRows
<1>9. t \in Kept(x) => row[t].account = x.to[t].account
    BY <1>3, <1>8 DEF TxView
<1>10. t \in Booking(x) => x.to[t].account \in Booked(w)
    BY <1>3, TransactionSets DEF Booked, Booking
<1>11. t \in Booking(x) => row'[t].account = x.to[t].account
    BY <1>7, <1>8, <1>9 DEF Booking
<1> QED BY <1>4, <1>6, <1>7, <1>8, <1>9, <1>10, <1>11

LEMMA CommitBooksOnce ==
    ASSUME TableOK(row), NothingTwice, NEW w \in Sessions, TxOK(row, raced, web[w]), Commit(w)
    PROVE  NothingTwice'
<1> DEFINE x == web[w]
<1> SUFFICES ASSUME NEW t \in Trades, NEW u \in Trades, row'[t] # None, row'[u] # None,
                    row'[t].account = row'[u].account, row'[t].value = row'[u].value,
                    row'[t].account \notin raced', t # u
             PROVE  FALSE
    BY DEF NothingTwice, Live
<1> DEFINE a == row'[t].account
<1>1. a \in Accounts /\ a \in Ids /\ row'[a] # None
    BY CommittedTable, RowTypes, KindsOfRows
<1>2. a \notin raced /\ (x.late => a \notin Booked(w))
    BY <1>1 DEF Commit
<1> DEFINE Old(s) == row[s] # None /\ row[s].account = row'[s].account /\ row[s].value = row'[s].value
           New(s) == s \in Booking(x) /\ row'[s] = x.to[s] /\ NewValue(row, x, s)
<1>3. ASSUME NEW s \in Trades, row'[s] # None, row'[s].account = a PROVE Old(s) \/ New(s)
  <2>1. CASE s \notin Booking(x)
    BY <1>3, <2>1, CommittedTrade
  <2>2. CASE s \in Booking(x)
    <3>1. ~x.late
      BY <1>2, <1>3, <2>2, CommittedTrade
    <3>2. s \in Kept(x) => row[s] = x.seen[s]
      BY <3>1 DEF TxOK, TxView, Kept
    <3>3. row'[s] = x.to[s] /\ (s \in Kept(x) => row[s] # None /\ row[s].account = x.to[s].account)
      BY <1>3, <2>2, <3>2, CommittedTrade DEF Booking
    <3>4. (s \in Kept(x) /\ x.to[s].value = x.seen[s].value) \/ NewValue(row, x, s)
      BY <2>2, <3>1 DEF TxOK, TxValues
    <3> QED BY <2>2, <3>2, <3>3, <3>4
  <2> QED BY <2>1, <2>2
<1>4. Old(t) /\ Old(u) => FALSE
    BY <1>2 DEF NothingTwice, Live
<1>5. ASSUME NEW s \in Trades, NEW r \in Trades, s # r, New(s), row'[s] # None, row'[r] # None,
             row'[s].account = row'[r].account, row'[s].value = row'[r].value,
             Old(r) \/ New(r)
      PROVE  FALSE
  <2>1. CASE New(r)
    BY <1>5, <2>1 DEF NewValue
  <2>2. CASE Old(r)
    BY <1>5, <2>2 DEF NewValue
  <2> QED BY <1>5, <2>1, <2>2
<1>6. (Old(t) \/ New(t)) /\ (Old(u) \/ New(u))
    BY <1>3
<1> HIDE DEF Old, New
<1> QED BY <1>4, <1>5, <1>6

LEMMA CommitIsCoherent ==
    ASSUME TableOK(row), TradeIsCoherent, NEW w \in Sessions, TxOK(row, raced, web[w]), Commit(w)
    PROVE  TradeIsCoherent'
<1> DEFINE x == web[w]
<1> SUFFICES ASSUME NEW t \in Trades, row'[t] # None, t \notin raced'
             PROVE  row'[t].marks = last'[t] /\ Versioned(row', row'[t])
    BY DEF TradeIsCoherent, Versioned, Live
<1>1. t \in Ids
    BY KindsOfRows
<1>2. TxType(x)
    BY DEF TxOK
<1>3. t \notin raced /\ (t \in Kept(x) => row[t] = x.seen[t])
    BY <1>1, <1>2, TransactionSets DEF Commit
<1>4. last'[t] = IF t \in DOMAIN x.log THEN x.log[t] ELSE IF t \in Born(x) THEN NoMarks ELSE last[t]
    BY <1>2, TransactionSets DEF Commit
<1>5. row[t] # None => row[t].marks = last[t] /\ Versioned(row, row[t])
    BY <1>3 DEF TradeIsCoherent, Versioned, Live
<1>6. CASE t \in Booking(x)
  <2>1. row'[t] = x.to[t] /\ x.to[t] \in TradeRows
    BY <1>2, <1>3, <1>6, CommittedTrade, TransactionSets, KindsOfRows DEF Booking
  <2>2. t \in Kept(x) => row[t] # None /\ t \notin Born(x)
    BY <1>2, CommittedTrade, TransactionSets
  <2>3. Versioned(row, x.to[t])
    BY <1>3, <1>6, <2>2 DEF TxOK, TxVersions
  <2>4. Versioned(row', x.to[t])
    BY <2>1, <2>3, VersionsStay
  <2>5. x.to[t].marks = last'[t]
    BY <1>3, <1>4, <1>5, <1>6, <2>2 DEF TxOK, TxMarks, Booking
  <2> QED BY <2>1, <2>4, <2>5
<1>7. CASE t \notin Booking(x)
  <2>1. row'[t] = row[t] /\ t \notin DOMAIN x.to
    BY <1>7, CommittedTrade
  <2>2. t \notin Born(x) /\ t \notin DOMAIN x.log
    BY <2>1 DEF Born, TxOK, TxMarks
  <2>3. row[t] \in TradeRows
    BY <2>1, RowTypes
  <2>4. Versioned(row', row[t])
    BY <1>5, <2>1, <2>3, VersionsStay
  <2> QED BY <1>4, <1>5, <2>1, <2>2, <2>4
<1> QED BY <1>6, <1>7

LEMMA CommitKeepsDefault ==
    ASSUME TableOK(row), NEW w \in Sessions, TxOK(row, raced, web[w]), Commit(w),
           Default # {}, Default' = {}
    PROVE  web[w] # None /\ web'[w] = None /\ (web[w].clears \/ web[w].late)
<1> DEFINE x == web[w]
<1>1. TxType(x) /\ TxProfiles(x) /\ TxQueue(x) /\ TxView(row, x) /\ TxDefault(row, x) /\ ~Fails(w)
    BY DEF TxOK, Commit
<1>2. ASSUME NEW a \in Accounts, a \notin Gone(x), Flushed(w)[a] # None, Flushed(w)[a].default
      PROVE  FALSE
  <2>1. a \in Ids /\ a \notin Trades
    BY KindsOfRows
  <2>2. row'[a] = Flushed(w)[a]
    BY <1>2, <2>1, CommittedRows
  <2> QED BY <1>2, <2>2 DEF Default, Live
<1>3. \E a \in Accounts : IsDefault(row, a)
    BY DEF Default, Live, IsDefault
<1>4. ASSUME NEW a \in Accounts \ DOMAIN x.to, IsDefault(row, a), ~x.clears PROVE FALSE
  <2>1. a \in Ids /\ a \notin Gone(x) /\ a \notin Born(x) \cup Kept(x)
    BY KindsOfRows DEF Gone, Born, Kept
  <2>2. Flushed(w)[a] = row[a]
    BY <1>1, <1>4, <2>1, FlushedRows
  <2> QED BY <1>2, <1>4, <2>1, <2>2 DEF IsDefault
<1>5. x.clears \/ x.late
  <2> SUFFICES ASSUME ~x.clears, ~x.late PROVE FALSE
    OBVIOUS
  <2>1. PICK a \in DOMAIN x.to \cap Accounts : IsDefault(x.to, a)
    BY <1>1, <1>3, <1>4 DEF TxDefault
  <2>2. a \in Ids /\ a \notin Profiles /\ a \notin Gone(x) /\ a \in Born(x) \cup Kept(x)
    BY <1>1, <2>1, KindsOfRows, TransactionSets DEF IsDefault
  <2>3. row[a] = x.seen[a]
    BY <1>1, <2>1 DEF TxView
  <2>4. Flushed(w)[a] = x.to[a]
    BY <1>1, <2>2, <2>3, FlushedRows
  <2> QED BY <1>2, <2>1, <2>2, <2>4 DEF IsDefault
<1>6. web'[w] = None
  <2> SUFFICES ASSUME x.queue # None PROVE FALSE
    BY DEF Commit
  <2> QED BY <1>1, <1>3, <1>4 DEF TxQueue
<1> QED BY <1>5, <1>6 DEF Commit

LEMMA CommitKeeps == ASSUME BookInv, NEW w \in Sessions, Commit(w) PROVE BookInv'
<1>1. TxOK(row, raced, web[w])
    BY DEF BookInv, TransactionsOK, Commit
<1>2. TableOK(row')
    BY <1>1, CommittedTable DEF BookInv
<1>3. OthersOK'
    BY <1>1, CommittedOthers DEF BookInv
<1>4. Exclusive' /\ TransactionsOK'
    BY CommittedTransactions DEF BookInv
<1>5. NothingTwice' /\ TradeIsCoherent'
    BY <1>1, CommitBooksOnce, CommitIsCoherent DEF BookInv
<1> QED BY <1>2, <1>3, <1>4, <1>5 DEF BookInv

\* The properties and the table do not depend on the requests.
LEMMA RowsUntouched ==
    ASSUME BookInv, UNCHANGED <<row, last, raced>>
    PROVE  TableOK(row') /\ NothingTwice' /\ TradeIsCoherent'
<1>1. TableOK(row')
    BY DEF BookInv
<1>2. NothingTwice'
    BY DEF BookInv, NothingTwice, Live
<1>3. TradeIsCoherent'
    BY DEF BookInv, TradeIsCoherent, Live
<1> QED BY <1>1, <1>2, <1>3

LEMMA RollbackKeeps == ASSUME BookInv, NEW w \in Sessions, Rollback(w) PROVE BookInv'
<1>1. web' = [web EXCEPT ![w] = None] /\ UNCHANGED <<row, last, raced, moves>>
    BY DEF Rollback
<1>2. web = [v \in Sessions |-> web[v]]
    BY DEF BookInv, OthersOK
<1>3. \A v \in Sessions : web'[v] = None \/ web'[v] = web[v]
    BY <1>1, <1>2
<1>4. OthersOK'
  <2>1. web' = [v \in Sessions |-> web'[v]]
    BY <1>1, <1>2
  <2> QED BY <1>1, <2>1 DEF BookInv, OthersOK
<1>5. Exclusive'
    BY <1>3 DEF BookInv, Exclusive
<1>6. TransactionsOK'
  <2> SUFFICES ASSUME NEW v \in Sessions, web'[v] # None PROVE TxOK(row', raced', web'[v])
    BY DEF TransactionsOK
  <2>1. web'[v] = web[v] /\ web[v] # None
    BY <1>3
  <2> QED BY <1>1, <2>1 DEF BookInv, TransactionsOK
<1> QED BY <1>1, <1>4, <1>5, <1>6, RowsUntouched DEF BookInv

-----------------------------------------------------------------------------
(* What a request does when it starts *)

\* x is a transaction that begins now, with the rows of to.
IsRequest(x, to) ==
    /\ x = [seen |-> [i \in DOMAIN to |-> row[i]], to |-> to, log |-> x.log,
            clears |-> x.clears, early |-> x.early, late |-> FALSE, queue |-> x.queue]
    /\ x.clears \in BOOLEAN /\ x.queue \in Accounts \cup {None}

Requested(w, x) ==
    web' = [web EXCEPT ![w] = x] /\ UNCHANGED <<row, last, raced>> /\ moves' \in 0 .. MaxMoves

\* The rows to write are rows, and those that are not there are to be inserted.
Writable(to) ==
    /\ DOMAIN to \subseteq Ids
    /\ \A i \in DOMAIN to : /\ to[i] # None => to[i] \in RowsOf(i)
                            /\ row[i] = None => to[i] # None /\ Fresh(i)

LEMMA BeginRequests == ASSUME BookInv, NEW w, NEW x, Begin(w, x) PROVE Requested(w, x)
<1>1. moves \in 0 .. MaxMoves /\ moves < MaxMoves /\ moves' = moves + 1
    BY DEF Begin, BookInv, OthersOK
<1>2. moves' \in 0 .. MaxMoves
    BY <1>1
<1> QED BY <1>2 DEF Begin, Requested

LEMMA RequestSets ==
    ASSUME NEW x, NEW to, IsRequest(x, to), Writable(to)
    PROVE  /\ x.to = to /\ x.late = FALSE
           /\ DOMAIN x.seen = DOMAIN to /\ \A i \in DOMAIN to : x.seen[i] = row[i]
           /\ \A i \in Born(x) : i \in DOMAIN to /\ row[i] = None
           /\ \A i \in Kept(x) : i \in DOMAIN to /\ row[i] # None /\ to[i] # None
           /\ \A i \in Booking(x) : /\ i \in DOMAIN to /\ i \in Trades /\ to[i] # None
                                    /\ i \in Born(x) \/ i \in Kept(x)
                                    /\ row[i] # None => i \in Kept(x)
<1>1. /\ x.to = to /\ x.late = FALSE
      /\ DOMAIN x.seen = DOMAIN to /\ \A i \in DOMAIN to : x.seen[i] = row[i]
    BY DEF IsRequest
<1>2. \A i \in Born(x) : i \in DOMAIN to /\ row[i] = None
    BY <1>1 DEF Born
<1>3. \A i \in Kept(x) : i \in DOMAIN to /\ row[i] # None /\ to[i] # None
    BY <1>1 DEF Born, Kept, Gone
<1>4. \A i \in Booking(x) : /\ i \in DOMAIN to /\ i \in Trades /\ to[i] # None
                            /\ i \in Born(x) \/ i \in Kept(x)
                            /\ row[i] # None => i \in Kept(x)
    BY <1>1, <1>2, <1>3 DEF Booking, Writable
<1> QED BY <1>1, <1>2, <1>3, <1>4

LEMMA RequestKeeps ==
    ASSUME BookInv, NEW w \in Sessions, NEW to, NEW x, IsRequest(x, to), Writable(to),
           Requested(w, x), TxProfiles(x), TxQueue(x), TxMarks(x), TxVersions(row, raced, x),
           TxValues(row, x), TxDefault(row, x),
           \A t \in DOMAIN to \cap Trades :
               row[t] # None /\ to[t] # None => to[t].account = row[t].account
    PROVE  BookInv'
<1>1. web = [v \in Sessions |-> web[v]] /\ TableOK(row)
    BY DEF BookInv, OthersOK
<1>2. web'[w] = x /\ \A v \in Sessions : v # w => web'[v] = web[v]
    BY <1>1 DEF Requested
<1>3. OthersOK'
  <2>1. web' = [v \in Sessions |-> web'[v]]
    BY <1>1 DEF Requested
  <2> QED BY <2>1 DEF BookInv, OthersOK, Requested
<1>4. TxType(x)
  <2>1. x = [seen |-> x.seen, to |-> x.to, log |-> x.log, clears |-> x.clears,
             early |-> x.early, late |-> x.late, queue |-> x.queue]
    BY DEF IsRequest
  <2>2. \A i \in DOMAIN to : /\ row[i] # None => row[i] \in RowsOf(i)
                             /\ to[i] # None => to[i] \in RowsOf(i)
                             /\ row[i] # None \/ to[i] # None
    BY <1>1 DEF Writable, TableOK
  <2>3. x.clears \in BOOLEAN /\ x.queue \in Accounts \cup {None}
    BY DEF IsRequest
  <2>4. /\ x.to = to /\ x.late = FALSE
        /\ DOMAIN x.seen = DOMAIN to /\ \A i \in DOMAIN to : x.seen[i] = row[i]
    BY RequestSets
  <2>5. DOMAIN to \subseteq Ids
    BY DEF Writable
  <2> QED BY <2>1, <2>2, <2>3, <2>4, <2>5 DEF TxType
<1>5. TxView(row, x)
  <2>1. x.to = to /\ \A i \in DOMAIN to : x.seen[i] = row[i]
    BY RequestSets
  <2>2. \A i \in Born(x) : row[i] = None
    BY RequestSets
  <2>3. \A t \in Kept(x) \cap Trades :
            t \in DOMAIN to \cap Trades /\ row[t] # None /\ to[t] # None
    <3> SUFFICES ASSUME NEW t \in Kept(x), t \in Trades
                 PROVE  t \in DOMAIN to \cap Trades /\ row[t] # None /\ to[t] # None
      OBVIOUS
    <3>1. t \in DOMAIN x.to /\ x.to[t] # None /\ x.seen[t] # None
      BY DEF Kept, Gone, Born
    <3> QED BY <2>1, <3>1
  <2>4. \A t \in Kept(x) \cap Trades : /\ x.to[t].account = x.seen[t].account
                                      /\ row[t].account = x.seen[t].account
    BY <2>1, <2>3
  <2> QED BY <2>1, <2>2, <2>3, <2>4 DEF TxView, Kept
<1>6. TxOK(row, raced, x)
    BY <1>4, <1>5 DEF TxOK
<1>7. TransactionsOK'
  <2> SUFFICES ASSUME NEW v \in Sessions, web'[v] # None PROVE TxOK(row', raced', web'[v])
    BY DEF TransactionsOK
  <2>1. row' = row /\ raced' = raced
    BY DEF Requested
  <2> QED BY <1>2, <1>6, <2>1 DEF BookInv, TransactionsOK
<1>8. Exclusive'
  <2> SUFFICES ASSUME NEW u \in Sessions, NEW v \in Sessions, u # v, web'[u] # None, web'[v] # None
               PROVE  Born(web'[u]) \cap DOMAIN web'[v].to = {}
    BY DEF Exclusive
  <2>1. CASE u = w
    <3>1. web'[v] = web[v] /\ web'[u] = x
      BY <1>2, <2>1
    <3>2. \A i \in Born(x) : Fresh(i)
      BY RequestSets DEF Writable
    <3> QED BY <3>1, <3>2 DEF Fresh
  <2>2. CASE v = w
    <3>1. web'[u] = web[u] /\ web'[v].to = to
      BY <1>2, <2>2, RequestSets
    <3>2. \A i \in Born(web[u]) : i \in DOMAIN web[u].to /\ row[i] = None
      BY <3>1 DEF BookInv, TransactionsOK, TxOK, TxView, Born
    <3> QED BY <3>1, <3>2 DEF Writable, Fresh
  <2>3. CASE u # w /\ v # w
    BY <1>2, <2>3 DEF BookInv, Exclusive
  <2> QED BY <2>1, <2>2, <2>3
<1> QED BY <1>3, <1>7, <1>8, RowsUntouched DEF BookInv, Requested

\* A request that writes accounts only.
LEMMA AccountRequestKeeps ==
    ASSUME BookInv, NEW w \in Sessions, NEW to, NEW x, IsRequest(x, to), Writable(to),
           Requested(w, x), DOMAIN to \subseteq Accounts, DOMAIN to # {},
           x.log = <<>>, x.queue = None,
           ~x.clears /\ (\E a \in Accounts : IsDefault(row, a)) =>
               \/ \E a \in Accounts \ DOMAIN to : IsDefault(row, a)
               \/ \E a \in DOMAIN to : IsDefault(to, a)
    PROVE  BookInv'
<1>1. x.to = to
    BY RequestSets
<1>2. DOMAIN to \cap Trades = {} /\ DOMAIN to \cap Profiles = {}
    BY KindsOfRows
<1>3. Booking(x) = {}
    BY <1>1, <1>2 DEF Booking, Born, Kept, IsRequest
<1>4. TxProfiles(x) /\ TxQueue(x) /\ TxVersions(row, raced, x) /\ TxValues(row, x)
    BY <1>1, <1>2, <1>3 DEF TxProfiles, TxQueue, TxVersions, TxValues
<1>5. TxMarks(x)
  <2>1. DOMAIN x.log = {}
    OBVIOUS
  <2> QED BY <1>3, <2>1 DEF TxMarks
<1>6. TxDefault(row, x)
    BY <1>1 DEF TxDefault
<1> QED BY <1>2, <1>4, <1>5, <1>6, RequestKeeps

\* A request that writes strategies only.
LEMMA ProfileRequestKeeps ==
    ASSUME BookInv, NEW w \in Sessions, NEW to, Requested(w, Transaction(to)), Writable(to),
           DOMAIN to \subseteq Profiles, DOMAIN to # {},
           \A p \in DOMAIN to : /\ to[p] # None /\ to[p].current >= 1
                                /\ row[p] # None => to[p].current >= row[p].current
    PROVE  BookInv'
<1> DEFINE x == Transaction(to)
<1>1. IsRequest(x, to) /\ x.log = <<>> /\ x.queue = None
    BY DEF Transaction, IsRequest
<1> HIDE DEF x
<1>2. x.to = to /\ \A i \in DOMAIN to : x.seen[i] = row[i]
    BY <1>1, RequestSets
<1>3. DOMAIN to \cap Trades = {} /\ DOMAIN to \cap Accounts = {}
    BY KindsOfRows
<1>4. Booking(x) = {}
    BY <1>1, <1>2, <1>3 DEF Booking, Born, Kept, IsRequest
<1>5. TxProfiles(x)
    BY <1>2 DEF TxProfiles
<1>6. TxQueue(x) /\ TxVersions(row, raced, x) /\ TxValues(row, x)
    BY <1>1, <1>2, <1>4 DEF TxQueue, TxVersions, TxValues
<1>7. TxMarks(x)
  <2>1. DOMAIN x.log = {}
    BY <1>1
  <2> QED BY <1>4, <2>1 DEF TxMarks
<1>8. TxDefault(row, x)
    BY <1>2, <1>3 DEF TxDefault
<1>9. Requested(w, x)
    BY DEF x
<1> QED BY <1>1, <1>3, <1>5, <1>6, <1>7, <1>8, <1>9, RequestKeeps

\* A request that writes trades, and perhaps accounts that stay (or not) the default.
Bound(to, t) ==
    \/ Versioned(row, to[t])
    \/ row[t] # None /\ to[t].profile = row[t].profile /\ to[t].version = row[t].version

LEMMA TradeRequestKeeps ==
    ASSUME BookInv, NEW w \in Sessions, NEW to, NEW x, IsRequest(x, to), Writable(to),
           Requested(w, x), DOMAIN to \subseteq Accounts \cup Trades, DOMAIN to # {},
           ~x.clears, x.queue # None => DOMAIN to \cap Accounts = {},
           \A a \in DOMAIN to \cap Accounts :
               row[a] # None /\ to[a] # None /\ to[a].default = row[a].default,
           \A t \in DOMAIN to \cap Trades : to[t] # None =>
               /\ row[t] # None => to[t].account = row[t].account
               /\ Bound(to, t)
               /\ (row[t] # None /\ to[t].value = row[t].value) \/ NewValue(row, x, t),
           \A t \in DOMAIN x.log : t \in DOMAIN to \cap Trades /\ to[t] # None
                                   /\ x.log[t] = to[t].marks,
           \A t \in DOMAIN to \cap Trades : to[t] # None /\ t \notin DOMAIN x.log =>
               to[t].marks = IF row[t] = None THEN NoMarks ELSE row[t].marks
    PROVE  BookInv'
<1>1. /\ x.to = to /\ x.late = FALSE /\ \A i \in DOMAIN to : x.seen[i] = row[i]
    BY RequestSets
<1>2. DOMAIN to \cap Profiles = {} /\ Accounts \cap Trades = {}
    BY KindsOfRows
<1>3. TxProfiles(x) /\ TxQueue(x)
    BY <1>1, <1>2 DEF TxProfiles, TxQueue
<1>4. \A t \in Booking(x) : /\ t \in DOMAIN to /\ t \in Trades /\ to[t] # None
                            /\ t \in Born(x) \/ t \in Kept(x)
                            /\ row[t] # None => t \in Kept(x)
    BY RequestSets
<1>5. \A t \in Born(x) : row[t] = None
    BY RequestSets
<1>6. TxMarks(x)
  <2>1. ASSUME NEW t \in DOMAIN x.log PROVE t \in DOMAIN x.to \cap Trades /\ x.log[t] \in Marks
    <3>1. t \in DOMAIN to /\ t \in Trades /\ to[t] # None /\ x.log[t] = to[t].marks
      OBVIOUS
    <3>2. to[t] \in TradeRows
      BY <3>1, KindsOfRows DEF Writable
    <3>3. to[t].marks \in Marks
      BY <3>2 DEF TradeRows
    <3> QED BY <1>1, <3>1, <3>3
  <2>2. ASSUME NEW t \in Booking(x)
        PROVE  IF t \in DOMAIN x.log THEN x.log[t] = x.to[t].marks
               ELSE x.to[t].marks = IF t \in Born(x) THEN NoMarks ELSE x.seen[t].marks
    <3>1. t \in DOMAIN to \cap Trades /\ to[t] # None /\ x.to[t] = to[t] /\ x.seen[t] = row[t]
      BY <1>1, <1>4
    <3>2. t \in Born(x) <=> row[t] = None
      BY <1>1, <3>1 DEF Born
    <3> QED BY <3>1, <3>2
  <2> QED BY <2>1, <2>2 DEF TxMarks
<1>7. TxVersions(row, raced, x)
  <2> SUFFICES ASSUME NEW t \in Booking(x)
               PROVE  Versioned(row, to[t]) \/ (t \in Kept(x) /\ t \in raced)
    BY <1>1 DEF TxVersions
  <2>1. CASE /\ row[t] # None /\ t \notin raced
             /\ to[t].profile = row[t].profile /\ to[t].version = row[t].version
    <3>1. Versioned(row, row[t])
      BY <1>4, <2>1 DEF BookInv, TradeIsCoherent, Live, Versioned
    <3> QED BY <2>1, <3>1 DEF Versioned
  <2> QED BY <1>4, <2>1 DEF Bound
<1>8. TxValues(row, x)
  <2> SUFFICES ASSUME NEW t \in Booking(x)
               PROVE  (t \in Kept(x) /\ to[t].value = x.seen[t].value) \/ NewValue(row, x, t)
    BY <1>1 DEF TxValues
  <2> QED BY <1>1, <1>4
<1>9. TxDefault(row, x)
    BY <1>1 DEF TxDefault, IsDefault
<1> QED BY <1>3, <1>6, <1>7, <1>8, <1>9, RequestKeeps

-----------------------------------------------------------------------------
(* The requests about accounts and strategies *)

LEMMA PlainRequest ==
    ASSUME NEW to, NEW x, \/ x = Transaction(to)
                          \/ x = [Transaction(to) EXCEPT !.clears = TRUE]
                          \/ x = [Transaction(to) EXCEPT !.early = TRUE]
    PROVE  /\ IsRequest(x, to) /\ x.log = <<>> /\ x.queue = None
           /\ x = [Transaction(to) EXCEPT !.clears = TRUE] => x.clears
           /\ x = Transaction(to) => ~x.clears
<1> DEFINE now == [i \in DOMAIN to |-> row[i]]
           Rest(c, e) == [seen |-> now, to |-> to, log |-> <<>>, clears |-> c,
                          early |-> e, late |-> FALSE, queue |-> None]
<1>1. Transaction(to) = Rest(FALSE, FALSE)
    BY DEF Transaction
<1> HIDE DEF now
<1>2. x = [Transaction(to) EXCEPT !.clears = TRUE] => x = Rest(TRUE, FALSE)
  <2> SUFFICES ASSUME x = [Rest(FALSE, FALSE) EXCEPT !.clears = TRUE] PROVE x = Rest(TRUE, FALSE)
    BY <1>1
  <2> QED OBVIOUS
<1>3. x = [Transaction(to) EXCEPT !.early = TRUE] => x = Rest(FALSE, TRUE)
  <2> SUFFICES ASSUME x = [Rest(FALSE, FALSE) EXCEPT !.early = TRUE] PROVE x = Rest(FALSE, TRUE)
    BY <1>1
  <2> QED OBVIOUS
<1>4. ASSUME NEW c \in BOOLEAN, NEW e \in BOOLEAN, x = Rest(c, e)
      PROVE  IsRequest(x, to) /\ x.log = <<>> /\ x.queue = None /\ x.clears = c
    BY <1>4 DEF IsRequest, now
<1> HIDE DEF Rest
<1> QED BY <1>1, <1>2, <1>3, <1>4

LEMMA NewAccounts ==
    ASSUME NEW default \in BOOLEAN, NEW p \in Profiles \cup {None}
    PROVE  /\ NewAccount(default, p) \in AccountRows /\ NewAccount(default, p) # None
           /\ NewAccount(default, p).default = default
<1>1. NewAccount(default, p) \in AccountRows /\ NewAccount(default, p).default = default
    BY DEF NewAccount, AccountRows
<1> QED BY <1>1

LEMMA LiveAccounts ==
    ASSUME BookInv, NEW a \in Accounts, row[a] # None
    PROVE  /\ row[a] \in AccountRows /\ row[a].default \in BOOLEAN
           /\ \A d \in BOOLEAN : /\ [row[a] EXCEPT !.default = d] \in AccountRows
                                 /\ [row[a] EXCEPT !.default = d].default = d
           /\ \A p \in Profiles \cup {None} :
                /\ [row[a] EXCEPT !.profile = p] \in AccountRows
                /\ [row[a] EXCEPT !.profile = p].default = row[a].default
           /\ \A n \in Nat : /\ [row[a] EXCEPT !.asked = n] \in AccountRows
                             /\ [row[a] EXCEPT !.asked = n].default = row[a].default
                             /\ [row[a] EXCEPT !.done = n] \in AccountRows
                             /\ [row[a] EXCEPT !.done = n].default = row[a].default
<1>1. row[a] \in AccountRows
    BY RowTypes DEF BookInv
<1> QED BY <1>1 DEF AccountRows

LEMMA WritableAccounts ==
    ASSUME NEW to, DOMAIN to \subseteq Accounts,
           \A i \in DOMAIN to : to[i] # None => to[i] \in AccountRows,
           \A i \in DOMAIN to : row[i] = None => to[i] # None /\ Fresh(i)
    PROVE  Writable(to)
BY KindsOfRows DEF Writable

LEMMA SomeAccount ==
    ASSUME NEW S \in SUBSET Accounts, S # {}
    PROVE  First(S) \in S
<1>1. S \in SUBSET Nat
    BY DEF Accounts
<1> QED BY <1>1, FirstIsThere

LEMMA VisitKeeps == ASSUME BookInv, NEW w \in Sessions, Visit(w) PROVE BookInv'
<1>1. ~ \E a \in Accounts : IsDefault(row, a)
    BY DEF Visit, Default, Live, IsDefault
<1>2. CASE Live(Accounts) = {}
  <2>1. PICK a \in Accounts : FreshAccount(a)
                /\ Begin(w, Transaction([i \in {a} |-> NewAccount(TRUE, None)]))
    BY <1>2 DEF Visit
  <2> DEFINE to == [i \in {a} |-> NewAccount(TRUE, None)]
  <2>2. Writable(to)
    BY <2>1, NewAccounts, WritableAccounts DEF FreshAccount
  <2>3. DOMAIN to \subseteq Accounts /\ DOMAIN to # {}
    OBVIOUS
  <2>4. Requested(w, Transaction(to))
    BY <2>1, BeginRequests
  <2> HIDE DEF to
  <2> QED BY <1>1, <2>2, <2>3, <2>4, PlainRequest, AccountRequestKeeps
<1>3. CASE Live(Accounts) # {}
  <2> DEFINE h == First(Live(Accounts))
             to == [i \in {h} |-> [row[i] EXCEPT !.default = TRUE]]
  <2>1. Begin(w, Transaction(to))
    BY <1>3 DEF Visit
  <2>2. h \in Accounts /\ row[h] # None
    BY <1>3, SomeAccount DEF Live
  <2> HIDE DEF h
  <2>3. Writable(to)
    BY <2>2, LiveAccounts, WritableAccounts
  <2>4. DOMAIN to \subseteq Accounts /\ DOMAIN to # {}
    BY <2>2
  <2>5. Requested(w, Transaction(to))
    BY <2>1, BeginRequests
  <2> HIDE DEF to
  <2> QED BY <1>1, <2>3, <2>4, <2>5, PlainRequest, AccountRequestKeeps
<1> QED BY <1>2, <1>3

LEMMA CreateAccountKeeps ==
    ASSUME BookInv, NEW w \in Sessions, NEW a \in Accounts, NEW wants \in BOOLEAN,
           NEW p \in Profiles \cup {None}, CreateAccount(w, a, wants, p)
    PROVE  BookInv'
<1> DEFINE default == wants \/ Live(Accounts) = {}
           olds == IF default THEN Default ELSE {}
           to == [i \in olds \cup {a} |->
                     IF i = a THEN NewAccount(default, p) ELSE [row[i] EXCEPT !.default = FALSE]]
<1>1. FreshAccount(a) /\ Begin(w, Transaction(to))
    BY DEF CreateAccount
<1>2. Requested(w, Transaction(to))
    BY <1>1, BeginRequests
<1>3. default \in BOOLEAN /\ olds \subseteq Default /\ (olds = {} \/ default)
    OBVIOUS
<1>4. Fresh(a) /\ row[a] = None
    BY <1>1 DEF FreshAccount, Fresh
<1>5. \A i \in Default : i \in Accounts /\ row[i] # None
    BY DEF Default, Live
<1> HIDE DEF default, olds
<1>6. \A i \in DOMAIN to : i = a \/ (i \in Default /\ i # a)
    BY <1>3
<1>7. to[a] = NewAccount(default, p) /\ a \in DOMAIN to /\ DOMAIN to = olds \cup {a}
    OBVIOUS
<1>8. \A i \in DOMAIN to : i # a => to[i] = [row[i] EXCEPT !.default = FALSE]
    OBVIOUS
<1> HIDE DEF to
<1>9. DOMAIN to \subseteq Accounts
    BY <1>5, <1>6
<1>10. \A i \in DOMAIN to : to[i] # None => to[i] \in AccountRows
  <2> SUFFICES ASSUME NEW i \in DOMAIN to PROVE to[i] \in AccountRows
    OBVIOUS
  <2>1. CASE i = a
    BY <1>3, <1>7, <2>1, NewAccounts
  <2>2. CASE i # a
    BY <1>5, <1>6, <1>8, <2>2, LiveAccounts
  <2> QED BY <2>1, <2>2
<1>11. \A i \in DOMAIN to : row[i] = None => to[i] # None /\ Fresh(i)
    BY <1>3, <1>4, <1>5, <1>6, <1>7, NewAccounts
<1>12. ASSUME NEW d \in Accounts, IsDefault(row, d)
       PROVE  \/ \E b \in Accounts \ DOMAIN to : IsDefault(row, b)
              \/ \E b \in DOMAIN to : IsDefault(to, b)
  <2>1. CASE default
    BY <1>3, <1>7, <2>1, NewAccounts DEF IsDefault
  <2>2. CASE ~default
    <3>1. d # a /\ olds = {}
      BY <1>3, <1>4, <1>12, <2>2 DEF IsDefault
    <3> QED BY <1>7, <1>12, <3>1
  <2> QED BY <2>1, <2>2
<1>13. Writable(to)
    BY <1>9, <1>10, <1>11, WritableAccounts
<1> QED BY <1>2, <1>7, <1>9, <1>12, <1>13, PlainRequest, AccountRequestKeeps

LEMMA SetDefaultKeeps ==
    ASSUME BookInv, NEW w \in Sessions, NEW a \in Accounts, SetDefault(w, a)
    PROVE  BookInv'
<1> DEFINE to == [i \in {a} |-> [row[i] EXCEPT !.default = TRUE]]
           x == [Transaction(to) EXCEPT !.clears = TRUE]
<1>1. row[a] # None /\ Begin(w, x)
    BY DEF SetDefault
<1>2. Requested(w, x)
    BY <1>1, BeginRequests
<1>3. Writable(to) /\ DOMAIN to \subseteq Accounts /\ DOMAIN to # {}
    BY <1>1, LiveAccounts, WritableAccounts
<1>4. IsRequest(x, to) /\ x.log = <<>> /\ x.queue = None /\ x.clears
    BY PlainRequest
<1> HIDE DEF to, x
<1> QED BY <1>2, <1>3, <1>4, AccountRequestKeeps

\* An account is changed, but not whether it is the default.
LEMMA AccountChangeKeeps ==
    ASSUME BookInv, NEW w \in Sessions, NEW a \in Accounts, row[a] # None, NEW r \in AccountRows,
           r.default = row[a].default, NEW to, to = [i \in {a} |-> r], Requested(w, Transaction(to))
    PROVE  BookInv'
<1>1. Writable(to) /\ DOMAIN to \subseteq Accounts
    BY WritableAccounts
<1>2. ASSUME NEW d \in Accounts, IsDefault(row, d)
       PROVE  \/ \E b \in Accounts \ DOMAIN to : IsDefault(row, b)
              \/ \E b \in DOMAIN to : IsDefault(to, b)
  <2>1. CASE d = a
    <3>1. to[a] # None /\ to[a].default /\ a \in DOMAIN to
      BY <1>2, <2>1 DEF IsDefault
    <3> QED BY <3>1 DEF IsDefault
  <2>2. CASE d # a
    BY <1>2, <2>2
  <2> QED BY <2>1, <2>2
<1> QED BY <1>1, <1>2, PlainRequest, AccountRequestKeeps

LEMMA SetProfileKeeps ==
    ASSUME BookInv, NEW w \in Sessions, NEW a \in Accounts, NEW p \in Profiles \cup {None},
           SetProfile(w, a, p)
    PROVE  BookInv'
<1> DEFINE to == [i \in {a} |-> [row[i] EXCEPT !.profile = p]]
           r == [row[a] EXCEPT !.profile = p]
<1>1. row[a] # None /\ Begin(w, Transaction(to))
    BY DEF SetProfile
<1>2. Requested(w, Transaction(to))
    BY <1>1, BeginRequests
<1>3. r \in AccountRows /\ r.default = row[a].default
    BY <1>1, LiveAccounts
<1>4. to = [i \in {a} |-> r]
    OBVIOUS
<1> HIDE DEF to, r
<1> QED BY <1>1, <1>2, <1>3, <1>4, AccountChangeKeeps

\* What replaces the accounts that go is the default.
LEMMA ReplacementKeeps ==
    ASSUME BookInv, NEW w \in Sessions, NEW b \in Accounts, FreshAccount(b),
           NEW S \in SUBSET Accounts, \A a \in S : row[a] # None,
           NEW to, to = [i \in S \cup {b} |-> IF i = b THEN NewAccount(TRUE, None) ELSE None],
           Requested(w, [Transaction(to) EXCEPT !.early = TRUE])
    PROVE  BookInv'
<1> DEFINE x == [Transaction(to) EXCEPT !.early = TRUE]
<1>1. IsRequest(x, to) /\ x.log = <<>> /\ x.queue = None
    BY PlainRequest
<1>2. Requested(w, x)
    OBVIOUS
<1> HIDE DEF x
<1>3. DOMAIN to = S \cup {b} /\ to[b] = NewAccount(TRUE, None)
      /\ \A i \in S : i # b => to[i] = None
    OBVIOUS
<1>4. Fresh(b)
    BY DEF FreshAccount
<1>5. DOMAIN to \subseteq Accounts
    BY <1>3
<1>6. Writable(to)
    BY <1>3, <1>4, <1>5, NewAccounts, WritableAccounts
<1>7. IsDefault(to, b) /\ b \in DOMAIN to
    BY <1>3, NewAccounts DEF IsDefault
<1> QED BY <1>1, <1>2, <1>5, <1>6, <1>7, AccountRequestKeeps

LEMMA DeleteAllKeeps == ASSUME BookInv, NEW w \in Sessions, DeleteAll(w) PROVE BookInv'
<1>1. PICK b \in Accounts :
          /\ FreshAccount(b)
          /\ Begin(w, [Transaction([i \in Live(Accounts) \cup {b} |->
                         IF i = b THEN NewAccount(TRUE, None) ELSE None]) EXCEPT !.early = TRUE])
    BY DEF DeleteAll
<1> DEFINE S == Live(Accounts)
           to == [i \in S \cup {b} |-> IF i = b THEN NewAccount(TRUE, None) ELSE None]
<1>2. Requested(w, [Transaction(to) EXCEPT !.early = TRUE])
    BY <1>1, BeginRequests
<1>3. S \in SUBSET Accounts /\ \A a \in S : row[a] # None
    BY DEF Live
<1> HIDE DEF S
<1>4. to = [i \in S \cup {b} |-> IF i = b THEN NewAccount(TRUE, None) ELSE None]
    OBVIOUS
<1> HIDE DEF to
<1> QED BY <1>1, <1>2, <1>3, <1>4, ReplacementKeeps

LEMMA DeleteAccountKeeps ==
    ASSUME BookInv, NEW w \in Sessions, NEW a \in Accounts, DeleteAccount(w, a)
    PROVE  BookInv'
<1>1. row[a] # None
    BY DEF DeleteAccount
<1>2. CASE Live(Accounts) = {a}
  <2>1. PICK b \in Accounts :
            /\ FreshAccount(b)
            /\ Begin(w, [Transaction([i \in {a, b} |->
                           IF i = b THEN NewAccount(TRUE, None) ELSE None]) EXCEPT !.early = TRUE])
    BY <1>2 DEF DeleteAccount
  <2> DEFINE to == [i \in {a, b} |-> IF i = b THEN NewAccount(TRUE, None) ELSE None]
  <2>2. Requested(w, [Transaction(to) EXCEPT !.early = TRUE])
    BY <2>1, BeginRequests
  <2>3. to = [i \in {a} \cup {b} |-> IF i = b THEN NewAccount(TRUE, None) ELSE None]
    <3>1. {a, b} = {a} \cup {b}
      OBVIOUS
    <3> QED BY <3>1
  <2> HIDE DEF to
  <2> QED BY <1>1, <2>1, <2>2, <2>3, ReplacementKeeps
<1>3. CASE Live(Accounts) # {a}
  <2> DEFINE to == [i \in {a} \cup Heir(a) |-> IF i = a THEN None ELSE [row[i] EXCEPT !.default = TRUE]]
  <2>1. Begin(w, Transaction(to))
    BY <1>3 DEF DeleteAccount
  <2>2. Requested(w, Transaction(to))
    BY <2>1, BeginRequests
  <2>3. a \in Live(Accounts) /\ Live(Accounts) \ {a} # {} /\ Live(Accounts) \ {a} \subseteq Accounts
    BY <1>1, <1>3 DEF Live
  <2>4. \A h \in Heir(a) : h \in Accounts /\ h # a /\ row[h] # None
    <3>1. First(Live(Accounts) \ {a}) \in Live(Accounts) \ {a}
      BY <2>3, SomeAccount
    <3> QED BY <3>1 DEF Heir, Live
  <2>5. row[a].default => Heir(a) # {}
    BY <1>3 DEF Heir
  <2>6. DOMAIN to = {a} \cup Heir(a) /\ to[a] = None
        /\ \A h \in Heir(a) : h # a => to[h] = [row[h] EXCEPT !.default = TRUE]
    OBVIOUS
  <2> HIDE DEF to
  <2>7. DOMAIN to \subseteq Accounts
    BY <2>4, <2>6
  <2>8. \A h \in Heir(a) : to[h] \in AccountRows /\ to[h].default
    <3> SUFFICES ASSUME NEW h \in Heir(a) PROVE to[h] \in AccountRows /\ to[h].default = TRUE
      OBVIOUS
    <3>1. h \in Accounts /\ row[h] # None /\ to[h] = [row[h] EXCEPT !.default = TRUE]
      BY <2>4, <2>6
    <3>2. row[h] \in AccountRows
      BY <3>1, LiveAccounts
    <3> QED BY <3>1, <3>2 DEF AccountRows
  <2>9. Writable(to)
    BY <1>1, <2>4, <2>6, <2>7, <2>8, WritableAccounts
  <2>10. ASSUME NEW d \in Accounts, IsDefault(row, d)
         PROVE  \/ \E b \in Accounts \ DOMAIN to : IsDefault(row, b)
                \/ \E b \in DOMAIN to : IsDefault(to, b)
    <3>1. CASE Heir(a) # {}
      <4>1. PICK h \in Heir(a) : TRUE
        BY <3>1
      <4>2. to[h] \in AccountRows /\ to[h].default /\ h \in DOMAIN to
        BY <2>6, <2>8
      <4> QED BY <4>2 DEF IsDefault
    <3>2. CASE Heir(a) = {}
      <4>1. d # a
        BY <2>5, <2>10, <3>2 DEF IsDefault
      <4> QED BY <2>6, <2>10, <3>2, <4>1
    <3> QED BY <3>1, <3>2
  <2> QED BY <2>2, <2>6, <2>7, <2>9, <2>10, PlainRequest, AccountRequestKeeps
<1> QED BY <1>2, <1>3

LEMMA AccountingKeeps == ASSUME BookInv, NEW w \in Sessions, Accounting(w) PROVE BookInv'
BY VisitKeeps, DeleteAllKeeps, SetDefaultKeeps, DeleteAccountKeeps, SetProfileKeeps,
   CreateAccountKeeps DEF Accounting

LEMMA StrategyKeeps == ASSUME BookInv, NEW w \in Sessions, Strategy(w) PROVE BookInv'
<1> USE DEF ProfileRows
<1>1. PICK p \in Profiles : CreateProfile(w, p) \/ UpdateProfile(w, p) \/ ArchiveProfile(w, p)
    BY DEF Strategy
<1>2. p \in Ids /\ RowsOf(p) = ProfileRows
    BY KindsOfRows
<1>3. ASSUME NEW r \in ProfileRows, NEW to, to = [i \in {p} |-> r], Begin(w, Transaction(to)),
             r.current >= 1, row[p] # None => r.current >= row[p].current,
             row[p] = None => Fresh(p)
      PROVE  BookInv'
  <2>1. Requested(w, Transaction(to))
    BY <1>3, BeginRequests
  <2>2. Writable(to) /\ DOMAIN to \subseteq Profiles /\ \A i \in DOMAIN to : i = p /\ to[i] = r
    BY <1>2, <1>3 DEF Writable
  <2> QED BY <1>3, <2>1, <2>2, ProfileRequestKeeps
<1>4. CASE CreateProfile(w, p)
  <2> DEFINE r == [archived |-> FALSE, current |-> 1]
             to == [i \in {p} |-> r]
  <2>1. Fresh(p) /\ row[p] = None /\ Begin(w, Transaction(to))
    BY <1>4 DEF CreateProfile, Fresh
  <2>2. r \in ProfileRows /\ r.current = 1
    OBVIOUS
  <2>3. to = [i \in {p} |-> r]
    OBVIOUS
  <2> HIDE DEF r, to
  <2> QED BY <1>3, <2>1, <2>2, <2>3
<1>5. ASSUME row[p] # None
      PROVE  row[p] \in ProfileRows /\ row[p].current \in Nat /\ row[p].current >= 1
    BY <1>5, RowTypes DEF BookInv
<1>6. CASE UpdateProfile(w, p)
  <2> DEFINE r == [row[p] EXCEPT !.current = @ + 1]
             to == [i \in {p} |-> [row[i] EXCEPT !.current = @ + 1]]
  <2>1. row[p] # None /\ Begin(w, Transaction(to))
    BY <1>6 DEF UpdateProfile
  <2>2. r \in ProfileRows /\ r.current = row[p].current + 1
    BY <1>5, <2>1
  <2>3. to = [i \in {p} |-> r]
    OBVIOUS
  <2>4. r.current >= 1 /\ r.current >= row[p].current
    BY <1>5, <2>1, <2>2
  <2> HIDE DEF r, to
  <2> QED BY <1>3, <2>1, <2>2, <2>3, <2>4
<1>7. CASE ArchiveProfile(w, p)
  <2> DEFINE r == [row[p] EXCEPT !.archived = TRUE]
             to == [i \in {p} |-> [row[i] EXCEPT !.archived = TRUE]]
  <2>1. row[p] # None /\ Begin(w, Transaction(to))
    BY <1>7 DEF ArchiveProfile
  <2>2. r \in ProfileRows /\ r.current = row[p].current
    BY <1>5, <2>1
  <2>3. to = [i \in {p} |-> r]
    OBVIOUS
  <2>4. r.current >= 1 /\ r.current >= row[p].current
    BY <1>5, <2>1, <2>2
  <2> HIDE DEF r, to
  <2> QED BY <1>3, <2>1, <2>2, <2>3, <2>4
<1> QED BY <1>1, <1>4, <1>6, <1>7

-----------------------------------------------------------------------------
(* The requests about trades *)

\* A transaction with rows for the history.
LoggedRequest(to, log) == [Transaction(to) EXCEPT !.log = log]

LEMMA MarkingRequest ==
    ASSUME NEW to, NEW log, NEW x, x = LoggedRequest(to, log)
    PROVE  IsRequest(x, to) /\ x.log = log /\ x.queue = None /\ ~x.clears
<1> DEFINE now == [i \in DOMAIN to |-> row[i]]
<1>1. Transaction(to) = [seen |-> now, to |-> to, log |-> <<>>, clears |-> FALSE,
                         early |-> FALSE, late |-> FALSE, queue |-> None]
    BY DEF Transaction
<1> HIDE DEF now
<1>2. x = [seen |-> now, to |-> to, log |-> log, clears |-> FALSE,
           early |-> FALSE, late |-> FALSE, queue |-> None]
  <2> SUFFICES ASSUME x = [[seen |-> now, to |-> to, log |-> <<>>, clears |-> FALSE, early |-> FALSE,
                            late |-> FALSE, queue |-> None] EXCEPT !.log = log]
               PROVE  x = [seen |-> now, to |-> to, log |-> log, clears |-> FALSE,
                           early |-> FALSE, late |-> FALSE, queue |-> None]
    BY <1>1 DEF LoggedRequest
  <2> QED OBVIOUS
<1>3. x.log = log /\ x.clears = FALSE /\ x.early = FALSE /\ x.queue = None
    BY <1>2
<1>4. x = [seen |-> now, to |-> to, log |-> x.log, clears |-> x.clears,
           early |-> x.early, late |-> FALSE, queue |-> x.queue]
    BY <1>2, <1>3
<1> QED BY <1>3, <1>4 DEF IsRequest, now

LEMMA LoggedMarks ==
    ASSUME NEW to
    PROVE  /\ \A t \in DOMAIN Logged(to) : t \in DOMAIN to /\ Logged(to)[t] = to[t].marks
           /\ \A t \in DOMAIN to : t \notin DOMAIN Logged(to) =>
                to[t].marks = IF row[t] = None THEN NoMarks ELSE row[t].marks
BY DEF Logged

LEMMA VersionOfNow ==
    ASSUME BookInv, NEW p \in Profiles \cup {None}, Attachable(p)
    PROVE  /\ VersionOf(p) \in (Profiles \X Nat) \cup {None}
           /\ \A r : r.profile = p /\ r.version = VersionOf(p) => Versioned(row, r)
<1>1. CASE p = None
    BY <1>1 DEF VersionOf, Versioned
<1>2. CASE p # None
  <2>1. p \in Profiles /\ row[p] # None /\ row[p].current \in Nat /\ row[p].current >= 1
    BY <1>2, RowTypes DEF BookInv, Attachable
  <2>2. VersionOf(p) = <<p, row[p].current>> /\ VersionOf(p) \in Profiles \X Nat
    BY <1>2, <2>1 DEF VersionOf
  <2>3. VersionOf(p) # None /\ VersionOf(p)[1] = p /\ VersionOf(p)[2] = row[p].current
    BY <2>2
  <2>4. row[p].current \in 1 .. row[p].current
    BY <2>1
  <2> QED BY <1>2, <2>1, <2>2, <2>3, <2>4 DEF Versioned
<1> QED BY <1>1, <1>2

LEMMA NewTrades ==
    ASSUME BookInv, NEW a \in Accounts, NEW v \in Values, NEW p \in Profiles \cup {None}, Attachable(p)
    PROVE  /\ NewTrade(a, v, p) \in TradeRows
           /\ NewTrade(a, v, p).account = a /\ NewTrade(a, v, p).value = v
           /\ NewTrade(a, v, p).profile = p /\ NewTrade(a, v, p).version = VersionOf(p)
           /\ NewTrade(a, v, p).marks = NoMarks
<1> DEFINE q == VersionOf(p)
<1>1. q \in (Profiles \X Nat) \cup {None}
    BY VersionOfNow
<1>2. NewTrade(a, v, p) = [account |-> a, value |-> v, key |-> None, batch |-> 0, cost |-> FALSE,
                           profile |-> p, version |-> q, marks |-> NoMarks]
    BY DEF NewTrade
<1>3. NoMarks \in Marks
    BY DEF NoMarks, Marks
<1> HIDE DEF q
<1>4. NewTrade(a, v, p) \in TradeRows
    BY <1>1, <1>2, <1>3 DEF TradeRows
<1>5. /\ NewTrade(a, v, p).account = a /\ NewTrade(a, v, p).value = v
      /\ NewTrade(a, v, p).profile = p /\ NewTrade(a, v, p).version = q
      /\ NewTrade(a, v, p).marks = NoMarks
    BY <1>2
<1> QED BY <1>4, <1>5 DEF q

LEMMA EnterKeeps ==
    ASSUME BookInv, NEW w \in Sessions, NEW t \in Trades, NEW a \in Accounts, NEW v \in Values,
           NEW p \in Profiles \cup {None}, NEW flag \in BOOLEAN, Enter(w, t, a, v, p, flag)
    PROVE  BookInv'
<1> DEFINE r == [NewTrade(a, v, p) EXCEPT !.marks.flag = flag]
           to == [i \in {t} |-> r]
           x == [Transaction(to) EXCEPT !.log = Logged(to)]
<1>1. Fresh(t) /\ row[t] = None /\ Attachable(p) /\ ~Duplicate(a, v, None)
    BY DEF Enter, Fresh
<1>2. Requested(w, x)
  <2>1. Begin(w, x)
    BY DEF Enter, Marking
  <2> QED BY <2>1, BeginRequests
<1>3. /\ r \in TradeRows /\ r.account = a /\ r.value = v /\ r.profile = p
      /\ r.version = VersionOf(p)
    BY <1>1, NewTrades DEF TradeRows, Marks
<1>4. r # None /\ Versioned(row, r)
    BY <1>1, <1>3, VersionOfNow
<1>5. DOMAIN to = {t} /\ to[t] = r
    OBVIOUS
<1> HIDE DEF r, to
<1>6. IsRequest(x, to) /\ x.log = Logged(to) /\ ~x.clears /\ x.queue = None
  <2> DEFINE log == Logged(to)
  <2>1. x = LoggedRequest(to, log)
    BY DEF LoggedRequest
  <2> HIDE DEF x, log
  <2>2. IsRequest(x, to) /\ x.log = log /\ ~x.clears /\ x.queue = None
    BY <2>1, MarkingRequest
  <2> QED BY <2>2 DEF log
<1> HIDE DEF x
<1>7. Writable(to)
    BY <1>1, <1>3, <1>4, <1>5, KindsOfRows DEF Writable
<1>8. NewValue(row, x, t)
  <2>1. \A u \in Trades : row[u] # None /\ row[u].account = a => row[u].value # v
    BY <1>1 DEF Duplicate, Of, Live
  <2>2. x.to = to /\ \A u \in Booking(x) : u = t
    BY <1>5, <1>6, <1>7, RequestSets
  <2> QED BY <1>3, <1>5, <2>1, <2>2 DEF NewValue
<1>9. DOMAIN to \subseteq Accounts \cup Trades /\ DOMAIN to # {} /\ DOMAIN to \cap Accounts = {}
    BY <1>5, KindsOfRows
<1>10. \A u \in DOMAIN to \cap Trades : to[u] # None =>
           /\ row[u] # None => to[u].account = row[u].account
           /\ Bound(to, u)
           /\ (row[u] # None /\ to[u].value = row[u].value) \/ NewValue(row, x, u)
    BY <1>1, <1>3, <1>4, <1>5, <1>8 DEF Bound
<1>11. \A u \in DOMAIN x.log : u \in DOMAIN to \cap Trades /\ to[u] # None /\ x.log[u] = to[u].marks
    BY <1>4, <1>5, <1>6, LoggedMarks
<1>12. \A u \in DOMAIN to \cap Trades : to[u] # None /\ u \notin DOMAIN x.log =>
           to[u].marks = IF row[u] = None THEN NoMarks ELSE row[u].marks
    BY <1>6, LoggedMarks
<1> QED BY <1>2, <1>6, <1>7, <1>9, <1>10, <1>11, <1>12, TradeRequestKeeps

LEMMA EditKeeps ==
    ASSUME BookInv, NEW w \in Sessions, NEW t \in Trades, NEW v \in Values,
           NEW p \in Profiles \cup {None}, NEW flag \in BOOLEAN, Edit(w, t, v, p, flag)
    PROVE  BookInv'
<1> DEFINE r == [Attached(row[t], p) EXCEPT !.value = v, !.marks.flag = flag]
           to == [i \in {t} |-> [Attached(row[i], p) EXCEPT !.value = v, !.marks.flag = flag]]
           x == [Transaction(to) EXCEPT !.log = Logged(to)]
<1>1. row[t] # None /\ Attachable(p) /\ ~Duplicate(row[t].account, v, t)
    BY DEF Edit, EditedTo
<1>2. Requested(w, x)
  <2>1. Begin(w, x)
    BY DEF Edit, Marking
  <2> QED BY <2>1, BeginRequests
<1>3. /\ r \in TradeRows /\ r.account = row[t].account /\ r.value = v /\ r.profile = p
      /\ r.version = VersionOf(p)
  <2>1. row[t] \in TradeRows /\ VersionOf(p) \in (Profiles \X Nat) \cup {None}
    BY <1>1, RowTypes, VersionOfNow DEF BookInv
  <2>2. /\ Attached(row[t], p) \in TradeRows /\ Attached(row[t], p).account = row[t].account
        /\ Attached(row[t], p).profile = p /\ Attached(row[t], p).version = VersionOf(p)
    BY <2>1 DEF Attached, TradeRows
  <2> QED BY <2>2 DEF TradeRows, Marks
<1>4. r # None /\ Versioned(row, r)
    BY <1>1, <1>3, VersionOfNow
<1>5. DOMAIN to = {t} /\ to[t] = r
    OBVIOUS
<1> HIDE DEF r, to
<1>6. IsRequest(x, to) /\ x.log = Logged(to) /\ ~x.clears /\ x.queue = None
  <2> DEFINE log == Logged(to)
  <2>1. x = LoggedRequest(to, log)
    BY DEF LoggedRequest
  <2> HIDE DEF x, log
  <2>2. IsRequest(x, to) /\ x.log = log /\ ~x.clears /\ x.queue = None
    BY <2>1, MarkingRequest
  <2> QED BY <2>2 DEF log
<1> HIDE DEF x
<1>7. Writable(to)
    BY <1>1, <1>3, <1>4, <1>5, KindsOfRows DEF Writable
<1>8. NewValue(row, x, t)
  <2>1. \A u \in Trades \ {t} : row[u] # None /\ row[u].account = row[t].account => row[u].value # v
    BY <1>1 DEF Duplicate, Of, Live
  <2>2. x.to = to /\ \A u \in Booking(x) : u = t
    BY <1>5, <1>6, <1>7, RequestSets
  <2> QED BY <1>3, <1>5, <2>1, <2>2 DEF NewValue
<1>9. DOMAIN to \subseteq Accounts \cup Trades /\ DOMAIN to # {} /\ DOMAIN to \cap Accounts = {}
    BY <1>5, KindsOfRows
<1>10. \A u \in DOMAIN to \cap Trades : to[u] # None =>
           /\ row[u] # None => to[u].account = row[u].account
           /\ Bound(to, u)
           /\ (row[u] # None /\ to[u].value = row[u].value) \/ NewValue(row, x, u)
    BY <1>3, <1>4, <1>5, <1>8 DEF Bound
<1>11. \A u \in DOMAIN x.log : u \in DOMAIN to \cap Trades /\ to[u] # None /\ x.log[u] = to[u].marks
    BY <1>4, <1>5, <1>6, LoggedMarks
<1>12. \A u \in DOMAIN to \cap Trades : to[u] # None /\ u \notin DOMAIN x.log =>
           to[u].marks = IF row[u] = None THEN NoMarks ELSE row[u].marks
    BY <1>6, LoggedMarks
<1> QED BY <1>2, <1>6, <1>7, <1>9, <1>10, <1>11, <1>12, TradeRequestKeeps

\* A request that changes no value and no marks.
LEMMA PlainTradesKeep ==
    ASSUME BookInv, NEW w \in Sessions, NEW to, DOMAIN to \subseteq Trades, DOMAIN to # {},
           Requested(w, Transaction(to)),
           \A t \in DOMAIN to : row[t] # None /\
               (to[t] # None => /\ to[t] \in TradeRows /\ Bound(to, t)
                                /\ to[t].account = row[t].account /\ to[t].value = row[t].value
                                /\ to[t].marks = row[t].marks)
    PROVE  BookInv'
<1> DEFINE x == Transaction(to)
<1>1. IsRequest(x, to) /\ x.log = <<>> /\ ~x.clears /\ x.queue = None
    BY PlainRequest
<1>2. Requested(w, x)
    OBVIOUS
<1> HIDE DEF x
<1>4. DOMAIN x.log = {}
    BY <1>1
<1>5. \A t \in DOMAIN to : t \in Trades /\ t \in Ids /\ t \notin Accounts /\ RowsOf(t) = TradeRows
    BY KindsOfRows
<1>6. Writable(to)
    BY <1>5 DEF Writable
<1>7. DOMAIN to \cap Accounts = {} /\ DOMAIN to \subseteq Accounts \cup Trades
    BY <1>5
<1> QED BY <1>1, <1>2, <1>4, <1>6, <1>7, TradeRequestKeeps

LEMMA SetStrategyKeeps ==
    ASSUME BookInv, NEW w \in Sessions, NEW a \in Accounts, NEW S \in SUBSET Trades,
           NEW p \in Profiles \cup {None}, SetStrategy(w, a, S, p)
    PROVE  BookInv'
<1> DEFINE to == [i \in S |-> Attached(row[i], p)]
<1>1. S \subseteq Of(a) /\ S # {} /\ Attachable(p) /\ Begin(w, Transaction(to))
    BY DEF SetStrategy
<1>2. Requested(w, Transaction(to))
    BY <1>1, BeginRequests
<1>3. DOMAIN to = S /\ \A t \in S : to[t] = Attached(row[t], p)
    OBVIOUS
<1> HIDE DEF to
<1>4. ASSUME NEW t \in S
      PROVE  /\ row[t] # None
             /\ to[t] \in TradeRows /\ Versioned(row, to[t])
             /\ to[t].account = row[t].account /\ to[t].value = row[t].value
             /\ to[t].marks = row[t].marks
  <2>1. row[t] # None /\ row[t] \in TradeRows
    BY <1>1, RowTypes DEF Of, Live, BookInv
  <2>2. VersionOf(p) \in (Profiles \X Nat) \cup {None}
    BY <1>1, VersionOfNow
  <2>3. /\ to[t] \in TradeRows /\ to[t].profile = p /\ to[t].version = VersionOf(p)
        /\ to[t].account = row[t].account /\ to[t].value = row[t].value
        /\ to[t].marks = row[t].marks
    <3>1. to[t] = [row[t] EXCEPT !.profile = p, !.version = VersionOf(p)]
      BY <1>3 DEF Attached
    <3>2. [row[t] EXCEPT !.profile = p, !.version = VersionOf(p)] \in TradeRows
      BY <2>1, <2>2 DEF TradeRows
    <3> QED BY <2>1, <3>1, <3>2 DEF TradeRows
  <2>4. Versioned(row, to[t])
    BY <1>1, <2>3, VersionOfNow
  <2> QED BY <2>1, <2>3, <2>4
<1> QED BY <1>1, <1>2, <1>3, <1>4, PlainTradesKeep DEF Bound

LEMMA DeleteTradesKeeps ==
    ASSUME BookInv, NEW w \in Sessions, NEW S, DeleteTrades(w, S)
    PROVE  BookInv'
<1> DEFINE to == [i \in S |-> None]
<1>1. S \subseteq Live(Trades) /\ S # {} /\ Begin(w, Transaction(to))
    BY DEF DeleteTrades
<1>2. Requested(w, Transaction(to))
    BY <1>1, BeginRequests
<1>3. DOMAIN to = S /\ \A t \in S : to[t] = None
    OBVIOUS
<1> HIDE DEF to
<1>4. \A t \in S : t \in Trades /\ row[t] # None
    BY <1>1 DEF Live
<1> QED BY <1>1, <1>2, <1>3, <1>4, PlainTradesKeep

LEMMA TradingKeeps == ASSUME BookInv, NEW w \in Sessions, Trading(w) PROVE BookInv'
<1>1. CASE \E a \in Accounts, p \in Profiles \cup {None}, t \in Trades, v \in Values, flag \in BOOLEAN :
             Enter(w, t, a, v, p, flag) \/ Edit(w, t, v, p, flag)
    BY <1>1, EnterKeeps, EditKeeps
<1>2. CASE \E a \in Accounts, p \in Profiles \cup {None}, S \in SUBSET Trades : SetStrategy(w, a, S, p)
    BY <1>2, SetStrategyKeeps
<1>3. CASE \E S : DeleteTrades(w, S)
    BY <1>3, DeleteTradesKeeps
<1> QED BY <1>1, <1>2, <1>3 DEF Trading, DeleteBatch

-----------------------------------------------------------------------------
(* Uploads and the review of split fills *)

\* The transaction of an upload, which goes on after its commit.
QueuedRequest(to, a) == [Transaction(to) EXCEPT !.queue = a]

LEMMA UploadRequest ==
    ASSUME NEW to, NEW a \in Accounts, NEW x, x = QueuedRequest(to, a)
    PROVE  IsRequest(x, to) /\ x.log = <<>> /\ x.queue = a /\ ~x.clears
<1> DEFINE now == [i \in DOMAIN to |-> row[i]]
<1>1. Transaction(to) = [seen |-> now, to |-> to, log |-> <<>>, clears |-> FALSE,
                         early |-> FALSE, late |-> FALSE, queue |-> None]
    BY DEF Transaction
<1> HIDE DEF now
<1>2. x = [seen |-> now, to |-> to, log |-> <<>>, clears |-> FALSE,
           early |-> FALSE, late |-> FALSE, queue |-> a]
  <2> SUFFICES ASSUME x = [[seen |-> now, to |-> to, log |-> <<>>, clears |-> FALSE, early |-> FALSE,
                            late |-> FALSE, queue |-> None] EXCEPT !.queue = a]
               PROVE  x = [seen |-> now, to |-> to, log |-> <<>>, clears |-> FALSE,
                           early |-> FALSE, late |-> FALSE, queue |-> a]
    BY <1>1 DEF QueuedRequest
  <2> QED OBVIOUS
<1>3. x.log = <<>> /\ x.clears = FALSE /\ x.early = FALSE /\ x.queue = a
    BY <1>2
<1>4. x = [seen |-> now, to |-> to, log |-> x.log, clears |-> x.clears,
           early |-> x.early, late |-> FALSE, queue |-> x.queue]
    BY <1>2, <1>3
<1> QED BY <1>3, <1>4 DEF IsRequest, now

\* A row of a report keeps the values it came with as its key.
Reported(n, k, b) == [n EXCEPT !.key = k, !.batch = b, !.cost = TRUE]

LEMMA ReportRows ==
    ASSUME NEW n \in TradeRows, NEW k \in Values, NEW b \in Nat, NEW r, r = Reported(n, k, b)
    PROVE  /\ r \in TradeRows /\ r.account = n.account /\ r.value = n.value /\ r.marks = n.marks
           /\ r.profile = n.profile /\ r.version = n.version
<1>1. [n EXCEPT !.key = k, !.batch = b, !.cost = TRUE] \in TradeRows
    BY DEF TradeRows
<1> QED BY <1>1 DEF TradeRows, Reported

LEMMA UploadedTrades ==
    ASSUME BookInv, NEW a \in Accounts, NEW v \in Values, NEW p \in Profiles \cup {None},
           Attachable(p), NEW b \in Nat, NEW r, r = Reported(NewTrade(a, v, p), v, b)
    PROVE  /\ r \in TradeRows /\ r # None /\ r.account = a /\ r.value = v /\ r.marks = NoMarks
           /\ Versioned(row, r)
<1> DEFINE n == NewTrade(a, v, p)
<1>1. /\ n \in TradeRows /\ n.account = a /\ n.value = v /\ n.profile = p
      /\ n.version = VersionOf(p) /\ n.marks = NoMarks
    BY NewTrades
<1>2. r = Reported(n, v, b)
    OBVIOUS
<1> HIDE DEF n
<1>3. /\ r \in TradeRows /\ r.account = n.account /\ r.value = n.value
      /\ r.marks = n.marks /\ r.profile = n.profile /\ r.version = n.version
    BY <1>1, <1>2, ReportRows
<1> QED BY <1>1, <1>3, VersionOfNow

LEMMA UploadKeeps ==
    ASSUME BookInv, NEW w \in Sessions, NEW a \in Accounts, NEW S \in SUBSET Values,
           NEW X \in SUBSET Trades, NEW T \in [X -> Values], Upload(w, a, S, T)
    PROVE  BookInv'
<1> DEFINE new == S \ Known(a)
           costs == {t \in Of(a) : row[t].value \in S /\ ~row[t].cost}
           p == IF Attachable(row[a].profile) THEN row[a].profile ELSE None
           Fresher(i) == [NewTrade(a, T[i], p) EXCEPT !.key = T[i], !.batch = moves + 1, !.cost = TRUE]
           to == [i \in costs \cup DOMAIN T |->
                    IF i \in costs THEN [row[i] EXCEPT !.cost = TRUE]
                    ELSE [NewTrade(a, T[i], IF Attachable(row[a].profile) THEN row[a].profile ELSE None)
                            EXCEPT !.key = T[i], !.batch = moves + 1, !.cost = TRUE]]
           x == QueuedRequest(to, a)
<1>1. /\ row[a] # None /\ (new # {} \/ costs # {})
      /\ \A t \in DOMAIN T : Fresh(t)
      /\ IsInjective(T) /\ Range(T) = new
      /\ Begin(w, x)
    BY DEF Upload, QueuedRequest
<1>2. Requested(w, x)
    BY <1>1, BeginRequests
<1>3. DOMAIN to = costs \cup X
    OBVIOUS
<1>4. \A t \in costs : to[t] = [row[t] EXCEPT !.cost = TRUE]
    OBVIOUS
<1>5. \A t \in X : t \notin costs => to[t] = Fresher(t)
    OBVIOUS
<1>6. \A t \in costs : t \in Trades /\ row[t] # None /\ row[t].account = a
    BY DEF Of, Live
<1>7. \A u \in Trades : row[u] # None /\ row[u].account = a => row[u].value \in Known(a)
    BY DEF Known, Of, Live
<1>8. DOMAIN to # {}
    BY <1>1 DEF Range
<1>9. p \in Profiles \cup {None} /\ Attachable(p)
  <2>1. row[a] \in AccountRows
    BY <1>1, LiveAccounts
  <2>2. row[a].profile \in Profiles \cup {None} /\ Attachable(None)
    BY <2>1 DEF AccountRows, Attachable
  <2> QED BY <2>2
<1>10. moves + 1 \in Nat
    BY DEF BookInv, OthersOK
<1>11. \A t \in X : T[t] \in Values /\ T[t] \notin Known(a) /\ Fresh(t) /\ row[t] = None
    BY <1>1 DEF Range, Fresh
<1>12. \A t \in X, u \in X : T[t] = T[u] => t = u
    BY <1>1 DEF IsInjective
<1>13. \A t \in X : t \notin costs
    BY <1>6, <1>11
<1> HIDE DEF p
<1>14. ASSUME NEW t \in X
       PROVE  /\ to[t] \in TradeRows /\ to[t] # None /\ to[t].account = a /\ to[t].value = T[t]
              /\ to[t].marks = NoMarks /\ Versioned(row, to[t])
  <2> DEFINE b == moves + 1
           r == to[t]
  <2>1. b \in Nat /\ T[t] \in Values /\ r = Reported(NewTrade(a, T[t], p), T[t], b)
    BY <1>5, <1>10, <1>11, <1>13 DEF Reported
  <2> HIDE DEF b, r
  <2>2. /\ r \in TradeRows /\ r # None /\ r.account = a /\ r.value = T[t]
        /\ r.marks = NoMarks /\ Versioned(row, r)
    BY <1>9, <2>1, UploadedTrades
  <2> QED BY <2>2 DEF r
<1> HIDE DEF to
<1>15. ASSUME NEW t \in costs
       PROVE  /\ to[t] \in TradeRows /\ to[t] # None /\ row[t] # None
              /\ to[t].account = row[t].account /\ to[t].value = row[t].value
              /\ to[t].marks = row[t].marks /\ to[t].profile = row[t].profile
              /\ to[t].version = row[t].version
  <2>1. row[t] \in TradeRows
    BY <1>6, RowTypes DEF BookInv
  <2>2. [row[t] EXCEPT !.cost = TRUE] \in TradeRows
    BY <2>1 DEF TradeRows
  <2> QED BY <1>4, <1>6, <2>1, <2>2 DEF TradeRows
<1> HIDE DEF costs, new
<1>16. IsRequest(x, to) /\ x.log = <<>> /\ x.queue = a /\ ~x.clears
    BY UploadRequest
<1> HIDE DEF x
<1>17. \A t \in DOMAIN to : t \in Trades /\ t \in Ids /\ t \notin Accounts /\ RowsOf(t) = TradeRows
    BY <1>3, <1>6, KindsOfRows
<1>18. Writable(to)
    BY <1>3, <1>11, <1>14, <1>15, <1>17 DEF Writable
<1>19. ASSUME NEW t \in X PROVE NewValue(row, x, t)
  <2>1. x.to = to /\ \A u \in Booking(x) : u \in DOMAIN to
    BY <1>16, <1>18, RequestSets
  <2>2. \A u \in Trades \ {t} : row[u] # None /\ row[u].account = a => row[u].value # T[t]
    BY <1>7, <1>11
  <2>3. ASSUME NEW u \in DOMAIN to, u # t PROVE to[u].value # T[t]
    <3>1. CASE u \in costs
      BY <1>6, <1>7, <1>11, <1>15, <3>1
    <3>2. CASE u \in X
      BY <1>12, <1>14, <2>3, <3>2
    <3> QED BY <1>3, <3>1, <3>2
  <2> QED BY <1>14, <2>1, <2>2, <2>3 DEF NewValue
<1>20. \A t \in DOMAIN to \cap Trades : to[t] # None =>
           /\ row[t] # None => to[t].account = row[t].account
           /\ Bound(to, t)
           /\ (row[t] # None /\ to[t].value = row[t].value) \/ NewValue(row, x, t)
    BY <1>3, <1>11, <1>14, <1>15, <1>19 DEF Bound
<1>21. \A t \in DOMAIN to \cap Trades : to[t].marks = IF row[t] = None THEN NoMarks ELSE row[t].marks
    BY <1>3, <1>11, <1>14, <1>15
<1>22. DOMAIN x.log = {}
    BY <1>16
<1>23. DOMAIN to \cap Accounts = {} /\ DOMAIN to \subseteq Accounts \cup Trades
    BY <1>17
<1> QED BY <1>2, <1>8, <1>16, <1>18, <1>20, <1>21, <1>22, <1>23, TradeRequestKeeps

LEMMA QueueReviewKeeps == ASSUME BookInv, NEW w \in Sessions, QueueReview(w) PROVE BookInv'
<1> DEFINE a == web[w].queue
           to == [i \in {a} |-> [row[i] EXCEPT !.asked = moves]]
           r == [row[a] EXCEPT !.asked = moves]
<1>1. web[w] # None /\ web[w].to = <<>> /\ UNCHANGED <<row, last, raced, moves>>
    BY DEF QueueReview
<1>2. CASE row[a] # None /\ Candidates(a) # {}
  <2>1. web' = [web EXCEPT ![w] = Transaction(to)]
    BY <1>2 DEF QueueReview
  <2>2. moves \in 0 .. MaxMoves /\ moves \in Nat
    BY DEF BookInv, OthersOK
  <2>3. a \in Accounts
    <3>1. TxType(web[w]) /\ TxQueue(web[w])
      BY <1>1 DEF BookInv, TransactionsOK, TxOK
    <3>2. DOMAIN web[w].to = {}
      BY <1>1
    <3> QED BY <3>1, <3>2 DEF TxType, TxQueue
  <2>4. Requested(w, Transaction(to))
    BY <1>1, <2>1, <2>2 DEF Requested
  <2>5. r \in AccountRows /\ r.default = row[a].default
    BY <1>2, <2>2, <2>3, LiveAccounts
  <2>6. to = [i \in {a} |-> r]
    OBVIOUS
  <2> HIDE DEF to, r, a
  <2> QED BY <1>2, <2>3, <2>4, <2>5, <2>6, AccountChangeKeeps DEF a
<1>3. CASE ~(row[a] # None /\ Candidates(a) # {})
  <2>1. Rollback(w)
    BY <1>1, <1>3 DEF QueueReview, Rollback
  <2> QED BY <2>1, RollbackKeeps
<1> QED BY <1>2, <1>3

LEMMA DoneKeeps ==
    ASSUME BookInv, NEW w \in Sessions, NEW a \in Accounts, OpenReview(w, a) \/ CompleteReview(w, a)
    PROVE  BookInv'
<1> DEFINE to == [i \in {a} |-> [row[i] EXCEPT !.done = moves + 1]]
           r == [row[a] EXCEPT !.done = moves + 1]
<1>1. row[a] # None /\ Begin(w, Transaction(to))
    BY DEF OpenReview, CompleteReview
<1>2. Requested(w, Transaction(to))
    BY <1>1, BeginRequests
<1>3. moves + 1 \in Nat
    BY DEF BookInv, OthersOK
<1>4. r \in AccountRows /\ r.default = row[a].default
    BY <1>1, <1>3, LiveAccounts
<1>5. to = [i \in {a} |-> r]
    OBVIOUS
<1> HIDE DEF to, r
<1> QED BY <1>1, <1>2, <1>4, <1>5, AccountChangeKeeps

\* A trade or an account that is stamped with a move.
BundledRow(r, b) == [r EXCEPT !.marks.bundle = b]
DoneRow(r, b) == [r EXCEPT !.done = b]

LEMMA BundledRows ==
    ASSUME NEW r \in TradeRows, NEW b \in Nat, NEW n, n = BundledRow(r, b)
    PROVE  /\ n \in TradeRows /\ n # None /\ n.account = r.account /\ n.value = r.value
           /\ n.profile = r.profile /\ n.version = r.version
<1>1. BundledRow(r, b) \in TradeRows
    BY DEF TradeRows, Marks, BundledRow
<1> QED BY <1>1 DEF TradeRows, BundledRow

LEMMA DoneRows ==
    ASSUME NEW r \in AccountRows, NEW b \in Nat, NEW n, n = DoneRow(r, b)
    PROVE  n \in AccountRows /\ n # None /\ n.default = r.default
<1>1. DoneRow(r, b) \in AccountRows
    BY DEF AccountRows, DoneRow
<1> QED BY <1>1 DEF AccountRows, DoneRow

LEMMA ConfirmBundleKeeps ==
    ASSUME BookInv, NEW w \in Sessions, NEW a \in Accounts, NEW S \in SUBSET Trades,
           ConfirmBundle(w, a, S)
    PROVE  BookInv'
<1> DEFINE free == {t \in S : row[t].marks.bundle = 0}
           b == moves + 1
           to == [i \in free \cup {a} |-> IF i = a THEN [row[a] EXCEPT !.done = moves + 1]
                                         ELSE [row[i] EXCEPT !.marks.bundle = moves + 1]]
           own == [t \in free |-> [row[t] EXCEPT !.marks.bundle = moves + 1]]
           log == Logged(own)
           x == LoggedRequest(to, log)
<1>1. row[a] # None /\ S \subseteq Of(a) /\ Begin(w, x)
    BY DEF ConfirmBundle, LoggedRequest
<1>2. Requested(w, x)
    BY <1>1, BeginRequests
<1>3. b \in Nat
    BY DEF BookInv, OthersOK
<1>4. \A t \in free : t \in Trades /\ t \notin Accounts /\ t # a /\ row[t] # None
    BY <1>1, KindsOfRows DEF Of, Live
<1>5. DOMAIN to = free \cup {a} /\ to[a] = DoneRow(row[a], b)
    BY DEF DoneRow
<1>6. \A t \in free : to[t] = BundledRow(row[t], b)
    BY <1>4 DEF BundledRow
<1>7. DOMAIN own = free /\ \A t \in free : own[t] = to[t]
    BY <1>4
<1>8. /\ \A t \in DOMAIN log : t \in free /\ log[t] = to[t].marks
      /\ \A t \in free : t \notin DOMAIN log =>
            to[t].marks = IF row[t] = None THEN NoMarks ELSE row[t].marks
  <2> HIDE DEF own, to
  <2> QED BY <1>7, LoggedMarks
<1> HIDE DEF b, own, to, free
<1>9. IsRequest(x, to) /\ x.log = log /\ x.queue = None /\ ~x.clears
  <2> HIDE DEF log
  <2> QED BY MarkingRequest
<1> HIDE DEF log, x
<1>10. ASSUME NEW t \in free
       PROVE  /\ to[t] \in TradeRows /\ to[t] # None /\ to[t].account = row[t].account
              /\ to[t].value = row[t].value
              /\ to[t].profile = row[t].profile /\ to[t].version = row[t].version
  <2>1. row[t] \in TradeRows
    BY <1>4, RowTypes DEF BookInv
  <2> QED BY <1>3, <1>6, <2>1, BundledRows
<1>11. to[a] \in AccountRows /\ to[a] # None /\ to[a].default = row[a].default
  <2>1. row[a] \in AccountRows
    BY <1>1, LiveAccounts
  <2> QED BY <1>3, <1>5, <2>1, DoneRows
<1>12. /\ a \in Ids /\ RowsOf(a) = AccountRows
       /\ \A t \in free : t \in Ids /\ RowsOf(t) = TradeRows
    BY <1>4, KindsOfRows
<1>13. Writable(to)
    BY <1>1, <1>4, <1>5, <1>10, <1>11, <1>12 DEF Writable
<1>14. \A i \in DOMAIN to \cap Trades : i \in free
    BY <1>5, KindsOfRows
<1>15. \A i \in DOMAIN to \cap Accounts : i = a
    BY <1>4, <1>5
<1>16. \A c \in DOMAIN to \cap Accounts :
           row[c] # None /\ to[c] # None /\ to[c].default = row[c].default
    BY <1>1, <1>11, <1>15
<1>17. \A t \in DOMAIN to \cap Trades : to[t] # None =>
           /\ row[t] # None => to[t].account = row[t].account
           /\ Bound(to, t)
           /\ (row[t] # None /\ to[t].value = row[t].value) \/ NewValue(row, x, t)
    BY <1>4, <1>10, <1>14 DEF Bound
<1>18. \A t \in DOMAIN x.log : t \in DOMAIN to \cap Trades /\ to[t] # None
                               /\ x.log[t] = to[t].marks
    BY <1>4, <1>5, <1>8, <1>9, <1>10
<1>19. \A t \in DOMAIN to \cap Trades : to[t] # None /\ t \notin DOMAIN x.log =>
           to[t].marks = IF row[t] = None THEN NoMarks ELSE row[t].marks
    BY <1>8, <1>9, <1>14
<1>20. DOMAIN to \subseteq Accounts \cup Trades /\ DOMAIN to # {}
    BY <1>4, <1>5
<1> QED BY <1>2, <1>9, <1>13, <1>16, <1>17, <1>18, <1>19, <1>20, TradeRequestKeeps

LEMMA ReportingKeeps == ASSUME BookInv, NEW w \in Sessions, Reporting(w) PROVE BookInv'
<1>1. CASE \E a \in Accounts, S \in SUBSET Values, T \in UNION {[X -> Values] : X \in SUBSET Trades} :
             Upload(w, a, S, T)
  <2>1. PICK a \in Accounts, S \in SUBSET Values,
             T \in UNION {[X -> Values] : X \in SUBSET Trades} : Upload(w, a, S, T)
    BY <1>1
  <2>2. PICK X \in SUBSET Trades : T \in [X -> Values]
    OBVIOUS
  <2> QED BY <2>1, <2>2, UploadKeeps
<1>2. CASE QueueReview(w)
    BY <1>2, QueueReviewKeeps
<1> QED BY <1>1, <1>2 DEF Reporting

LEMMA ReviewingKeeps == ASSUME BookInv, NEW w \in Sessions, Reviewing(w) PROVE BookInv'
<1>1. PICK a \in Accounts : \/ OpenReview(w, a) \/ CompleteReview(w, a)
                            \/ \E S \in SUBSET Trades : ConfirmBundle(w, a, S)
    BY DEF Reviewing
<1> QED BY <1>1, DoneKeeps, ConfirmBundleKeeps

-----------------------------------------------------------------------------
(* The specification *)

LEMMA BookInitially == ASSUME Init PROVE BookInv
<1>1. PICK default \in BOOLEAN :
          row = [i \in Ids |-> IF i = 1 THEN NewAccount(default, None) ELSE None]
    BY DEF Init
<1> DEFINE r == NewAccount(default, None)
<1>2. r \in AccountRows /\ r # None
    BY NewAccounts
<1>3. \A i \in Ids : row[i] # None => i = 1 /\ row[i] = r
    BY <1>1
<1> HIDE DEF r
<1>4. 1 \in Accounts
    BY DEF Accounts
<1>5. \A t \in Trades \cup Profiles : row[t] = None
    BY <1>3, <1>4, KindsOfRows
<1>6. \A i \in Ids : row[i] # None => row[i] \in RowsOf(i)
    BY <1>2, <1>3, <1>4, KindsOfRows
<1>7. TableOK(row)
    BY <1>5, <1>6 DEF TableOK
<1>8. last = [t \in Trades |-> NoMarks] /\ web = [w \in Sessions |-> None] /\ raced = {} /\ moves = 0
    BY DEF Init
<1>9. OthersOK
  <2>1. NoMarks \in Marks
    BY DEF NoMarks, Marks
  <2>2. last \in [Trades -> Marks]
    BY <1>8, <2>1
  <2>3. 0 \in 0 .. MaxMoves
    OBVIOUS
  <2> QED BY <1>8, <2>2, <2>3 DEF OthersOK
<1>10. Exclusive /\ TransactionsOK
    BY <1>8 DEF Exclusive, TransactionsOK
<1>11. NothingTwice /\ TradeIsCoherent
    BY <1>5 DEF NothingTwice, TradeIsCoherent, Live
<1> QED BY <1>7, <1>9, <1>10, <1>11 DEF BookInv

LEMMA StillKeeps == ASSUME BookInv, UNCHANGED vars PROVE BookInv'
<1>1. row' = row /\ last' = last /\ web' = web /\ raced' = raced /\ moves' = moves
    BY DEF vars
<1>2. TransactionsOK'
  <2> SUFFICES ASSUME NEW w \in Sessions, web'[w] # None PROVE TxOK(row', raced', web'[w])
    BY DEF TransactionsOK
  <2> QED BY <1>1 DEF BookInv, TransactionsOK
<1>3. OthersOK' /\ Exclusive'
    BY <1>1 DEF BookInv, OthersOK, Exclusive
<1> QED BY <1>1, <1>2, <1>3, RowsUntouched DEF BookInv

LEMMA BookStep == ASSUME BookInv, [Next]_vars PROVE BookInv'
<1>1. CASE Next
  <2>1. PICK w \in Sessions : \/ Accounting(w) \/ Strategy(w) \/ Trading(w) \/ Reporting(w)
                             \/ Reviewing(w) \/ Commit(w) \/ Rollback(w)
    BY <1>1 DEF Next
  <2> QED BY <2>1, AccountingKeeps, StrategyKeeps, TradingKeeps, ReportingKeeps, ReviewingKeeps,
             CommitKeeps, RollbackKeeps
<1>2. CASE UNCHANGED vars
    BY <1>2, StillKeeps
<1> QED BY <1>1, <1>2

LEMMA BookAlways == Spec => []BookInv
BY BookInitially, BookStep, PTL DEF Spec

LEMMA BookTypes == ASSUME BookInv PROVE TypeOK
<1>1. /\ \A i \in Ids : row[i] # None => row[i] \in RowsOf(i)
      /\ \A p \in Profiles : row[p] # None => row[p].current >= 1
    BY DEF BookInv, TableOK
<1>2. /\ \A a \in Live(Accounts) : row[a] \in AccountRows
      /\ \A t \in Live(Trades) : row[t] \in TradeRows
      /\ \A p \in Live(Profiles) : row[p] \in ProfileRows /\ row[p].current >= 1
    BY <1>1, KindsOfRows DEF Live
<1>3. ASSUME NEW w \in Sessions, web[w] # None
      PROVE  /\ DOMAIN web[w].seen = DOMAIN web[w].to /\ DOMAIN web[w].to \subseteq Ids
             /\ DOMAIN web[w].log \subseteq DOMAIN web[w].to
    BY <1>3 DEF BookInv, TransactionsOK, TxOK, TxType, TxMarks
<1>4. last \in [Trades -> Marks] /\ raced \subseteq Ids /\ moves \in 0 .. MaxMoves
    BY DEF BookInv, OthersOK
<1> QED BY <1>2, <1>3, <1>4 DEF TypeOK

\* Every row has its columns, and every request in progress writes rows that have
\* theirs: what the models of SQLAlchemy declare.
THEOREM BookTypeCorrect == Spec => []TypeOK
BY BookAlways, BookTypes, PTL

\* However entering, editing and uploading interleave, an account holds no trade
\* twice unless two requests overlapped in it: the checks for duplicates of
\* create_trade, edit_trade and the upload are enough between requests.
THEOREM NoTradeTwice == Spec => []NothingTwice
<1>1. BookInv => NothingTwice
    BY DEF BookInv
<1> QED BY <1>1, BookAlways, PTL

\* A trade's strategy, version and history agree, unless a request wrote it that had
\* not seen its last change: attaching, editing, uploading and bundling set them together.
THEOREM TradesAreCoherent == Spec => []TradeIsCoherent
<1>1. BookInv => TradeIsCoherent
    BY DEF BookInv
<1> QED BY <1>1, BookAlways, PTL

LEMMA OnlyCommitWrites ==
    ASSUME NEW w, \/ Accounting(w) \/ Strategy(w) \/ Trading(w) \/ Reporting(w)
                  \/ Reviewing(w) \/ Rollback(w)
    PROVE  row' = row
<1>1. \A x : Begin(w, x) => row' = row
    BY DEF Begin
<1>2. CASE Accounting(w)
    BY <1>1, <1>2 DEF Accounting, Visit, DeleteAll, SetDefault, DeleteAccount, SetProfile, CreateAccount
<1>3. CASE Strategy(w)
    BY <1>1, <1>3 DEF Strategy, CreateProfile, UpdateProfile, ArchiveProfile
<1>4. CASE Trading(w)
    BY <1>1, <1>4, ZenonT(40) DEF Trading, Enter, Edit, SetStrategy, DeleteTrades, DeleteBatch
<1>5. CASE Reporting(w)
    BY <1>1, <1>5 DEF Reporting, Upload, QueueReview
<1>6. CASE Reviewing(w)
    BY <1>1, <1>6 DEF Reviewing, OpenReview, CompleteReview, ConfirmBundle
<1>7. CASE Rollback(w)
    BY <1>7 DEF Rollback
<1> QED BY <1>2, <1>3, <1>4, <1>5, <1>6, <1>7

LEMMA DefaultStaysByStep ==
    ASSUME BookInv, [Next]_vars
    PROVE  [Default # {} /\ Default' = {} =>
                \E w \in Sessions : /\ web[w] # None /\ web'[w] = None
                                    /\ web[w].clears \/ web[w].late]_vars
<1> SUFFICES ASSUME Next, Default # {}, Default' = {}
             PROVE  \E w \in Sessions : /\ web[w] # None /\ web'[w] = None
                                        /\ web[w].clears \/ web[w].late
    OBVIOUS
<1>1. row' # row
    BY DEF Default, Live
<1>2. PICK w \in Sessions : Commit(w)
    BY <1>1, OnlyCommitWrites DEF Next
<1>3. TableOK(row) /\ TxOK(row, raced, web[w])
    BY <1>2 DEF BookInv, TransactionsOK, Commit
<1> QED BY <1>2, <1>3, CommitKeepsDefault

\* Creating, deleting and replacing accounts hand the default on: a user loses it only
\* to a request that sets the default once more, or that overlapped another.
THEOREM DefaultStays == Spec => DefaultKept
<1>1. BookInv /\ [Next]_vars =>
          [Default # {} /\ Default' = {} =>
              \E w \in Sessions : /\ web[w] # None /\ web'[w] = None
                                  /\ web[w].clears \/ web[w].late]_vars
    BY DefaultStaysByStep
<1> QED BY <1>1, BookAlways, PTL DEF Spec, DefaultKept
=============================================================================
