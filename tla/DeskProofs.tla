----------------------------- MODULE DeskProofs -----------------------------
(***************************************************************************)
(* What a member does with the account, and with the replay bars, for any  *)
(* members, addresses, requests and bounds.  Of the accounts: the uses of  *)
(* a sign-up code are members, a reset link works once, an address changes *)
(* by both links.  Of the replay bars: a batch stays small.                        *)
(***************************************************************************)
EXTENDS Members, Bars, FiniteSetTheorems, TLAPS

-----------------------------------------------------------------------------
(* The accounts of members *)

USE MembersAssumption

-----------------------------------------------------------------------------
(* Types, and what every transaction is *)

CurrentLink(u, r) == [kind |-> "current", user |-> u, from |-> r.email, to |-> r.pending]
NewLink(u, r) == [kind |-> "new", user |-> u, from |-> r.email, to |-> r.pending]

\* A transaction on a member leaves address and stamps alone but for the link it
\* opens, or it clears the stamps; it changes the address with both stamps only.
Stamped(t) ==
    LET r == t.from
        current == r.currentOk \/ CurrentLink(t.user, r) \in t.opens
        new == r.newOk \/ NewLink(t.user, r) \in t.opens
    IN  \/ /\ ~t.restart /\ t.to.email = r.email /\ t.to.pending = r.pending
           /\ t.to.currentOk => current
           /\ t.to.newOk => new
        \/ /\ ~t.to.currentOk /\ ~t.to.newOk
           /\ \/ t.to.email = r.email
              \/ ~t.restart /\ t.to.email = r.pending /\ current /\ new

\* An insert makes a row without nonce and stamps.
Fresh(t) == t.to # None /\ t.to.nonce = 0 /\ ~t.to.currentOk /\ ~t.to.newOk /\ t.spends = 0
Sound(t) == IF t.from = None THEN Fresh(t) ELSE t.to # None => Stamped(t)

\* What a transaction does to the nonce of its row.
Update(t) == t.from # None /\ t.to # None
Keeps(t) == t.spends = 0 /\ (Update(t) => t.to.nonce = t.from.nonce)
Issues(t, n) == t.spends = 0 /\ Update(t) /\ t.to.nonce = n
Uses(t) == Update(t) /\ t.spends = t.from.nonce /\ t.to.nonce = 0

\* Request w begins transaction t.
Starts(w, t) ==
    /\ t \in Transactions /\ Sound(t) /\ t.from = user[t.user]
    /\ web[w] = Idle /\ web' = [web EXCEPT ![w] = t]
    /\ UNCHANGED <<user, old, uses, active, mail, opened, resets, joined, doubled, blind>>
    /\ moves' \in Nat
    /\ \/ nonces' = nonces /\ (Keeps(t) \/ Uses(t))
       \/ nonces' = nonces + 1 /\ Issues(t, nonces')

SoundWeb == \A w \in Sessions : web[w] # Idle => Sound(web[w])

LEMMA NoRow == ASSUME NEW r \in Rows PROVE r # None
    BY RowAssumption

LEMMA TransactionType ==
    ASSUME NEW u \in Users, NEW from \in Rows \cup {None}, NEW to \in Rows \cup {None}
    PROVE  Transaction(u, from, to) \in Transactions
    BY DEF Transaction, Transactions

LEMMA NewRowType ==
    ASSUME NEW e \in Emails, NEW verified \in BOOLEAN, NEW s \in Subs \cup {None}, NEW coded \in BOOLEAN
    PROVE  /\ NewRow(e, verified, s, coded) \in Rows
           /\ NewRow(e, verified, s, coded).nonce = 0
           /\ ~NewRow(e, verified, s, coded).currentOk /\ ~NewRow(e, verified, s, coded).newOk
    BY DEF NewRow, Rows, Statuses

LEMMA InitTypes == Init => TypeOK /\ SoundWeb
<1> SUFFICES ASSUME Init PROVE TypeOK /\ SoundWeb
    OBVIOUS
<1>1. \E s \in SUBSET Users, e \in Emails :
        user = [u \in Users |-> IF u \in s THEN [NewRow(e, TRUE, None, FALSE) EXCEPT !.status = "approved"]
                                ELSE None]
    BY DEF Init
<1>2. \A e \in Emails : [NewRow(e, TRUE, None, FALSE) EXCEPT !.status = "approved"] \in Rows
    BY DEF NewRow, Rows, Statuses
<1>3. user \in [Users -> Rows \cup {None}]
    BY <1>1, <1>2
<1>4. uses \in Nat /\ joined \in Nat /\ doubled \in Nat
    BY DEF Init
<1>5. web \in [Sessions -> Transactions \cup {Idle}] /\ SoundWeb
    BY DEF Init, SoundWeb
<1> QED BY <1>3, <1>4, <1>5 DEF Init, TypeOK

(* The fields of a transaction *)
LEMMA PlainTransaction ==
    ASSUME NEW u \in Users, NEW from \in Rows \cup {None}, NEW to \in Rows \cup {None},
           NEW t, t = Transaction(u, from, to)
    PROVE  /\ t \in Transactions
           /\ t.user = u /\ t.from = from /\ t.to = to /\ t.opens = {} /\ ~t.restart /\ t.spends = 0
    BY DEF Transaction, Transactions

Same(t, s) == t.user = s.user /\ t.from = s.from /\ t.to = s.to

LEMMA WithCode ==
    ASSUME NEW s \in Transactions, NEW c \in Nat \cup {None}, NEW t, t = [s EXCEPT !.code = c]
    PROVE  /\ t \in Transactions /\ Same(t, s)
           /\ t.opens = s.opens /\ t.restart = s.restart
           /\ t.spends = s.spends
    BY DEF Transactions, Same

LEMMA WithSends ==
    ASSUME NEW s \in Transactions, NEW x \in SUBSET Links, NEW t, t = [s EXCEPT !.sends = x]
    PROVE  /\ t \in Transactions /\ Same(t, s)
           /\ t.opens = s.opens /\ t.restart = s.restart
           /\ t.spends = s.spends
    BY DEF Transactions, Same

LEMMA WithRestart ==
    ASSUME NEW s \in Transactions, NEW t, t = [s EXCEPT !.restart = TRUE]
    PROVE  /\ t \in Transactions /\ Same(t, s)
           /\ t.opens = s.opens /\ t.restart /\ t.spends = s.spends
    BY DEF Transactions, Same

LEMMA WithSendsRestart ==
    ASSUME NEW s \in Transactions, NEW x \in SUBSET Links, NEW t, t = [s EXCEPT !.sends = x, !.restart = TRUE]
    PROVE  /\ t \in Transactions /\ Same(t, s)
           /\ t.opens = s.opens /\ t.restart /\ t.spends = s.spends
    BY DEF Transactions, Same

LEMMA WithOpens ==
    ASSUME NEW s \in Transactions, NEW x \in SUBSET Links, NEW t, t = [s EXCEPT !.opens = x]
    PROVE  /\ t \in Transactions /\ Same(t, s)
           /\ t.opens = x /\ t.restart = s.restart
           /\ t.spends = s.spends
    BY DEF Transactions, Same

LEMMA WithSpends ==
    ASSUME NEW s \in Transactions, NEW n \in Nat, NEW t, t = [s EXCEPT !.spends = n]
    PROVE  /\ t \in Transactions /\ Same(t, s)
           /\ t.opens = s.opens /\ t.restart = s.restart
           /\ t.spends = n
    BY DEF Transactions, Same

\* What Begin leaves alone; the rest of Starts is about the transaction.
LEMMA BeginStarts ==
    ASSUME TypeOK, NEW w \in Sessions, NEW t \in Transactions, Begin(w, t), Sound(t),
           t.from = user[t.user],
           \/ nonces' = nonces /\ (Keeps(t) \/ Uses(t))
           \/ nonces' = nonces + 1 /\ Issues(t, nonces')
    PROVE  Starts(w, t)
<1>1. moves' \in Nat
    BY DEF Begin, TypeOK
<1> QED BY <1>1 DEF Begin, Starts, history

LEMMA InsertStarts ==
    ASSUME TypeOK, NEW w \in Sessions, NEW t \in Transactions, user[t.user] = None, t.from = None,
           NEW e \in Emails, NEW verified \in BOOLEAN, NEW s \in Subs \cup {None}, NEW coded \in BOOLEAN,
           t.to = NewRow(e, verified, s, coded), t.spends = 0,
           Begin(w, t), UNCHANGED nonces
    PROVE  Starts(w, t)
<1>1. t.to \in Rows /\ t.to # None /\ t.to.nonce = 0 /\ ~t.to.currentOk /\ ~t.to.newOk
    BY NewRowType, NoRow
<1>2. Sound(t) /\ Keeps(t)
    BY <1>1 DEF Sound, Fresh, Keeps, Update
<1> QED BY <1>2, BeginStarts

\* An update that leaves address, stamps and nonce alone.
LEMMA UpdateStarts ==
    ASSUME TypeOK, NEW w \in Sessions, NEW t \in Transactions, t.from = user[t.user], t.from # None,
           NEW q \in Rows, t.to = q,
           q.email = t.from.email, q.pending = t.from.pending, q.nonce = t.from.nonce,
           q.currentOk = t.from.currentOk, q.newOk = t.from.newOk,
           t.spends = 0, ~t.restart, Begin(w, t), UNCHANGED nonces
    PROVE  Starts(w, t)
<1>1. Sound(t) /\ Keeps(t)
    BY NoRow DEF Sound, Stamped, Keeps, Update
<1> QED BY <1>1, BeginStarts

LEMMA DeleteStarts ==
    ASSUME TypeOK, NEW u \in Users, user[u] # None, NEW t, t = Transaction(u, user[u], None)
    PROVE  t \in Transactions /\ Sound(t) /\ Keeps(t) /\ t.from = user[t.user]
<1>1. user[u] \in Rows
    BY DEF TypeOK
<1>2. t \in Transactions /\ t.user = u /\ t.from = user[u] /\ t.to = None /\ t.spends = 0
    BY <1>1, PlainTransaction
<1> QED BY <1>2 DEF Sound, Keeps, Update

LEMMA SignUpStarts ==
    ASSUME TypeOK, NEW w \in Sessions, NEW u \in Users, SignUp(w, u)
    PROVE  \E t : Starts(w, t)
<1>1. ASSUME NEW e \in Emails, NEW coded \in BOOLEAN, Register(w, u, e, coded)
      PROVE  \E t : Starts(w, t)
  <2> DEFINE x == {Verification(e)}
             q == NewRow(e, FALSE, None, coded)
             p == Transaction(u, None, q)
             t == [p EXCEPT !.sends = x]
  <2>1. x \in SUBSET Links /\ q \in Rows
    <3>1. q \in Rows
        BY NewRowType
    <3>2. Verification(e) \in Links
        BY DEF Verification, Links
    <3> QED BY <3>1, <3>2
  <2>2. user[u] = None /\ Begin(w, t) /\ UNCHANGED nonces
      BY <1>1 DEF Register
  <2> HIDE DEF x, q
  <2>3. p \in Transactions /\ p.user = u /\ p.from = None /\ p.to = q /\ p.spends = 0
      BY <2>1, PlainTransaction
  <2> HIDE DEF p
  <2>4. t \in Transactions /\ Same(t, p) /\ t.spends = p.spends
      BY <2>1, <2>3, WithSends
  <2> HIDE DEF t
  <2> QED BY <2>2, <2>3, <2>4, InsertStarts DEF Same, q
<1>2. ASSUME NEW e \in Emails, NEW s \in Subs, NEW coded \in BOOLEAN, GoogleRegister(w, u, e, s, coded)
      PROVE  \E t : Starts(w, t)
  <2> DEFINE c == IF coded THEN uses ELSE None
             q == NewRow(e, TRUE, s, coded)
             p == Transaction(u, None, q)
             t == [p EXCEPT !.code = c]
  <2>1. c \in Nat \cup {None} /\ q \in Rows
      BY NewRowType DEF TypeOK
  <2>2. user[u] = None /\ Begin(w, t) /\ UNCHANGED nonces
      BY <1>2 DEF GoogleRegister
  <2> HIDE DEF c, q
  <2>3. p \in Transactions /\ p.user = u /\ p.from = None /\ p.to = q /\ p.spends = 0
      BY <2>1, PlainTransaction
  <2> HIDE DEF p
  <2>4. t \in Transactions /\ Same(t, p) /\ t.spends = p.spends
      BY <2>1, <2>3, WithCode
  <2> HIDE DEF t
  <2> QED BY <2>2, <2>3, <2>4, InsertStarts DEF Same, q
<1>3. ASSUME OpenVerification(w, u)
      PROVE  \E t : Starts(w, t)
  <2> DEFINE c == IF user[u].coded THEN TakenUse ELSE None
             q == [user[u] EXCEPT !.verified = TRUE]
             p == Transaction(u, user[u], q)
             t == [p EXCEPT !.code = c]
  <2>1. c \in Nat \cup {None}
      BY DEF TypeOK, TakenUse
  <2>2. user[u] # None /\ Begin(w, t) /\ UNCHANGED nonces
      BY <1>3 DEF OpenVerification, Verify
  <2>3. user[u] \in Rows
      BY <2>2 DEF TypeOK
  <2>4. /\ q \in Rows /\ q.email = user[u].email /\ q.pending = user[u].pending /\ q.nonce = user[u].nonce
        /\ q.currentOk = user[u].currentOk /\ q.newOk = user[u].newOk
      BY <2>3 DEF Rows
  <2> HIDE DEF c, q
  <2>5. p \in Transactions /\ p.user = u /\ p.from = user[u] /\ p.to = q /\ p.spends = 0 /\ ~p.restart
      BY <2>3, <2>4, PlainTransaction
  <2> HIDE DEF p
  <2>6. t \in Transactions /\ Same(t, p) /\ t.spends = p.spends /\ t.restart = p.restart
      BY <2>1, <2>5, WithCode
  <2> HIDE DEF t
  <2> QED BY <2>2, <2>4, <2>5, <2>6, UpdateStarts DEF Same
<1>4. ASSUME NEW s \in Subs, GoogleLink(w, u, s)
      PROVE  \E t : Starts(w, t)
  <2> DEFINE q == [user[u] EXCEPT !.sub = s, !.verified = TRUE]
             t == Transaction(u, user[u], q)
  <2>2. user[u] # None /\ Begin(w, t) /\ UNCHANGED nonces
      BY <1>4 DEF GoogleLink
  <2>3. user[u] \in Rows
      BY <2>2 DEF TypeOK
  <2>4. /\ q \in Rows /\ q.email = user[u].email /\ q.pending = user[u].pending /\ q.nonce = user[u].nonce
        /\ q.currentOk = user[u].currentOk /\ q.newOk = user[u].newOk
      BY <2>3 DEF Rows
  <2> HIDE DEF q
  <2>5. t \in Transactions /\ t.user = u /\ t.from = user[u] /\ t.to = q /\ t.spends = 0 /\ ~t.restart
      BY <2>3, <2>4, PlainTransaction
  <2> HIDE DEF t
  <2> QED BY <2>2, <2>4, <2>5, UpdateStarts
<1> QED BY <1>1, <1>2, <1>3, <1>4 DEF SignUp

LEMMA AccountStarts ==
    ASSUME TypeOK, NEW w \in Sessions, NEW u \in Users, Account(w, u)
    PROVE  \E t : Starts(w, t)
<1> SUFFICES ASSUME user[u] # None, user[u] \in Rows
             PROVE  \E t : Starts(w, t)
    BY DEF TypeOK, Account, RequestChange, CancelChange, Forgot, DeleteUser, Decide, Purge, Purgeable
<1>1. ASSUME NEW q \in Rows, q.email = user[u].email, q.nonce = user[u].nonce, ~q.currentOk, ~q.newOk,
             NEW t \in Transactions, t.user = u, t.from = user[u], t.to = q, t.restart, t.spends = 0,
             Begin(w, t), UNCHANGED nonces
      PROVE  Starts(w, t)
  <2>1. Sound(t) /\ Keeps(t)
      BY <1>1, NoRow DEF Sound, Stamped, Keeps, Update
  <2> QED BY <1>1, <2>1, BeginStarts
<1>2. ASSUME NEW e \in Emails, RequestChange(w, u, e)
      PROVE  \E t : Starts(w, t)
  <2> DEFINE q == Requested(user[u], e)
             x == ChangeLinks(u, user[u].email, e)
             p == Transaction(u, user[u], q)
             t == [p EXCEPT !.sends = x, !.restart = TRUE]
  <2>1. Begin(w, t) /\ UNCHANGED nonces
      BY <1>2 DEF RequestChange
  <2>2. q \in Rows /\ q.email = user[u].email /\ q.nonce = user[u].nonce /\ ~q.currentOk /\ ~q.newOk
      BY DEF Requested, Rows
  <2>3. x \in SUBSET Links
    <3>1. user[u].email \in Emails
        BY DEF Rows
    <3> QED BY <3>1 DEF ChangeLinks, Links
  <2> HIDE DEF q, x
  <2>4. p \in Transactions /\ p.user = u /\ p.from = user[u] /\ p.to = q /\ p.spends = 0
      BY <2>2, PlainTransaction
  <2> HIDE DEF p
  <2>5. t \in Transactions /\ Same(t, p) /\ t.spends = p.spends /\ t.restart
      BY <2>3, <2>4, WithSendsRestart
  <2> HIDE DEF t
  <2> QED BY <1>1, <2>1, <2>2, <2>4, <2>5 DEF Same
<1>3. ASSUME CancelChange(w, u)
      PROVE  \E t : Starts(w, t)
  <2> DEFINE q == Requested(user[u], None)
             p == Transaction(u, user[u], q)
             t == [p EXCEPT !.restart = TRUE]
  <2>1. Begin(w, t) /\ UNCHANGED nonces
      BY <1>3 DEF CancelChange
  <2>2. q \in Rows /\ q.email = user[u].email /\ q.nonce = user[u].nonce /\ ~q.currentOk /\ ~q.newOk
      BY DEF Requested, Rows
  <2> HIDE DEF q
  <2>4. p \in Transactions /\ p.user = u /\ p.from = user[u] /\ p.to = q /\ p.spends = 0
      BY <2>2, PlainTransaction
  <2> HIDE DEF p
  <2>5. t \in Transactions /\ Same(t, p) /\ t.spends = p.spends /\ t.restart
      BY <2>4, WithRestart
  <2> HIDE DEF t
  <2> QED BY <1>1, <2>1, <2>2, <2>4, <2>5 DEF Same
<1>4. ASSUME Forgot(w, u)
      PROVE  \E t : Starts(w, t)
  <2> DEFINE r == user[u]
             q == [r EXCEPT !.nonce = nonces']
             x == {[kind |-> "reset", email |-> r.email, nonce |-> nonces']}
             p == Transaction(u, r, q)
             t == [p EXCEPT !.sends = x]
  <2>1. Begin(w, t) /\ nonces' = nonces + 1 /\ nonces' \in Nat
      BY <1>4 DEF Forgot, TypeOK
  <2>2. /\ q \in Rows /\ q.nonce = nonces' /\ q.email = r.email /\ q.pending = r.pending
        /\ q.currentOk = r.currentOk /\ q.newOk = r.newOk
      BY <2>1 DEF Rows
  <2>3. x \in SUBSET Links
    <3>1. r.email \in Emails
        BY DEF Rows
    <3> HIDE DEF r
    <3> QED BY <2>1, <3>1 DEF Links
  <2> HIDE DEF q, x
  <2>4. p \in Transactions /\ p.user = u /\ p.from = r /\ p.to = q /\ p.spends = 0 /\ ~p.restart
      BY <2>2, PlainTransaction
  <2> HIDE DEF p
  <2>5. t \in Transactions /\ Same(t, p) /\ t.spends = p.spends /\ t.restart = p.restart
      BY <2>3, <2>4, WithSends
  <2> HIDE DEF t
  <2>6. Sound(t) /\ Issues(t, nonces')
      BY <2>2, <2>4, <2>5, NoRow DEF Sound, Stamped, Issues, Update, Same
  <2> QED BY <2>1, <2>4, <2>5, <2>6, BeginStarts DEF Same
<1>5. ASSUME DeleteUser(w, u)
      PROVE  \E t : Starts(w, t)
  <2>1. Begin(w, Transaction(u, user[u], None)) /\ UNCHANGED nonces
      BY <1>5 DEF DeleteUser
  <2> QED BY <2>1, DeleteStarts, BeginStarts
<1>6. ASSUME NEW s \in Statuses, Decide(w, u, s)
      PROVE  \E t : Starts(w, t)
  <2> DEFINE q == [user[u] EXCEPT !.status = s]
             t == Transaction(u, user[u], q)
  <2>2. Begin(w, t) /\ UNCHANGED nonces
      BY <1>6 DEF Decide
  <2>3. /\ q \in Rows /\ q.email = user[u].email /\ q.pending = user[u].pending /\ q.nonce = user[u].nonce
        /\ q.currentOk = user[u].currentOk /\ q.newOk = user[u].newOk
      BY DEF Rows
  <2> HIDE DEF q
  <2>4. t \in Transactions /\ t.user = u /\ t.from = user[u] /\ t.to = q /\ t.spends = 0 /\ ~t.restart
      BY <2>3, PlainTransaction
  <2> HIDE DEF t
  <2> QED BY <2>2, <2>3, <2>4, UpdateStarts
<1>7. ASSUME Purge(w, u)
      PROVE  \E t : Starts(w, t)
  <2> DEFINE t == Transaction(u, user[u], None)
  <2>1. t \in Transactions /\ Sound(t) /\ Keeps(t) /\ t.from = user[t.user]
      BY DeleteStarts
  <2> HIDE DEF t
  <2>2. web[w] = Idle /\ web' = [web EXCEPT ![w] = t]
        /\ UNCHANGED <<user, old, uses, active, nonces, mail, history, moves>>
      BY <1>7 DEF Purge, t
  <2>3. Starts(w, t)
      BY <2>1, <2>2 DEF Starts, history, TypeOK
  <2> QED BY <2>3
<1> QED BY <1>2, <1>3, <1>4, <1>5, <1>6, <1>7 DEF Account

LEMMA ResetStarts ==
    ASSUME TypeOK, NEW w \in Sessions, NEW l \in mail, Reset(w, l)
    PROVE  \E t : Starts(w, t)
<1>1. PICK u \in WithEmail(l.email) :
        /\ user[u].nonce = l.nonce
        /\ Begin(w, [Transaction(u, user[u], Spent(user[u])) EXCEPT !.spends = l.nonce])
    BY DEF Reset
<1> DEFINE r == user[u]
           q == Spent(r)
           p == Transaction(u, r, q)
           t == [p EXCEPT !.spends = l.nonce]
<1>2. u \in Users /\ r \in Rows /\ l.nonce = r.nonce /\ l.nonce \in Nat
    BY <1>1 DEF WithEmail, Live, TypeOK, Rows
<1>3. /\ q \in Rows /\ q.nonce = 0 /\ q.email = r.email /\ q.pending = r.pending
      /\ q.currentOk = r.currentOk /\ q.newOk = r.newOk
    BY <1>2 DEF Rows, Spent
<1>4. Begin(w, t) /\ nonces' = nonces
    BY <1>1 DEF Reset
<1> HIDE DEF q
<1>5. p \in Transactions /\ p.user = u /\ p.from = r /\ p.to = q /\ ~p.restart
    BY <1>2, <1>3, PlainTransaction
<1> HIDE DEF p
<1>6. t \in Transactions /\ Same(t, p) /\ t.spends = r.nonce /\ t.restart = p.restart
    BY <1>2, <1>5, WithSpends
<1> HIDE DEF t
<1>7. Sound(t) /\ Uses(t)
    BY <1>2, <1>3, <1>5, <1>6, NoRow DEF Sound, Stamped, Uses, Update, Same
<1> QED BY <1>4, <1>5, <1>6, <1>7, BeginStarts DEF Same

LEMMA ConfirmStarts ==
    ASSUME TypeOK, NEW w \in Sessions, NEW l \in mail, ConfirmChange(w, l)
    PROVE  \E t : Starts(w, t)
<1> DEFINE u == l.user
           r == user[u]
           q == IF l.kind = "current" THEN [r EXCEPT !.currentOk = TRUE] ELSE [r EXCEPT !.newOk = TRUE]
           f == Confirmed(u, q)
           p == Transaction(u, r, f)
           t == [p EXCEPT !.opens = {l}]
<1>1. l \in Links /\ l.kind \in {"current", "new"}
    BY DEF ConfirmChange, TypeOK
<1>2. u \in Users /\ l = [kind |-> l.kind, user |-> l.user, from |-> l.from, to |-> l.to]
    BY <1>1 DEF Links
<1>3. r # None /\ r.email = l.from /\ r.pending = l.to /\ Begin(w, t) /\ nonces' = nonces
    BY DEF ConfirmChange
<1>4. r \in Rows
    BY <1>2, <1>3 DEF TypeOK
<1>5. r.pending \in Emails
    BY <1>1, <1>3 DEF Links
<1>6. \/ l = CurrentLink(u, r) /\ l.kind = "current"
      \/ l = NewLink(u, r) /\ l.kind = "new"
    BY <1>1, <1>2, <1>3 DEF CurrentLink, NewLink
<1>7. /\ q \in Rows /\ q.email = r.email /\ q.pending = r.pending /\ q.nonce = r.nonce
      /\ q.currentOk => r.currentOk \/ l = CurrentLink(u, r)
      /\ q.newOk => r.newOk \/ l = NewLink(u, r)
    BY <1>4, <1>6 DEF Rows
<1> HIDE DEF r, q, u
<1>8. /\ f \in Rows /\ f.nonce = r.nonce
      /\ \/ f = q
         \/ /\ ~f.currentOk /\ ~f.newOk /\ q.currentOk /\ q.newOk
            /\ f.email = r.email \/ f.email = r.pending
  <2>1. CASE ~(q.currentOk /\ q.newOk)
      BY <1>7, <2>1 DEF Confirmed
  <2>2. CASE q.currentOk /\ q.newOk /\ Taken(u, q.pending)
      BY <1>7, <2>2 DEF Confirmed, Requested, Rows
  <2>3. CASE q.currentOk /\ q.newOk /\ ~Taken(u, q.pending)
      BY <1>5, <1>7, <2>3 DEF Confirmed, Requested, Rows
  <2> QED BY <2>1, <2>2, <2>3
<1> HIDE DEF f
<1>9. p \in Transactions /\ p.user = u /\ p.from = r /\ p.to = f /\ ~p.restart /\ p.spends = 0
    BY <1>2, <1>4, <1>8, PlainTransaction DEF u
<1> HIDE DEF p
<1>10. t \in Transactions /\ Same(t, p) /\ t.opens = {l} /\ t.spends = p.spends /\ t.restart = p.restart
    BY <1>1, <1>9, WithOpens, SMTT(40)
<1> HIDE DEF t
<1>11. Keeps(t) /\ t.from = user[t.user] /\ t.to # None /\ t.from # None
    BY <1>4, <1>8, <1>9, <1>10, NoRow DEF Keeps, Update, Same, r
<1>12. Stamped(t)
    BY <1>7, <1>8, <1>9, <1>10 DEF Stamped, Same
<1> QED BY <1>3, <1>10, <1>11, <1>12, BeginStarts DEF Sound, t

-----------------------------------------------------------------------------
(* The steps *)

\* The columns of the row as the commit leaves them.
LEMMA AfterType ==
    ASSUME TypeOK, NEW t \in Transactions, ~Gone(t)
    PROVE  /\ After(t) \in Rows \cup {None}
           /\ After(t) = None <=> t.to = None
           /\ t.from = None => After(t) = t.to
           /\ t.from # None /\ t.to # None => After(t) = Written(user[t.user], t.from, t.to)
           /\ user[t.user] = None <=> t.from = None
<1>1. t.user \in Users /\ t.from \in Rows \cup {None} /\ t.to \in Rows \cup {None}
    BY DEF Transactions
<1>2. user[t.user] = None <=> t.from = None
    BY <1>1 DEF Gone, TypeOK
<1>3. ASSUME t.from # None, t.to # None
      PROVE  Written(user[t.user], t.from, t.to) \in Rows
  <2> DEFINE r == user[t.user]
             from == t.from
             to == t.to
  <2>1. r \in Rows /\ from \in Rows /\ to \in Rows
      BY <1>1, <1>2, <1>3 DEF TypeOK
  <2> HIDE DEF r, from, to
  <2>2. Written(r, from, to) \in Rows
      BY <2>1 DEF Written, Rows
  <2> QED BY <2>2 DEF r, from, to
<1> QED BY <1>1, <1>2, <1>3, NoRow DEF After

LEMMA WrittenField ==
    ASSUME NEW r \in Rows, NEW from \in Rows, NEW to \in Rows
    PROVE  /\ Written(r, from, to).nonce = IF to.nonce # from.nonce THEN to.nonce ELSE r.nonce
           /\ r = from => /\ Written(r, from, to).email = to.email
                          /\ Written(r, from, to).pending = to.pending
                          /\ Written(r, from, to).currentOk = to.currentOk
                          /\ Written(r, from, to).newOk = to.newOk
    BY DEF Written, Rows

LEMMA CommitTypes ==
    ASSUME TypeOK, NEW w \in Sessions, Commit(w)
    PROVE  TypeOK' /\ web[w] \in Transactions /\ ~Gone(web[w])
<1> DEFINE t == web[w]
           u == t.user
<1>1. t # Idle /\ t \in Transactions /\ ~Fails(t) /\ u \in Users
    BY DEF Commit, TypeOK, Transactions
<1>2. ~Gone(t)
    BY <1>1 DEF Fails
<1>3. /\ After(t) \in Rows \cup {None} /\ (After(t) = None <=> t.to = None)
      /\ (user[u] = None <=> t.from = None)
    BY <1>1, <1>2, AfterType
<1>4. user' = [user EXCEPT ![u] = After(t)]
      /\ old' = IF t.from = None \/ t.to = None THEN old \ {u} ELSE old
    BY DEF Commit
<1>5. user' \in [Users -> Rows \cup {None}]
  <2> DEFINE after == After(t)
  <2> HIDE DEF after, t, u
  <2> QED BY <1>3, <1>4 DEF TypeOK, after
<1>6. old' \subseteq Live'
  <2>1. ASSUME NEW v \in old' PROVE v \in Users /\ user'[v] # None
    <3>1. v \in Users /\ user[v] # None
        BY <1>4, <2>1 DEF TypeOK, Live
    <3>2. CASE v = u
        BY <1>1, <1>3, <1>4, <2>1, <3>1, <3>2 DEF TypeOK
    <3>3. CASE v # u
        BY <1>4, <3>1, <3>3 DEF TypeOK
    <3> QED BY <3>1, <3>2, <3>3
  <2> QED BY <2>1 DEF Live
<1>7. uses' \in Nat
    BY <1>1 DEF Commit, TypeOK, Transactions
<1>13. joined' \in Nat /\ doubled' \in Nat
    BY <1>1 DEF Commit, TypeOK
<1>8. mail' \subseteq Links /\ opened' \subseteq Links
    BY <1>1 DEF Commit, TypeOK, Transactions
<1>9. web' \in [Sessions -> Transactions \cup {Idle}]
    BY DEF Commit, TypeOK
<1>10. resets' \in [1 .. MaxMoves -> Nat]
    BY DEF Commit, TypeOK
<1>11. blind' \subseteq Users
    BY <1>1 DEF Commit, TypeOK
<1>12. active' \in BOOLEAN /\ nonces' \in Nat /\ moves' \in Nat
    BY DEF Commit, TypeOK
<1> QED BY <1>1, <1>2, <1>5, <1>6, <1>7, <1>8, <1>9, <1>10, <1>11, <1>12, <1>13 DEF TypeOK

\* Every step begins a transaction, ends one, or is none of the members' rows.
Aside == /\ UNCHANGED <<user, uses, nonces, web, opened, resets, joined, doubled, blind>>
         /\ old' \subseteq Live' /\ active' \in BOOLEAN /\ mail' \subseteq Links /\ moves' \in Nat

\* A request whose transaction gets the code's row, and nothing else.
Recodes(w, c) ==
    /\ c \in Nat \cup {None} /\ web[w] \in Transactions
    /\ web' = [web EXCEPT ![w] = [web[w] EXCEPT !.code = c]]
    /\ UNCHANGED <<user, old, uses, active, nonces, mail, opened, resets, joined, doubled, blind, moves>>

LEMMA LoadRecodes == ASSUME TypeOK, NEW w \in Sessions, LoadCode(w) PROVE Recodes(w, TakenUse)
<1>1. TakenUse \in Nat \cup {None}
    BY DEF TakenUse, TypeOK
<1>2. web[w] \in Transactions /\ web' = [web EXCEPT ![w] = [web[w] EXCEPT !.code = TakenUse]]
    BY DEF LoadCode, TypeOK
<1> QED BY <1>1, <1>2 DEF Recodes, LoadCode, history

LEMMA NoTransaction == ASSUME NEW t \in Transactions PROVE t # Idle
<1>1. t.user # None
    BY DEF Transactions
<1> QED BY <1>1 DEF Idle

LEMMA RecodedWeb ==
    ASSUME TypeOK, NEW w \in Sessions, NEW c, Recodes(w, c)
    PROVE  /\ web' \in [Sessions -> Transactions \cup {Idle}]
           /\ \A v \in Sessions : v # w => web'[v] = web[v]
           /\ web[w] # Idle /\ web'[w] # Idle
           /\ Same(web'[w], web[w]) /\ web'[w].opens = web[w].opens
           /\ web'[w].restart = web[w].restart /\ web'[w].spends = web[w].spends
           /\ web'[w].code = c
<1> DEFINE t == [web[w] EXCEPT !.code = c]
<1>1. /\ t \in Transactions /\ Same(t, web[w]) /\ t.opens = web[w].opens
      /\ t.restart = web[w].restart /\ t.spends = web[w].spends
    BY WithCode DEF Recodes
<1>2. t.code = c
    BY DEF Recodes, Transactions
<1>3. web' = [web EXCEPT ![w] = t] /\ web[w] \in Transactions
    BY DEF Recodes
<1> HIDE DEF t
<1>4. web' \in [Sessions -> Transactions \cup {Idle}] /\ web'[w] = t
      /\ \A v \in Sessions : v # w => web'[v] = web[v]
    BY <1>1, <1>3 DEF TypeOK
<1> QED BY <1>1, <1>2, <1>3, <1>4, NoTransaction

LEMMA Steps ==
    ASSUME TypeOK, [Next]_vars
    PROVE  \/ \E w \in Sessions, t \in Transactions : Starts(w, t)
           \/ \E w \in Sessions : Commit(w)
           \/ \E w \in Sessions : Rollback(w)
           \/ \E w \in Sessions : Recodes(w, TakenUse)
           \/ Aside
<1>1. CASE \E w \in Sessions, u \in Users : SignUp(w, u) \/ Account(w, u)
    BY <1>1, SignUpStarts, AccountStarts DEF Starts
<1>2. CASE \E w \in Sessions, l \in mail : ConfirmChange(w, l) \/ Reset(w, l)
    BY <1>2, ConfirmStarts, ResetStarts DEF Starts
<1>3. ASSUME NEW u \in Users, Resend(u) PROVE Aside
  <2>1. Verification(user[u].email) \in Links
    <3>1. user[u].email \in Emails
        BY <1>3 DEF Resend, TypeOK, Rows
    <3> QED BY <3>1 DEF Verification, Links
  <2> QED BY <1>3, <2>1 DEF Resend, Aside, TypeOK, history, Live
<1>4. ASSUME NEW u \in Users, Age(u) PROVE Aside
    BY <1>4 DEF Age, Aside, TypeOK, history, Live
<1>5. CASE ToggleCode
  <2>1. moves' \in Nat /\ active' \in BOOLEAN
      BY <1>5 DEF ToggleCode, TypeOK
  <2> QED BY <1>5, <2>1 DEF ToggleCode, Aside, TypeOK, history, Live
<1>6. CASE UNCHANGED vars
    BY <1>6 DEF vars, Aside, TypeOK, history, Live
<1> QED BY <1>1, <1>2, <1>3, <1>4, <1>5, <1>6, LoadRecodes DEF Next

LEMMA TypesStep == ASSUME TypeOK, [Next]_vars PROVE TypeOK'
<1>1. ASSUME NEW w \in Sessions, NEW t \in Transactions, Starts(w, t) PROVE TypeOK'
  <2>1. nonces' \in Nat
      BY <1>1 DEF Starts, TypeOK
  <2>2. web' \in [Sessions -> Transactions \cup {Idle}]
      BY <1>1 DEF Starts, TypeOK
  <2> QED BY <1>1, <2>1, <2>2 DEF Starts, TypeOK, Live
<1>2. ASSUME NEW w \in Sessions, Rollback(w) PROVE TypeOK'
    BY <1>2 DEF Rollback, TypeOK, Live, history
<1>3. CASE Aside
    BY <1>3 DEF Aside, TypeOK
<1>4. ASSUME NEW w \in Sessions, NEW c, Recodes(w, c) PROVE TypeOK'
    BY <1>4, RecodedWeb DEF Recodes, TypeOK, Live
<1> QED BY <1>1, <1>2, <1>3, <1>4, CommitTypes, Steps

LEMMA SoundStep == ASSUME TypeOK, SoundWeb, [Next]_vars PROVE SoundWeb'
<1>1. ASSUME NEW w \in Sessions, NEW t \in Transactions, Starts(w, t) PROVE SoundWeb'
    BY <1>1 DEF Starts, TypeOK, SoundWeb
<1>2. ASSUME NEW w \in Sessions, Rollback(w) \/ Commit(w) PROVE SoundWeb'
    BY <1>2 DEF Rollback, Commit, TypeOK, SoundWeb
<1>3. CASE Aside
    BY <1>3 DEF Aside, SoundWeb
<1>4. ASSUME NEW w \in Sessions, NEW c, Recodes(w, c) PROVE SoundWeb'
  <2>1. Sound(web'[w])
      BY <1>4, RecodedWeb DEF SoundWeb, Sound, Fresh, Stamped, Same
  <2> QED BY <1>4, <2>1, RecodedWeb DEF SoundWeb
<1> QED BY <1>1, <1>2, <1>3, <1>4, Steps

\* Rows, codes, links and transactions keep their types for any members, addresses
\* and requests.
THEOREM MembersTypeCorrect == Spec => []TypeOK
<1>1. Init => TypeOK /\ SoundWeb
    BY InitTypes
<1>2. (TypeOK /\ SoundWeb) /\ [Next]_vars => (TypeOK /\ SoundWeb)'
    BY TypesStep, SoundStep
<1> QED BY <1>1, <1>2, PTL DEF Spec

-----------------------------------------------------------------------------
(* The signup code.                                                        *)
(*                                                                         *)
(* A request that is to take a use has read a counter below the limit, and *)
(* its commit makes a member, or the member was made while it was pending. *)

Counts(t) == t.code # None => /\ Joins(t)
                              /\ t.code \in 0 .. MaxUses - 1 /\ t.code <= joined + doubled

CodeInv ==
    /\ uses \in 0 .. MaxUses /\ uses <= joined + doubled
    /\ \A w \in Sessions : web[w] # Idle => Counts(web[w])

\* A transaction that takes a use has the counter in it.
Reads(t) == t.code = None \/ (uses < MaxUses /\ t.code = uses /\ Joins(t))

Begun(w, t) == web' = [web EXCEPT ![w] = t] /\ UNCHANGED <<uses, joined, doubled>>

LEMMA ReadsCounts == ASSUME TypeOK, CodeInv, NEW t, Reads(t) PROVE Counts(t)
BY DEF Reads, Counts, CodeInv, TypeOK

LEMMA BegunKeeps ==
    ASSUME TypeOK, CodeInv, NEW w \in Sessions, NEW t, Begun(w, t), Reads(t) PROVE CodeInv'
<1>1. Counts(t)
    BY ReadsCounts
<1>2. \A v \in Sessions : web'[v] = web[v] \/ web'[v] = t
    BY DEF Begun, TypeOK
<1>3. \A v \in Sessions : web'[v] # Idle => Counts(web'[v])
    BY <1>1, <1>2 DEF CodeInv
<1> QED BY <1>3 DEF CodeInv, Counts, Begun

LEMMA CodeOf ==
    ASSUME NEW u, NEW from, NEW to, NEW c
    PROVE  /\ [Transaction(u, from, to) EXCEPT !.code = c].code = c
           /\ [Transaction(u, from, to) EXCEPT !.code = c].from = from
           /\ [Transaction(u, from, to) EXCEPT !.code = c].to = to
BY DEF Transaction

LEMMA SignUpsRead ==
    ASSUME TypeOK, CodeInv, NEW w \in Sessions, NEW u \in Users, SignUp(w, u)
    PROVE  CodeInv'
<1>1. ASSUME NEW e, NEW coded, Register(w, u, e, coded) PROVE CodeInv'
  <2> DEFINE t == [Transaction(u, None, NewRow(e, FALSE, None, coded)) EXCEPT !.sends = {Verification(e)}]
  <2>1. Begun(w, t)
    BY <1>1 DEF Register, Begin, history, Begun
  <2>2. t.code = None
    BY DEF Transaction
  <2> HIDE DEF t
  <2> QED BY <2>1, <2>2, BegunKeeps DEF Reads
<1>2. ASSUME NEW e \in Emails, NEW s \in Subs, NEW coded \in BOOLEAN, GoogleRegister(w, u, e, s, coded)
      PROVE  CodeInv'
  <2> DEFINE c == IF coded THEN uses ELSE None
             q == NewRow(e, TRUE, s, coded)
             t == [Transaction(u, None, q) EXCEPT !.code = c]
  <2>1. Begun(w, t) /\ (coded => uses < MaxUses)
    BY <1>2 DEF GoogleRegister, Begin, history, Begun, CodeUsable
  <2>2. q # None /\ q.coded = coded /\ q.verified
    BY NewRowType, NoRow DEF NewRow
  <2> HIDE DEF q, c
  <2>3. t.code = c /\ t.from = None /\ t.to = q
    BY CodeOf
  <2> HIDE DEF t
  <2>4. Reads(t)
    BY <2>1, <2>2, <2>3 DEF Reads, Joins, c
  <2> QED BY <2>1, <2>4, BegunKeeps
<1>3. ASSUME OpenVerification(w, u) PROVE CodeInv'
  <2> DEFINE c == IF user[u].coded THEN TakenUse ELSE None
             q == [user[u] EXCEPT !.verified = TRUE]
             t == [Transaction(u, user[u], q) EXCEPT !.code = c]
  <2>1. Begun(w, t) /\ user[u] \in Rows /\ ~user[u].verified
    BY <1>3 DEF OpenVerification, Verify, Begin, history, Begun, TypeOK
  <2>2. t.code = c /\ t.from = user[u] /\ t.to = q
    BY CodeOf
  <2>3. q \in Rows /\ q.coded = user[u].coded /\ q.verified
    BY <2>1 DEF Rows
  <2> HIDE DEF q, t
  <2>4. Reads(t)
    BY <2>1, <2>2, <2>3, NoRow DEF Reads, Joins, TakenUse, CodeUsable
  <2> QED BY <2>1, <2>4, BegunKeeps
<1>4. ASSUME NEW s, GoogleLink(w, u, s) PROVE CodeInv'
  <2> DEFINE t == Transaction(u, user[u], [user[u] EXCEPT !.sub = s, !.verified = TRUE])
  <2>1. Begun(w, t)
    BY <1>4 DEF GoogleLink, Begin, history, Begun
  <2>2. t.code = None
    BY DEF Transaction
  <2> HIDE DEF t
  <2> QED BY <2>1, <2>2, BegunKeeps DEF Reads
<1> QED BY <1>1, <1>2, <1>3, <1>4 DEF SignUp

\* The other requests take no use.
CodeFree(w) == \E t : Begun(w, t) /\ t.code = None

LEMMA AccountsFree ==
    ASSUME NEW w \in Sessions, NEW u \in Users, Account(w, u) PROVE CodeFree(w)
<1>1. ASSUME NEW e, RequestChange(w, u, e) PROVE CodeFree(w)
  <2> DEFINE q == Requested(user[u], e)
             x == ChangeLinks(u, user[u].email, e)
             t == [Transaction(u, user[u], q) EXCEPT !.sends = x, !.restart = TRUE]
  <2>1. Begun(w, t)
    BY <1>1 DEF RequestChange, Begin, history, Begun
  <2> HIDE DEF q, x
  <2>2. t.code = None
    BY DEF Transaction
  <2> HIDE DEF t
  <2> QED BY <2>1, <2>2 DEF CodeFree
<1>2. ASSUME CancelChange(w, u) PROVE CodeFree(w)
  <2>1. Begun(w, [Transaction(u, user[u], Requested(user[u], None)) EXCEPT !.restart = TRUE])
    BY <1>2 DEF CancelChange, Begin, history, Begun
  <2> QED BY <2>1 DEF CodeFree, Transaction
<1>3. ASSUME Forgot(w, u) PROVE CodeFree(w)
  <2> DEFINE q == [user[u] EXCEPT !.nonce = nonces']
             x == {[kind |-> "reset", email |-> user[u].email, nonce |-> nonces']}
             t == [Transaction(u, user[u], q) EXCEPT !.sends = x]
  <2>1. Begun(w, t)
    BY <1>3 DEF Forgot, Begin, history, Begun
  <2> HIDE DEF q, x
  <2>2. t.code = None
    BY DEF Transaction
  <2> HIDE DEF t
  <2> QED BY <2>1, <2>2 DEF CodeFree
<1>4. ASSUME DeleteUser(w, u) PROVE CodeFree(w)
  <2>1. Begun(w, Transaction(u, user[u], None))
    BY <1>4 DEF DeleteUser, Begin, history, Begun
  <2> QED BY <2>1 DEF CodeFree, Transaction
<1>5. ASSUME NEW s, Decide(w, u, s) PROVE CodeFree(w)
  <2>1. Begun(w, Transaction(u, user[u], [user[u] EXCEPT !.status = s]))
    BY <1>5 DEF Decide, Begin, history, Begun
  <2> QED BY <2>1 DEF CodeFree, Transaction
<1>6. ASSUME Purge(w, u) PROVE CodeFree(w)
  <2>1. Begun(w, Transaction(u, user[u], None))
    BY <1>6 DEF Purge, history, Begun
  <2> QED BY <2>1 DEF CodeFree, Transaction
<1> QED BY <1>1, <1>2, <1>3, <1>4, <1>5, <1>6 DEF Account

LEMMA LinksFree ==
    ASSUME NEW w \in Sessions, NEW l, ConfirmChange(w, l) \/ Reset(w, l) PROVE CodeFree(w)
<1>1. CASE ConfirmChange(w, l)
  <2>1. PICK u, from, to, x : Begun(w, [Transaction(u, from, to) EXCEPT !.opens = x])
    BY <1>1 DEF ConfirmChange, Begin, history, Begun
  <2> QED BY <2>1 DEF CodeFree, Transaction
<1>2. CASE Reset(w, l)
  <2>1. PICK u, from, to, x : Begun(w, [Transaction(u, from, to) EXCEPT !.spends = x])
    BY <1>2 DEF Reset, Begin, history, Begun
  <2> QED BY <2>1 DEF CodeFree, Transaction
<1> QED BY <1>1, <1>2

\* The code is loaded again by a request that is to make a member.
LEMMA LoadKeeps ==
    ASSUME TypeOK, CodeInv, NEW w \in Sessions, LoadCode(w) PROVE CodeInv'
<1>1. Recodes(w, TakenUse)
    BY LoadRecodes
<1>2. Begun(w, web'[w])
    BY <1>1, RecodedWeb DEF Recodes, Begun, TypeOK
<1>3. Joins(web'[w])
    BY <1>1, RecodedWeb DEF LoadCode, Joins, Same
<1>4. Reads(web'[w])
    BY <1>1, <1>3, RecodedWeb DEF Reads, TakenUse, CodeUsable
<1> DEFINE t == web'[w]
<1> HIDE DEF t
<1> QED BY <1>2, <1>4, BegunKeeps DEF t

\* The commit writes the counter it has read, plus one, and makes the member it is
\* for, unless another request did.
LEMMA CommitKeepsCode ==
    ASSUME TypeOK, CodeInv, NEW w \in Sessions, Commit(w) PROVE CodeInv'
<1> DEFINE t == web[w]
<1>1. /\ t # Idle /\ Counts(t) /\ \A v \in Sessions : web'[v] = web[v] \/ web'[v] = Idle
      /\ uses' = IF t.code = None THEN uses ELSE t.code + 1
      /\ joined' = IF Joins(t) /\ ~Already(t.user) THEN joined + 1 ELSE joined
      /\ doubled' = IF t.code # None /\ Joins(t) /\ Already(t.user) THEN doubled + 1 ELSE doubled
    BY DEF Commit, CodeInv, TypeOK
<1> HIDE DEF t
<1>2. joined \in Nat /\ doubled \in Nat /\ uses \in 0 .. MaxUses /\ uses <= joined + doubled
    BY DEF TypeOK, CodeInv
<1>3. joined' + doubled' >= joined + doubled /\ joined' \in Nat /\ doubled' \in Nat
    BY <1>1, <1>2
<1>4. CASE t.code = None
  <2>1. uses' \in 0 .. MaxUses /\ uses' <= joined' + doubled'
    BY <1>1, <1>2, <1>3, <1>4
  <2> QED BY <1>1, <1>2, <1>3, <2>1 DEF CodeInv, Counts
<1>5. CASE t.code # None
  <2>1. Joins(t) /\ t.code \in 0 .. MaxUses - 1 /\ t.code <= joined + doubled
    BY <1>1, <1>5 DEF Counts
  <2>2. joined' + doubled' = joined + doubled + 1
    BY <1>1, <1>2, <1>5, <2>1
  <2>3. uses' \in 0 .. MaxUses /\ uses' <= joined' + doubled'
    BY <1>1, <1>2, <1>5, <2>1, <2>2
  <2> QED BY <1>1, <1>2, <1>3, <2>3 DEF CodeInv, Counts
<1> QED BY <1>4, <1>5

LEMMA CodeStep == ASSUME TypeOK, CodeInv, [Next]_vars PROVE CodeInv'
<1>1. ASSUME NEW w \in Sessions, CodeFree(w) PROVE CodeInv'
  <2>1. PICK t : Begun(w, t) /\ t.code = None
    BY <1>1 DEF CodeFree
  <2> QED BY <2>1, BegunKeeps DEF Reads
<1>2. ASSUME NEW w \in Sessions, Rollback(w) PROVE CodeInv'
    BY <1>2 DEF Rollback, history, CodeInv, Counts, TypeOK
<1>3. CASE UNCHANGED <<web, uses, joined, doubled>>
    BY <1>3 DEF CodeInv, Counts
<1>4. CASE (\E u \in Users : Resend(u) \/ Age(u)) \/ ToggleCode \/ UNCHANGED vars
    BY <1>3, <1>4 DEF Resend, Age, ToggleCode, vars, history
<1> QED BY <1>1, <1>2, <1>4, SignUpsRead, AccountsFree, LinksFree, LoadKeeps, CommitKeepsCode DEF Next

\* The counter of a code never passes its limit, and every use on it is a member who
\* joined with the code, but for uses taken for a row that another request verified
\* meanwhile (verify_email_token, auth_account.py:3944; google_auth_callback, :3473).
THEOREM UsesCountMembers == Spec => []UsesAreMembers
<1>1. Init => TypeOK /\ CodeInv
  <2> SUFFICES ASSUME Init PROVE CodeInv
    BY InitTypes
  <2>1. uses \in 0 .. MaxUses /\ joined = uses /\ doubled = 0 /\ \A w \in Sessions : web[w] = Idle
    BY DEF Init
  <2> QED BY <2>1 DEF CodeInv
<1>2. (TypeOK /\ CodeInv) /\ [Next]_vars => (TypeOK /\ CodeInv)'
    BY TypesStep, CodeStep
<1>3. CodeInv => UsesAreMembers
    BY DEF CodeInv, UsesAreMembers
<1> QED BY <1>1, <1>2, <1>3, PTL DEF Spec

-----------------------------------------------------------------------------
(* The link of a password reset.                                           *)
(*                                                                         *)
(* A nonce is issued by one transaction, so at most one row has it, and    *)
(* only until the first reset with its link is committed.                  *)

Has(r, n) == r # None /\ r.nonce = n
Grants(t, n) == t # Idle /\ Update(t) /\ t.to.nonce = n /\ t.from.nonce # n
Spends(t, n) == t # Idle /\ t.spends = n
Used(f, n) == n \in DOMAIN f /\ f[n] > 0

Unissued(us, wb, f, n) ==
    /\ \A u \in Users : ~Has(us[u], n)
    /\ \A w \in Sessions : ~Grants(wb[w], n) /\ ~Spends(wb[w], n)
    /\ ~Used(f, n)

Single(us, n) == \A u, v \in Users : Has(us[u], n) /\ Has(us[v], n) => u = v

\* What is true of nonce n while transaction t of w is to issue it.
Pristine(us, wb, f, w, n) ==
    /\ \A u \in Users : ~Has(us[u], n)
    /\ \A v \in Sessions : ~Spends(wb[v], n) /\ (v # w => ~Grants(wb[v], n))
    /\ ~Used(f, n)

\* A request that spends n has read it, and no other row has it.
Spender(us, t, n) ==
    /\ Update(t) /\ t.from.nonce = n /\ t.to.nonce = 0
    /\ \A u \in Users : Has(us[u], n) => u = t.user

Nonce(us, wb, f, last, n) ==
    /\ n > last => Unissued(us, wb, f, n)
    /\ Single(us, n)
    /\ \A w \in Sessions : Grants(wb[w], n) => Pristine(us, wb, f, w, n)
    /\ \A w \in Sessions : Spends(wb[w], n) => Spender(us, wb[w], n)
    /\ Used(f, n) => \A u \in Users : ~Has(us[u], n)

NonceInv == \A n \in Nat \ {0} : Nonce(user, web, resets, nonces, n)

LEMMA NonceStarts ==
    ASSUME TypeOK, NonceInv, NEW w \in Sessions, NEW t \in Transactions, Starts(w, t)
    PROVE  NonceInv'
<1> SUFFICES ASSUME NEW n \in Nat \ {0} PROVE Nonce(user, web', resets, nonces', n)
    BY DEF NonceInv, Starts
<1>1. Nonce(user, web, resets, nonces, n) /\ nonces \in Nat
    BY DEF NonceInv, TypeOK
<1>2. /\ web[w] = Idle /\ web'[w] = t /\ \A v \in Sessions : v # w => web'[v] = web[v]
      /\ t.user \in Users /\ t.from = user[t.user]
    BY DEF Starts, TypeOK, Transactions
<1>3. \A v \in Sessions : /\ Grants(web'[v], n) => (v # w /\ Grants(web[v], n)) \/ (v = w /\ Grants(t, n))
                          /\ Spends(web'[v], n) => (v # w /\ Spends(web[v], n)) \/ (v = w /\ Spends(t, n))
    BY <1>2
<1>4. CASE ~Grants(t, n) /\ ~Spends(t, n) /\ nonces' \in {nonces, nonces + 1}
  <2>1. n > nonces' => n > nonces
      BY <1>1, <1>4
  <2>2. \A v \in Sessions : (Grants(web'[v], n) => Grants(web[v], n)) /\ (Spends(web'[v], n) => Spends(web[v], n) /\ v # w)
      BY <1>3, <1>4
  <2>3. \A v \in Sessions : Grants(web'[v], n) => Pristine(user, web', resets, v, n)
      BY <1>1, <2>2 DEF Nonce, Pristine
  <2>4. \A v \in Sessions : Spends(web'[v], n) => Spender(user, web'[v], n)
      BY <1>1, <1>2, <2>2 DEF Nonce
  <2>5. n > nonces' => Unissued(user, web', resets, n)
      BY <1>1, <2>1, <2>2 DEF Nonce, Unissued
  <2> QED BY <1>1, <2>3, <2>4, <2>5 DEF Nonce
<1>5. CASE Grants(t, n) /\ nonces' = nonces + 1 /\ Issues(t, nonces')
  <2>1. n = nonces + 1
      BY <1>5 DEF Grants, Issues
  <2>2. Unissued(user, web, resets, n) /\ t.spends = 0
      BY <1>1, <1>5, <2>1 DEF Nonce, Issues
  <2>3. \A v \in Sessions : ~Spends(web'[v], n) /\ (v # w => ~Grants(web'[v], n))
      BY <1>3, <2>2 DEF Unissued, Spends
  <2>4. Pristine(user, web', resets, w, n)
      BY <2>2, <2>3 DEF Unissued, Pristine
  <2> QED BY <1>1, <1>5, <2>1, <2>3, <2>4 DEF Nonce
<1>6. CASE Spends(t, n) /\ nonces' = nonces /\ Uses(t)
  <2>1. t.from # None /\ t.from.nonce = n /\ t.to.nonce = 0 /\ Update(t) /\ t.spends = n
      BY <1>6 DEF Uses, Spends, Update
  <2>2. Has(user[t.user], n)
      BY <1>2, <2>1 DEF Has
  <2>3. ~(n > nonces)
      BY <1>1, <1>2, <2>2 DEF Nonce, Unissued
  <2>4. Spender(user, t, n)
      BY <1>1, <1>2, <2>1, <2>2 DEF Nonce, Single, Spender
  <2>5. ~Grants(t, n)
      BY <2>1 DEF Grants
  <2>6. \A v \in Sessions : ~Grants(web'[v], n)
      BY <1>1, <1>2, <1>3, <2>2, <2>5 DEF Nonce, Pristine
  <2>7. \A v \in Sessions : Spends(web'[v], n) => Spender(user, web'[v], n)
      BY <1>1, <1>2, <1>3, <2>4 DEF Nonce
  <2> QED BY <1>1, <1>6, <2>3, <2>6, <2>7 DEF Nonce
<1>7. \/ nonces' = nonces /\ Keeps(t)
      \/ nonces' = nonces /\ Uses(t)
      \/ nonces' = nonces + 1 /\ Issues(t, nonces')
    BY DEF Starts
<1>8. CASE nonces' = nonces /\ Keeps(t)
  <2>1. ~Grants(t, n) /\ ~Spends(t, n)
      BY <1>8 DEF Keeps, Grants, Spends
  <2> QED BY <1>4, <1>8, <2>1
<1>9. CASE nonces' = nonces /\ Uses(t)
  <2>1. ~Grants(t, n)
      BY <1>9 DEF Uses, Grants
  <2> QED BY <1>4, <1>6, <1>9, <2>1
<1>10. CASE nonces' = nonces + 1 /\ Issues(t, nonces')
  <2>1. ~Spends(t, n)
      BY <1>10 DEF Issues, Spends
  <2> QED BY <1>4, <1>5, <1>10, <2>1
<1> QED BY <1>7, <1>8, <1>9, <1>10

LEMMA NonceCommits ==
    ASSUME TypeOK, SoundWeb, NonceInv, NEW w \in Sessions, Commit(w)
    PROVE  NonceInv'
<1> DEFINE t == web[w]
           u == t.user
<1> SUFFICES ASSUME NEW n \in Nat \ {0} PROVE Nonce(user', web', resets', nonces, n)
    BY DEF NonceInv, Commit
<1>1. Nonce(user, web, resets, nonces, n)
    BY DEF NonceInv
<1>2. t # Idle /\ t \in Transactions /\ u \in Users /\ ~Gone(t) /\ Sound(t)
    BY CommitTypes DEF Commit, Transactions, SoundWeb
<1>3. /\ user' = [user EXCEPT ![u] = After(t)] /\ web' = [web EXCEPT ![w] = Idle]
      /\ resets' = [m \in DOMAIN resets |-> IF m = t.spends THEN resets[m] + 1 ELSE resets[m]]
    BY DEF Commit
<1>4. /\ web'[w] = Idle /\ \A v \in Sessions : v # w => web'[v] = web[v]
      /\ user'[u] = After(t) /\ \A v \in Users : v # u => user'[v] = user[v]
    BY <1>2, <1>3 DEF TypeOK
<1>5. \A v \in Sessions : /\ Grants(web'[v], n) => v # w /\ Grants(web[v], n)
                          /\ Spends(web'[v], n) => v # w /\ Spends(web[v], n)
    BY <1>4 DEF Grants, Spends
<1>6. Has(After(t), n) => (Has(user[u], n) /\ t.spends # n) \/ Grants(t, n)
  <2>1. CASE t.from = None
    <3>1. After(t) = t.to /\ t.to.nonce = 0
        BY <1>2, <2>1, AfterType DEF Sound, Fresh
    <3> QED BY <3>1 DEF Has
  <2>2. CASE t.to = None
      BY <1>2, <2>2, AfterType DEF Has
  <2>3. CASE t.from # None /\ t.to # None
    <3>1. t.from \in Rows /\ t.to \in Rows /\ user[u] \in Rows
        BY <1>2, <2>3, AfterType, SMTT(40) DEF Transactions, TypeOK
    <3>2. After(t).nonce = IF t.to.nonce # t.from.nonce THEN t.to.nonce ELSE user[u].nonce
      <4>1. After(t) = Written(user[u], t.from, t.to)
          BY <1>2, <2>3, AfterType
      <4>2. Written(user[u], t.from, t.to).nonce
              = IF t.to.nonce # t.from.nonce THEN t.to.nonce ELSE user[u].nonce
          BY <3>1, WrittenField
      <4> QED BY <4>1, <4>2
    <3>3. t.spends = n => t.from.nonce = n /\ t.to.nonce = 0
        BY <1>1, <1>2 DEF Nonce, Spends, Spender
    <3> QED BY <1>2, <2>3, <3>1, <3>2, <3>3, NoRow DEF Has, Grants, Update
  <2> QED BY <2>1, <2>2, <2>3
<1>7. Used(resets', n) => Used(resets, n) \/ Spends(t, n)
    BY <1>2, <1>3 DEF Used, Spends, TypeOK
<1> HIDE DEF t, u
<1>8. \A v \in Users : Has(user'[v], n) => Has(user[v], n) \/ (v = u /\ Grants(t, n))
    BY <1>4, <1>6
<1>9. n > nonces => Unissued(user', web', resets', n)
    BY <1>1, <1>5, <1>7, <1>8 DEF Nonce, Unissued, t
<1>10. Grants(t, n) => \A v \in Users : ~Has(user[v], n)
    BY <1>1 DEF Nonce, Pristine, t
<1>11. Single(user', n)
    BY <1>1, <1>8, <1>10 DEF Nonce, Single
<1>12. ASSUME NEW v \in Sessions, Grants(web'[v], n)
       PROVE  Pristine(user', web', resets', v, n)
  <2>1. v # w /\ Pristine(user, web, resets, v, n)
      BY <1>1, <1>5, <1>12 DEF Nonce
  <2>2. ~Grants(t, n) /\ ~Spends(t, n)
      BY <2>1 DEF Pristine, t
  <2> QED BY <1>5, <1>7, <1>8, <2>1, <2>2 DEF Pristine
<1>13. ASSUME NEW v \in Sessions, Spends(web'[v], n)
       PROVE  Spender(user', web'[v], n)
  <2>1. v # w /\ Spends(web[v], n) /\ Spender(user, web[v], n) /\ web'[v] = web[v]
      BY <1>1, <1>4, <1>5, <1>13 DEF Nonce
  <2>2. ~Grants(t, n)
      BY <1>1, <2>1 DEF Nonce, Pristine, t
  <2> QED BY <1>8, <2>1, <2>2 DEF Spender
<1>14. ASSUME Used(resets', n), NEW v \in Users
       PROVE  ~Has(user'[v], n)
  <2>1. CASE Used(resets, n)
      BY <1>1, <1>8, <2>1 DEF Nonce, Pristine, t
  <2>2. CASE Spends(t, n)
    <3>1. Spender(user, t, n) /\ ~Grants(t, n)
        BY <1>1, <2>2 DEF Nonce, Pristine, t
    <3>2. v # u => ~Has(user'[v], n)
        BY <1>8, <3>1 DEF Spender, u
    <3>3. ~Has(user'[u], n)
        BY <1>4, <1>6, <2>2, <3>1 DEF Spends
    <3> QED BY <3>2, <3>3
  <2> QED BY <1>7, <1>14, <2>1, <2>2
<1> QED BY <1>9, <1>11, <1>12, <1>13, <1>14 DEF Nonce

LEMMA NonceStep == ASSUME TypeOK, SoundWeb, NonceInv, [Next]_vars PROVE NonceInv'
<1>1. ASSUME NEW w \in Sessions, Rollback(w) PROVE NonceInv'
  <2> SUFFICES ASSUME NEW n \in Nat \ {0} PROVE Nonce(user, web', resets, nonces, n)
      BY <1>1 DEF NonceInv, Rollback, history
  <2>1. Nonce(user, web, resets, nonces, n)
      BY DEF NonceInv
  <2>2. \A v \in Sessions : web'[v] = web[v] \/ web'[v] = Idle
      BY <1>1 DEF Rollback, TypeOK
  <2>3. \A v \in Sessions : /\ Grants(web'[v], n) => Grants(web[v], n)
                            /\ Spends(web'[v], n) => Spends(web[v], n) /\ web'[v] = web[v]
      BY <2>2 DEF Grants, Spends
  <2>4. n > nonces => Unissued(user, web', resets, n)
      BY <2>1, <2>3 DEF Nonce, Unissued
  <2>5. \A v \in Sessions : Grants(web'[v], n) => Pristine(user, web', resets, v, n)
      BY <2>1, <2>3 DEF Nonce, Pristine
  <2> QED BY <2>1, <2>3, <2>4, <2>5 DEF Nonce
<1>2. CASE Aside
    BY <1>2 DEF Aside, NonceInv
<1>3. ASSUME NEW w \in Sessions, NEW c, Recodes(w, c) PROVE NonceInv'
  <2> SUFFICES ASSUME NEW n \in Nat \ {0} PROVE Nonce(user, web', resets, nonces, n)
      BY <1>3 DEF NonceInv, Recodes
  <2>1. Nonce(user, web, resets, nonces, n)
      BY DEF NonceInv
  <2>2. \A v \in Sessions : /\ Grants(web'[v], n) <=> Grants(web[v], n)
                            /\ Spends(web'[v], n) <=> Spends(web[v], n)
                            /\ Spender(user, web[v], n) => Spender(user, web'[v], n)
      BY <1>3, RecodedWeb DEF Grants, Spends, Spender, Update, Same
  <2>3. n > nonces => Unissued(user, web', resets, n)
      BY <2>1, <2>2 DEF Nonce, Unissued
  <2>4. \A v \in Sessions : Grants(web'[v], n) => Pristine(user, web', resets, v, n)
      BY <2>1, <2>2 DEF Nonce, Pristine
  <2> QED BY <2>1, <2>2, <2>3, <2>4 DEF Nonce
<1> QED BY <1>1, <1>2, <1>3, NonceStarts, NonceCommits, Steps

LEMMA ResetStep ==
    ASSUME TypeOK, NonceInv, [Next]_vars, NEW n \in DOMAIN resets, resets[n] > 0, resets'[n] # resets[n]
    PROVE  \E w \in Sessions : /\ web[w] # Idle /\ web[w].spends = n
                               /\ web[w].from # user[web[w].user]
<1>1. PICK w \in Sessions : Commit(w)
    BY Steps DEF Starts, Rollback, Recodes, Aside, history
<1>2. web[w] # Idle /\ web[w].spends = n /\ web[w] \in Transactions
    BY <1>1, CommitTypes DEF Commit
<1>3. n \in Nat \ {0}
    BY DEF TypeOK
<1>4. Nonce(user, web, resets, nonces, n)
    BY <1>3 DEF NonceInv
<1>5. web[w].from # None /\ web[w].from.nonce = n /\ web[w].user \in Users
    BY <1>2, <1>4 DEF Nonce, Spends, Spender, Update, Transactions
<1>6. ~Has(user[web[w].user], n)
    BY <1>4, <1>5 DEF Nonce, Used
<1> QED BY <1>2, <1>5, <1>6 DEF Has

\* A reset link sets a second password only by a request that overlapped the
\* first: the nonce of the link is cleared with the first password, and no row
\* gets it again (reset_password, auth_account.py:6948).
THEOREM ResetIsOnce == Spec => ResetLinkOnce
<1> DEFINE Inv == TypeOK /\ SoundWeb /\ NonceInv
<1>1. Init => NonceInv
  <2> SUFFICES ASSUME Init, NEW n \in Nat \ {0} PROVE Nonce(user, web, resets, nonces, n)
      BY DEF NonceInv
  <2>1. \A u \in Users : ~Has(user[u], n)
    <3>1. PICK s \in SUBSET Users, e \in Emails :
            user = [u \in Users |-> IF u \in s THEN [NewRow(e, TRUE, None, FALSE) EXCEPT !.status = "approved"]
                                    ELSE None]
        BY DEF Init
    <3>2. [NewRow(e, TRUE, None, FALSE) EXCEPT !.status = "approved"].nonce = 0
        BY DEF NewRow
    <3> QED BY <3>1, <3>2 DEF Has
  <2>2. \A w \in Sessions : web[w] = Idle
      BY DEF Init
  <2>3. ~Used(resets, n)
      BY DEF Init, Used
  <2> QED BY <2>1, <2>2, <2>3 DEF Nonce, Unissued, Single, Pristine, Grants, Spends
<1>2. Init => Inv
    BY <1>1, InitTypes
<1>3. Inv /\ [Next]_vars => Inv'
    BY TypesStep, SoundStep, NonceStep
<1>4. Inv /\ [Next]_vars =>
        [\A n \in DOMAIN resets :
           resets[n] > 0 /\ resets'[n] # resets[n]
             => \E w \in Sessions : /\ web[w] # Idle /\ web[w].spends = n
                                    /\ web[w].from # user[web[w].user]]_vars
    BY ResetStep
<1> QED BY <1>2, <1>3, <1>4, PTL DEF Spec, ResetLinkOnce

-----------------------------------------------------------------------------
(* The change of an address.                                               *)
(*                                                                         *)
(* On a row that no request wrote unseen, a stamp tells that the link of   *)
(* the address was opened for the change that is pending.                  *)

Told(r, u, o) == /\ r.currentOk => CurrentLink(u, r) \in o
                 /\ r.newOk => NewLink(u, r) \in o

StampsInv == \A u \in Users \ blind : user[u] # None => Told(user[u], u, opened)

\* What a commit does to the members it is not about.
LEMMA OthersTold ==
    ASSUME NEW w \in Sessions, Commit(w), NEW v, v # web[w].user, NEW r,
           Told(r, v, opened)
    PROVE  Told(r, v, opened')
<1>1. {l \in opened : l.user # web[w].user} \subseteq opened'
    BY DEF Commit
<1>2. CurrentLink(v, r).user = v /\ NewLink(v, r).user = v
    BY DEF CurrentLink, NewLink
<1> QED BY <1>1, <1>2 DEF Told

\* A commit of what was last seen writes what the transaction is to write.
LEMMA SeenCommit ==
    ASSUME TypeOK, SoundWeb, NEW w \in Sessions, Commit(w), NEW u, u = web[w].user, u \notin blind',
           user[u] # None, user'[u] # None
    PROVE  /\ web[w].from = user[u] /\ web[w].to # None /\ Stamped(web[w])
           /\ user'[u].email = web[w].to.email /\ user'[u].pending = web[w].to.pending
           /\ user'[u].currentOk = web[w].to.currentOk /\ user'[u].newOk = web[w].to.newOk
           /\ opened' = IF web[w].restart THEN {l \in opened : l.user # u} ELSE opened \cup web[w].opens
           /\ u \notin blind
<1> DEFINE t == web[w]
<1>1. t \in Transactions /\ ~Gone(t) /\ t # Idle /\ u \in Users /\ Sound(t)
    BY CommitTypes DEF Commit, Transactions, SoundWeb
<1>2. user[u] = t.from /\ t.from # None /\ u \notin blind
    BY <1>1 DEF Commit, Gone
<1>3. user'[u] = After(t)
    BY <1>1 DEF Commit, TypeOK
<1>4. t.to # None
    BY <1>1, <1>3, AfterType
<1>5. Stamped(t)
    BY <1>1, <1>2, <1>4 DEF Sound
<1>6. After(t) = Written(user[u], t.from, t.to)
    BY <1>1, <1>2, <1>4, AfterType
<1>7. t.from \in Rows /\ t.to \in Rows
    BY <1>1, <1>2, <1>4 DEF Transactions
<1>8. opened' = IF t.restart THEN {l \in opened : l.user # u} ELSE opened \cup t.opens
    BY <1>2 DEF Commit
<1> HIDE DEF t
<1>9. /\ user'[u].email = t.to.email /\ user'[u].pending = t.to.pending
      /\ user'[u].currentOk = t.to.currentOk /\ user'[u].newOk = t.to.newOk
    BY <1>2, <1>3, <1>6, <1>7, WrittenField
<1> QED BY <1>2, <1>4, <1>5, <1>8, <1>9 DEF t

LEMMA StampsCommit ==
    ASSUME TypeOK, SoundWeb, StampsInv, NEW w \in Sessions, Commit(w)
    PROVE  StampsInv'
<1> DEFINE t == web[w]
<1>1. t \in Transactions /\ ~Gone(t) /\ t # Idle /\ t.user \in Users /\ Sound(t)
    BY CommitTypes DEF Commit, Transactions, SoundWeb
<1> SUFFICES ASSUME NEW u \in Users, u \notin blind', user'[u] # None
             PROVE  Told(user'[u], u, opened')
    BY DEF StampsInv
<1>2. CASE u # t.user
  <2>1. user'[u] = user[u] /\ u \notin blind
      BY <1>2 DEF Commit, TypeOK
  <2> QED BY <1>2, <2>1, OthersTold DEF StampsInv
<1>3. CASE u = t.user /\ user[u] = None
  <2>1. t.from = None /\ user'[u] = t.to
      BY <1>1, <1>3, AfterType DEF Commit, TypeOK
  <2> QED BY <1>1, <2>1 DEF Sound, Fresh, Told
<1>4. CASE u = t.user /\ user[u] # None
  <2>1. /\ t.from = user[u] /\ t.to # None /\ Stamped(t)
        /\ user'[u].email = t.to.email /\ user'[u].pending = t.to.pending
        /\ user'[u].currentOk = t.to.currentOk /\ user'[u].newOk = t.to.newOk
        /\ opened' = IF t.restart THEN {l \in opened : l.user # u} ELSE opened \cup t.opens
        /\ u \notin blind
      BY <1>4, SeenCommit
  <2>2. Told(t.from, u, opened)
      BY <1>4, <2>1 DEF StampsInv
  <2> HIDE DEF t
  <2>3. CASE ~t.to.currentOk /\ ~t.to.newOk
      BY <2>1, <2>3 DEF Told
  <2>4. CASE /\ ~t.restart /\ t.to.email = t.from.email /\ t.to.pending = t.from.pending
             /\ t.to.currentOk => t.from.currentOk \/ CurrentLink(t.user, t.from) \in t.opens
             /\ t.to.newOk => t.from.newOk \/ NewLink(t.user, t.from) \in t.opens
    <3>1. opened' = opened \cup t.opens
        BY <2>1, <2>4
    <3>2. CurrentLink(u, user'[u]) = CurrentLink(u, t.from) /\ NewLink(u, user'[u]) = NewLink(u, t.from)
        BY <2>1, <2>4 DEF CurrentLink, NewLink
    <3> QED BY <1>4, <2>1, <2>2, <2>4, <3>1, <3>2 DEF Told
  <2> QED BY <2>1, <2>3, <2>4 DEF Stamped
<1> QED BY <1>2, <1>3, <1>4

LEMMA StampsStep == ASSUME TypeOK, SoundWeb, StampsInv, [Next]_vars PROVE StampsInv'
<1>1. ASSUME UNCHANGED <<user, blind, opened>> PROVE StampsInv'
    BY <1>1 DEF StampsInv
<1> QED BY <1>1, StampsCommit, Steps DEF Starts, Rollback, Recodes, Aside, history

LEMMA ChangeStep ==
    ASSUME TypeOK, SoundWeb, StampsInv, [Next]_vars, NEW u \in Users,
           user[u] # None, user'[u] # None, user'[u].email # user[u].email, u \notin blind'
    PROVE  ChangeLinks(u, user[u].email, user'[u].email) \subseteq opened'
<1>1. PICK w \in Sessions : Commit(w)
    BY Steps DEF Starts, Rollback, Recodes, Aside, history
<1> DEFINE t == web[w]
<1>2. u = t.user
    BY <1>1 DEF Commit, TypeOK
<1>3. /\ t.from = user[u] /\ Stamped(t) /\ user'[u].email = t.to.email
      /\ opened' = IF t.restart THEN {l \in opened : l.user # u} ELSE opened \cup t.opens
      /\ u \notin blind
    BY <1>1, <1>2, SeenCommit
<1> HIDE DEF t
<1>4. /\ ~t.restart /\ t.to.email = t.from.pending
      /\ t.from.currentOk \/ CurrentLink(t.user, t.from) \in t.opens
      /\ t.from.newOk \/ NewLink(t.user, t.from) \in t.opens
    BY <1>3 DEF Stamped
<1>5. Told(t.from, u, opened)
    BY <1>3 DEF StampsInv
<1>6. CurrentLink(u, t.from) \in opened' /\ NewLink(u, t.from) \in opened'
    BY <1>2, <1>3, <1>4, <1>5 DEF Told
<1>7. ASSUME NEW l \in ChangeLinks(u, t.from.email, t.from.pending)
      PROVE  l = CurrentLink(u, t.from) \/ l = NewLink(u, t.from)
    BY DEF ChangeLinks, CurrentLink, NewLink
<1> QED BY <1>3, <1>4, <1>6, <1>7

\* Whatever requests replace, repeat or cancel a change, the address changes only
\* after the links to both addresses were opened for this change, unless a request
\* wrote the row without having seen its last change (account_confirm_email_change,
\* routes/account.py:380).
THEOREM BothConfirm == Spec => ChangeConfirmedByBoth
<1> DEFINE Inv == TypeOK /\ SoundWeb /\ StampsInv
<1>1. Init => StampsInv
  <2> SUFFICES ASSUME Init, NEW u \in Users, user[u] # None PROVE Told(user[u], u, opened)
      BY DEF StampsInv
  <2>1. PICK s \in SUBSET Users, e \in Emails :
          user = [v \in Users |-> IF v \in s THEN [NewRow(e, TRUE, None, FALSE) EXCEPT !.status = "approved"]
                                  ELSE None]
      BY DEF Init
  <2>2. ~[NewRow(e, TRUE, None, FALSE) EXCEPT !.status = "approved"].currentOk
        /\ ~[NewRow(e, TRUE, None, FALSE) EXCEPT !.status = "approved"].newOk
      BY DEF NewRow
  <2> QED BY <2>1, <2>2 DEF Told
<1>2. Init => Inv
    BY <1>1, InitTypes
<1>3. Inv /\ [Next]_vars => Inv'
    BY TypesStep, SoundStep, StampsStep
<1>4. Inv /\ [Next]_vars =>
        [\A u \in Users :
           user[u] # None /\ user'[u] # None /\ user'[u].email # user[u].email /\ u \notin blind'
             => ChangeLinks(u, user[u].email, user'[u].email) \subseteq opened']_vars
    BY ChangeStep
<1> QED BY <1>2, <1>3, <1>4, PTL DEF Spec, ChangeConfirmedByBoth

HIDE MembersAssumption

-----------------------------------------------------------------------------
(* Replay bars *)

\* Of any trades, fewer than MaxBatch are newer than the oldest one that is taken.
LEMMA NewestAreFew ==
    ASSUME NEW ts \in SUBSET Trades
    PROVE  /\ Newest(ts) \subseteq ts
           /\ IsFiniteSet(Newest(ts)) /\ Cardinality(Newest(ts)) <= MaxBatch
<1> DEFINE N == Newest(ts)
<1>1. N \subseteq ts /\ N \subseteq Nat /\ IsFiniteSet(ts) /\ MaxBatch \in Nat \ {0}
    BY BarsAssumption, FS_Subset DEF Newest
<1>2. IsFiniteSet(N) /\ Cardinality(N) \in Nat
    BY <1>1, FS_Subset, FS_CardinalityType
<1>3. CASE N = {}
    BY <1>1, <1>2, <1>3, FS_EmptySet
<1>4. CASE N # {}
  <2>1. PICK m \in N : \A n \in N : ~ (<<n, m>> \in OpToRel(<, Nat))
    BY <1>1, <1>4, NatLessThanWellFounded, WFMin
  <2>2. \A n \in N : n = m \/ n > m
    <3> SUFFICES ASSUME NEW n \in N PROVE n = m \/ n > m
      OBVIOUS
    <3>1. ~(n < m) /\ n \in Nat /\ m \in Nat
      BY <1>1, <2>1 DEF OpToRel
    <3> QED BY <3>1
  <2> DEFINE newer == {u \in ts : u > m}
  <2>3. Cardinality(newer) < MaxBatch
    BY DEF Newest
  <2>4. IsFiniteSet(newer) /\ Cardinality(newer) \in Nat
    BY <1>1, FS_Subset, FS_CardinalityType
  <2>5. N \ {m} \subseteq newer
    BY <1>1, <2>2
  <2>6. Cardinality(N \ {m}) <= Cardinality(newer)
    BY <2>4, <2>5, FS_Subset
  <2> HIDE DEF N, newer
  <2>7. Cardinality(N \ {m}) = Cardinality(N) - 1
    BY <1>2, <2>1, FS_RemoveElement
  <2>8. Cardinality(N) <= MaxBatch
    BY <1>1, <1>2, <2>3, <2>4, <2>6, <2>7
  <2> QED BY <1>1, <1>2, <2>8 DEF N
<1> QED BY <1>3, <1>4

Stages == {"none", "queued", "fetched", "posted"}
JobType == [at : Stages, of : SUBSET Trades, got : [Trades -> SUBSET Windows], late : SUBSET Trades]

\* A task has fetched bars for trades of its message only, as few as a message names.
JobOK(j, r) ==
    /\ \A t \in Trades : r.got[t] # {} => t \in r.of
    /\ j \in Batches => IsFiniteSet(r.of) /\ Cardinality(r.of) <= MaxBatch

BarsInv == BarsTypeOK /\ \A j \in Jobs : JobOK(j, job[j])

\* What a step leaves of BarsTypeOK besides the jobs.
RestOK ==
    /\ auto \in BOOLEAN /\ plan \in BOOLEAN /\ beat \in BOOLEAN
    /\ interventions \in 0..MaxInterventions
    /\ account \in {"active", "inactive", "tombstone"}
    /\ life \in [Trades -> Lives]
    /\ times \in [Trades -> 0..MaxShift]
    /\ bars \in [Trades -> SUBSET Windows]
JobsOK == job \in [Jobs -> JobType] /\ \A j \in Jobs : JobOK(j, job[j])

LEMMA BarsParts == BarsInv <=> RestOK /\ JobsOK
BY DEF BarsInv, RestOK, JobsOK, BarsTypeOK, JobType, Stages

LEMMA NoJobOK == NoJob \in JobType /\ \A j : JobOK(j, NoJob)
<1>1. IsFiniteSet({}) /\ Cardinality({}) = 0 /\ MaxBatch \in Nat
    BY FS_EmptySet, BarsAssumption
<1> QED BY <1>1 DEF NoJob, JobType, Stages, JobOK

LEMMA ShortenOK == ASSUME NEW ws \in SUBSET Windows
                   PROVE  Shorten(ws) \in SUBSET Windows /\ (Shorten(ws) # {} => ws # {})
BY DEF Shorten, Windows

LEMMA QueueKeeps ==
    ASSUME JobsOK, NEW j \in Jobs, NEW ts \in SUBSET Trades, Queue(j, ts),
           j \in Batches => IsFiniteSet(ts) /\ Cardinality(ts) <= MaxBatch
    PROVE  JobsOK'
<1> DEFINE r == [NoJob EXCEPT !.at = "queued", !.of = ts]
<1>1. job' = [job EXCEPT ![j] = r]
    BY DEF Queue
<1>2. r \in JobType /\ r.of = ts /\ \A t \in Trades : r.got[t] = {}
    BY NoJobOK DEF JobType, Stages, NoJob
<1> HIDE DEF r
<1>3. JobOK(j, r)
    BY <1>2 DEF JobOK
<1> QED BY <1>1, <1>2, <1>3 DEF JobsOK

LEMMA BarsInitially == BarsInit => BarsInv
<1> SUFFICES ASSUME BarsInit PROVE BarsInv
    OBVIOUS
<1>1. RestOK
  <2>1. life \in [Trades -> Lives]
    BY DEF BarsInit, Lives
  <2>2. times \in [Trades -> 0..MaxShift] /\ interventions \in 0..MaxInterventions
    BY BarsAssumption DEF BarsInit
  <2> QED BY <2>1, <2>2 DEF BarsInit, RestOK
<1>2. JobsOK
    BY NoJobOK DEF BarsInit, JobsOK
<1> QED BY <1>1, <1>2, BarsParts

\* What queues tasks.
LEMMA QueueingKeeps ==
    ASSUME BarsInv, Sync \/ SetAuto \/ (\E t \in Trades, force \in BOOLEAN : Backfill(t, force))
    PROVE  BarsInv'
<1>1. RestOK /\ JobsOK
    BY BarsParts
<1>2. CASE Sync
  <2> DEFINE ts == Newest({t \in Missing : Allowed(t)})
  <2>1. RestOK'
    BY <1>1, <1>2 DEF RestOK, Sync
  <2>2. ts \in SUBSET Trades /\ IsFiniteSet(ts) /\ Cardinality(ts) <= MaxBatch
    BY NewestAreFew DEF Missing
  <2>3. (\E j \in Batches : Queue(j, ts)) \/ job' = job
    BY <1>2 DEF Sync
  <2> HIDE DEF ts
  <2>4. JobsOK'
    <3>1. CASE job' = job
      BY <1>1, <3>1 DEF JobsOK
    <3>2. CASE \E j \in Batches : Queue(j, ts)
      BY <1>1, <2>2, <3>2, QueueKeeps DEF Jobs
    <3> QED BY <2>3, <3>1, <3>2
  <2> QED BY <2>1, <2>4, BarsParts, PTL
<1>3. CASE SetAuto
  <2>1. RestOK' /\ JobsOK'
    BY <1>1, <1>3, BarsAssumption DEF RestOK, JobsOK, SetAuto, Intervene
  <2> QED BY <2>1, BarsParts, PTL
<1>4. ASSUME NEW t \in Trades, NEW force \in BOOLEAN, Backfill(t, force)
      PROVE  BarsInv'
  <2>1. RestOK'
    BY <1>1, <1>4, BarsAssumption DEF RestOK, Backfill, Intervene
  <2>2. IsFiniteSet({t}) /\ Cardinality({t}) <= MaxBatch
    <3>1. IsFiniteSet({t}) /\ Cardinality({t}) = 1
      BY FS_Singleton
    <3>2. MaxBatch \in Nat \ {0}
      BY BarsAssumption
    <3> QED BY <3>1, <3>2
  <2>3. JobsOK'
    BY <1>1, <1>4, <2>2, QueueKeeps DEF Backfill, Jobs
  <2> QED BY <2>1, <2>3, BarsParts, PTL
<1> QED BY <1>2, <1>3, <1>4

\* The job of a message changes, and stays within what its message names.
LEMMA JobChanges ==
    ASSUME JobsOK, NEW j \in Jobs, NEW r \in JobType, job' = [job EXCEPT ![j] = r],
           JobOK(j, r)
    PROVE  JobsOK'
BY DEF JobsOK

\* The worker and the handler, up to the commit.
LEMMA WorkingKeeps ==
    ASSUME BarsInv, NEW j \in Jobs,
           \/ \E ts \in SUBSET Trades : Fetch(j, ts)
           \/ GiveUp(j) \/ Redeliver(j) \/ Post(j) \/ Refuse(j)
    PROVE  BarsInv'
<1> DEFINE r == job[j]
<1>1. RestOK /\ JobsOK /\ r \in JobType /\ JobOK(j, r)
    BY BarsParts DEF JobsOK
<1>2. RestOK'
    BY <1>1 DEF RestOK, Fetch, GiveUp, Redeliver, Post, Refuse
<1>3. ASSUME NEW ts \in SUBSET Trades, Fetch(j, ts)
      PROVE  JobsOK'
  <2> DEFINE got == [t \in Trades |-> IF t \in ts THEN {Fetched(t)} ELSE {}]
             q == [r EXCEPT !.at = "fetched", !.got = got]
  <2>1. job' = [job EXCEPT ![j] = q] /\ ts \subseteq r.of
    BY <1>1, <1>3 DEF Fetch, ToFetch, JobsOK
  <2>2. got \in [Trades -> SUBSET Windows]
    BY <1>1 DEF Fetched, Windows, RestOK
  <2>3. \A t \in Trades : got[t] # {} => t \in ts
    OBVIOUS
  <2> HIDE DEF got
  <2>4. q \in JobType /\ q.of = r.of /\ q.got = got
    BY <1>1, <2>2 DEF JobType, Stages
  <2> HIDE DEF q, r
  <2>5. JobOK(j, q)
    BY <1>1, <2>1, <2>3, <2>4 DEF JobOK
  <2> QED BY <1>1, <2>1, <2>4, <2>5, JobChanges
<1>4. ASSUME GiveUp(j) \/ Refuse(j) PROVE JobsOK'
    BY <1>1, <1>4, NoJobOK, JobChanges DEF GiveUp, Refuse
<1>5. ASSUME Redeliver(j) PROVE JobsOK'
  <2> DEFINE q == [r EXCEPT !.at = "queued", !.got = NoJob.got]
  <2>1. job' = [job EXCEPT ![j] = q]
    BY <1>1, <1>5 DEF Redeliver, JobsOK
  <2>2. q \in JobType /\ q.of = r.of /\ q.got = [t \in Trades |-> {}]
    BY <1>1 DEF JobType, Stages, NoJob
  <2> HIDE DEF q, r
  <2>3. JobOK(j, q)
    BY <1>1, <2>2 DEF JobOK
  <2> QED BY <1>1, <2>1, <2>2, <2>3, JobChanges
<1>6. ASSUME Post(j) PROVE JobsOK'
  <2> DEFINE q == [r EXCEPT !.at = "posted"]
  <2>1. job' = [job EXCEPT ![j] = q]
    BY <1>1, <1>6 DEF Post, JobsOK
  <2>2. q \in JobType /\ q.of = r.of /\ q.got = r.got
    BY <1>1 DEF JobType, Stages
  <2> HIDE DEF q, r
  <2>3. JobOK(j, q)
    BY <1>1, <2>2 DEF JobOK
  <2> QED BY <1>1, <2>1, <2>2, <2>3, JobChanges
<1>7. JobsOK'
    BY <1>3, <1>4, <1>5, <1>6
<1> QED BY <1>2, <1>7, BarsParts, PTL

LEMMA StoreKeeps ==
    ASSUME BarsInv, NEW j \in Jobs, Store(j)
    PROVE  BarsInv'
<1>1. RestOK /\ JobsOK
    BY BarsParts
<1>2. RestOK'
    BY <1>1 DEF RestOK, JobsOK, JobType, Store
<1> DEFINE late(k) == IF job[k].at = "posted" THEN job[k].late \cup Items(j) ELSE job[k].late
           q(k) == IF k = j THEN NoJob ELSE [job[k] EXCEPT !.late = late(k)]
<1>3. job' = [k \in Jobs |-> q(k)]
    BY DEF Store
<1>4. ASSUME NEW k \in Jobs PROVE q(k) \in JobType /\ JobOK(k, q(k))
  <2>1. job[k] \in JobType /\ JobOK(k, job[k])
    BY <1>1 DEF JobsOK
  <2>2. late(k) \in SUBSET Trades
    BY <2>1 DEF Items, JobType
  <2> DEFINE m == late(k)
             p == [job[k] EXCEPT !.late = m]
  <2> HIDE DEF late
  <2>3. p \in JobType /\ p.of = job[k].of /\ p.got = job[k].got
    BY <2>1, <2>2 DEF JobType
  <2> HIDE DEF p
  <2>4. JobOK(k, p)
    BY <2>1, <2>3 DEF JobOK
  <2> QED BY <2>3, <2>4, NoJobOK DEF p
<1> HIDE DEF q
<1>5. JobsOK'
    BY <1>3, <1>4 DEF JobsOK
<1> QED BY <1>2, <1>5, BarsParts, PTL

\* The trades, the account and the clock.
LEMMA ElapseKeeps ==
    ASSUME BarsInv, NEW t \in Trades, Elapse(t)
    PROVE  BarsInv'
<1>1. RestOK /\ JobsOK
    BY BarsParts
<1>2. RestOK'
  <2>1. bars' \in [Trades -> SUBSET Windows]
    BY <1>1, ShortenOK DEF RestOK, Elapse
  <2> QED BY <1>1, <2>1 DEF RestOK, Elapse
<1> DEFINE q(k) == [job[k] EXCEPT !.got[t] = Shorten(@)]
<1>3. job' = [k \in Jobs |-> q(k)]
    BY DEF Elapse
<1>4. ASSUME NEW k \in Jobs PROVE q(k) \in JobType /\ JobOK(k, q(k))
  <2>1. job[k] \in JobType /\ JobOK(k, job[k])
    BY <1>1 DEF JobsOK
  <2> DEFINE g == job[k].got
             w == Shorten(g[t])
             h == [g EXCEPT ![t] = w]
             p == [job[k] EXCEPT !.got = h]
  <2>2. w \in SUBSET Windows /\ (w # {} => g[t] # {})
    BY <2>1, ShortenOK DEF JobType
  <2>3. q(k) = p
    BY <2>1 DEF JobType
  <2> HIDE DEF w
  <2>4. h \in [Trades -> SUBSET Windows] /\ \A u \in Trades : h[u] # {} => g[u] # {}
    BY <2>1, <2>2 DEF JobType
  <2> HIDE DEF h
  <2>5. p \in JobType /\ p.of = job[k].of /\ p.got = h
    BY <2>1, <2>4 DEF JobType
  <2> HIDE DEF p
  <2>6. JobOK(k, p)
    BY <2>1, <2>4, <2>5 DEF JobOK
  <2> QED BY <2>3, <2>5, <2>6
<1> HIDE DEF q
<1>5. JobsOK'
    BY <1>3, <1>4 DEF JobsOK
<1> QED BY <1>2, <1>5, BarsParts, PTL

LEMMA WorldKeeps ==
    ASSUME BarsInv,
           \/ \E t \in Trades : Close(t) \/ Mature(t) \/ MoveTimes(t) \/ DeleteTrade(t)
           \/ Clear \/ (\E s \in {"active", "inactive", "tombstone"} : SetAccount(s))
    PROVE  BarsInv'
<1>1. RestOK /\ JobsOK
    BY BarsParts
<1>2. job' = job
    BY DEF Close, Mature, MoveTimes, DeleteTrade, Clear, SetAccount
<1>3. JobsOK'
    BY <1>1, <1>2 DEF JobsOK
<1>4. ASSUME NEW t \in Trades, Close(t) \/ Mature(t) PROVE RestOK'
    BY <1>1, <1>4 DEF RestOK, Close, Mature, Lives
<1>5. ASSUME NEW t \in Trades, MoveTimes(t) PROVE RestOK'
  <2>1. times' \in [Trades -> 0..MaxShift]
    BY <1>1, <1>5, BarsAssumption DEF RestOK, MoveTimes
  <2> QED BY <1>1, <1>5, <2>1 DEF RestOK, MoveTimes
<1>6. ASSUME NEW t \in Trades, DeleteTrade(t) PROVE RestOK'
    BY <1>1, <1>6 DEF RestOK, DeleteTrade, Lives
<1>7. ASSUME Clear PROVE RestOK'
    BY <1>1, <1>7, BarsAssumption DEF RestOK, Clear, Intervene
<1>8. ASSUME NEW s \in {"active", "inactive", "tombstone"}, SetAccount(s) PROVE RestOK'
    BY <1>1, <1>8, BarsAssumption DEF RestOK, SetAccount, Intervene
<1>9. RestOK'
    BY <1>4, <1>5, <1>6, <1>7, <1>8
<1> QED BY <1>3, <1>9, BarsParts, PTL

LEMMA BarsStep == BarsInv /\ [BarsNext]_barsVars => BarsInv'
<1> SUFFICES ASSUME BarsInv, [BarsNext]_barsVars PROVE BarsInv'
    OBVIOUS
<1>1. CASE Sync \/ SetAuto \/ (\E t \in Trades, force \in BOOLEAN : Backfill(t, force))
    BY <1>1, QueueingKeeps
<1>2. CASE \E j \in Jobs : JobStep(j)
    BY <1>2, WorkingKeeps, StoreKeeps DEF JobStep
<1>3. CASE \E t \in Trades : Elapse(t)
    BY <1>3, ElapseKeeps
<1>4. CASE \/ \E t \in Trades : Close(t) \/ Mature(t) \/ MoveTimes(t) \/ DeleteTrade(t)
           \/ Clear \/ (\E s \in {"active", "inactive", "tombstone"} : SetAccount(s))
    BY <1>4, WorldKeeps
<1>5. CASE UNCHANGED barsVars
    BY <1>5 DEF barsVars, BarsInv, BarsTypeOK
<1> QED BY <1>1, <1>2, <1>3, <1>4, <1>5 DEF BarsNext

\* The trades, bars and tasks keep their types for any trades and messages
\* (routes/mt5_internal.py:75-174, 779-949).
THEOREM BarsTypeCorrect == BarsSpec => []BarsTypeOK
<1>1. BarsInv => BarsTypeOK
    BY DEF BarsInv
<1> QED BY <1>1, BarsInitially, BarsStep, PTL DEF BarsSpec

\* A batch task names no more than max_tasks_per_sync trades, and a worker has bars
\* for the trades of its message only (mt5_internal.py:110-174, mt5_sync_tasks.py:1548).
BatchesAreSmall ==
    \A j \in Batches : /\ Items(j) \subseteq job[j].of
                       /\ IsFiniteSet(Items(j)) /\ Cardinality(Items(j)) <= MaxBatch

THEOREM BatchesStaySmall == BarsSpec => []BatchesAreSmall
<1>1. BarsInv => BatchesAreSmall
  <2> SUFFICES ASSUME BarsInv, NEW j \in Batches
               PROVE  /\ Items(j) \subseteq job[j].of
                      /\ IsFiniteSet(Items(j)) /\ Cardinality(Items(j)) <= MaxBatch
    BY DEF BatchesAreSmall
  <2>1. JobOK(j, job[j])
    BY DEF BarsInv, Jobs
  <2>2. Items(j) \subseteq job[j].of /\ IsFiniteSet(job[j].of) /\ Cardinality(job[j].of) <= MaxBatch
    BY <2>1 DEF JobOK, Items
  <2>3. IsFiniteSet(Items(j)) /\ Cardinality(Items(j)) <= Cardinality(job[j].of)
    BY <2>2, FS_Subset
  <2>4. Cardinality(Items(j)) \in Nat /\ Cardinality(job[j].of) \in Nat /\ MaxBatch \in Nat
    BY <2>2, <2>3, FS_CardinalityType, BarsAssumption
  <2> QED BY <2>2, <2>3, <2>4
<1> QED BY <1>1, BarsInitially, BarsStep, PTL DEF BarsSpec
=============================================================================
