------------------------------ MODULE Members ------------------------------
(***************************************************************************)
(* The members of the journal: sign-up by form or with Google, the signup  *)
(* code, verification and purge of unverified rows, change of the email    *)
(* address, password reset and the decisions of an administrator.          *)
(*                                                                         *)
(* Every request is a transaction on one row of users: it loads the row,   *)
(* decides, and writes back the columns whose value it changed; other      *)
(* requests may commit in between.  Only email and google_sub are unique   *)
(* in the database.  A link that was mailed can be opened any number of    *)
(* times, or never (it expired, or was lost).                              *)
(*                                                                         *)
(* Every request spends one of MaxMoves moves.                             *)
(***************************************************************************)
EXTENDS Naturals, FiniteSets

CONSTANTS
    Users,     \* primary keys of users
    Emails,    \* addresses
    Subs,      \* identities at Google
    Sessions,  \* requests that may be in progress at once
    None,      \* NULL
    MaxUses,   \* max_uses of the signup code
    Approving, \* get_auto_approve_new_users
    MaxMoves

ASSUME MembersAssumption ==
    /\ MaxUses \in Nat \ {0} /\ MaxMoves \in Nat /\ Approving \in BOOLEAN
    /\ None \notin Emails \cup Subs \cup Users

VARIABLES
    user,    \* user[u]: the row u, or None
    old,     \* the rows whose verification_sent_at has passed the maximal age
    uses,    \* used_count of the signup code
    active,  \* is_active of the signup code
    nonces,  \* password reset nonces made so far
    mail,    \* the links that were mailed
    web,     \* web[w]: the transaction of request w
    opened,  \* history: email change links confirmed since the change was requested
    resets,  \* history: resets[n]: passwords set with the link of nonce n
    joined,  \* history: members who became verified with the code
    doubled, \* history: uses taken for a row that another request verified meanwhile
    blind,   \* history: rows written by a request that had not seen their last change
    moves

history == <<opened, resets, joined, doubled, blind>>
vars == <<user, old, uses, active, nonces, mail, web, history, moves>>

-----------------------------------------------------------------------------
Statuses == {"pending", "approved", "rejected", "suspended"}

\* coded: signup_code_used is set.  dated: verification_sent_at is set.  nonce:
\* password_reset_nonce, 0 for NULL.  currentOk, newOk: the two stamps of a
\* pending email change.
Rows == [email : Emails, verified : BOOLEAN, status : Statuses, coded : BOOLEAN,
         dated : BOOLEAN, sub : Subs \cup {None}, nonce : Nat,
         pending : Emails \cup {None}, currentOk : BOOLEAN, newOk : BOOLEAN]

ASSUME RowAssumption == None \notin Rows

\* Signed tokens carry what they are about, not the row they were made from.
Links == [kind : {"verify"}, email : Emails]
         \cup [kind : {"reset"}, email : Emails, nonce : Nat]
         \cup [kind : {"current", "new"}, user : Users, from : Emails, to : Emails]

Verification(e) == [kind |-> "verify", email |-> e]
ChangeLinks(u, e, f) == [kind : {"current", "new"}, user : {u}, from : {e}, to : {f}]

NewRow(e, verified, s, coded) ==
    [email |-> e, verified |-> verified,
     status |-> IF Approving THEN "approved" ELSE "pending",
     coded |-> coded, dated |-> ~verified, sub |-> s, nonce |-> 0,
     pending |-> None, currentOk |-> FALSE, newOk |-> FALSE]

\* A transaction: the row as loaded (None for an insert) and as it is to be.
\* code: used_count as read by a request that takes a use, or None.  sends: links
\* mailed after the commit.  opens: the email change link, restart: the change
\* was requested or given up, spends: the nonce of a reset.
Idle == [user |-> None]
Transaction(u, from, to) ==
    [user |-> u, from |-> from, to |-> to, code |-> None, sends |-> {}, opens |-> {},
     restart |-> FALSE, spends |-> 0]
Transactions == [user : Users, from : Rows \cup {None}, to : Rows \cup {None},
                 code : Nat \cup {None}, sends : SUBSET Links, opens : SUBSET Links,
                 restart : BOOLEAN, spends : Nat]

Live == {u \in Users : user[u] # None}
WithEmail(e) == {u \in Live : user[u].email = e}

\* Begin a request.
Begin(w, t) ==
    /\ moves < MaxMoves /\ moves' = moves + 1
    /\ web[w] = Idle
    /\ web' = [web EXCEPT ![w] = t]
    /\ UNCHANGED <<user, old, uses, active, mail, history>>

\* Mutant of CodeUsable: the limit is not compared.
CodeActive == active

CodeUsable == active /\ uses < MaxUses

-----------------------------------------------------------------------------
(* Sign-up *)

\* The form: an address that is known and unverified gets a new link, any other
\* known address is refused.  The code is only checked; it is used on verification.
Register(w, u, e, coded) ==
    /\ user[u] = None /\ WithEmail(e) = {}
    /\ coded => CodeUsable
    /\ Begin(w, [Transaction(u, None, NewRow(e, FALSE, None, coded))
                   EXCEPT !.sends = {Verification(e)}])
    /\ UNCHANGED nonces

Resend(u) ==
    /\ user[u] # None /\ ~user[u].verified
    /\ mail' = mail \cup {Verification(user[u].email)}
    /\ UNCHANGED <<user, old, uses, active, nonces, web, history, moves>>

\* The use a member takes, if the code has one left.
TakenUse == IF CodeUsable THEN uses ELSE None

Verify(w, u) ==
    /\ user[u] # None /\ Verification(user[u].email) \in mail
    /\ Begin(w, [Transaction(u, user[u], [user[u] EXCEPT !.verified = TRUE])
                   EXCEPT !.code = IF user[u].coded THEN TakenUse ELSE None])
    /\ UNCHANGED nonces

\* Mutant of OpenVerification: it does not ask whether the member is verified.
OpenVerificationAgain(w, u) == Verify(w, u)

\* A member for whom the code has no use left is verified all the same.
OpenVerification(w, u) == user[u] # None /\ ~user[u].verified /\ Verify(w, u)

\* The row becomes verified, and has the code.
Joins(t) ==
    /\ t.to # None /\ t.to.coded /\ t.to.verified
    /\ t.from # None => ~t.from.verified

\* The member's row is updated before the code's row is loaded, and the update waits
\* for a request that updated the row before: the code is read when that one is done.
LoadCode(w) ==
    LET t == web[w]
    IN  /\ t # Idle /\ t.from # None /\ Joins(t)
        /\ t.to.sub = t.from.sub   \* it is OpenVerification
        /\ t.code # TakenUse
        /\ web' = [web EXCEPT ![w].code = TakenUse]
    /\ UNCHANGED <<user, old, uses, active, nonces, mail, history, moves>>

\* Sign-in with Google links the row of the address, if it has no other identity.
GoogleLink(w, u, s) ==
    /\ user[u] # None /\ \A v \in Live : user[v].sub # s
    /\ user[u].status \notin {"rejected", "suspended"} /\ user[u].sub = None
    /\ Begin(w, Transaction(u, user[u], [user[u] EXCEPT !.sub = s, !.verified = TRUE]))
    /\ UNCHANGED nonces

\* Registration with Google: the row is verified, and takes a use of the code.
GoogleRegister(w, u, e, s, coded) ==
    /\ user[u] = None /\ WithEmail(e) = {} /\ \A v \in Live : user[v].sub # s
    /\ coded => CodeUsable
    /\ Begin(w, [Transaction(u, None, NewRow(e, TRUE, s, coded))
                   EXCEPT !.code = IF coded THEN uses ELSE None])
    /\ UNCHANGED nonces

-----------------------------------------------------------------------------
(* Change of the email address *)

\* Mutant of Requested: the stamps of an earlier request stay.
RequestedAgain(r, e) == [r EXCEPT !.pending = e]

Requested(r, e) == [r EXCEPT !.pending = e, !.currentOk = FALSE, !.newOk = FALSE]

Taken(u, e) == \E v \in Live \ {u} : user[v].email = e \/ user[v].pending = e

RequestChange(w, u, e) ==
    /\ user[u] # None /\ user[u].verified
    /\ e # user[u].email /\ ~Taken(u, e)
    /\ Begin(w, [Transaction(u, user[u], Requested(user[u], e))
                   EXCEPT !.sends = ChangeLinks(u, user[u].email, e), !.restart = TRUE])
    /\ UNCHANGED nonces

CancelChange(w, u) ==
    /\ user[u] # None /\ user[u].pending # None
    /\ Begin(w, [Transaction(u, user[u], Requested(user[u], None)) EXCEPT !.restart = TRUE])
    /\ UNCHANGED nonces

\* With the second of the two stamps the address changes, unless it is taken.
Confirmed(u, r) ==
    IF ~(r.currentOk /\ r.newOk) THEN r
    ELSE IF Taken(u, r.pending) THEN Requested(r, None)
    ELSE [Requested(r, None) EXCEPT !.email = r.pending, !.verified = TRUE]

ConfirmChange(w, link) ==
    /\ link \in mail /\ link.kind \in {"current", "new"}
    /\ LET u == link.user
           r == user[u]
       IN  /\ r # None /\ r.email = link.from /\ r.pending = link.to
           /\ Begin(w, [Transaction(u, r, Confirmed(u,
                          IF link.kind = "current" THEN [r EXCEPT !.currentOk = TRUE]
                                                   ELSE [r EXCEPT !.newOk = TRUE]))
                          EXCEPT !.opens = {link}])
    /\ UNCHANGED nonces

-----------------------------------------------------------------------------
(* Password reset *)

Forgot(w, u) ==
    /\ user[u] # None
    /\ nonces' = nonces + 1
    /\ Begin(w, [Transaction(u, user[u], [user[u] EXCEPT !.nonce = nonces'])
                   EXCEPT !.sends = {[kind |-> "reset", email |-> user[u].email,
                                      nonce |-> nonces']}])

\* Mutant of Spent: the nonce stays.
SpentNot(r) == r

Spent(r) == [r EXCEPT !.nonce = 0]

Reset(w, link) ==
    /\ link \in mail /\ link.kind = "reset"
    /\ \E u \in WithEmail(link.email) :
         /\ user[u].nonce = link.nonce
         /\ Begin(w, [Transaction(u, user[u], Spent(user[u])) EXCEPT !.spends = link.nonce])
    /\ UNCHANGED nonces

-----------------------------------------------------------------------------
(* Administration and purge *)

Decide(w, u, status) ==
    /\ user[u] # None
    /\ \/ status = "approved" /\ user[u].status # "approved"
       \/ status = "rejected" /\ user[u].status = "pending"
       \/ status = "suspended" /\ user[u].status = "approved"
    /\ Begin(w, Transaction(u, user[u], [user[u] EXCEPT !.status = status]))
    /\ UNCHANGED nonces

ToggleCode ==
    /\ moves < MaxMoves /\ moves' = moves + 1
    /\ active' = ~active
    /\ UNCHANGED <<user, old, uses, nonces, mail, web, history>>

\* By the member or an administrator; the rows of the member go by cascade.
DeleteUser(w, u) ==
    /\ user[u] # None
    /\ Begin(w, Transaction(u, user[u], None))
    /\ UNCHANGED nonces

Age(u) ==
    /\ user[u] # None /\ user[u].dated /\ u \notin old
    /\ old' = old \cup {u}
    /\ UNCHANGED <<user, uses, active, nonces, mail, web, history, moves>>

\* Mutant of Purgeable: a row is left alone while a link to verify it may be valid.
PurgeableUnlinked(u) ==
    user[u] # None /\ ~user[u].verified /\ u \in old /\ Verification(user[u].email) \notin mail

Purgeable(u) == user[u] # None /\ ~user[u].verified /\ u \in old

\* Any request may find the purge due; it deletes by the primary keys it selected.
Purge(w, u) ==
    /\ Purgeable(u) /\ web[w] = Idle
    /\ web' = [web EXCEPT ![w] = Transaction(u, user[u], None)]
    /\ UNCHANGED <<user, old, uses, active, nonces, mail, history, moves>>

-----------------------------------------------------------------------------
(* Commit *)

Written(r, from, to) == [c \in DOMAIN to |-> IF to[c] # from[c] THEN to[c] ELSE r[c]]

\* The row as the commit leaves it.
After(t) == IF t.from = None \/ t.to = None THEN t.to ELSE Written(user[t.user], t.from, t.to)

\* The row to update is gone, or a unique index is violated.
Gone(t) == (t.from = None) # (user[t.user] = None)
Fails(t) ==
    \/ Gone(t)
    \/ ~Gone(t) /\ t.to # None /\ \E v \in Live \ {t.user} :
         \/ user[v].email = After(t).email
         \/ user[v].sub # None /\ user[v].sub = After(t).sub

Already(u) == user[u] # None /\ user[u].verified

Commit(w) ==
    LET t == web[w]
        u == t.user
    IN  /\ t # Idle /\ ~Fails(t)
        /\ user' = [user EXCEPT ![u] = After(t)]
        /\ old' = IF t.from = None \/ t.to = None THEN old \ {u} ELSE old
        /\ uses' = IF t.code = None THEN uses ELSE t.code + 1
        /\ mail' = mail \cup t.sends
        /\ web' = [web EXCEPT ![w] = Idle]
        /\ opened' = IF t.restart \/ t.from = None THEN {l \in opened : l.user # u}
                     ELSE opened \cup t.opens
        /\ resets' = [n \in DOMAIN resets |-> IF n = t.spends THEN resets[n] + 1 ELSE resets[n]]
        /\ joined' = IF Joins(t) /\ ~Already(u) THEN joined + 1 ELSE joined
        /\ doubled' = IF t.code # None /\ Joins(t) /\ Already(u) THEN doubled + 1 ELSE doubled
        /\ blind' = IF user[u] # t.from THEN blind \cup {u}
                    ELSE IF t.from = None THEN blind \ {u} ELSE blind
        /\ UNCHANGED <<active, nonces, moves>>

Rollback(w) ==
    /\ web[w] # Idle /\ Fails(web[w])
    /\ web' = [web EXCEPT ![w] = Idle]
    /\ UNCHANGED <<user, old, uses, active, nonces, mail, history, moves>>

-----------------------------------------------------------------------------
\* At most one row exists at first: a verified member.  The members who used the
\* code before are others.
Init ==
    /\ \E s \in SUBSET Users, e \in Emails :
         /\ Cardinality(s) <= 1
         /\ user = [u \in Users |-> IF u \in s THEN [NewRow(e, TRUE, None, FALSE)
                                                       EXCEPT !.status = "approved"]
                                    ELSE None]
    /\ old = {} /\ active = TRUE /\ nonces = 0 /\ mail = {}
    /\ web = [w \in Sessions |-> Idle]
    /\ opened = {} /\ resets = [n \in 1 .. MaxMoves |-> 0]
    /\ uses \in 0 .. MaxUses /\ joined = uses /\ doubled = 0 /\ blind = {} /\ moves = 0

SignUp(w, u) ==
    \/ \E e \in Emails, coded \in BOOLEAN :
         Register(w, u, e, coded) \/ \E s \in Subs : GoogleRegister(w, u, e, s, coded)
    \/ OpenVerification(w, u)
    \/ \E s \in Subs : GoogleLink(w, u, s)

Account(w, u) ==
    \/ (\E e \in Emails : RequestChange(w, u, e)) \/ CancelChange(w, u)
    \/ Forgot(w, u) \/ DeleteUser(w, u)
    \/ \E s \in Statuses : Decide(w, u, s)
    \/ Purge(w, u)

Next ==
    \/ \E w \in Sessions :
         \/ \E u \in Users : SignUp(w, u) \/ Account(w, u)
         \/ \E l \in mail : ConfirmChange(w, l) \/ Reset(w, l)
         \/ LoadCode(w) \/ Commit(w) \/ Rollback(w)
    \/ \E u \in Users : Resend(u) \/ Age(u)
    \/ ToggleCode

Spec == Init /\ [][Next]_vars

\* Requests keep arriving, so the purge is run again and again (every 15 minutes
\* at most), requests end, and time passes.
FairSpec ==
    /\ Spec
    /\ \A w \in Sessions : WF_vars(Commit(w) \/ Rollback(w))
    /\ \A u \in Users : WF_vars(Age(u)) /\ SF_vars(\E w \in Sessions : Purge(w, u))

-----------------------------------------------------------------------------
(* Properties *)

TypeOK ==
    /\ user \in [Users -> Rows \cup {None}]
    /\ old \subseteq Live
    /\ uses \in Nat /\ active \in BOOLEAN /\ nonces \in Nat
    /\ mail \subseteq Links
    /\ web \in [Sessions -> Transactions \cup {Idle}]
    /\ opened \subseteq Links /\ resets \in [1 .. MaxMoves -> Nat]
    /\ joined \in Nat /\ doubled \in Nat /\ blind \subseteq Users /\ moves \in Nat

\* The counter of a signup code is not charged for what is no member: links opened
\* again, sign-ups purged and registrations that failed take none of its max_uses.
\* Every use on it is a member who joined with the code, but for uses taken for a
\* row that another request had verified meanwhile.
UsesAreMembers == uses <= MaxUses /\ uses <= joined + doubled

\* A password reset link sets a second password only by a request that had loaded
\* the row before the first one was set.
ResetLinkOnce ==
    [][\A n \in DOMAIN resets :
         resets[n] > 0 /\ resets'[n] # resets[n]
           => \E w \in Sessions : /\ web[w] # Idle /\ web[w].spends = n
                                  /\ web[w].from # user[web[w].user]]_vars

\* The address of a member changes only after the links mailed to both addresses
\* were confirmed for this very change, however requests for different addresses
\* follow each other -- as long as no request overlapped another on the row.
ChangeConfirmedByBoth ==
    [][\A u \in Users :
         user[u] # None /\ user'[u] # None /\ user'[u].email # user[u].email /\ u \notin blind'
           => ChangeLinks(u, user[u].email, user'[u].email) \subseteq opened']_vars

\* A sign-up that is not verified in time does not keep its address for ever.
UnverifiedLeave ==
    \A u \in Users : (user[u] # None /\ ~user[u].verified) ~> (user[u] = None \/ user[u].verified)
=============================================================================
