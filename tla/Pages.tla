------------------------------- MODULE Pages -------------------------------
(***************************************************************************)
(* The pages that show a journal out of Redis (celery_workers/cache.py,    *)
(* routes/dashboard.py): the dashboard keeps one payload, the analytics    *)
(* page two, each under a key of its own and for an hour.  Whoever changes *)
(* the trades deletes the keys after the commit, while requests that       *)
(* loaded the trades before may still store what they made of them.  There *)
(* is no lock, and Redis may refuse any call: a refused read counts as a   *)
(* miss, a refused write or delete is forgotten.  A page whose trades the  *)
(* database fails to load is built, and stored, of an empty journal.       *)
(*                                                                         *)
(* The journal is the number of changes made to the trades and to the      *)
(* account's size, MaxChanges in all (a bound of the model), a payload the *)
(* trades and the size it was made of.  The summary does not use the size. *)
(***************************************************************************)
EXTENDS Naturals

CONSTANTS Visits,       \* requests that open a page
          Editors,      \* requests and syncs that change trades
          MaxChanges

ASSUME PagesAssumption == MaxChanges \in Nat

VARIABLES journal,      \* the committed trades and size of the account
          stored,       \* stored[k]: the payload under key k, or Missing
          view,         \* view[v]
          unsaid,       \* editors that committed and have not deleted the keys
          spoiled,      \* visits whose trades did not load, or were changed since they opened
          behind        \* keys stored by such a visit, or that a change did not delete

pagesVars == <<journal, stored, view, unsaid, spoiled, behind>>

PageKeys == {"dashboard", "analytics", "rr"}
Empty == MaxChanges + 1     \* the trades that did not load
Payload(trades, size) == [trades |-> trades, size |-> size]
Missing == Payload(Empty, Empty)
NoView == [at |-> "closed", made |-> Missing, miss |-> {}]

PagesInit ==
    /\ journal = Payload(0, 0)
    /\ unsaid = {} /\ spoiled = {} /\ behind = {}
    /\ stored = [k \in PageKeys |-> Missing]
    /\ view = [v \in Visits |-> NoView]

Show(v, r) == view' = [view EXCEPT ![v] = r]

\* get_cached: what is missing of the page, or cannot be read.
MissedBy(k, reachable) == IF reachable /\ stored[k] # Missing THEN {} ELSE {k}
-----------------------------------------------------------------------------
\* The account is loaded, and later the trades.  If the database fails, the
\* trades are taken to be none.
Loaded(v, size, loads) ==
    Payload(IF loads THEN journal.trades ELSE Empty, size)

SpoiledBy(v, loads) == IF loads THEN spoiled ELSE spoiled \cup {v}

\* The dashboard loads the trades for its lists before it looks for the payload.
OpenDashboard(v, loads) ==
    /\ view[v].at = "closed"
    /\ Show(v, [at |-> "loaded", made |-> Loaded(v, journal.size, loads), miss |-> {}])
    /\ spoiled' = SpoiledBy(v, loads)
    /\ UNCHANGED <<journal, stored, unsaid, behind>>

Close(v) == Show(v, NoView) /\ spoiled' = spoiled \ {v}

ReadDashboard(v, reachable) ==
    /\ view[v].at = "loaded"
    /\ IF MissedBy("dashboard", reachable) = {}
       THEN Close(v)
       ELSE /\ Show(v, [view[v] EXCEPT !.at = "built", !.miss = {"dashboard"}])
            /\ UNCHANGED spoiled
    /\ UNCHANGED <<journal, stored, unsaid, behind>>

\* The analytics page loads the account, reads its two keys one after the other
\* and loads the trades if it needs them.
OpenAnalytics(v, reachable) ==
    /\ view[v].at = "closed"
    /\ Show(v, [at |-> "half", made |-> Payload(Empty, journal.size),
                miss |-> MissedBy("analytics", reachable)])
    /\ UNCHANGED <<journal, stored, unsaid, spoiled, behind>>

ReadSummary(v, reachable) ==
    /\ view[v].at = "half"
    /\ LET miss == view[v].miss \cup MissedBy("rr", reachable) IN
       IF miss = {} THEN Close(v)
       ELSE /\ Show(v, [view[v] EXCEPT !.at = "unloaded", !.miss = miss])
            /\ UNCHANGED spoiled
    /\ UNCHANGED <<journal, stored, unsaid, behind>>

LoadTrades(v, loads) ==
    /\ view[v].at = "unloaded"
    /\ Show(v, [view[v] EXCEPT !.at = "built", !.made = Loaded(v, @.size, loads)])
    /\ spoiled' = SpoiledBy(v, loads)
    /\ UNCHANGED <<journal, stored, unsaid, behind>>

\* set_cached, analytics before rr: whatever was stored meanwhile is overwritten.
Store(v, reachable) ==
    LET k == IF view[v].miss = {"rr"} THEN "rr"
             ELSE CHOOSE x \in view[v].miss : x # "rr"
    IN  /\ view[v].at = "built"
        /\ IF reachable
           THEN /\ stored' = [stored EXCEPT ![k] = view[v].made]
                /\ behind' = IF v \in spoiled THEN behind \cup {k} ELSE behind \ {k}
           ELSE UNCHANGED <<stored, behind>>
        /\ IF view[v].miss = {k} THEN Close(v)
           ELSE /\ Show(v, [view[v] EXCEPT !.miss = @ \ {k}])
                /\ UNCHANGED spoiled
        /\ UNCHANGED <<journal, unsaid>>

\* The request is killed.
DropView(v) ==
    /\ view[v].at # "closed"
    /\ Close(v)
    /\ UNCHANGED <<journal, stored, unsaid, behind>>
-----------------------------------------------------------------------------
\* The visits that a change overtakes: those that have loaded what it changes.
Opened(ats) == {v \in Visits : view[v].at \in ats}

MoreTrades ==
    /\ journal.trades + journal.size < MaxChanges
    /\ journal' = [journal EXCEPT !.trades = @ + 1]
    /\ spoiled' = spoiled \cup Opened({"loaded", "built"})

\* A sync, an import, an edit, a bundle, a deletion commits ...
Change(e) ==
    /\ e \notin unsaid
    /\ MoreTrades
    /\ unsaid' = unsaid \cup {e}
    /\ UNCHANGED <<stored, view, behind>>

\* Mutant of DeletedKeys: the summary was given a new key that is not deleted.
AllButSummary == {"dashboard", "analytics"}

\* The keys that invalidate deletes.
DeletedKeys == PageKeys

\* ... and deletes all keys in one call ...
Invalidate(e) ==
    /\ e \in unsaid
    /\ stored' = [k \in PageKeys |-> IF k \in DeletedKeys THEN Missing ELSE stored[k]]
    /\ unsaid' = unsaid \ {e} /\ behind' = {}
    /\ UNCHANGED <<journal, view, spoiled>>

\* ... unless Redis refuses or the process ends first.
NotInvalidated(e) ==
    /\ e \in unsaid
    /\ unsaid' = unsaid \ {e} /\ behind' = PageKeys
    /\ UNCHANGED <<journal, stored, view, spoiled>>

\* An administrator dissolves the bundles: no key is deleted.
ChangeQuietly ==
    /\ MoreTrades
    /\ behind' = PageKeys
    /\ UNCHANGED <<stored, view, unsaid>>

\* The owner edits the size of the account: no key is deleted.
Resize ==
    /\ journal.trades + journal.size < MaxChanges
    /\ journal' = [journal EXCEPT !.size = @ + 1]
    /\ spoiled' = spoiled \cup Opened({"half", "unloaded", "loaded", "built"})
    /\ behind' = behind \cup {"dashboard", "analytics"}
    /\ UNCHANGED <<stored, view, unsaid>>

\* The hour of a key is over.
Expire(k) ==
    /\ stored[k] # Missing
    /\ stored' = [stored EXCEPT ![k] = Missing]
    /\ behind' = behind \ {k}
    /\ UNCHANGED <<journal, view, unsaid, spoiled>>
-----------------------------------------------------------------------------
ViewStep(v) ==
    \/ \E reachable \in BOOLEAN :
          ReadDashboard(v, reachable) \/ ReadSummary(v, reachable) \/ Store(v, reachable)
    \/ \E loads \in BOOLEAN : LoadTrades(v, loads)

OpenPage(v) ==
    \/ \E loads \in BOOLEAN : OpenDashboard(v, loads)
    \/ \E reachable \in BOOLEAN : OpenAnalytics(v, reachable)

EditorStep(e) == Change(e) \/ Invalidate(e) \/ NotInvalidated(e)

PagesNext ==
    \/ \E v \in Visits : OpenPage(v) \/ ViewStep(v) \/ DropView(v)
    \/ \E e \in Editors : EditorStep(e)
    \/ ChangeQuietly \/ Resize
    \/ \E k \in PageKeys : Expire(k)

PagesSpec == PagesInit /\ [][PagesNext]_pagesVars
-----------------------------------------------------------------------------
\* What the journal says to the payload under a key.
Current(k) ==
    /\ stored[k].trades = journal.trades
    /\ k # "rr" => stored[k].size = journal.size

\* Once every change has deleted the keys, a stored page is that of the
\* committed journal, whichever requests ran side by side, unless it comes from
\* a request that failed to load the trades or loaded them before a change, or
\* a change did not delete it: the size of the account, the bundles an
\* administrator dissolves, a deletion that was refused or never sent
\* (dashboard.py:968-988, 1256-1306; cache.py:139-156).
PagesShowJournal ==
    unsaid = {} => \A k \in PageKeys \ behind : stored[k] = Missing \/ Current(k)
=============================================================================
