------------------------------ MODULE Symbols ------------------------------
(***************************************************************************)
(* The names brokers have for an instrument (trading.py:619-1006).  Every  *)
(* row of "CFD_Symbols" has a canonical name and aliases, which the root   *)
(* administrator edits (auth_account.py:5062-5113).  A process reads the   *)
(* active rows when it needs them first and keeps them: web processes to   *)
(* give an imported or synchronised trade its symbol, sync workers to ask  *)
(* the broker for the rates of a trade's symbol.                           *)
(*                                                                         *)
(* A name without dots and in capitals is a sequence: a base, and account  *)
(* suffixes such as PRO or M that may be stripped from the end, but not    *)
(* from a base of less than four letters.                                  *)
(***************************************************************************)
EXTENDS Integers, SequencesExt

CONSTANTS Table0,       \* Table0[i]: the aliases of instrument i at first
          Order,        \* the canonical names by sort_order; i is Order[i]
          ActiveRows,   \* the rows that are not ignored
          Defaults,     \* the aliases of DEFAULT_CFD_SYMBOL_SPECS
          ShortBases,   \* bases of less than four letters
          CommonSuffixes, \* those of _mt5_append_common_suffix_spellings
          Proposals,    \* what an administrator may enter as aliases
          Web,          \* processes that serve the administrator
          Processes,    \* these, other web processes and the workers
          MaxEdits,     \* bound on the edits begun
          Unread

VARIABLES table,        \* table[i]: the committed aliases of instrument i
          known,        \* known[p]: the aliases a process keeps, or Unread
          edit,         \* edit[p]: an edit that was checked, not yet saved
          edits,        \* edits begun
          raced         \* was an edit saved over another one it had not seen?

symbolVars == <<table, known, edit, edits, raced>>

SymbolRows == DOMAIN Order
-----------------------------------------------------------------------------
(* Names *)

\* _iter_cfd_canonical_lookup_keys: n, n without its last suffix, and so on
LookupKeys(n) ==
    {SubSeq(n, 1, k) : k \in (IF Head(n) \in ShortBases /\ Len(n) > 1 THEN 2 ELSE 1)..Len(n)}

KeysOf(t, i) == {Order[i]} \cup t[i]

\* _load_cfd_alias_map: of several rows with one key the last one gets it.
OwnersOf(t, n) == {i \in ActiveRows : n \in KeysOf(t, i)}
Owner(t, n) == Max(OwnersOf(t, n))

\* canonicalize_symbol: the most specific key decides; an unknown name stays.
Canonical(t, n) ==
    LET hits == {m \in LookupKeys(n) : OwnersOf(t, m) # {}}
    IN  IF hits = {} THEN n
        ELSE Order[Owner(t, CHOOSE m \in hits : \A l \in hits : Len(l) <= Len(m))]

\* The usual broker's names for a canonical name: with a suffix, unless it is short.
WithSuffix(n) ==
    {Append(n, s) : s \in {x \in CommonSuffixes : Head(n) \notin ShortBases}}

\* cfd_mt5_symbol_name_candidates, as normalized names: spelling one key in
\* several ways changes nothing.
Candidates(t, i) == KeysOf(t, i) \cup WithSuffix(Order[i])

\* Mutant: the canonical names of the others are free for the taking.
ConflictAmongAliases(t) ==
    \E i, j \in ActiveRows : i # j /\ t[i] \cap t[j] # {}

\* collect_active_cfd_alias_key_conflicts
Conflict(t) == \E i, j \in ActiveRows : i # j /\ KeysOf(t, i) \cap KeysOf(t, j) # {}

IsName(n) == n # <<>> /\ n \in Seq(Range(n))

\* The aliases of every instrument are names.
IsTable(t) == DOMAIN t = SymbolRows /\ \A i \in SymbolRows : \A n \in t[i] : IsName(n)

\* The defaults give no key to two instruments (tests/test_trading_math.py:233), and
\* the first table is filled from them (migrations 0042 and 0043).
ASSUME SymbolsAssumption ==
    /\ SymbolRows \subseteq Nat \ {0} /\ ActiveRows \subseteq SymbolRows /\ Web \subseteq Processes
    /\ \A i \in SymbolRows : IsName(Order[i])
    /\ IsTable(Table0) /\ IsTable(Defaults)
    /\ \A names \in Proposals : \A n \in names : IsName(n)
    /\ ~Conflict(Table0) /\ ~Conflict(Defaults)
-----------------------------------------------------------------------------
NoEdit == [row |-> 0]

SymbolsInit ==
    /\ table = Table0 /\ edits = 0 /\ raced = FALSE
    /\ known = [p \in Processes |-> Unread]
    /\ edit = [p \in Web |-> NoEdit]

\* The first symbol a process has to resolve: _load_cfd_symbol_specs.
ReadSymbols(p) ==
    /\ known[p] = Unread
    /\ known' = [known EXCEPT ![p] = table]
    /\ UNCHANGED <<table, edit, edits, raced>>

\* The database does not answer: the defaults are kept just as long.
ReadDefaults(p) ==
    /\ known[p] = Unread
    /\ known' = [known EXCEPT ![p] = Defaults]
    /\ UNCHANGED <<table, edit, edits, raced>>

\* An administrator enters aliases; those of an active row are checked against
\* all active rows.
BeginEdit(p, i, aliases) ==
    LET t == [table EXCEPT ![i] = aliases] IN
    /\ edit[p] = NoEdit /\ edits < MaxEdits
    /\ i \in ActiveRows => ~Conflict(t)
    /\ edit' = [edit EXCEPT ![p] = [row |-> i, aliases |-> aliases, seen |-> table]]
    /\ edits' = edits + 1
    /\ UNCHANGED <<table, known, raced>>

\* The commit writes the row; clear_cfd_symbol_cache makes this process forget.
SaveEdit(p) ==
    /\ edit[p] # NoEdit
    /\ table' = [table EXCEPT ![edit[p].row] = edit[p].aliases]
    /\ known' = [known EXCEPT ![p] = Unread]
    /\ edit' = [edit EXCEPT ![p] = NoEdit]
    /\ raced' = (raced \/ table # edit[p].seen)
    /\ UNCHANGED edits

RestartProcess(p) ==
    /\ known[p] # Unread \/ (p \in Web /\ edit[p] # NoEdit)
    /\ known' = [known EXCEPT ![p] = Unread]
    /\ edit' = [w \in Web |-> IF w = p THEN NoEdit ELSE edit[w]]
    /\ UNCHANGED <<table, edits, raced>>

SymbolsNext ==
    \/ \E p \in Processes : ReadSymbols(p) \/ ReadDefaults(p) \/ RestartProcess(p)
    \/ \E p \in Web : \/ SaveEdit(p)
                      \/ \E i \in SymbolRows, aliases \in Proposals : BeginEdit(p, i, aliases)

SymbolsSpec == SymbolsInit /\ [][SymbolsNext]_symbolVars
-----------------------------------------------------------------------------
\* Every process gives each key of an instrument to that instrument, and what
\* a worker asks the broker for in an instrument's name is read back as that
\* instrument, or else is by itself the alias of another one.  Whatever was
\* edited, as long as no two edits overlapped: the keys are checked before the
\* commit, and nothing keeps another row from being saved in between.
NamesLeadBack ==
    ~raced =>
        \A p \in Processes : known[p] # Unread =>
            \A i \in ActiveRows :
                /\ \A n \in KeysOf(known[p], i) : Canonical(known[p], n) = Order[i]
                /\ \A n \in Candidates(known[p], i) :
                      Canonical(known[p], n) = Order[i] \/ OwnersOf(known[p], n) # {}

\* The page of the aliases promises: "Saves apply immediately (symbol cache
\* cleared)." (auth_account.py:5077)  It is the cache of one process.
SavesApply ==
    (\A p \in Web : edit[p] = NoEdit) =>
        \A p \in Processes : known[p] # Unread =>
            \A i \in ActiveRows : known[p][i] = table[i]
=============================================================================
