------------------------------- MODULE Reflect -------------------------------
(***************************************************************************)
(* The reflection sessions of the journal: a chat with the language model  *)
(* about a trade, a day, a market week or the latest trades.               *)
(*   routes/admin_journal.py              sessions, chat, what is displayed *)
(*   helpers/journal_context.py           the trade ideas of a session      *)
(*   routes/dashboard.py:2505-2895        the same from the dashboard       *)
(* A reply names trades by their number in the list the model was given    *)
(* ("[T2]").  The list is not stored: whenever the session is displayed    *)
(* it is built again, from the trades as they are by then, and the numbers *)
(* of old replies are looked up in the new list.                           *)
(***************************************************************************)
EXTENDS Review

CONSTANTS Talks,        \* sessions that may be created
          DayLength,    \* minutes of a day
          WeekShift,    \* minutes from midnight UTC to midnight in New York
          Days,         \* dates to ask about
          MaxPeriod,    \* MAX_DAY_SCOPE_TRADES (50)
          MaxFreeform,  \* MAX_FREEFORM_TRADES (20)
          MaxReplies    \* bound: replies per session

ASSUME ReflectAssumption ==
    /\ DayLength \in Nat \ {0} /\ WeekShift \in Nat /\ Days \subseteq Nat
    /\ MaxPeriod \in Nat \ {0} /\ MaxFreeform \in Nat \ {0} /\ MaxReplies \in Nat

VARIABLES talk,         \* talk[x]: the session x
          asking,       \* asking[x]: the list a chat request of x has sent to the model
          replies       \* replies[x]: the numbers each reply cites ("cites") and,
                        \* as a history, the list it was made from ("saw")

talkVars == <<talk, asking, replies>>
reflectVars == <<reviewVars, talkVars>>

Scopes == [type : {"trade"}, of : Ids] \cup [type : {"day", "week"}, of : Days]
          \cup [type : {"freeform"}, of : {Nil}]
NoTalk == [type |-> "none", of |-> Nil]
Purged == [type |-> "purged", of |-> Nil]
Exists(x) == talk[x] \notin {NoTalk, Purged}
NotAsking == <<>>
-----------------------------------------------------------------------------
(* The trade ideas of a session: build_journal_payload.                    *)

ByClose(t, u) == t.closed < u.closed \/ (t.closed = u.closed /\ t.id < u.id)

InOrder(S) == Arranged(S, ByClose)

FirstN(s, n) == SubSeq(s, 1, IF Len(s) < n THEN Len(s) ELSE n)
LastN(s, n) == SubSeq(s, (IF Len(s) < n THEN 0 ELSE Len(s) - n) + 1, Len(s))

\* Mutant: the members of a bundle that closed at another time are not loaded.
NotExpanded(T) == T

\* _expand_trades_with_bundle_members
Expanded(T) == T \cup {u \in Journal : u.bundle # Nil /\ \E t \in T : t.bundle = u.bundle}

\* _closed_trade_ideas_in_period
IdeasIn(from, to) ==
    {t \in Merged(Expanded({u \in AllClosed : In(u.closed, from, to)})) :
        t.closed # Nil /\ In(t.closed, from, to)}

Period(from, to) == FirstN(InOrder(IdeasIn(from, to)), MaxPeriod)

DayIdeas(d) == Period(d * DayLength, (d + 1) * DayLength)
WeekIdeas(d) == Period(d * DayLength + WeekShift, (d + 7) * DayLength + WeekShift)

\* The trade alone or, once it is in a bundle, its bundle; nothing while it is open.
TradeIdeas(i) ==
    LET t == Trade(i) IN
    IF t \notin AllClosed THEN <<>>
    ELSE IF t.bundle = Nil THEN <<t>>
    ELSE <<OneTrade({u \in Journal : u.bundle = t.bundle})>>

\* Mutant: the latest idea comes first.
NewestFirst == FirstN(Reverse(InOrder(Merged(AllClosed))), MaxFreeform)

\* The latest ideas, the oldest one first.  A bundle is made of its closed members.
LatestIdeas == LastN(InOrder(Merged(AllClosed)), MaxFreeform)

Ideas(s) ==
    CASE s.type = "trade" -> TradeIdeas(s.of)
      [] s.type = "day" -> DayIdeas(s.of)
      [] s.type = "week" -> WeekIdeas(s.of)
      [] s.type = "freeform" -> LatestIdeas
      [] OTHER -> <<>>

\* _build_citation_lookup, _display_segments: the trade that "[Tn]" leads to;
\* a bundle has the number "Bn", which is not looked up.
LeadsTo(ideas, n) == {ideas[k].id : k \in {j \in DOMAIN ideas : j = n /\ ideas[j].bundle = Nil}}
Citable(ideas) == {n \in DOMAIN ideas : LeadsTo(ideas, n) # {}}
-----------------------------------------------------------------------------
(* What a first message is taken to be about: the symbols, days and other  *)
(* names in capitals it mentions (_dashboard_journal_context_candidates).  *)

OnDay(d) == {t \in AllClosed : t.closed \div DayLength = d}
LastOf(T) == CHOOSE t \in T : \A u \in T : u = t \/ ByClose(u, t)
About(t) == [type |-> "trade", of |-> t.id]

Recommended(symbols, days, token) ==
    LET named == {t \in AllClosed : t.symbol \in symbols}
        dated == {t \in named : \E i \in DOMAIN days : t \in OnDay(days[i])}
        traded == {k \in DOMAIN FirstN(days, 3) : OnDay(days[k]) # {}}
        day == days[Min(traded)]
    IN  IF dated # {} THEN About(LastOf(dated))
        ELSE IF named # {} THEN About(LastOf(named))
        ELSE IF traded # {}
             THEN IF Cardinality(OnDay(day)) = 1 THEN About(LastOf(OnDay(day)))
                  ELSE [type |-> "day", of |-> day]
        ELSE IF days # <<>> \/ token THEN [type |-> "freeform", of |-> Nil]
        ELSE [type |-> "week", of |-> (week * WeekLength) \div DayLength]
-----------------------------------------------------------------------------
(* Sessions. *)

\* create_journal_session_from_incoming: a trade must exist, closed or not.
StartTalk(x, s) ==
    /\ talk[x] = NoTalk
    /\ s.type = "trade" => row[s.of] # "none"
    /\ talk' = [talk EXCEPT ![x] = s]
    /\ UNCHANGED <<reviewVars, asking, replies>>

\* journal_post_chat_response up to the request to the model.  A session that
\* was ended takes messages all the same.
Ask(x) ==
    /\ Exists(x) /\ asking[x] = NotAsking
    /\ Len(replies[x]) < MaxReplies
    /\ Ideas(talk[x]) # <<>>
    /\ asking' = [asking EXCEPT ![x] = Ideas(talk[x])]
    /\ UNCHANGED <<reviewVars, talk, replies>>

\* The answer cites trades of the list; message and answer are saved.
Answer(x, cites) ==
    /\ asking[x] # NotAsking /\ Exists(x)
    /\ cites # {} /\ cites \subseteq Citable(asking[x])
    /\ replies' = [replies EXCEPT ![x] = Append(@, [cites |-> cites, saw |-> asking[x]])]
    /\ asking' = [asking EXCEPT ![x] = NotAsking]
    /\ UNCHANGED <<reviewVars, talk>>

\* The model fails, or the session was purged meanwhile and the messages violate
\* their foreign key: neither is saved.
AnswerLost(x) ==
    /\ asking[x] # NotAsking
    /\ asking' = [asking EXCEPT ![x] = NotAsking]
    /\ UNCHANGED <<reviewVars, talk, replies>>

\* purge_session; the messages go by cascade.
PurgeTalk(x) ==
    /\ Exists(x)
    /\ talk' = [talk EXCEPT ![x] = Purged]
    /\ replies' = [replies EXCEPT ![x] = <<>>]
    /\ UNCHANGED <<reviewVars, asking>>

\* delete_trade; what the reviews said of it goes by cascade.
RemoveTrade(i) ==
    /\ Act
    /\ row[i] # "none"
    /\ row' = [row EXCEPT ![i] = "none"]
    /\ mark' = [mark EXCEPT ![i] = [bundle |-> Nil, revenge |-> FALSE]]
    /\ UNCHANGED <<week, answered, listing, form, talkVars>>
-----------------------------------------------------------------------------
ReflectInit ==
    /\ ReviewInit
    /\ talk = [x \in Talks |-> NoTalk]
    /\ asking = [x \in Talks |-> NotAsking]
    /\ replies = [x \in Talks |-> <<>>]

TalkNext ==
    \E x \in Talks :
       \/ \E s \in Scopes : StartTalk(x, s)
       \/ Ask(x) \/ AnswerLost(x) \/ PurgeTalk(x)
       \/ \E cites \in SUBSET DOMAIN asking[x] : Answer(x, cites)

ReflectNext ==
    \/ TalkNext
    \/ \E i \in Ids : RemoveTrade(i)
    \/ ReviewNext /\ UNCHANGED talkVars

ReflectSpec == ReflectInit /\ [][ReflectNext]_reflectVars
-----------------------------------------------------------------------------
(* Properties. *)

\* The ideas a reply spoke of are still what they were and still listed, and what
\* was added to the list since then closed later.
Undisturbed(s, saw) ==
    /\ Range(saw) \subseteq Range(Ideas(s))
    /\ \A t \in Range(Ideas(s)) \ Range(saw), u \in Range(saw) : ByClose(u, t)

\* A citation leads back to the trade the reply spoke of: in a session about
\* one trade always, or it leads nowhere; in the others as long as trades were
\* only added, at the end (routes/admin_journal.py:182-228; deleting, bundling
\* or importing an earlier trade makes old replies point at other trades).
CitationsLeadBack ==
    \A x \in Talks : \A k \in DOMAIN replies[x] :
        LET r == replies[x][k] IN
        \A n \in r.cites :
           /\ talk[x].type = "trade" => LeadsTo(Ideas(talk[x]), n) \subseteq LeadsTo(r.saw, n)
           /\ Undisturbed(talk[x], r.saw) => LeadsTo(Ideas(talk[x]), n) = LeadsTo(r.saw, n)

\* A closed trade idea, however its parts were bundled and whenever they
\* closed, counts on exactly one day (unless that day's list is full) and is
\* told the same in every session; a session opened for what the first message
\* was taken to be about tells of it, unless all trades of that day are parts
\* of bundles that are open or closed on another day
\* (helpers/journal_context.py:168-290, routes/dashboard.py:2630-2770).
IdeasCountOnce ==
    LET closedIdeas == {t \in Merged(Journal) : t.closed # Nil}
        days == 0..Max({0} \cup {t.closed \div DayLength : t \in AllClosed})
        partsOf(t) == {u \in Journal : u.id = t.id \/ (t.bundle # Nil /\ u.bundle = t.bundle)}
    IN  /\ \A d \in days : /\ Range(DayIdeas(d)) \subseteq closedIdeas
                          /\ \A e \in days \ {d} : Range(DayIdeas(d)) \cap Range(DayIdeas(e)) = {}
        /\ \A t \in closedIdeas :
             /\ \E d \in days : t \in Range(DayIdeas(d))
                               \/ (t.closed \div DayLength = d /\ Len(DayIdeas(d)) = MaxPeriod)
             /\ \A u \in partsOf(t) : TradeIdeas(u.id) = <<t>>
        /\ \A d \in Days : Range(WeekIdeas(d)) \subseteq closedIdeas
        /\ \A symbols \in SUBSET {Data[i].symbol : i \in Ids}, d \in Days :
             LET s == Recommended(symbols, <<d>>, FALSE) IN
             /\ s.type = "trade" => Len(TradeIdeas(s.of)) = 1
             /\ s.type = "day" /\ (\E t \in OnDay(d) : t.bundle = Nil) => Ideas(s) # <<>>
=============================================================================
