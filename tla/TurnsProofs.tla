------------------------------- MODULE TurnsProofs -------------------------------
(***************************************************************************)
(* What segment_turns keeps, for every session: types, turns in order and  *)
(* apart, turns that have ended stay as they are, and no work is lost. The *)
(* strengthening is Timeline: turns end before the open turn begins, which *)
(* begins before the last event. For NoWorkLost it is WorkInv: events come *)
(* in time order with one call per id, so that what a result answers does  *)
(* not change; a prompt not yet answered is where the open turn began; and *)
(* what followed a prompt is in the open turn or in one that has ended.    *)
(***************************************************************************)
EXTENDS Turns, TLAPS

Timeline ==
  /\ start # None => start <= Now
  /\ \A i \in DOMAIN turns : /\ turns[i].start <= turns[i].end /\ turns[i].end <= Now
                             /\ start # None => turns[i].end <= start
  /\ \A i, j \in DOMAIN turns : i < j => turns[i].end <= turns[j].start

IInv == TypeOK /\ Timeline

-----------------------------------------------------------------------------
LEMMA NowIsTime ==
  ASSUME TypeOK
  PROVE  Now \in Time
<1>1. CASE events = <<>>
  BY <1>1, TurnsAssumption DEF Now, Time
<1>2. CASE events # <<>>
  <2>1. Len(events) \in DOMAIN events /\ events[Len(events)] \in Event
    BY <1>2 DEF TypeOK
  <2>2. QED BY <1>2, <2>1 DEF Now, Event
<1>3. QED BY <1>1, <1>2

LEMMA IdsCarried ==
  ASSUME TypeOK, NEW m \in Template, NEW id \in MayCarry(Read, m)
  PROVE  id \in {None} \cup Ids
<1>1. \A e \in Read : e \in Event
  BY DEF Read, TypeOK
<1>2. Called(Read) \subseteq {None} \cup Ids
  BY <1>1 DEF Called, Event
<1>3. IdsOf(Read, "shell") \subseteq {None} \cup Ids
  BY <1>1 DEF IdsOf, Event
<1>4. CASE m.kind = "tool"
  BY <1>4 DEF MayCarry
<1>5. CASE m.kind = "result"
  BY <1>5, <1>2 DEF MayCarry
<1>6. CASE m.kind = "user" /\ m.tool = "shell"
  BY <1>6, <1>3 DEF MayCarry
<1>7. CASE ~ (m.kind \in {"tool", "result"} \/ (m.kind = "user" /\ m.tool = "shell"))
  <2>1. MayCarry(Read, m) = {None}
    BY <1>7 DEF MayCarry
  <2>2. QED BY <2>1
<1>8. QED BY <1>4, <1>5, <1>6, <1>7

\* The next event is one, and none is earlier.
LEMMA NextEvent ==
  ASSUME TypeOK, NEW m \in Template, NEW id \in MayCarry(Read, m), NEW ts \in Now .. MaxTime
  PROVE  /\ NewEvent(m, id, ts) \in Event
         /\ NewEvent(m, id, ts).ts = ts /\ ts \in Time /\ Now <= ts
<1>1. ts \in Time /\ Now <= ts /\ Now \in Nat
  BY NowIsTime, TurnsAssumption DEF Time
<1>2. /\ m.kind \in {"user", "text", "tool", "result"}
      /\ m.how \in {"typed", "scripted", "more", "end"} \cup Outcomes
      /\ m.tool \in {"none"} \cup Tools
  BY DEF Template, Tools
<1>3. QED BY <1>1, <1>2, IdsCarried DEF NewEvent, Event

\* What a round of the loop starts from: a next event, and the menu it came from.
LEMMA NextIsRound ==
  ASSUME TypeOK, Next
  PROVE  \E e \in Event : Now <= e.ts /\ Round(e)
<1>1. PICK m \in menu : \E id \in MayCarry(Read, m) : \E ts \in Now .. MaxTime : Round(NewEvent(m, id, ts))
  BY DEF Next
<1>2. m \in Template
  BY TurnsAssumption DEF TypeOK
<1>3. QED BY <1>1, <1>2, NextEvent

\* The clock after a round is the event's.
LEMMA RoundNow ==
  ASSUME TypeOK, NEW e \in Event, Round(e)
  PROVE  Now' = e.ts /\ events' \in Seq(Event) /\ menu' = menu
<1>1. events \in Seq(Event) /\ events' = Append(events, e)
  BY DEF TypeOK, Round
<1>2. events' \in Seq(Event) /\ Len(events') = Len(events) + 1 /\ events'[Len(events) + 1] = e
  BY <1>1
<1>3. events' # <<>>
  BY <1>2, <1>1
<1>4. QED BY <1>2, <1>3 DEF Now, Round

LEMMA ClosedIsTurn ==
  ASSUME TypeOK, start # None, NEW ts \in Time, NEW reason \in Reasons
  PROVE  /\ Closed(ts, reason) \in Turn
         /\ Closed(ts, reason).start = start /\ Closed(ts, reason).end = ts
BY DEF TypeOK, Closed, Turn

\* Appending the turn that closes keeps the turns in order, and those before.
LEMMA TurnAdded ==
  ASSUME IInv, start # None, NEW ts \in Time, Now <= ts, NEW reason \in Reasons,
         NEW more, more = Append(turns, Closed(ts, reason))
  PROVE  /\ more \in Seq(Turn) /\ Len(more) = Len(turns) + 1
         /\ \A i \in DOMAIN turns : more[i] = turns[i]
         /\ \A i \in DOMAIN more : more[i].start <= more[i].end /\ more[i].end <= ts
         /\ \A i, j \in DOMAIN more : i < j => more[i].end <= more[j].start
<1> DEFINE t == Closed(ts, reason)
<1>1. t \in Turn /\ t.start = start /\ t.end = ts
  BY ClosedIsTurn DEF IInv
<1>2. turns \in Seq(Turn) /\ start \in Time /\ Now \in Time /\ Time \subseteq Int
  BY NowIsTime, TurnsAssumption DEF IInv, TypeOK, Time
<1>3. start <= Now
  BY DEF IInv, Timeline
<1> HIDE DEF t
<1>4. /\ more \in Seq(Turn) /\ Len(more) = Len(turns) + 1
      /\ \A i \in DOMAIN turns : more[i] = turns[i]
      /\ more[Len(turns) + 1] = t
  BY <1>1, <1>2 DEF t
<1>5. \A i \in DOMAIN more : i \in DOMAIN turns \/ (i = Len(turns) + 1 /\ i \notin DOMAIN turns)
  BY <1>2, <1>4
<1>6. \A i \in DOMAIN turns : /\ turns[i].start \in Int /\ turns[i].end \in Int
                              /\ turns[i].start <= turns[i].end /\ turns[i].end <= Now
                              /\ turns[i].end <= start
  <2>1. \A i \in DOMAIN turns : turns[i] \in Turn
    BY <1>2
  <2>2. QED BY <1>2, <2>1 DEF Turn, IInv, Timeline
<1>7. \A i \in DOMAIN more : more[i].start <= more[i].end /\ more[i].end <= ts
  BY <1>1, <1>2, <1>3, <1>4, <1>5, <1>6
<1>8. ASSUME NEW i \in DOMAIN more, NEW j \in DOMAIN more, i < j
      PROVE  more[i].end <= more[j].start
  <2>1. i \in DOMAIN turns
    BY <1>2, <1>4, <1>8
  <2>2. CASE j \in DOMAIN turns
    BY <1>4, <1>8, <2>1, <2>2 DEF IInv, Timeline
  <2>3. CASE j = Len(turns) + 1
    BY <1>1, <1>4, <1>6, <2>1, <2>3
  <2>4. QED BY <1>5, <2>2, <2>3
<1>9. QED BY <1>4, <1>7, <1>8

-----------------------------------------------------------------------------
LEMMA InitTimeline == Init => IInv
<1> SUFFICES ASSUME Init PROVE IInv
  OBVIOUS
<1>1. TypeOK
  <2>1. menu \in Menus /\ events \in Seq(Event) /\ start \in {None} \cup Time /\ turns \in Seq(Turn)
    BY DEF Init
  <2>2. scripted \in BOOLEAN
    BY DEF Init
  <2>3. QED BY <2>1, <2>2 DEF TypeOK
<1>2. Timeline
  BY DEF Init, Timeline
<1>3. QED BY <1>1, <1>2 DEF IInv

LEMMA ScriptedStep ==
  ASSUME TypeOK, NEW e, Open(e) \/ Close(e) \/ Pass(e)
  PROVE  scripted' \in BOOLEAN
<1>1. CASE Open(e)   BY <1>1, Zenon DEF Open, Scripted
<1>2. CASE Close(e)  BY <1>2, Zenon DEF Close, TypeOK
<1>3. CASE Pass(e)   BY <1>3, Zenon DEF Pass, TypeOK
<1>4. QED BY <1>1, <1>2, <1>3

LEMMA OpenStep ==
  ASSUME IInv, NEW e \in Event, Now <= e.ts, Now' = e.ts, Open(e)
  PROVE  /\ start' \in Time /\ turns' \in Seq(Turn) /\ Timeline'
         /\ Len(turns) <= Len(turns') /\ \A i \in DOMAIN turns : turns'[i] = turns[i]
<1>1. e.ts \in Time /\ Now \in Time
  BY NowIsTime DEF Event, IInv
<1>2. /\ e.ts \in Int /\ Now \in Int /\ e.ts <= e.ts
      /\ start' = e.ts /\ start' # None
  BY <1>1, TurnsAssumption DEF Time, Open
<1>3. turns \in Seq(Turn) /\ Len(turns) \in Nat
  BY DEF IInv, TypeOK
<1>4. CASE start = None
  <2>1. turns' = turns
    BY <1>4 DEF Open
  <2>2. \A i \in DOMAIN turns : turns[i].end \in Int /\ turns[i].end <= Now
    <3>1. \A i \in DOMAIN turns : turns[i] \in Turn
      BY <1>3
    <3>2. QED BY <3>1 DEF Turn, Time, IInv, Timeline
  <2>3. \A i \in DOMAIN turns : turns[i].end <= e.ts
    BY <1>2, <2>2
  <2>4. \A i, j \in DOMAIN turns : i < j => turns[i].end <= turns[j].start
    BY DEF IInv, Timeline
  <2>5. \A i \in DOMAIN turns : turns[i].start <= turns[i].end
    BY DEF IInv, Timeline
  <2>6. Timeline'
    BY <2>1, <2>2, <2>3, <2>4, <2>5, <1>2 DEF Timeline
  <2>7. QED BY <1>2, <1>1, <1>3, <2>1, <2>6
<1>5. CASE start # None
  <2>1. "next_user" \in Reasons
    BY DEF Reasons
  <2>2. turns' = Append(turns, Closed(e.ts, "next_user"))
    BY <1>5 DEF Open, Kept
  <2>3. /\ turns' \in Seq(Turn) /\ Len(turns') = Len(turns) + 1
        /\ \A i \in DOMAIN turns : turns'[i] = turns[i]
        /\ \A i \in DOMAIN turns' : turns'[i].start <= turns'[i].end /\ turns'[i].end <= e.ts
        /\ \A i, j \in DOMAIN turns' : i < j => turns'[i].end <= turns'[j].start
    BY <1>1, <1>5, <2>1, <2>2, TurnAdded
  <2>4. Timeline'
    BY <1>2, <2>3 DEF Timeline
  <2>5. QED BY <1>2, <1>1, <1>3, <2>3, <2>4
<1>6. QED BY <1>4, <1>5

LEMMA CloseStep ==
  ASSUME IInv, NEW e \in Event, Now <= e.ts, Now' = e.ts, Close(e)
  PROVE  /\ start' = None /\ turns' \in Seq(Turn) /\ Timeline'
         /\ Len(turns) <= Len(turns') /\ \A i \in DOMAIN turns : turns'[i] = turns[i]
<1>1. e.ts \in Time /\ Reason(e) \in Reasons /\ start # None /\ start' = None
      /\ turns' = Append(turns, Closed(e.ts, Reason(e)))
  BY DEF Close, Event, Reason, Reasons, Kept
<1>2. /\ turns' \in Seq(Turn) /\ Len(turns') = Len(turns) + 1
      /\ \A i \in DOMAIN turns : turns'[i] = turns[i]
      /\ \A i \in DOMAIN turns' : turns'[i].start <= turns'[i].end /\ turns'[i].end <= e.ts
      /\ \A i, j \in DOMAIN turns' : i < j => turns'[i].end <= turns'[j].start
  BY <1>1, TurnAdded
<1>3. Len(turns) \in Nat
  BY DEF IInv, TypeOK
<1>4. QED BY <1>1, <1>2, <1>3 DEF Timeline

LEMMA PassStep ==
  ASSUME IInv, NEW e \in Event, Now <= e.ts, Now' = e.ts, UNCHANGED <<start, turns>>
  PROVE  Timeline'
<1>1. /\ e.ts \in Int /\ Now \in Int /\ turns \in Seq(Turn) /\ start \in {None} \cup Int
  BY NowIsTime, TurnsAssumption DEF IInv, TypeOK, Event, Time
<1>2. \A i \in DOMAIN turns : turns[i].end \in Int
  <2>1. \A i \in DOMAIN turns : turns[i] \in Turn
    BY <1>1
  <2>2. QED BY <2>1 DEF Turn, Time
<1>3. QED BY <1>1, <1>2 DEF IInv, Timeline

\* A round keeps the invariant and the turns that have ended.
LEMMA NextTimeline ==
  ASSUME IInv, Next
  PROVE  IInv' /\ Len(turns) <= Len(turns') /\ \A i \in DOMAIN turns : turns'[i] = turns[i]
<1>1. PICK e \in Event : Now <= e.ts /\ Round(e)
  BY NextIsRound DEF IInv
<1>2. Now' = e.ts /\ events' \in Seq(Event) /\ menu' \in Menus
  BY <1>1, RoundNow DEF IInv, TypeOK
<1>3. scripted' \in BOOLEAN
  BY <1>1, ScriptedStep DEF IInv, Round
<1>4. CASE Open(e)
  BY <1>1, <1>2, <1>3, <1>4, OpenStep, Zenon DEF IInv, TypeOK
<1>5. CASE Close(e)
  BY <1>1, <1>2, <1>3, <1>5, CloseStep, Zenon DEF IInv, TypeOK
<1>6. CASE Pass(e)
  <2>1. UNCHANGED <<start, turns>>
    BY <1>6 DEF Pass
  <2>2. Timeline' /\ start' = start /\ turns' = turns
    BY <1>1, <1>2, <2>1, PassStep
  <2>3. start' \in {None} \cup Time /\ turns' \in Seq(Turn) /\ Len(turns) <= Len(turns')
    BY <2>2 DEF IInv, TypeOK
  <2>4. QED BY <1>2, <1>3, <2>2, <2>3, Zenon DEF IInv, TypeOK
<1>7. QED BY <1>1, <1>4, <1>5, <1>6 DEF Round

LEMMA StutterTimeline ==
  ASSUME IInv, UNCHANGED vars
  PROVE  IInv'
BY DEF vars, IInv, TypeOK, Timeline, Now

LEMMA Inductive == Spec => []IInv
<1>1. IInv /\ [Next]_vars => IInv'
  BY NextTimeline, StutterTimeline
<1>2. QED BY <1>1, InitTimeline, PTL DEF Spec

-----------------------------------------------------------------------------
\* Events, the open turn and the turns always have their types.
THEOREM TypeCorrect == Spec => []TypeOK
<1>1. IInv => TypeOK
  BY DEF IInv
<1>2. QED BY <1>1, Inductive, PTL

LEMMA InvApart == IInv => TurnsApart
<1> SUFFICES ASSUME IInv PROVE TurnsApart
  OBVIOUS
<1>1. turns \in Seq(Turn) /\ Now \in Time
  BY NowIsTime DEF IInv, TypeOK
<1>2. CASE start # None /\ Now > start
  <2>1. AllTurns = Append(turns, Closed(Now, "session_end"))
    BY <1>2 DEF AllTurns
  <2>2. Now <= Now
    BY <1>1 DEF Time
  <2>3. QED BY <1>1, <1>2, <2>1, <2>2, TurnAdded DEF TurnsApart, Reasons
<1>3. CASE ~ (start # None /\ Now > start)
  <2>1. AllTurns = turns
    BY <1>3 DEF AllTurns
  <2>2. QED BY <2>1 DEF TurnsApart, IInv, Timeline
<1>4. QED BY <1>2, <1>3

\* The turns of segment_turns, the one the session ends in included, are in order and
\* apart.
THEOREM Apart == Spec => []TurnsApart
BY Inductive, InvApart, PTL

-----------------------------------------------------------------------------
(* No work is lost. Events are in order and a result's call was read before  *)
(* (EventsInv), so which events were prompts does not change later; the open *)
(* turn is that of the last prompt or answer if nothing has ended it         *)
(* (OpenInv); what came after one is, or will be, in its turn (CoverInv).    *)

EventsInv ==
  /\ \A i, j \in DOMAIN events : i <= j => events[i].ts <= events[j].ts
  /\ \A e \in Read : e.kind = "result" => e.id \in Called(Read)

Quiet(o, n) == \A j \in o + 1 .. n : ~ Typed(j) /\ ~ Ender(events[j])

OpenInv == \A o \in DOMAIN events : Typed(o) /\ Quiet(o, Len(events)) => start = events[o].ts

Followed(o, i) ==
  \/ events[i].ts = events[o].ts
  \/ start = events[o].ts
  \/ \E k \in DOMAIN turns : turns[k].start = events[o].ts /\ events[i].ts <= turns[k].end

CoverInv ==
  \A o, i \in DOMAIN events : o < i /\ Typed(o) /\ Quiet(o, i - 1) => Followed(o, i)

WorkInv == IInv /\ EventsInv /\ OpenInv /\ CoverInv

\* The id of a new call is new, that of a result is not.
LEMMA RoundIds ==
  ASSUME TypeOK, Next
  PROVE  \E e \in Event : /\ Now <= e.ts /\ Round(e)
                          /\ e.kind = "tool" => e.id \notin Called(Read)
                          /\ e.kind = "result" => e.id \in Called(Read)
<1>1. PICK m \in menu : \E id \in MayCarry(Read, m) : \E ts \in Now .. MaxTime : Round(NewEvent(m, id, ts))
  BY DEF Next
<1>2. PICK id \in MayCarry(Read, m) : \E ts \in Now .. MaxTime : Round(NewEvent(m, id, ts))
  BY <1>1
<1>3. PICK ts \in Now .. MaxTime : Round(NewEvent(m, id, ts))
  BY <1>2
<1>4. m \in Template
  BY TurnsAssumption DEF TypeOK
<1>5. NewEvent(m, id, ts) \in Event /\ Now <= NewEvent(m, id, ts).ts
  BY <1>4, NextEvent
<1>6. NewEvent(m, id, ts).kind = m.kind /\ NewEvent(m, id, ts).id = id
  BY DEF NewEvent
<1>7. m.kind = "tool" => id \notin Called(Read)
  BY DEF MayCarry
<1>8. m.kind = "result" => id \in Called(Read)
  BY DEF MayCarry
<1>9. QED BY <1>3, <1>5, <1>6, <1>7, <1>8

\* The events before a round stay where they are.
LEMMA EventsAfter ==
  ASSUME TypeOK, NEW e \in Event, Round(e)
  PROVE  /\ events \in Seq(Event) /\ Len(events) \in Nat /\ Len(events') = Len(events) + 1
         /\ DOMAIN events = 1 .. Len(events) /\ DOMAIN events' = 1 .. Len(events) + 1
         /\ \A i \in DOMAIN events : events'[i] = events[i]
         /\ events'[Len(events) + 1] = e
         /\ Read' = Read \cup {e}
<1>1. /\ events \in Seq(Event) /\ Len(events) \in Nat /\ events' = Append(events, e)
  BY DEF TypeOK, Round
<1>2. /\ Len(events') = Len(events) + 1
      /\ DOMAIN events = 1 .. Len(events) /\ DOMAIN events' = 1 .. Len(events) + 1
      /\ \A i \in DOMAIN events : events'[i] = events[i]
      /\ events'[Len(events) + 1] = e
  BY <1>1
<1>3. Read' = Read \cup {e}
  <2>1. \A i \in DOMAIN events' : i \in DOMAIN events \/ i = Len(events) + 1
    BY <1>1, <1>2
  <2>2. \A i \in DOMAIN events : i \in DOMAIN events'
    BY <1>1, <1>2
  <2>3. Len(events) + 1 \in DOMAIN events'
    BY <1>1, <1>2
  <2>4. QED BY <1>2, <2>1, <2>2, <2>3 DEF Read
<1>4. QED BY <1>1, <1>2, <1>3

\* Whether a result answers a question does not change: a question's id is new.
LEMMA AnswerStable ==
  ASSUME EventsInv, NEW e, Read' = Read \cup {e}, NEW x \in Read \cup {e}, x.kind = "result",
         e.kind = "tool" => e.id \notin Called(Read)
  PROVE  x.id \in IdsOf(Read', "ask") <=> x.id \in IdsOf(Read, "ask")
<1>1. e.kind = "tool" => x.id # e.id
  <2>1. e.kind = "tool" => x \in Read
    OBVIOUS
  <2>2. QED BY <2>1 DEF EventsInv
<1>2. \A c \in Read' : c \in Read \/ c = e
  OBVIOUS
<1>3. QED BY <1>1, <1>2 DEF IdsOf

LEMMA TypedAfter ==
  ASSUME TypeOK, EventsInv, NEW e \in Event, Round(e), e.kind = "tool" => e.id \notin Called(Read),
         NEW n, n = Len(events) + 1
  PROVE  /\ \A i \in DOMAIN events : Typed(i)' <=> Typed(i)
         /\ Typed(n)' <=> Human(e) /\ ~ Scripted(e)
<1>1. /\ \A i \in DOMAIN events : events'[i] = events[i] /\ events[i] \in Read
      /\ events'[n] = e /\ Read' = Read \cup {e}
  BY EventsAfter DEF Read
<1>2. ASSUME NEW i \in DOMAIN events
      PROVE  Typed(i)' <=> Typed(i)
  <2>1. events[i].kind = "result" =>
          (events[i].id \in IdsOf(Read', "ask") <=> events[i].id \in IdsOf(Read, "ask"))
    BY <1>1, AnswerStable
  <2>2. QED BY <1>1, <2>1 DEF Typed, Human, Scripted
<1>3. Typed(n)' <=> Human(e) /\ ~ Scripted(e)
  <2>1. e.kind = "result" => (e.id \in IdsOf(Read', "ask") <=> e.id \in IdsOf(Read, "ask"))
    BY <1>1, AnswerStable
  <2>2. QED BY <1>1, <2>1 DEF Typed, Human, Scripted
<1>4. QED BY <1>2, <1>3

LEMMA EventTimes ==
  ASSUME TypeOK, NEW i \in DOMAIN events
  PROVE  events[i].ts \in Time /\ events[i].ts \in Int
<1>1. events[i] \in Event
  BY DEF TypeOK
<1>2. events[i].ts \in Time
  BY <1>1 DEF Event
<1>3. QED BY <1>2, TurnsAssumption DEF Time

LEMMA EventsStep ==
  ASSUME TypeOK, EventsInv, NEW e \in Event, Now <= e.ts, Round(e),
         e.kind = "result" => e.id \in Called(Read)
  PROVE  EventsInv' /\ \A i \in DOMAIN events : events[i].ts \in Time /\ events[i].ts <= Now
<1> DEFINE n == Len(events)
<1>1. /\ events \in Seq(Event) /\ n \in Nat /\ DOMAIN events = 1 .. n /\ DOMAIN events' = 1 .. n + 1
      /\ \A i \in DOMAIN events : events'[i] = events[i]
      /\ events'[n + 1] = e /\ Read' = Read \cup {e}
  BY EventsAfter
<1>2. e.ts \in Time /\ Now \in Time /\ Time \subseteq Int
  BY NowIsTime, TurnsAssumption DEF Event, Time
<1>3. \A i \in DOMAIN events : events[i].ts \in Time /\ events[i].ts <= Now
  <2> SUFFICES ASSUME NEW i \in DOMAIN events PROVE events[i].ts \in Time /\ events[i].ts <= Now
    OBVIOUS
  <2>1. events[i] \in Event
    BY <1>1
  <2>2. n \in DOMAIN events /\ i <= n /\ Now = events[n].ts
    BY <1>1 DEF Now
  <2>3. QED BY <2>1, <2>2 DEF Event, EventsInv
<1>4. \A i, j \in DOMAIN events' : i <= j => events'[i].ts <= events'[j].ts
  <2> SUFFICES ASSUME NEW i \in 1 .. n + 1, NEW j \in 1 .. n + 1, i <= j
               PROVE  events'[i].ts <= events'[j].ts
    BY <1>1
  <2> HIDE DEF n
  <2>1. CASE j \in 1 .. n
    BY <1>1, <2>1 DEF EventsInv
  <2>2. CASE j = n + 1 /\ i \in 1 .. n
    <3>1. events[i].ts \in Int /\ events[i].ts <= Now /\ e.ts \in Int /\ Now \in Int
      BY <1>1, <1>2, <1>3, <2>2
    <3>2. events'[i] = events[i] /\ events'[j] = e
      BY <1>1, <2>2
    <3>3. QED BY <3>1, <3>2
  <2>3. CASE j = n + 1 /\ i = n + 1
    <3>1. e.ts \in Int
      BY <1>2
    <3>2. events'[i] = e /\ events'[j] = e
      BY <1>1, <2>3
    <3>3. QED BY <3>1, <3>2
  <2>4. QED BY <1>1, <2>1, <2>2, <2>3
<1>5. \A r \in Read' : r.kind = "result" => r.id \in Called(Read')
  <2>1. Called(Read) \subseteq Called(Read')
    BY <1>1 DEF Called
  <2>2. QED BY <1>1, <2>1 DEF EventsInv
<1>6. QED BY <1>3, <1>4, <1>5 DEF EventsInv

\* What a round does to the open turn and the turns: it stays open, is closed at the
\* event, or there was none; and a prompt or an answer opens one.
LEMMA RoundTurns ==
  ASSUME IInv, NEW e \in Event, Round(e)
  PROVE  /\ Human(e) /\ ~ Scripted(e) => start' = e.ts
         /\ start # None /\ ~ Ender(e) /\ ~ (Human(e) /\ ~ Scripted(e)) => start' = start
         /\ start # None => \/ start' = start
                            \/ \E k \in DOMAIN turns' : turns'[k].start = start /\ turns'[k].end = e.ts
<1>1. CASE Open(e)
  <2>1. start # None => \E k \in DOMAIN turns' : turns'[k].start = start /\ turns'[k].end = e.ts
    <3> SUFFICES ASSUME start # None
                 PROVE  \E k \in DOMAIN turns' : turns'[k].start = start /\ turns'[k].end = e.ts
      OBVIOUS
    <3>1. turns \in Seq(Turn) /\ turns' = Append(turns, Closed(e.ts, "next_user"))
      BY <1>1 DEF Open, Kept, IInv, TypeOK
    <3>2. Len(turns) + 1 \in DOMAIN turns' /\ turns'[Len(turns) + 1] = Closed(e.ts, "next_user")
      BY <3>1
    <3>3. QED BY <3>2 DEF Closed
  <2>2. QED BY <1>1, <2>1 DEF Open, Absorb
<1>2. CASE Close(e)
  <2>1. turns \in Seq(Turn) /\ turns' = Append(turns, Closed(e.ts, Reason(e)))
    BY <1>2 DEF Close, Kept, IInv, TypeOK
  <2>2. Len(turns) + 1 \in DOMAIN turns' /\ turns'[Len(turns) + 1] = Closed(e.ts, Reason(e))
    BY <2>1
  <2>3. \E k \in DOMAIN turns' : turns'[k].start = start /\ turns'[k].end = e.ts
    BY <2>2 DEF Closed
  <2>4. QED BY <1>2, <2>3 DEF Close
<1>3. CASE Pass(e)
  BY <1>3 DEF Pass, Absorb
<1>4. QED BY <1>1, <1>2, <1>3 DEF Round

LEMMA OpenAfter ==
  ASSUME WorkInv, NEW e \in Event, Round(e), e.kind = "tool" => e.id \notin Called(Read),
         NEW n, n = Len(events) + 1
  PROVE  OpenInv'
<1>1. /\ n \in Nat /\ Len(events') = n /\ DOMAIN events = 1 .. n - 1 /\ DOMAIN events' = 1 .. n
      /\ \A i \in 1 .. n - 1 : events'[i] = events[i]
      /\ events'[n] = e
  BY EventsAfter DEF WorkInv, IInv
<1>2. /\ \A i \in 1 .. n - 1 : Typed(i)' <=> Typed(i)
      /\ Typed(n)' <=> Human(e) /\ ~ Scripted(e)
  BY <1>1, TypedAfter DEF WorkInv, IInv
<1>3. SUFFICES ASSUME NEW o \in 1 .. n, Typed(o)', \A j \in o + 1 .. n : ~ Typed(j)' /\ ~ Ender(events'[j])
               PROVE  start' = events'[o].ts
  BY <1>1 DEF OpenInv, Quiet, Ender
<1>4. CASE o = n
  BY <1>1, <1>2, <1>3, <1>4, RoundTurns DEF WorkInv
<1>5. CASE o \in 1 .. n - 1
  <2>1. ~ (Human(e) /\ ~ Scripted(e)) /\ ~ Ender(e)
    BY <1>1, <1>2, <1>3, <1>5
  <2>2. \A j \in o + 1 .. n - 1 : ~ Typed(j) /\ ~ Ender(events[j])
    BY <1>1, <1>2, <1>3, <1>5
  <2>3. start = events[o].ts
    BY <1>1, <1>2, <1>3, <1>5, <2>2 DEF WorkInv, OpenInv, Quiet
  <2>4. events[o].ts \in Int
    BY <1>1, <1>5, EventTimes DEF WorkInv, IInv
  <2>5. start # None
    BY <2>3, <2>4, TurnsAssumption
  <2>6. QED BY <1>1, <1>5, <2>1, <2>3, <2>5, RoundTurns DEF WorkInv
<1>6. QED BY <1>1, <1>4, <1>5

LEMMA CoverAfter ==
  ASSUME WorkInv, Timeline', NEW e \in Event, Now <= e.ts, Round(e), e.kind = "tool" => e.id \notin Called(Read),
         \A i \in DOMAIN turns : i \in DOMAIN turns' /\ turns'[i] = turns[i],
         NEW n, n = Len(events) + 1
  PROVE  CoverInv'
<1>1. /\ n \in Nat /\ Len(events) = n - 1 /\ DOMAIN events = 1 .. n - 1 /\ DOMAIN events' = 1 .. n
      /\ \A i \in 1 .. n - 1 : events'[i] = events[i]
      /\ events'[n] = e
  BY EventsAfter DEF WorkInv, IInv
<1>2. \A i \in 1 .. n - 1 : Typed(i)' <=> Typed(i)
  BY <1>1, TypedAfter DEF WorkInv, IInv
<1>3. /\ e.ts \in Int /\ Now \in Int /\ \A i \in 1 .. n - 1 : events[i].ts \in Int /\ events[i].ts <= Now
  <2>1. e.ts \in Int /\ Now \in Int
    BY NowIsTime, TurnsAssumption DEF Event, Time, WorkInv, IInv
  <2>2. ASSUME NEW i \in 1 .. n - 1
        PROVE  events[i].ts \in Int /\ events[i].ts <= Now
    <3>1. Len(events) \in DOMAIN events /\ i <= Len(events) /\ Now = events[Len(events)].ts
      BY <1>1, <2>2 DEF Now
    <3>2. QED BY <1>1, <2>2, <3>1, EventTimes DEF WorkInv, IInv, EventsInv
  <2>3. QED BY <2>1, <2>2
<1>4. SUFFICES ASSUME NEW o \in 1 .. n, NEW i \in 1 .. n, o < i, Typed(o)',
                      \A j \in o + 1 .. i - 1 : ~ Typed(j)' /\ ~ Ender(events'[j])
               PROVE  Followed(o, i)'
  BY <1>1 DEF CoverInv, Quiet, Ender
<1>5. /\ o \in 1 .. n - 1 /\ Typed(o) /\ events'[o] = events[o]
      /\ \A j \in o + 1 .. i - 1 : ~ Typed(j) /\ ~ Ender(events[j])
  BY <1>1, <1>2, <1>4
<1>6. events'[i].ts <= e.ts /\ events'[i].ts \in Int
  <2>1. CASE i = n
    BY <1>1, <1>3, <2>1
  <2>2. CASE i \in 1 .. n - 1
    <3>1. events'[i] = events[i]
      BY <1>1, <2>2
    <3>2. QED BY <1>3, <2>2, <3>1
  <2>3. QED BY <1>1, <2>1, <2>2
\* The turn that was open at the prompt is still open, or was closed by e.
<1>7. CASE start = events[o].ts
  <2>1. start # None
    BY <1>3, <1>5, <1>7, TurnsAssumption
  <2>2. CASE start' = start
    BY <1>5, <1>7, <2>2 DEF Followed
  <2>3. CASE \E k \in DOMAIN turns' : turns'[k].start = start /\ turns'[k].end = e.ts
    BY <1>5, <1>6, <1>7, <2>3 DEF Followed
  <2>4. QED BY <2>1, <2>2, <2>3, RoundTurns DEF WorkInv
<1>8. CASE start # events[o].ts
  <2>1. i \in 1 .. n - 1
    <3> SUFFICES ASSUME i = n PROVE FALSE
      BY <1>1
    <3>1. QED BY <1>1, <1>5, <1>8 DEF WorkInv, OpenInv, Quiet
  <2>2. Followed(o, i) /\ events'[i] = events[i]
    BY <1>1, <1>4, <1>5, <2>1 DEF WorkInv, CoverInv, Quiet
  <2>3. QED BY <1>5, <1>8, <2>2 DEF Followed
<1>9. QED BY <1>7, <1>8

LEMMA WorkStep ==
  ASSUME WorkInv, Next
  PROVE  WorkInv'
<1>1. PICK e \in Event : /\ Now <= e.ts /\ Round(e)
                         /\ e.kind = "tool" => e.id \notin Called(Read)
                         /\ e.kind = "result" => e.id \in Called(Read)
  BY RoundIds DEF WorkInv, IInv
<1>2. IInv' /\ Len(turns) <= Len(turns') /\ \A i \in DOMAIN turns : turns'[i] = turns[i]
  BY NextTimeline DEF WorkInv
<1>3. turns \in Seq(Turn) /\ turns' \in Seq(Turn)
  BY <1>2 DEF WorkInv, IInv, TypeOK
<1>4. \A i \in DOMAIN turns : i \in DOMAIN turns' /\ turns'[i] = turns[i]
  BY <1>2, <1>3
<1>5. EventsInv'
  <2>1. TypeOK /\ EventsInv
    BY DEF WorkInv, IInv
  <2>2. QED BY <1>1, <2>1, EventsStep
<1>6. PICK n : n = Len(events) + 1
  OBVIOUS
<1>7. OpenInv'
  <2>1. e.kind = "tool" => e.id \notin Called(Read)
    BY <1>1
  <2>2. Round(e)
    BY <1>1
  <2>3. QED BY <1>6, <2>1, <2>2, OpenAfter
<1>8. CoverInv'
  <2>1. Timeline'
    BY <1>2 DEF IInv
  <2>2. e.kind = "tool" => e.id \notin Called(Read)
    BY <1>1
  <2>3. Now <= e.ts /\ Round(e)
    BY <1>1
  <2>4. QED BY <1>4, <1>6, <2>1, <2>2, <2>3, CoverAfter
<1>9. QED BY <1>2, <1>5, <1>7, <1>8 DEF WorkInv

LEMMA WorkInit == Init => WorkInv
<1> SUFFICES ASSUME Init PROVE WorkInv
  OBVIOUS
<1>1. events = <<>> /\ DOMAIN events = {}
  BY DEF Init
<1>2. EventsInv /\ OpenInv /\ CoverInv
  BY <1>1 DEF EventsInv, Read, OpenInv, CoverInv
<1>3. QED BY <1>2, InitTimeline DEF WorkInv

LEMMA WorkStutter ==
  ASSUME WorkInv, UNCHANGED vars
  PROVE  WorkInv'
<1>1. IInv'
  BY StutterTimeline DEF WorkInv
<1>2. UNCHANGED <<menu, events, start, scripted, turns>>
  BY DEF vars
<1>3. EventsInv' /\ OpenInv' /\ CoverInv'
  BY <1>2 DEF WorkInv, EventsInv, OpenInv, CoverInv, Followed, Quiet, Typed, Human, Ender, Scripted,
              Read, Called, IdsOf
<1>4. QED BY <1>1, <1>3 DEF WorkInv

LEMMA WorkCovers ==
  ASSUME WorkInv
  PROVE  NoWorkLost
<1>1. turns \in Seq(Turn) /\ Now \in Int
  BY NowIsTime, TurnsAssumption DEF WorkInv, IInv, TypeOK, Time
<1>2. SUFFICES ASSUME NEW o \in DOMAIN events, NEW i \in DOMAIN events, o < i, Typed(o),
                      \A j \in o + 1 .. i - 1 : ~ Typed(j) /\ ~ Ender(events[j])
               PROVE  \/ events[i].ts = events[o].ts
                      \/ \E k \in DOMAIN AllTurns :
                           AllTurns[k].start = events[o].ts /\ events[i].ts <= AllTurns[k].end
  BY DEF NoWorkLost
<1>3. Followed(o, i)
  BY <1>2 DEF WorkInv, CoverInv, Quiet
<1>4. /\ events[o].ts \in Int /\ events[i].ts \in Int
      /\ events[o].ts <= events[i].ts /\ events[i].ts <= Now
  <2>1. events \in Seq(Event) /\ o <= i /\ Len(events) \in DOMAIN events /\ i <= Len(events)
        /\ Now = events[Len(events)].ts
    BY <1>2 DEF WorkInv, IInv, TypeOK, Now
  <2>2. QED BY <2>1, EventTimes DEF WorkInv, IInv, EventsInv
<1>5. CASE start = events[o].ts
  <2>1. CASE Now > start
    <3> DEFINE t == Closed(Now, "session_end")
    <3>1. start # None
      BY <1>4, <1>5, TurnsAssumption
    <3>2. AllTurns = Append(turns, t) /\ t.start = start /\ t.end = Now
      BY <2>1, <3>1 DEF AllTurns, Closed
    <3> HIDE DEF t
    <3>3. Len(turns) + 1 \in DOMAIN AllTurns /\ AllTurns[Len(turns) + 1] = t
      BY <1>1, <3>2
    <3>4. QED BY <1>4, <1>5, <3>2, <3>3
  <2>2. CASE ~ (Now > start)
    BY <1>1, <1>4, <1>5, <2>2
  <2>3. QED BY <2>1, <2>2
<1>6. CASE \E k \in DOMAIN turns : turns[k].start = events[o].ts /\ events[i].ts <= turns[k].end
  <2>1. \A k \in DOMAIN turns : k \in DOMAIN AllTurns /\ AllTurns[k] = turns[k]
    BY <1>1 DEF AllTurns
  <2>2. QED BY <1>6, <2>1
<1>7. QED BY <1>3, <1>5, <1>6 DEF Followed

\* Whatever happens after a typed prompt or an answer, up to the agent's handing back or
\* the next one, lies in the turn that began there, for sessions of any length.
THEOREM WorkKept == Spec => []NoWorkLost
<1>1. WorkInv /\ [Next]_vars => WorkInv'
  BY WorkStep, WorkStutter
<1>2. WorkInv => NoWorkLost
  BY WorkCovers
<1>3. QED BY <1>1, <1>2, WorkInit, PTL DEF Spec
=============================================================================
