--------------------------------- MODULE Turns ---------------------------------
(***************************************************************************)
(* The turns of a session (turn_classifier.py): segment_turns sorts the    *)
(* main thread's events by timestamp and hands the session back and forth  *)
(* between the human and the agent. One action is one round of its loop:   *)
(* `events' is what the loop of one scan has read so far, not a transcript *)
(* that grows; a state is also the end of a loop over these events, and    *)
(* what is computed after the loop is computed from it. How lines get into *)
(* a transcript, in whatever order of time, and how a scan sorts them, is  *)
(* Transcript. Time is counted in ticks.                                   *)
(*                                                                         *)
(* Left out: sidechain events, usage events and lines without a timestamp, *)
(* which the loop never sees. Assumed: a result is not stamped before its  *)
(* call.                                                                   *)
(***************************************************************************)
EXTENDS Integers, Sequences, FiniteSets

CONSTANTS
  Ids,        \* ids of tool calls
  None,
  Menus,      \* sets of the events a session may consist of; see Template
  KTurn,      \* K_TURN_SECONDS
  KBridge,    \* K_BRIDGE_IDLE_SECONDS
  MaxEvents, MaxTime \* bounds: events of a session, its last tick

Tools == {"bash", "poll", "wait", "task", "shell", "ask"}
Outcomes == {"ok", "auto", "by_user", "rejected", "denied", "aborted"}

\* The kinds of event. user: a prompt, typed or sent by a script; a script's may
\* be the notification that a background shell ended. text: anything the
\* assistant says. tool: a call; one that polls repeats the same input. how is
\* "end" on the assistant's last message (stop_reason end_turn). result: how
\* the call ended, and how it was permitted.
Template ==
  [kind : {"user"}, how : {"typed", "scripted"}, tool : {"none", "shell"}] \cup
  [kind : {"text"}, how : {"more", "end"}, tool : {"none"}] \cup
  [kind : {"tool"}, how : {"more", "end"}, tool : Tools] \cup
  [kind : {"result"}, how : Outcomes, tool : {"none"}]

Time == 0..MaxTime
Event == [kind : {"user", "text", "tool", "result"},
          how : {"typed", "scripted", "more", "end"} \cup Outcomes,
          tool : {"none"} \cup Tools, id : {None} \cup Ids, ts : Time]
Reasons == {"end_turn", "ask_user_question", "next_user", "session_end"}
Turn == [start : Time, end : Time, reason : Reasons, scripted : BOOLEAN]

ASSUME TurnsAssumption ==
  /\ None \notin Ids /\ None \notin Int
  /\ Menus \subseteq SUBSET Template
  /\ KTurn \in Nat /\ KBridge \in Nat /\ MaxEvents \in Nat /\ MaxTime \in Nat

VARIABLES
  menu,      \* what this session consists of
  events,    \* the sorted main thread, as far as the loop has read it
  start,     \* current_start: when the open turn began, or None
  scripted,  \* current_scripted
  turns      \* the turns that have ended

vars == <<menu, events, start, scripted, turns>>

Init ==
  /\ menu \in Menus /\ events = <<>>
  /\ start = None /\ scripted = FALSE /\ turns = <<>>

\* last_ts: when the last event was.
Now == IF events = <<>> THEN 0 ELSE events[Len(events)].ts

Read == {events[i] : i \in DOMAIN events}
Called(E) == {e.id : e \in {c \in E : c.kind = "tool"}}
Returned(E) == {e.id : e \in {c \in E : c.kind = "result"}}
IdsOf(E, tool) == {e.id : e \in {c \in E : c.kind = "tool" /\ c.tool = tool}}

\* The ids a next event of kind m may carry: an id is called once and returns once.
MayCarry(E, m) ==
  CASE m.kind = "tool" -> Ids \ Called(E)
    [] m.kind = "result" -> Called(E) \ Returned(E)
    [] m.kind = "user" /\ m.tool = "shell" -> IdsOf(E, "shell") \cap Returned(E)
    [] OTHER -> {None}

\* _is_human_event: a prompt, or the answer to an AskUserQuestion.
Human(e) == e.kind = "user" \/ (e.kind = "result" /\ e.id \in IdsOf(Read, "ask"))

\* _is_turn_ender_event.
Ender(e) == (e.kind \in {"text", "tool"} /\ e.how = "end") \/ (e.kind = "tool" /\ e.tool = "ask")

Scripted(e) == e.kind = "user" /\ e.how = "scripted"

\* Mutant: a question that ends a turn is named like other messages.
Reason_Raw(e) == e.how
Reason(e) == IF e.kind = "tool" /\ e.tool = "ask" THEN "ask_user_question" ELSE "end_turn"

Closed(ts, reason) == [start |-> start, end |-> ts, reason |-> reason, scripted |-> scripted]

Kept(t) == Append(turns, t)

-----------------------------------------------------------------------------
(* One round of the loop of segment_turns, for the event e.                  *)

\* Mutant: a script's prompt is a prompt like any other.
Absorb_Never(e) == FALSE
\* A script's prompt while a turn is open belongs to it.
Absorb(e) == Scripted(e) /\ start # None

\* A human event ends the open turn and opens the next.
Open(e) ==
  /\ ~ Absorb(e) /\ Human(e)
  /\ turns' = IF start = None THEN turns ELSE Kept(Closed(e.ts, "next_user"))
  /\ start' = e.ts /\ scripted' = Scripted(e)

\* Mutant: the turn that has ended stays open.
Close_Open(e) ==
  /\ ~ Absorb(e) /\ ~ Human(e) /\ start # None /\ Ender(e)
  /\ turns' = Kept(Closed(e.ts, Reason(e)))
  /\ UNCHANGED <<start, scripted>>

\* The agent hands back.
Close(e) ==
  /\ ~ Absorb(e) /\ ~ Human(e) /\ start # None /\ Ender(e)
  /\ turns' = Kept(Closed(e.ts, Reason(e)))
  /\ start' = None
  /\ UNCHANGED scripted

Pass(e) ==
  /\ Absorb(e) \/ (~ Human(e) /\ ~ (start # None /\ Ender(e)))
  /\ UNCHANGED <<start, scripted, turns>>

Round(e) ==
  /\ events' = Append(events, e)
  /\ UNCHANGED menu
  /\ Open(e) \/ Close(e) \/ Pass(e)

NewEvent(m, id, ts) == [kind |-> m.kind, how |-> m.how, tool |-> m.tool, id |-> id, ts |-> ts]

\* The next of the sorted events, whichever they are.
Next ==
  /\ Len(events) < MaxEvents
  /\ \E m \in menu : \E id \in MayCarry(Read, m) : \E ts \in Now..MaxTime :
       Round(NewEvent(m, id, ts))

Spec == Init /\ [][Next]_vars

-----------------------------------------------------------------------------
(* After the loop.                                                           *)

\* An open turn with an event after its start ends with the session.
AllTurns ==
  IF start # None /\ Now > start THEN Append(turns, Closed(Now, "session_end")) ELSE turns

\* The pairs of neighbours in a set of instants.
Neighbours(S) == {p \in S \X S : p[1] < p[2] /\ \A c \in S : c <= p[1] \/ p[2] <= c}

\* _tool_runtime_intervals, _dispatch_intervals: from a call to its result, both in
\* the turn; not what the user cut short.
Runtimes(E, t, which) ==
  {p \in Time \X Time : p[1] < p[2] /\
     \E c, r \in {e \in E : t.start <= e.ts /\ e.ts <= t.end} :
       /\ c.kind = "tool" /\ c.tool \in which /\ c.ts = p[1]
       /\ r.kind = "result" /\ r.id = c.id /\ r.ts = p[2]
       /\ r.how \notin {"aborted", "denied", "rejected"}}

Within(gap, intervals) == \E i \in intervals : i[1] <= gap[1] /\ gap[2] <= i[2]

\* The instants from one event to the next.
Gaps(E, t) ==
  Neighbours({t.start, t.end} \cup {ts \in {e.ts : e \in E} : t.start <= ts /\ ts <= t.end})
Instants(G) == UNION {p[1] .. p[2] - 1 : p \in G}

\* _compute_active_seconds: a gap counts if it lies in a call, or is short.
ToolInstants(t) == Instants({g \in Gaps(Read, t) : Within(g, Runtimes(Read, t, Tools))})
DispatchInstants(t) ==
  Instants({g \in Gaps(Read, t) : Within(g, Runtimes(Read, t, Tools)) /\ Within(g, Runtimes(Read, t, {"task"}))})
ActiveInstants(t) == ToolInstants(t) \cup Instants({g \in Gaps(Read, t) : g[2] - g[1] <= KTurn})
ActiveTime(t) == Cardinality(ActiveInstants(t))

Label(t) == IF t.scripted \/ ActiveTime(t) > KTurn THEN "AFK" ELSE "HITL"

-----------------------------------------------------------------------------
\* The events, the open turn and the turns have their types.
TypeOK ==
  /\ menu \in Menus
  /\ events \in Seq(Event)
  /\ start \in {None} \cup Time /\ scripted \in BOOLEAN
  /\ turns \in Seq(Turn)

\* The turns of segment_turns are in order and apart: none ends before it began or
\* after the next begins, so no instant is counted in two turns, whatever the
\* order of prompts, notifications, questions and answers.
TurnsApart ==
  LET all == AllTurns IN
  /\ \A i \in DOMAIN all : all[i].start <= all[i].end
  /\ \A i, j \in DOMAIN all : i < j => all[i].end <= all[j].start

\* Whatever happens after a typed prompt or an answer, up to the agent's handing
\* back or the next one, lies in one turn that began there: notifications in
\* between do not split it.
Typed(i) == Human(events[i]) /\ ~ Scripted(events[i])
NoWorkLost ==
  \A o, i \in DOMAIN events :
    (/\ o < i /\ Typed(o)
     /\ \A j \in o + 1 .. i - 1 : ~ Typed(j) /\ ~ Ender(events[j])) =>
    \/ events[i].ts = events[o].ts
    \/ \E k \in DOMAIN AllTurns :
         AllTurns[k].start = events[o].ts /\ events[i].ts <= AllTurns[k].end
=============================================================================
