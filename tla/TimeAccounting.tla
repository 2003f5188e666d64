----------------------------- MODULE TimeAccounting ----------------------------
(***************************************************************************)
(* What is computed from a session's turns: the streaks of unattended      *)
(* turns (turn_classifier.py), and time_accounting.py: the pieces of tool  *)
(* calls, the partition of the session's window, its parallel agents, the  *)
(* grid and the longest run. Beside the main thread of Turns, subagents    *)
(* write transcripts of their own.                                         *)
(*                                                                         *)
(* An interval is a pair <<lo, hi>>, a piece a triple <<lo, hi, kind>>. A  *)
(* sweep over sorted bounds is a set of neighbouring bounds; pieces are    *)
(* not merged where nothing depends on it.                                 *)
(***************************************************************************)
EXTENDS Turns, SequencesExt

CONSTANTS
  Agents,
  AgentMenu,   \* the events an agent's transcript may consist of
  MaxAgentEvents,
  KPrompt,     \* K_PROMPT_CREDIT_SECONDS
  KGrace,      \* K_POLL_GRACE_SECONDS
  KCap,        \* K_TOOL_CAP_SECONDS
  KInterrupted,\* K_TOOL_CAP_INTERRUPTED_SECONDS
  PollRunMin

ASSUME TimeAccountingAssumption ==
  /\ AgentMenu \subseteq Template /\ MaxAgentEvents \in Nat
  /\ {KPrompt, KGrace, KCap, KInterrupted, PollRunMin} \subseteq Nat
  /\ None \notin [first : Nat, last : Nat, active : Nat]

VARIABLE sub   \* per agent its transcript

SessionInit == Init /\ sub = [a \in Agents |-> <<>>]

\* An agent that was dispatched appends to its transcript.
Extend(a) ==
  /\ IdsOf(Read, "task") # {}
  /\ Len(sub[a]) < MaxAgentEvents
  /\ LET own == ToSet(sub[a]) IN
     \E m \in AgentMenu : \E id \in MayCarry(own, m) : \E ts \in Time :
       /\ \A e \in own \cup {c \in Read : c.tool = "task"} : e.ts <= ts
       /\ sub' = [sub EXCEPT ![a] = Append(@, NewEvent(m, id, ts))]
  /\ UNCHANGED vars

SessionNext == (Next /\ UNCHANGED sub) \/ \E a \in Agents : Extend(a)

SessionSpec == SessionInit /\ [][SessionNext]_<<vars, sub>>

-----------------------------------------------------------------------------
(* Streaks of unattended turns (turn_classifier.py).                         *)

Length(p) == p[2] - p[1]
TotalLength(P) == SumFunction([p \in P |-> Length(p)])

\* Mutant: a streak goes on after a gap of any length.
Bridged_Any(T, k) == k > 1 /\ Label(T[k - 1]) = "AFK"
\* Whether a streak goes on: the turn before was unattended too, and ended shortly
\* before.
Bridged(T, k) ==
  k > 1 /\ Label(T[k - 1]) = "AFK" /\ T[k].start - T[k - 1].end <= KBridge

NoStreaks == [out |-> <<>>, cur |-> None]

\* Mutant: a streak is only written down by the turn that ends it.
Flushed_Not(acc) == acc.out
Flushed(acc) == IF acc.cur = None THEN acc.out ELSE Append(acc.out, acc.cur)

\* afk_streaks: one round of its loop, for the turn T[k]. A streak is the first and
\* the last of its turns, and their active time.
Streak(T, acc, k) ==
  IF Label(T[k]) # "AFK" THEN [out |-> Flushed(acc), cur |-> None]
  ELSE IF acc.cur # None /\ Bridged(T, k)
    THEN [out |-> acc.out,
          cur |-> [first |-> acc.cur.first, last |-> k, active |-> acc.cur.active + ActiveTime(T[k])]]
    ELSE [out |-> Flushed(acc), cur |-> [first |-> k, last |-> k, active |-> ActiveTime(T[k])]]

Streaks(T) == Flushed(FoldLeftDomain(LAMBDA acc, k : Streak(T, acc, k), NoStreaks, T))

-----------------------------------------------------------------------------
(* Tool calls (R3, R4, R6, R7). evs is a thread, D its calls in order.       *)

\* What of s is in S, in its order.
Only(s, S) == FoldLeft(LAMBDA out, x : IF x \in S THEN Append(out, x) ELSE out, <<>>, s)

Calls(evs) == Only(evs, {e \in ToSet(evs) : e.kind = "tool"})
Result(evs, id) == {e \in ToSet(evs) : e.kind = "result" /\ e.id = id}

\* round: half a unit goes to the even neighbour.
Half(n) == IF n % 2 = 1 /\ (n \div 2) % 2 = 1 THEN (n \div 2) + 1 ELSE n \div 2

\* A call that polls and a background shell are Bash too.
Name(tool) == IF tool \in {"poll", "shell"} THEN "bash" ELSE tool

\* The calls of a thread, with the result that ended each, or the end of the scope.
Timed(evs, scopeEnd) ==
  LET C == Calls(evs)
      ends(c) == IF Result(evs, c.id) = {} THEN {scopeEnd} ELSE {e.ts : e \in Result(evs, c.id)}
  IN [i \in DOMAIN C |-> [tool |-> C[i].tool, start |-> C[i].ts, end |-> Max({C[i].ts} \cup ends(C[i])),
                          how |-> {e.how : e \in Result(evs, C[i].id)}]]

\* _poll_groups: D[j] and D[j + 1] repeat each other, within one turn.
Linked(D, starts, j) ==
  /\ D[j].tool \in {"poll", "wait"} /\ D[j + 1].tool = D[j].tool
  /\ \A s \in starts : s <= D[j].start \/ D[j + 1].start < s

\* The calls that share the grace of D[i].
\* Mutant: every call of a run has the whole grace.
Group_OfOne(D, starts, i) == IF D[i].tool \in {"poll", "wait"} THEN {i} ELSE {}
Group(D, starts, i) ==
  LET run == {j \in DOMAIN D : \A k \in Min({i, j}) .. Max({i, j}) - 1 : Linked(D, starts, k)} IN
  IF D[i].tool \in {"poll", "wait"} /\ Cardinality(run) >= PollRunMin THEN run
  ELSE IF D[i].tool = "wait" THEN {i} ELSE {}

Interval(D, i) == D[i].end - D[i].start

\* The calls of the same tool that nobody had to permit.
Samples(D, tool) == {i \in DOMAIN D : Name(D[i].tool) = tool /\ D[i].how = {"auto"}}

\* The k-th shortest of the intervals of the calls in S, and statistics.median.
Nth(D, S, k) ==
  Min({Interval(D, i) : i \in {x \in S : Cardinality({j \in S : Interval(D, j) <= Interval(D, x)}) >= k}})
Median(D, S) ==
  LET n == Cardinality(S) IN
  IF n % 2 = 1 THEN Nth(D, S, (n + 1) \div 2) ELSE Half(Nth(D, S, n \div 2) + Nth(D, S, (n \div 2) + 1))

\* Of a call that the user permitted, what is beyond the usual; all of a rejected one.
PermissionWait(D, i) ==
  LET s == Samples(D, Name(D[i].tool)) IN
  CASE D[i].how = {"rejected"} \/ (D[i].how = {"by_user"} /\ s = {}) -> Interval(D, i)
    [] D[i].how = {"by_user"} /\ s # {} -> Max({0, Interval(D, i) - Median(D, s)})
    [] OTHER -> 0
Runtime(D, i) == Interval(D, i) - PermissionWait(D, i)

\* The runtime credited to D[i] at most, and the kind of the rest.
Limit(D, group, i) ==
  CASE D[i].tool = "task" -> 0
    [] D[i].tool # "task" /\ group # {} ->
         Max({0, KGrace - SumFunction([j \in {k \in group : k < i} |-> Runtime(D, j)])})
    [] OTHER -> IF D[i].how \in {{"aborted"}, {"denied"}} THEN KInterrupted ELSE KCap
Rest(D, group, i) ==
  CASE D[i].tool = "task" -> "dispatch_wait"
    [] D[i].tool # "task" /\ group # {} -> "polling"
    [] OTHER -> "tool_over_cap"

\* classify_tool_calls: the interval of a call, cut into pieces. The permission wait
\* comes first, then the runtime credited to the call, then the rest.
Span(D, starts, i) ==
  LET group == Group(D, starts, i)
      ran == D[i].start + PermissionWait(D, i)
      credited == ran + Min({Runtime(D, i), Limit(D, group, i)})
  IN [tool |-> D[i].tool, start |-> D[i].start, end |-> D[i].end, group |-> group,
      pieces |-> {p \in {<<D[i].start, ran, "permission_wait">>, <<ran, credited, "tool">>,
                         <<credited, D[i].end, Rest(D, group, i)>>} : p[1] < p[2]}]
Spans(evs, scopeEnd, starts) ==
  LET D == Timed(evs, scopeEnd) IN [i \in DOMAIN D |-> Span(D, starts, i)]

Priority == <<"tool", "dispatch_wait", "permission_wait", "polling", "tool_over_cap">>

\* The spans of tool calls; a question is none.
ToolSpans(evs, scopeEnd, starts) ==
  LET all == Spans(evs, scopeEnd, starts) IN {all[i] : i \in {k \in DOMAIN all : all[k].tool # "ask"}}

\* tool_pieces_union: where calls overlap, the first kind by priority.
UnionOf(pieces) ==
  LET kinds(b) == {p[3] : p \in {q \in pieces : q[1] <= b[1] /\ b[2] <= q[2]}}
      first(S) == Priority[Min({k \in DOMAIN Priority : Priority[k] \in S})]
      bounds == Neighbours(UNION {{p[1], p[2]} : p \in pieces})
  IN {<<b[1], b[2], first(kinds(b))>> : b \in {c \in bounds : kinds(c) # {}}}

\* _turn_pieces: what no call covers is the model's, up to the bridge limit (R2).
ThreadPieces(lo, hi, stamps, pieces) ==
  LET clipped == {q \in {<<Max({p[1], lo}), Min({p[2], hi}), p[3]>> : p \in pieces} : q[1] < q[2]}
      points == {lo, hi} \cup {ts \in stamps : lo < ts /\ ts < hi} \cup UNION {{p[1], p[2]} : p \in clipped}
      kind(b) == LET over == {p \in clipped : p[1] <= b[1] /\ b[1] < p[2]} IN
                 IF over # {} THEN (CHOOSE p \in over : TRUE)[3]
                 ELSE IF b[2] - b[1] <= KBridge THEN "model" ELSE "no_activity"
  IN {<<b[1], b[2], kind(b)>> : b \in Neighbours(points)}

-----------------------------------------------------------------------------
(* The main thread's window (R1, R2, R5).                                    *)

\* The scanner's bounds: every event of the main thread, and of a subagent those
\* that report token usage, which are its messages.
Usage(a) == {e \in ToSet(sub[a]) : e.kind \in {"text", "tool"}}
Stamps == {e.ts : e \in Read \cup UNION {Usage(a) : a \in Agents}}
WindowStart == Min(Stamps)
WindowEnd == Max(Stamps)

\* _is_queued: a typed prompt while a call of the main thread was running.
Queued(ts) ==
  /\ \E e \in Read : e.kind = "user" /\ e.how = "typed" /\ e.ts = ts
  /\ \E c, r \in Read : /\ c.kind = "tool" /\ c.tool # "ask" /\ r.kind = "result" /\ r.id = c.id
                        /\ c.ts < ts /\ ts < r.ts

\* A turn that a queued prompt had cut in two is one again.
Rejoined(done, t) ==
  IF done # <<>> /\ Last(done).reason = "next_user" /\ Last(done).end = t.start /\ Queued(t.start)
  THEN Append(Front(done), [t EXCEPT !.start = Last(done).start, !.scripted = Last(done).scripted])
  ELSE Append(done, t)

\* _main_turns; a last prompt without an answer is no turn.
MainTurns ==
  Only(FoldLeft(Rejoined, <<>>, AllTurns), {t \in Turn :
    \/ t.reason # "session_end"
    \/ \E e \in Read : e.kind \in {"text", "tool"} /\ t.start < e.ts /\ e.ts <= t.end})

\* _pieces_by_turn: the pieces of the calls made in turn n; ThreadPieces cuts them at
\* its end.
PiecesOf(T, spans, n) ==
  {p \in UNION {s.pieces : s \in {x \in spans : /\ T[n].start <= x.start /\ x.start < T[n].end
                                                /\ \A k \in DOMAIN T : k > n => x.start < T[k].start}} :
     p[1] < T[n].end}

\* The prompt credit of turn n (R5): the end of the gap before it.
\* Mutant: the whole credit, however short the gap.
Credit_Whole(T, n, from) == IF T[n].scripted THEN 0 ELSE KPrompt
Credit(T, n, from) == IF T[n].scripted THEN 0 ELSE Min({T[n].start - from, KPrompt})

AgentActive == {"model", "tool", "dispatch_wait"}

Segment(p, owner, n) == [lo |-> p[1], hi |-> p[2], owner |-> owner, kind |-> p[3], turn |-> n]
Idle(lo, hi) == {Segment(p, "between", 0) : p \in {q \in {<<lo, hi, "no_activity">>} : lo < hi}}

\* partition_main_thread: the segments of turn n, and of the time before it.
TurnSegments(T, spans, n) ==
  LET from == IF n = 1 THEN WindowStart ELSE T[n - 1].end
      credit == Credit(T, n, from)
      pieces == ThreadPieces(T[n].start, T[n].end, {e.ts : e \in Read}, UnionOf(PiecesOf(T, spans, n)))
      active == TotalLength({p \in pieces : p[3] \in AgentActive})
      owner == IF T[n].scripted \/ active > KTurn THEN "background" ELSE "interactive"
  IN Idle(from, T[n].start - credit)
     \cup {Segment(<<T[n].start - credit, T[n].start, "read_write">>, "interactive", n) : c \in {credit} \ {0}}
     \cup {Segment(p, owner, n) : p \in pieces}

PartitionOf(T, spans) ==
  LET last == IF T = <<>> THEN WindowStart ELSE Last(T).end IN
  (UNION {TurnSegments(T, spans, n) : n \in DOMAIN T}) \cup Idle(last, WindowEnd)

PromptsOf(T) == {T[n].start : n \in DOMAIN T}
Partition ==
  IF Stamps = {} THEN {}
  ELSE LET T == MainTurns IN PartitionOf(T, ToolSpans(events, WindowEnd, PromptsOf(T)))

-----------------------------------------------------------------------------
(* Parallel agents (R8, R9, R10).                                            *)

\* The maximal intervals of a set of instants (_merge_intervals).
Stretches(S) ==
  {p \in S \X {i + 1 : i \in S} :
     p[1] < p[2] /\ p[1] - 1 \notin S /\ p[2] \notin S /\ p[1] .. p[2] - 1 \subseteq S}

\* _agent_from_events: a transcript's span, cut like a turn of the main thread.
Subagent(a) ==
  LET evs == sub[a]
      stamps == {e.ts : e \in ToSet(evs)}
      spans == ToolSpans(evs, Max(stamps), {e.ts : e \in {x \in ToSet(evs) : x.kind = "user"}})
      pieces == ThreadPieces(Min(stamps), Max(stamps), stamps, UnionOf(UNION {s.pieces : s \in spans}))
      working == {p \in pieces : p[3] \in {"model", "tool"}}
  IN [id |-> a, active |-> TotalLength(working), intervals |-> Stretches(Instants(working))]

\* _background_shells: from the launch to the first notification that it ended, or to
\* the window's end. Without its result the notification is not recognised.
Shell(c) ==
  LET ends == {e.ts : e \in {x \in Read : x.kind = "user" /\ x.id = c.id /\ c.ts <= x.ts}}
      end == IF ends # {} THEN Min(ends) ELSE WindowEnd
      active == Min({end - c.ts, KCap})
  IN [id |-> c, active |-> active, intervals |-> {<<c.ts, c.ts + active>>} \ {<<c.ts, c.ts>>}]

Shells == {c \in Read : c.kind = "tool" /\ c.tool = "shell"}

\* account_agents.
Working == {Subagent(a) : a \in {x \in Agents : sub[x] # <<>>}} \cup {Shell(c) : c \in Shells}

\* An end before a start at the same instant.
\* Mutant: a start before an end.
Earlier_StartFirst(p, q) == p[1] < q[1] \/ (p[1] = q[1] /\ p[2] > q[2])
Earlier(p, q) == p[1] < q[1] \/ (p[1] = q[1] /\ p[2] < q[2])

\* A loop over S from the earliest on: the latest is taken last.
Latest(S) == CHOOSE p \in S : \A q \in S : ~ Earlier(p, q)
InOrder(op(_, _), base, S) ==
  MapThenFoldSet(LAMBDA p, acc : op(acc, p), base, LAMBDA p : p, Latest, S)

\* _union_and_peak: a sweep over the ends of the agents' intervals.
Points(W) ==
  UNION {{<<i[1], 1, a>> : i \in a.intervals} \cup {<<i[2], -1, a>> : i \in a.intervals} : a \in W}
Swept(acc, p) ==
  [union |-> IF acc.depth > 0 THEN acc.union + p[1] - acc.at ELSE acc.union,
   depth |-> acc.depth + p[2], peak |-> Max({acc.peak, acc.depth + p[2]}), at |-> p[1]]
UnionAndPeak(W) ==
  InOrder(Swept, [union |-> 0, depth |-> 0, peak |-> 0, at |-> 0], Points(W))

-----------------------------------------------------------------------------
(* The longest run and the grid. P is the partition, W the parallel agents.  *)

Covered(S) == UNION {s.lo .. s.hi - 1 : s \in S}
AgentInstants(W) == UNION {Instants(a.intervals) : a \in W}

\* Only an interactive turn cuts a run, not the credit of a background turn's prompt.
Interactive(P) ==
  LET background == {s.turn : s \in {x \in P : x.owner = "background"}} IN
  Covered({s \in P : s.owner = "interactive" /\ ~ (s.kind = "read_write" /\ s.turn \in background)})
Activity(P, W) ==
  (Covered({s \in P : s.owner = "background" /\ s.kind \in {"model", "tool"}}) \cup AgentInstants(W))
    \ Interactive(P)
Waiting(P) ==
  Covered({s \in P : s.owner = "background" /\ s.kind \in {"dispatch_wait", "tool_over_cap", "polling"}})

\* Mutant: a gap that is long in all is never bridged.
Bridges_Short(P, g) == g \cap Interactive(P) = {} /\ Cardinality(g) <= KBridge
\* Whether the instants of a gap leave a run together.
Bridges(P, g) ==
  /\ g \cap Interactive(P) = {}
  /\ \/ Cardinality(g) <= KBridge
     \/ \A p \in Stretches(g \ Waiting(P)) : Length(p) <= KBridge

\* longest_run_seconds: one round of its loop, for the next stretch of activity.
RunOn(P, acc, p) ==
  IF acc.at # None /\ Bridges(P, acc.at .. p[1] - 1)
  THEN [best |-> acc.best, cur |-> acc.cur + Length(p), at |-> p[2]]
  ELSE [best |-> Max({acc.best, acc.cur}), cur |-> Length(p), at |-> p[2]]

LongestRun(P, W) ==
  LET runs == InOrder(LAMBDA acc, p : RunOn(P, acc, p), [best |-> 0, cur |-> 0, at |-> None],
                      Stretches(Activity(P, W)))
  IN Max({runs.best, runs.cur})

\* The row of a piece of idle time is that of its reason, wherever it occurred.
\* Mutant: idle time stays with the owner of its turn, also in the row's reasons.
Row_ByOwner(s) == s.owner
Row(s) ==
  CASE s.owner = "between" -> "between"
    [] s.owner # "between" /\ s.kind = "permission_wait" -> "interactive"
    [] s.owner # "between" /\ s.kind \in {"dispatch_wait", "tool_over_cap", "polling"} -> "background"
    [] OTHER -> s.owner

\* grid_seconds: the time of the row's kinds.
Cell(P, row, kinds) ==
  Cardinality(Covered({s \in P : Row(s) = row /\ s.kind \in kinds}))

\* _between_with_agents_ms: the pairs of intervals its loop compares. Of a pair, the
\* one that ends first is left behind, of two that end together the second.
\* Mutant: the one that begins first is left behind.
Met_ByStart(U, B) ==
  {m \in U \X B :
     \/ m[1][1] < m[2][1] /\ \A b \in B : b[1] <= m[1][1] \/ m[2][1] <= b[1]
     \/ m[2][1] <= m[1][1] /\ \A u \in U : u[1] < m[2][1] \/ m[1][1] <= u[1]}
Met(U, B) ==
  {m \in U \X B :
     \/ m[1][2] < m[2][2] /\ \A b \in B : b[2] <= m[1][2] \/ m[2][2] <= b[2]
     \/ m[2][2] <= m[1][2] /\ \A u \in U : u[2] < m[2][2] \/ m[1][2] <= u[2]}
Common(m) == <<Max({m[1][1], m[2][1]}), Min({m[1][2], m[2][2]})>>
Overlaps(U, B) == {p \in {Common(m) : m \in Met(U, B)} : p[1] < p[2]}
BetweenTurns(P) == Covered({s \in P : s.owner = "between"})
WithAgents(P, W) ==
  TotalLength(Overlaps(Stretches(AgentInstants(W) \cap WindowStart .. WindowEnd - 1),
                       Stretches(BetweenTurns(P))))

-----------------------------------------------------------------------------
(* Properties.                                                               *)

\* Every unattended turn is in one streak, each turn of a streak follows the one
\* before it within the bridge, the streaks are in order and none could be longer,
\* and no active time is lost or counted twice on the way from
\* the turns to the streaks.
StreaksAddUp ==
  LET T == AllTurns  S == Streaks(T) IN
  /\ \A k \in DOMAIN T : Label(T[k]) = "AFK" => Cardinality({i \in DOMAIN S : S[i].first <= k /\ k <= S[i].last}) = 1
  /\ \A i \in DOMAIN S :
       /\ \A k \in S[i].first .. S[i].last :
            Label(T[k]) = "AFK" /\ (k > S[i].first => T[k].start - T[k - 1].end <= KBridge)
       /\ S[i].active = Cardinality(UNION {ActiveInstants(T[k]) : k \in S[i].first .. S[i].last})
       /\ i > 1 => /\ S[i - 1].last < S[i].first
                   /\ S[i - 1].last + 1 = S[i].first =>
                        T[S[i].first].start - T[S[i - 1].last].end > KBridge

\* P covers each instant of the window once.
Exact(P) ==
  /\ \A s \in P : s.lo < s.hi
  /\ \A i \in WindowStart .. WindowEnd - 1 : Cardinality({s \in P : s.lo <= i /\ i < s.hi}) = 1
  /\ Covered(P) \subseteq WindowStart .. WindowEnd - 1
\* "sorted, contiguous, has no empty segment, and sums to the window exactly"
\* (partition_main_thread): every instant of the window is in one segment.
PartitionExact == Stamps # {} => Exact(Partition)

\* The runs of calls that poll: of one tool, with no prompt in between.
PollRun(T, all, i) ==
  {j \in DOMAIN all : LET between == Min({i, j}) .. Max({i, j}) IN \A k \in between :
     /\ all[k].tool = all[i].tool /\ all[k].tool \in {"poll", "wait"}
     /\ ~ \E n \in DOMAIN T : all[Min({i, j})].start < T[n].start /\ T[n].start <= all[k].start}
GraceSharedIn(T, all) ==
  LET credit(i) ==
        SumFunction([j \in PollRun(T, all, i) |-> TotalLength({p \in all[j].pieces : p[3] = "tool"})])
  IN \A i \in DOMAIN all : Cardinality(PollRun(T, all, i)) >= PollRunMin =>
       /\ credit(i) <= KGrace
       /\ (\E p \in all[i].pieces : p[3] = "polling") => credit(i) = KGrace
\* The calls of a run that polls are credited the grace once between them, and
\* in full before any of them is idle; a run does not go beyond its turn.
GraceShared ==
  Stamps # {} =>
    LET T == MainTurns IN GraceSharedIn(T, Spans(events, WindowEnd, PromptsOf(T)))

\* P is the partition, W the parallel agents, u their union and peak.
IdentitiesOf(P, W, u) ==
  LET at(i) == {a \in W : \E p \in a.intervals : p[1] <= i /\ i < p[2]}
      total == Cell(P, "interactive", {"read_write", "model", "tool", "permission_wait", "no_activity"})
               + Cell(P, "background", {"model", "tool", "dispatch_wait", "tool_over_cap", "polling", "no_activity"})
               + Cell(P, "between", {"no_activity"})
  IN /\ total = WindowEnd - WindowStart
     /\ u.union = Cardinality(AgentInstants(W))
     /\ u.peak = Max({0} \cup {Cardinality(at(i)) : i \in Time})
     /\ u.union <= SumFunction([a \in W |-> a.active])
     /\ WithAgents(P, W) = Cardinality(BetweenTurns(P) \cap AgentInstants(W))

\* What identity_violations checks, without the rounding, and against the instants
\* themselves: the rows make up the window; the agents' union is the time
\* some agent worked, their peak the most at one instant, and the time between
\* turns with agents is what both have in common.
Identities ==
  Stamps # {} => LET W == Working IN IdentitiesOf(Partition, W, UnionAndPeak(W))


\* active are the instants of Activity(P, W).
RunIsLongest(P, W, active) ==
  LET busy == active \cup Waiting(P)
      run(a, b) == /\ a .. b \cap Interactive(P) = {}
                   /\ \A i \in a .. b - KBridge : i .. i + KBridge \cap busy # {}
  IN LongestRun(P, W) =
       Max({0} \cup {Cardinality(p[1] .. p[2] \cap active) :
                       p \in {q \in active \X active : q[1] <= q[2] /\ run(q[1], q[2])}})

\* "Longest unattended stretch of system activity": the most active instants in a
\* stretch that has no instant of an interactive turn, and nowhere more than the
\* bridge limit on end without activity or a wait of the agent's own.
LongestRunIsLongest ==
  Stamps # {} => LET P == Partition  W == Working IN RunIsLongest(P, W, Activity(P, W))
=============================================================================
