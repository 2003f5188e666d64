------------------------------- MODULE Transcript ------------------------------
(***************************************************************************)
(* A transcript that grows while it is scanned again and again. An agent   *)
(* appends lines, not always in the order of their timestamps; a scan      *)
(* parses what the file holds by then, sorts it by timestamp, and runs the *)
(* loop of segment_turns (Turns, whose variables here are that loop's)     *)
(* over it from the beginning.                                             *)
(*                                                                         *)
(* A scan of an unchanged transcript is left out: its session is taken     *)
(* from the cache (Extraction).                                            *)
(***************************************************************************)
EXTENDS Turns, SequencesExt

CONSTANT MaxLines   \* bound: lines of a transcript

ASSUME TranscriptAssumption == MaxLines \in Nat

VARIABLES
  lines,   \* the transcript, in the order of the file
  todo,    \* main_events that the loop has yet to read
  parsed,  \* how many of the lines this scan, or the last one, has parsed
  past     \* the scan before it: how many it parsed, the turns it found ended

transcriptVars == <<vars, lines, todo, parsed, past>>

TranscriptInit ==
  /\ Init
  /\ lines = <<>> /\ todo = <<>> /\ parsed = 0
  /\ past = [parsed |-> 0, turns |-> <<>>]

Written == ToSet(lines)
CalledAt(id) == LET c == CHOOSE c \in Written : c.kind = "tool" /\ c.id = id IN c.ts

\* The agent's or the human's next line, stamped earlier or later than the others;
\* but a result is not stamped before its call.
Write ==
  /\ Len(lines) < MaxLines
  /\ \E m \in menu : \E id \in MayCarry(Written, m) : \E ts \in Time :
       /\ m.kind = "result" => CalledAt(id) <= ts
       /\ lines' = Append(lines, NewEvent(m, id, ts))
  /\ UNCHANGED <<vars, todo, parsed, past>>

\* Mutant: the events are taken as the file has them.
Sorted_AsWritten(s) == s
\* main_events.sort by timestamp, which is stable.
Sorted(s) ==
  LET place(i) == Cardinality({j \in DOMAIN s : s[j].ts < s[i].ts \/ (s[j].ts = s[i].ts /\ j <= i)})
  IN [k \in DOMAIN s |-> s[CHOOSE i \in DOMAIN s : place(i) = k]]

\* Mutant: the scan goes on with the turns of the last one.
Begin_GoOn ==
  /\ todo = <<>> /\ parsed < Len(lines)
  /\ past' = [parsed |-> parsed, turns |-> turns]
  /\ parsed' = Len(lines) /\ todo' = Sorted(lines)
  /\ events' = <<>>
  /\ UNCHANGED <<menu, lines, start, scripted, turns>>

\* A scan parses the file and starts the loop.
Begin ==
  /\ todo = <<>> /\ parsed < Len(lines)
  /\ past' = [parsed |-> parsed, turns |-> turns]
  /\ parsed' = Len(lines) /\ todo' = Sorted(lines)
  /\ events' = <<>> /\ start' = None /\ scripted' = FALSE /\ turns' = <<>>
  /\ UNCHANGED <<menu, lines>>

\* One round of the loop.
Step ==
  /\ todo # <<>>
  /\ Round(Head(todo)) /\ todo' = Tail(todo)
  /\ UNCHANGED <<lines, parsed, past>>

TranscriptNext == Write \/ Begin \/ Step

TranscriptSpec == TranscriptInit /\ [][TranscriptNext]_transcriptVars

-----------------------------------------------------------------------------
\* The loop has read everything.
Done == todo = <<>> /\ parsed > 0

\* Whether a turn is open at e: the last prompt, answer or handing back before e, by
\* the clock, is not a handing back.
OpenAt(E, e) ==
  \E h \in E : /\ Human(h) /\ h.ts < e.ts
               /\ \A x \in E : Ender(x) /\ x.ts < e.ts => x.ts < h.ts

\* The turns that the events E make up, by the clock alone: a turn begins at a typed
\* prompt or an answer, and at a script's prompt while none is open; it ends at the
\* next handing back, typed prompt or answer, or with the session.
TurnsByClock(E) ==
  LET breaks(b, f) == b.ts < f.ts /\ (Ender(f) \/ (Human(f) /\ ~ Scripted(f)))
      opens(b) == Human(b) /\ (Scripted(b) => ~ OpenAt(E, b))
      turn(b, ts, reason) == [start |-> b.ts, end |-> ts, reason |-> reason, scripted |-> Scripted(b)]
  IN {turn(b, f.ts, IF Human(f) THEN "next_user" ELSE Reason(f)) :
        <<b, f>> \in {p \in E \X E : /\ opens(p[1]) /\ breaks(p[1], p[2])
                                     /\ \A x \in E : breaks(p[1], x) => p[2].ts <= x.ts}}
     \cup {turn(b, Now, "session_end") : b \in {b \in E : opens(b) /\ b.ts < Now /\ \A x \in E : ~ breaks(b, x)}}

\* The turns of a scan are those its lines make up by the clock, in whatever order
\* they were written: a line that comes late is put where it belongs, and opens,
\* splits or ends the turns it would have had it come in time. (Lines of one
\* instant keep the order of the file, so the clock alone does not decide.)
TurnsByTime ==
  LET E == {lines[i] : i \in 1 .. parsed} IN
  (Done /\ \A i, j \in 1 .. parsed : lines[i].ts = lines[j].ts => i = j) =>
    ToSet(AllTurns) = TurnsByClock(E)

\* A turn that ended before everything written since is counted again, unchanged, by
\* the next scan, and no turn is added before it: what was reported of a day stays
\* true of it unless a line of that day comes late.
SettledTurnsStay ==
  Done =>
    \A c \in Time :
      (\A i \in past.parsed + 1 .. parsed : c <= lines[i].ts) =>
        LET Settled(s) == SelectSeq(s, LAMBDA t : t.end < c) IN Settled(past.turns) = Settled(turns)
=============================================================================
