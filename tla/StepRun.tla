-------------------------------- MODULE StepRun --------------------------------
(***************************************************************************)
(* How scripts/run.py starts, follows and reports a scan: --step calls an  *)
(* agent repeats, blocking runs in a terminal, and scans the daily hook    *)
(* starts on its own. They meet in two files of the cache directory:       *)
(* step.json (the scan a --step call started) and status.json (written by  *)
(* whichever scan.py runs, read by whichever run.py waits).                *)
(*                                                                         *)
(* A call of run.py and a scan process are interleaved file operation by   *)
(* file operation. Time passes in ticks; ages stop counting at the limit   *)
(* the code compares them with, so no clock is bounded.                    *)
(***************************************************************************)
EXTENDS Integers, FiniteSets

CONSTANTS
  Pids,        \* process ids scans may get
  Calls,       \* run.py processes; each may be started again when it ended
  None,        \* no file, no value
  Modes,       \* subset of {"step", "blocking"}: how run.py is called
  FullPercent, \* bound: progress goes 0..FullPercent, FullPercent at the upload
  QuietLimit,  \* ticks a living scan may take between two signs of life: a
               \* status write or a request (330 s for a request)
  MaxPosts,    \* requests _send and its retries may make in one scan
  LifeLimit,   \* bound: ticks a followed scan may take; above MaxAge there is none
  StaleAfter,  \* STEP_STALE_SECONDS in ticks
  MaxAge,      \* STEP_MAX_AGE_SECONDS in ticks
  MaxCalls,    \* run.py processes at the same time
  MaxDaily,    \* bound: scans the daily hook starts
  MaxDeaths,   \* bound: scans that end without a final status
  MaxKills     \* bound: run.py processes killed half way

ASSUME StepRunAssumption ==
  /\ None \notin Pids
  /\ None \notin [by : Pids, phase : {"starting", "scanning", "uploading", "done", "error",
                                     "no_sessions"}, percent : 0..FullPercent]
  /\ None \notin [pid : Pids, percent : 0..FullPercent]
  /\ IsFiniteSet(Calls)
  /\ None \notin Modes /\ Modes \subseteq {"step", "blocking"}
  /\ {FullPercent, QuietLimit, MaxPosts, LifeLimit, StaleAfter, MaxAge} \subseteq Nat \ {0}
  /\ {MaxCalls, MaxDaily, MaxDeaths, MaxKills} \subseteq Nat
  /\ StaleAfter <= MaxAge

VARIABLES
  status,    \* status.json: [by, phase, percent], or None
  touched,   \* ticks since status.json was last written
  step,      \* step.json: [pid, percent], or None
  \* scans
  life,      \* what the process is at, "free" when there is none
  zombie,    \* the process has gone but its pid still answers
  own,       \* the last percent the scan wrote
  quiet,     \* ticks since its last sign of life
  posts,     \* requests it has sent
  age,       \* ticks since it was started
  \* calls of run.py
  mode,      \* how it was called, None when there is no such process
  pc,
  child,     \* the scan a call works on is its own child process
  held,      \* the step a call works on: [pid, percent], or None
  \* history and bounds
  ended,     \* the scans that wrote a final status
  printed,   \* the last percent a progress line showed for a scan
  reported,  \* the scans whose end was reported
  crossed,   \* the scans that another one may have written status.json beside, or
             \* whose status.json a later call removed
  lone,      \* the calls that removed status.json while no scan was at work, none
             \* having started since
  dailies, deaths, kills

cache   == <<status, touched>>
scans   == <<life, zombie, own, quiet, posts, age, ended>>
history == <<printed, reported, crossed, lone>>
bounds  == <<dailies, deaths, kills>>
vars    == <<cache, step, scans, mode, pc, child, held, history, bounds>>

Terminal == {"done", "error", "no_sessions"}
Phases   == {"starting", "scanning", "uploading"} \cup Terminal
Lives    == {"free", "spawned", "starting", "scanning", "uploading", "exiting"}
Labels   == {"idle", "load", "drop", "guard", "unlink", "spawn", "record",
             "recording", "poll", "progress", "save", "saving", "clear",
             "report", "wait"}
Percents == 0..FullPercent
Status   == [by : Pids, phase : Phases, percent : Percents]
Step     == [pid : Pids, percent : Percents]

Larger(i, j) == IF i > j THEN i ELSE j
Smaller(i, j) == IF i < j THEN i ELSE j
StatusPercent == IF status = None THEN 0 ELSE status.percent
Active == {c \in Calls : pc[c] # "idle"}
Working(p) == life[p] \notin {"free", "exiting"}

-----------------------------------------------------------------------------
(* A scan, as far as status.json shows it.                                  *)

Init ==
  /\ status = None /\ touched = 0 /\ step = None
  /\ life = [p \in Pids |-> "free"]
  /\ zombie = [p \in Pids |-> FALSE]
  /\ own = [p \in Pids |-> 0]
  /\ quiet = [p \in Pids |-> 0]
  /\ posts = [p \in Pids |-> 0]
  /\ age = [p \in Pids |-> 0]
  /\ mode = [c \in Calls |-> None]
  /\ pc = [c \in Calls |-> "idle"]
  /\ child = [c \in Calls |-> FALSE]
  /\ held = [c \in Calls |-> None]
  /\ ended = {}
  /\ printed = [p \in Pids |-> 0]
  /\ reported = {} /\ crossed = {} /\ lone = {}
  /\ dailies = 0 /\ deaths = 0 /\ kills = 0

\* step.json or a call still speaks of the scan.
Followed(p) == (step # None /\ step.pid = p) \/ \E c \in Calls : held[c] # None /\ held[c].pid = p

Fresh(p) == life[p] = "free" /\ ~ zombie[p] /\ ~ Followed(p)

\* clear: status.json was removed for this scan alone.
Spawn(p, clear) ==
  /\ Fresh(p)
  /\ life' = [life EXCEPT ![p] = "spawned"]
  /\ age' = [age EXCEPT ![p] = 0]
  /\ ended' = ended \ {p}
  /\ printed' = [printed EXCEPT ![p] = 0]
  /\ reported' = reported \ {p}
  /\ crossed' = {q \in Pids : Followed(q) \/ (q = p /\ ~ clear)}
  /\ lone' = {}
  /\ UNCHANGED <<zombie, own, quiet, posts>>

\* StatusWriter.write: a temporary file of its own, then one atomic rename.
WriteStatus(p, phase, percent) ==
  /\ status' = [by |-> p, phase |-> phase, percent |-> percent]
  /\ touched' = 0
  /\ own' = [own EXCEPT ![p] = percent]
  /\ quiet' = [quiet EXCEPT ![p] = 0]

StartScan(p) ==
  /\ life[p] = "spawned"
  /\ WriteStatus(p, "starting", 0)
  /\ life' = [life EXCEPT ![p] = "starting"]
  /\ UNCHANGED <<step, zombie, posts, age, ended, mode, pc, child, held, history, bounds>>

\* emit: the percent of a scan only grows, or is written once more.
EmitProgress(p) ==
  /\ life[p] \in {"starting", "scanning"}
  /\ \E n \in own[p]..(FullPercent - 1) : WriteStatus(p, "scanning", n)
  /\ life' = [life EXCEPT ![p] = "scanning"]
  /\ UNCHANGED <<step, zombie, posts, age, ended, mode, pc, child, held, history, bounds>>

StartUpload(p) ==
  /\ life[p] = "scanning"
  /\ WriteStatus(p, "uploading", FullPercent)
  /\ life' = [life EXCEPT ![p] = "uploading"]
  /\ posts' = [posts EXCEPT ![p] = 1]
  /\ UNCHANGED <<step, zombie, age, ended, mode, pc, child, held, history, bounds>>

\* _send goes on to its next request; status.json is not written.
PostAgain(p) ==
  /\ life[p] = "uploading"
  /\ posts[p] < MaxPosts
  /\ posts' = [posts EXCEPT ![p] = @ + 1]
  /\ quiet' = [quiet EXCEPT ![p] = 0]
  /\ UNCHANGED <<cache, step, life, zombie, own, age, ended, mode, pc, child, held, history, bounds>>

\* A final status carries no percent, which reads as 0.
FinishScan(p) ==
  /\ \E phase \in Terminal :
       /\ \/ phase = "error" /\ life[p] \in {"starting", "scanning", "uploading"}
          \/ phase = "no_sessions" /\ life[p] \in {"starting", "scanning"}
          \/ phase = "done" /\ life[p] = "uploading"
       /\ status' = [by |-> p, phase |-> phase, percent |-> 0]
  /\ touched' = 0
  /\ ended' = ended \cup {p}
  /\ life' = [life EXCEPT ![p] = "exiting"]
  /\ UNCHANGED <<step, zombie, own, quiet, posts, age, mode, pc, child, held, history, bounds>>

\* The process ends; without an init its pid may keep answering.
Gone(p) == /\ life' = [life EXCEPT ![p] = "free"]
           /\ \/ UNCHANGED zombie
              \/ Followed(p) /\ zombie' = [zombie EXCEPT ![p] = TRUE]
           /\ own' = [own EXCEPT ![p] = 0]
           /\ quiet' = [quiet EXCEPT ![p] = 0]
           /\ posts' = [posts EXCEPT ![p] = 0]

Exit(p) ==
  /\ life[p] = "exiting"
  /\ Gone(p)
  /\ UNCHANGED <<cache, step, age, ended, mode, pc, child, held, history, bounds>>

\* Killed, not paired (SystemExit), or an exception that reached the backstop:
\* no final status.
Die(p) ==
  /\ Working(p)
  /\ deaths < MaxDeaths
  /\ deaths' = deaths + 1
  /\ Gone(p)
  /\ UNCHANGED <<cache, step, age, ended, mode, pc, child, held, history, dailies, kills>>

Reap(p) ==
  /\ zombie[p]
  /\ zombie' = [zombie EXCEPT ![p] = FALSE]
  /\ UNCHANGED <<cache, step, life, own, quiet, posts, age, ended, mode, pc, child, held, history,
                 bounds>>

\* daily.main spawns scan.py on the same cache directory.
Daily(p) ==
  /\ dailies < MaxDaily
  /\ dailies' = dailies + 1
  /\ Spawn(p, FALSE)
  /\ UNCHANGED <<cache, step, mode, pc, child, held, deaths, kills>>

\* A living scan gives a sign of life within its limit, and ends within another. Ages and history are
\* kept only of scans that a file or a call may still ask about.
Tick ==
  /\ \A p \in Pids : Working(p) => quiet[p] < QuietLimit /\ age[p] < LifeLimit
  /\ touched' = IF status = None THEN 0 ELSE Smaller(touched + 1, StaleAfter)
  /\ quiet' = [p \in Pids |-> IF Working(p) THEN quiet[p] + 1 ELSE quiet[p]]
  /\ age' = [p \in Pids |-> IF Followed(p) THEN Smaller(age[p] + 1, MaxAge) ELSE 0]
  /\ printed' = [p \in Pids |-> IF Followed(p) THEN printed[p] ELSE 0]
  /\ ended' = {p \in ended : Followed(p)}
  /\ reported' = {p \in reported : Followed(p)}
  /\ crossed' = {p \in crossed : Followed(p)}
  /\ UNCHANGED <<status, step, life, zombie, own, posts, mode, pc, child, held, lone, bounds>>

-----------------------------------------------------------------------------
(* run.py.                                                                  *)

Goto(c, l) == pc' = [pc EXCEPT ![c] = l]

EndCall(c) == /\ Goto(c, "idle")
              /\ mode' = [mode EXCEPT ![c] = None]
              /\ held' = [held EXCEPT ![c] = None]
              /\ child' = [child EXCEPT ![c] = FALSE]

Record(c, p, n) == held' = [held EXCEPT ![c] = [pid |-> p, percent |-> n]]

\* The process answers: the call that started the scan asks its own child, a
\* later one asks whether any process has the pid.
Alive(c, p) == life[p] # "free" \/ (~ child[c] /\ zombie[p])

\* Mutant: a process that answers is never given up.
StepRunning_NoStale(c, p) ==
  /\ ~ (status # None /\ status.phase \in Terminal)
  /\ Alive(c, p)

\* _step_running: no terminal phase in status.json, the pid answers, and
\* status.json was written, or the scan started, within STEP_STALE_SECONDS.
StepRunning(c, p) ==
  /\ ~ (status # None /\ status.phase \in Terminal)
  /\ Alive(c, p)
  /\ age[p] < StaleAfter \/ (status # None /\ touched < StaleAfter)

Begin(c) ==
  /\ pc[c] = "idle"
  /\ Cardinality(Active) < MaxCalls
  /\ \E m \in Modes : /\ mode' = [mode EXCEPT ![c] = m]
                      /\ Goto(c, IF m = "step" THEN "load" ELSE "guard")
  /\ UNCHANGED <<cache, step, scans, child, held, history, bounds>>

\* main: continue the step an earlier call recorded, unless it is too old.
LoadStep(c) ==
  /\ pc[c] = "load"
  /\ \/ step = None /\ Goto(c, "guard") /\ UNCHANGED held
     \/ /\ step # None /\ age[step.pid] < MaxAge
        /\ held' = [held EXCEPT ![c] = step]
        /\ Goto(c, "poll")
     \/ step # None /\ age[step.pid] = MaxAge /\ Goto(c, "drop") /\ UNCHANGED held
  /\ UNCHANGED <<cache, step, scans, mode, child, history, bounds>>

DropStep(c) ==
  /\ pc[c] = "drop"
  /\ step' = None
  /\ Goto(c, "guard")
  /\ UNCHANGED <<cache, scans, mode, child, held, history, bounds>>

\* Mutant: whether the step's scan still runs is not asked.
Guard_Blind(c) ==
  /\ pc[c] = "guard"
  /\ \/ Goto(c, "unlink") /\ UNCHANGED <<mode, child, held>>
     \/ EndCall(c)
  /\ UNCHANGED <<cache, step, scans, history, bounds>>

\* The gates before a scan: update, login and consent may each end the call;
\* a step that is still running ends it too ("already running").
Guard(c) ==
  /\ pc[c] = "guard"
  /\ \/ /\ step # None => ~ StepRunning(c, step.pid)
        /\ Goto(c, "unlink") /\ UNCHANGED <<mode, child, held>>
     \/ EndCall(c)
  /\ UNCHANGED <<cache, step, scans, history, bounds>>

\* Whom the removal of status.json touches.
Cleared(c) ==
  /\ lone' = IF \E q \in Pids : Working(q) THEN lone \ {c} ELSE lone \cup {c}
  /\ crossed' = crossed \cup {q \in Pids : Followed(q)}

\* Mutant: the status of the last scan stays.
UnlinkStatus_Keep(c) ==
  /\ pc[c] = "unlink"
  /\ Cleared(c)
  /\ Goto(c, "spawn")
  /\ UNCHANGED <<cache, step, scans, mode, child, held, printed, reported, bounds>>

UnlinkStatus(c) ==
  /\ pc[c] = "unlink"
  /\ status' = None /\ touched' = 0
  /\ Cleared(c)
  /\ Goto(c, "spawn")
  /\ UNCHANGED <<step, scans, mode, child, held, printed, reported, bounds>>

\* _spawn_scan; a --step call then records it, a blocking one waits for it.
SpawnScan(c) ==
  /\ pc[c] = "spawn"
  /\ \E p \in Pids : Spawn(p, c \in lone) /\ Record(c, p, 0)
  /\ child' = [child EXCEPT ![c] = TRUE]
  /\ Goto(c, IF mode[c] = "step" THEN "record" ELSE "wait")
  /\ UNCHANGED <<cache, step, mode, bounds>>

\* _save_step is no atomic write: the file is empty, which loads as no step,
\* before it holds the new one.
Truncate(c, from, to) ==
  /\ pc[c] = from
  /\ step' = None
  /\ Goto(c, to)
  /\ UNCHANGED <<cache, scans, mode, child, held, history, bounds>>

RecordStep(c) == Truncate(c, "record", "recording")

RecordedStep(c) ==
  /\ pc[c] = "recording"
  /\ step' = held[c]
  /\ Goto(c, "poll")
  /\ UNCHANGED <<cache, scans, mode, child, held, history, bounds>>

\* _step_wait: still running when STEP_WAIT_SECONDS are over.
Deadline(c) ==
  /\ pc[c] = "poll"
  /\ StepRunning(c, held[c].pid)
  /\ Goto(c, "progress")
  /\ UNCHANGED <<cache, step, scans, mode, child, held, history, bounds>>

\* Mutant: the percent is that of status.json.
Progress_StatusOnly(c) ==
  /\ pc[c] = "progress"
  /\ Record(c, held[c].pid, StatusPercent)
  /\ Goto(c, "save")
  /\ UNCHANGED <<cache, step, scans, mode, child, history, bounds>>

\* Mutant: the percents are added up.
Progress_Sum(c) ==
  /\ pc[c] = "progress"
  /\ Record(c, held[c].pid, held[c].percent + StatusPercent)
  /\ Goto(c, "save")
  /\ UNCHANGED <<cache, step, scans, mode, child, history, bounds>>

Progress(c) ==
  /\ pc[c] = "progress"
  /\ Record(c, held[c].pid, Larger(held[c].percent, StatusPercent))
  /\ Goto(c, "save")
  /\ UNCHANGED <<cache, step, scans, mode, child, history, bounds>>

SaveStep(c) == Truncate(c, "save", "saving")

\* The CONDUCTORSCORE_PROGRESS line ends the call.
SavedStep(c) ==
  /\ pc[c] = "saving"
  /\ step' = held[c]
  /\ printed' = [printed EXCEPT ![held[c].pid] = held[c].percent]
  /\ EndCall(c)
  /\ UNCHANGED <<cache, scans, reported, crossed, lone, bounds>>

StepFinished(c) ==
  /\ pc[c] = "poll"
  /\ ~ StepRunning(c, held[c].pid)
  /\ Goto(c, "clear")
  /\ UNCHANGED <<cache, step, scans, mode, child, held, history, bounds>>

\* Mutant: the step stays on record.
ClearStep_Keep(c) ==
  /\ pc[c] = "clear"
  /\ Goto(c, "report")
  /\ UNCHANGED <<cache, step, scans, mode, child, held, history, bounds>>

ClearStep(c) ==
  /\ pc[c] = "clear"
  /\ step' = None
  /\ Goto(c, "report")
  /\ UNCHANGED <<cache, scans, mode, child, held, history, bounds>>

\* A blocking run waits for its child to end, however long that takes.
WaitedFor(c) ==
  /\ pc[c] = "wait"
  /\ life[held[c].pid] = "free"
  /\ Goto(c, "report")
  /\ UNCHANGED <<cache, step, scans, mode, child, held, history, bounds>>

\* _report_final on the status.json of this moment.
ReportFinal(c) ==
  /\ pc[c] = "report"
  /\ reported' = reported \cup {held[c].pid}
  /\ EndCall(c)
  /\ UNCHANGED <<cache, step, scans, printed, crossed, lone, bounds>>

\* The host ends the shell call; a detached scan goes on.
Kill(c) ==
  /\ c \in Active
  /\ kills < MaxKills
  /\ kills' = kills + 1
  /\ EndCall(c)
  /\ UNCHANGED <<cache, step, scans, history, dailies, deaths>>

-----------------------------------------------------------------------------
ScanStep(p) == \/ StartScan(p) \/ EmitProgress(p) \/ StartUpload(p) \/ PostAgain(p)
               \/ FinishScan(p) \/ Exit(p)
CallStep(c) == \/ LoadStep(c) \/ DropStep(c) \/ Guard(c) \/ UnlinkStatus(c) \/ SpawnScan(c)
               \/ RecordStep(c) \/ RecordedStep(c) \/ Deadline(c) \/ Progress(c)
               \/ SaveStep(c) \/ SavedStep(c) \/ StepFinished(c) \/ ClearStep(c)
               \/ WaitedFor(c) \/ ReportFinal(c)

Next == \/ \E p \in Pids : ScanStep(p) \/ Die(p) \/ Reap(p) \/ Daily(p)
        \/ \E c \in Calls : Begin(c) \/ CallStep(c) \/ Kill(c)
        \/ Tick

Spec == Init /\ [][Next]_vars

\* Time passes, a living scan has finitely many sessions to read and requests to
\* send, a call runs on, and the agent runs `run.py --step` again while the output ends with a progress line
\* (SKILL.md, "Progress relay rule").
FairSpec == /\ Spec
            /\ WF_vars(Tick)
            /\ \A p \in Pids : WF_vars(StartScan(p)) /\ WF_vars(Exit(p))
                               /\ WF_vars(StartUpload(p) \/ FinishScan(p))
            /\ \A c \in Calls : WF_vars(CallStep(c))
            /\ \A c \in Calls : WF_vars(Begin(c))

-----------------------------------------------------------------------------
TypeOK ==
  /\ status \in Status \cup {None}
  /\ touched \in 0..StaleAfter
  /\ step \in Step \cup {None}
  /\ life \in [Pids -> Lives]
  /\ zombie \in [Pids -> BOOLEAN]
  /\ own \in [Pids -> Percents]
  /\ quiet \in [Pids -> 0..QuietLimit]
  /\ posts \in [Pids -> 0..MaxPosts]
  /\ age \in [Pids -> 0..MaxAge]
  /\ mode \in [Calls -> Modes \cup {None}]
  /\ pc \in [Calls -> Labels]
  /\ child \in [Calls -> BOOLEAN]
  /\ held \in [Calls -> Step \cup {None}]
  /\ ended \subseteq Pids
  /\ printed \in [Pids -> Percents]
  /\ reported \subseteq Pids
  /\ crossed \subseteq Pids
  /\ lone \subseteq Calls
  /\ dailies \in 0..MaxDaily
  /\ deaths \in 0..MaxDeaths
  /\ kills \in 0..MaxKills

-----------------------------------------------------------------------------
(* Properties.                                                              *)

\* What a call reports at the end of a scan is what that very scan wrote last,
\* its own final status, or no final status when it left none: nothing of a scan
\* that had ended before, however it ended and whoever was killed or gave up
\* waiting, and nothing another scan wrote (_step_wait, _report_final). Excepted are
\* the scans that another one crossed: one that was at work when status.json was
\* removed for this scan, one that was started after that, by a call or by the
\* daily hook, or a later call that removed status.json again.
ReportsOwnScan ==
  \A c \in Calls : (pc[c] = "report" /\ held[c].pid \notin crossed) =>
    IF held[c].pid \in ended
      THEN status # None /\ status.by = held[c].pid /\ status.phase \in Terminal
      ELSE status # None => status.phase \notin Terminal

\* The end of one scan is reported at most once, so an agent never shows two
\* results for one scan (_step_wait clears the step before it reports).
ReportedOnce ==
  [][\A c \in Calls : ReportFinal(c) => held[c].pid \notin reported]_vars

\* "progress percent never goes backwards" (tests/unit/test_run_step.py), over
\* all the calls that follow one scan, whoever else writes status.json.
ProgressNeverBack ==
  [][\A p \in Pids : Followed(p) => printed'[p] >= printed[p]]_vars

\* "starting a second one would delete the status.json it writes" (run.py,
\* main): no scan is started while another one works, whether a step call, a
\* blocking run or the daily hook started it. Only scans that keep the limits of
\* silence and of age do, and no one else's scan is looked for.
ScanRunsAlone ==
  [][(\E p \in Pids : life[p] = "free" /\ life'[p] = "spawned")
       => \A q \in Pids : ~ Working(q)]_vars

\* "an unreaped zombie in an init-less container" (run.py, STEP_STALE_SECONDS):
\* whatever dies, and whichever calls follow, the scan of a step does not count
\* as running for ever, so no one is told "already running" for ever.
NeverLockedOut ==
  []<>(\A p \in Pids : Followed(p) => \A c \in Calls : ~ StepRunning(c, p))
=============================================================================
