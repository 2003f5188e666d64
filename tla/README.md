# Verification of ConductorScore

TLA+ models of the ConductorScore scanner (`src/scripts`), the TLC runs that
check them on small instances, and TLAPS proofs that hold for every instance.
The reference is the code; line numbers are those of `src/scripts`. The tree
`src/skills/conductorscore/scripts` is a generated copy of it.

## 1. The system

A user, a coding agent or a session-start hook calls `run.py`. It logs the
device in, asks which agents' transcripts may be read, starts `scan.py` as a
child or as a detached process, follows it through `status.json`, and reports
its result. `scan.py` reads the transcripts, computes per-session numbers and
uploads them to the ingest service, sending only what the service does not hold
already. All processes of one user share two directories and use no lock.

    hook ──> daily.py ──spawn──┐
    agent ─> run.py --step ─spawn, step.json─┐
    terminal ─> run.py ─spawn/wait─┐         │
                                   v         v
                                  scan.py (several at once)
                                   │ status.json  (read by every run.py)
                                   │ features.json (FeatureCache)
                                   │ uploaded.json (ledger)
                                   └── POST /api/ingest ──> service

### Components

| component | state it keeps | operations | what makes it correct |
|---|---|---|---|
| delta upload (`delta_upload.py`, `scan.py`) | `uploaded.json`, `uploaded.json.tmp` | read ledger, read chain stubs, build a body with refs, 409/422/401 retries, save | what the service ends up with is what a full upload would have left it with; the ledger is never a mixture; the ladder ends |
| step mode and scan status (`run.py`, `status_writer.py`) | `step.json`, `status.json`, processes | start, follow, collect, drop a step; blocking run; daily scan | a call reports the scan it follows, once; progress never goes back; no step blocks for ever |
| login (`run.py`, `device_flow.py`, `reauth.py`) | `pending_login.json` | request a code, show it, resume, poll, exchange | an authorised code is redeemed, a dead one is replaced, the user is not asked twice for nothing |
| auth store (`auth_store.py`) | `auth.json`, `device_id` | read-modify-write, migrate v1, create the device id | an entry of another server survives; one device id |
| daily refresh, update notice (`daily.py`, `version_check.py`) | `last_daily`, `pending_update.json`, hook settings | throttle, spawn, show and record an update, enable, disable | at most one scan per window; nothing starts in a loop |
| consent (`agents/consent.py`, `registry.py`) | `consent.json` | decide, cache a choice | only providers the account's user agreed to are read |
| extraction and feature cache (`scanner.py`, `feature_cache.py`) | `features.json` | fingerprint, look up, parse, second pass, store, save | cached features equal recomputed ones |
| turn segmentation (`turn_classifier.py`) | none | fold over a session's events | turns partition the events of the agent |
| time accounting (`time_accounting.py`) | none | cut, merge and cap intervals | the parts add up to the whole |
| output schema, session window (`output_schema.py`, `session_window.py`) | none | assemble a payload, chain hash | every field once; the 30-day window |
| counters and signals | none | single passes over events | text patterns, covered by unit tests |
| provider adapters (`agents/*/`) | none | parse three transcript formats | translation of file formats |
| core helpers (`core/`) | none | text, path and shell helpers | pure functions |
| session viewer (`session_viewer.py`) | none | render a transcript | pure function of one file |
| build and recon tools | none | developer scripts | run by hand |

### How they interact

* `run.py` and `scan.py` share only files: `status.json` (atomic replace with a
  name of its own per write), `last-run.log`, and for `--step` the pid in
  `step.json`.
* `run.py --step` is called again and again by the agent (SKILL.md, "Progress
  relay rule"), so its state between two calls is `step.json`.
* The daily hook spawns `scan.py` on the same cache directory without looking at
  `step.json`; a terminal user may start a blocking run beside both.
* `scan.py` talks to the service over HTTP with a 330 s timeout; a lost answer
  does not mean a lost request.
* Login writes `auth.json`, which `scan.py` reads at its start and, after a 401,
  writes (silent re-authentication).

### What is hard

Interleavings of scans and calls over files without locks (ledger, its
temporary file, status, step); requests whose answer is lost and that the
service may process after a later one; retries nested in retries; a process
killed between two file operations; stale files that look current; zombies whose
pid answers; limits (600 s, one hour, 330 s) that were chosen against each other.
`PROJECT.json` lists each one under "hazards" with the line where it bites and
the property that covers it, or why none does yet.

## 2. Modules

| module | what it models | checked by | proofs |
|---|---|---|---|
| `FullUpload` | what an upload promises | through `DeltaUpload` | refinement in `DeltaUploadProofs` |
| `DeltaUpload` | scans, ledger file, ingest service, crashes and faults | `MCDeltaUpload`: `conc`, `faults`, `live`, `skip`, `chain` | `DeltaUploadProofs` |
| `StepRun` | calls of run.py, `step.json`, `status.json`, daily scans | `MCStepRun`: `timely`, `messy` | `StepRunProofs` |
| `PairedAccounts` | what `auth.json` promises its readers | through `Login` | refinement in `LoginProofs` |
| `Login` | device flow, `pending_login.json`, `auth.json`, `device_id` | `MCLogin`: `pairing` | `LoginProofs` |
| `Consent` | who may be read, `provider-consent.json`; its environment is `PairedAccounts` | `MCConsent`: `choices`, `success` | `ConsentProofs` |
| `ColdExtraction` | what `extract` promises: no cache | through `Extraction` | refinement in `ExtractionProofs` |
| `Extraction` | both passes of `extract`, `features.json` | `MCExtraction`: `features` | `ExtractionProofs` |
| `Turns` | the loop of `segment_turns` as a state machine | through `TimeAccounting` | `TurnsProofs` |
| `Transcript` | extends `Turns`: a transcript whose lines come in any order of time, sorted and read again by scan after scan | `MCTimeAccounting`: `session` | |
| `TimeAccounting` | extends `Turns`: streaks, tool calls, partition, parallel agents, grid, longest run | `MCTimeAccounting`: `session` | `TimeAccountingProofs` |
| `DataLemmas` | no part of the code: what sums, folds, `Min` and `Max` return | | the lemmas `TimeAccountingProofs` cites |

`Login` and `Consent` are composed through `PairedAccounts`: `Login` is proved to
implement it, and `Consent` conjoins its next-state relation as the action
`ChangeAccount`, so that whatever `Login` can do to the account of a base,
`Consent` is checked and proved against. `DeltaUpload` and `Extraction` are the two
ends of one scan: `Extraction` ends with the features of the sessions,
`DeltaUpload` begins with the digests of them. They share no file, so they are
checked separately. `Consent` and `StepRun` share `step.json` and `status.json`:
`Consent` keeps of the one the scan it names (`job`) and of the other the phase, with
whatever scan wrote it; percentages, ages, pids and single file operations are
`StepRun`.

What could come next, by what it would add: `plan_signals` and
`approval_counter`, which keep state across the events of a session; the throttle
stamp and the update notice of `daily.py`; writers of `auth.json` that overlap;
the Codex agents that only events report.

No module declares a RECURSIVE operator; loops are folds.

## 3. What is modelled

### DeltaUpload, FullUpload

Each scan in `Scans` is one process of `scan.py`. Its `pc` names the next file
or network operation:

| action | code |
|---|---|
| `Extract` | `main` 288-340: parse the transcripts; some sessions fail (`skipped`), some transcripts share a hash |
| `LoadLedger`, `Loaded` | `_send` 184-186: two reads of `uploaded.json`, digests first, chain stubs second |
| `SkipUpload` | 186-193: nothing is posted when a skipped session cannot be kept |
| `PostDelta` | 194-197: refs for unchanged and preserved sessions |
| `RetryExpanded`, `RetryFull` | 198-206: first 409 expands the listed sessions, a second one or a 422 posts everything |
| `Reauthenticate`, `TokenRejected` | `main` 358-377: one silent re-authentication after a 401, then the ladder again |
| `NetworkError` | `_upload` 117-130: no answer; the request may still arrive |
| `GiveUp`, `Finish` | 379-425: the final status |
| `Accepted`, `OpenTmp`, `WriteTmp`, `Replace`, `SaveFails`, `Unlink` | `save_ledger` 67-84, one file operation at a time |
| `Crash` | the process dies anywhere |
| `ServeUnresolved`, `ServeInvalid`, `ServeRefused`, `ServeAccept`, `Revise` | the ingest service, external: 409, 422, 401 and gateway errors, 2xx, a new revision that no longer takes some stored sessions |

Data: a session hash, a digest and a chain integer are model values; the chain
integers of a session are represented by the digest they were computed from,
which is all the properties tell apart. `tmp` is one file for all scans, as in
the code; an open descriptor (`fd`) follows the file through a rename, so one
scan may write into what is already `uploaded.json`.

`FullUpload` knows no refs, no ledger and no retries: a scan hands over its
payload at most once, the service stores and scores exactly that payload, and
"done" is reported only for a payload handed over. `DeltaUpload` is shown to
implement it under the identity mapping of `payload`, `outcome`, `accepted`,
`stored` and `scored`.

### StepRun

Each element of `Calls` is a process of `run.py` (with `mode` "step" or
"blocking"), each of `Pids` a process of `scan.py`.

| action | code |
|---|---|
| `Begin`, `LoadStep`, `DropStep` | `main` 848-858: continue a recorded step, or drop one older than an hour |
| `Guard` | 860-924: the gates before a scan, each of which may end the call, and "already running" |
| `UnlinkStatus`, `SpawnScan` | 929-949: remove the old status, start the scan |
| `RecordStep`, `RecordedStep`, `SaveStep`, `SavedStep` | `_save_step` 720-724, which truncates before it writes |
| `Deadline`, `Progress` | `_step_wait` 793-801: still running after 6 s; the percent is read from `status.json` a second time |
| `StepFinished`, `ClearStep`, `ReportFinal` | 793-808 and `_report_final`, which reads `status.json` again |
| `WaitedFor` | 951-970: a blocking run waits for its child |
| `StartScan`, `EmitProgress`, `StartUpload`, `PostAgain`, `FinishScan`, `Exit` | what `scan.py` writes to `status.json`, and the requests during which it writes nothing |
| `Die` | killed, not paired, or an error that reached the backstop: no final status |
| `Reap`, `Kill`, `Tick` | the operating system, the host, the clock |
| `Daily` | `daily.main` spawns a scan |

`StepRunning` is `_step_running` with its three conditions. Time is counted in
ticks; `touched` (age of `status.json`) stops at `StaleAfter`, `age` (of a step)
at `MaxAge`, because the code only compares them with these limits. A working
scan gives a sign of life (a status write or a new request) within `QuietLimit`
ticks, and one that is followed ends within `LifeLimit`; how often it writes its
percentage, and whether that has changed, is open. Where `LifeLimit` is above `MaxAge`
it limits nothing, since `age` stops there. A zombie also stands for a pid that another
process got: both answer `kill(0)` after the scan has gone.

### Login, PairedAccounts

One call of `run.py`, `login` or `login --switch` at a time, for one of several
API bases, with or without a terminal:

| action | code |
|---|---|
| `Begin`, `Resolve` | run.py: a token for this base ends the login at once |
| `Forget`, `Unpend` | `login --switch`: `clear_auth`, `_clear_pending` |
| `ReadDeviceId`, `WriteDeviceId` | `load_or_create_device_id`: open and write are two steps |
| `Resume` | `_login_step`: a pending login of this base that has not expired goes on |
| `StartFlow`, `OpenPending`, `WritePending`, `Show` | a new code, saved (the open truncates the file) and shown |
| `Granted`, `NotGranted` | the poll: an agent's call gives up after a few seconds, a terminal waits |
| `SlowDown` | GitHub answers slow_down, also for a code that is authorised: an agent's call ends without the token, a terminal asks again |
| `Exchange`, `Refused`, `Keep` | the exchange for a token of the service; `save_auth` |
| `Unreachable`, `Kill` | no answer; killed between any two of these |
| `Authorise`, `Deny`, `Expire` | the user, GitHub and 15 minutes: external |

A file that does not parse reads as empty, so truncation is written as the empty
value. The access token of a code is returned once (`spent`).

`PairedAccounts` is what the rest of the program sees: per base an account or
none, pairing only where there is none, one base at a time.

### Consent

| action | code |
|---|---|
| `Begin`, `Gate` | run.py 874-917: the environment, and the providers gate, which may end the call to ask |
| `Refuse` | 919-924: the recorded scan still counts as running |
| `SpawnScan` | 926-949: `status.json` is removed, a scan started; `step.json` carries the choice, or the call waits (`Waited`) |
| `Report`, `DropStep` | 788-808, 851-858: the recorded scan no longer counts as running, or is an hour old |
| `Final`, `OpenConsent`, `WriteConsent` | 973-983, `write_cached_consent`: `status.json` is read again, and on "done" the choice recorded under the account of now |
| `Daily` | daily.py 198-208: the hook's scan, which passes no gate |
| `ReadAuth`, `Decide`, `Emit`, `End` | scan.py: the token, then whose choices to follow, then phases in `status.json` |
| `ChangeAccount`, `Kill`, `Die` | a login or `login --switch`; a call or a scan is killed |

What ends a call's wait and what counts as success is the phase in `status.json`
(`Stopped`, `Final`), whichever scan wrote it; how a scan really ended is in `scan`. A
scan that works may count as silent in any state (`Silences`), since there is no clock.

`ReadsOnlyGranted` says what holds in spite of that: a scan reads its launching agent,
what was chosen for it, and what the user chose for some scan that took the token of
the same account (`named`), whether or not that scan succeeded. Two exceptions are in
its guard: a login between the scan's token and its decision (`then` differs from
`who`), and a choice recorded under an account that is not the one its scan was made
for (`strayed`: a login before the report, a report from the environment of another base,
or a scan that another one's "done" ended before it took a token). What the code's
comments say beyond that does not hold: neither that a choice is recorded only after
its scan succeeded (`RecordsSuccess`, run `success`) nor that it is recorded for the
account it was made for.

### Extraction, ColdExtraction

A session is a transcript and its subagents' transcripts, each a version number
that `Edit` increases at any moment. A scan lists the sessions (`Begin`), opens the
cache (`OpenCache`), and in pass 1 fingerprints each and reads it unless it hits
(`Look`, `ReadEvents`, `ReadTools`: the transcript is read twice); in pass 2 it
scores each (`Score`: a hit stands only if its plan signal is what a cold scan would
find, otherwise the session is read after all), then writes the cache (`OpenTemp`,
`WriteTemp`, `Rename`). The temporary name is one for all scans: `WriteRenamed` writes
to a file that another scan has renamed or removed meanwhile; a write or a rename that
fails (`SaveFails`, or a name that is gone) leads to `Unlink`, which removes whatever has
the name. `Skip` leaves out a session that cannot be read, `Stop` ends a scan anywhere.
`fate` follows, scan by scan, which sessions are in it, out of it, or left out after
their plan signal was noted.

`ColdExtraction` has no cache: a scan's output is, per session, versions of its
files between the scan's start and its end, for exactly the sessions that are in
it, with a plan signal that an earlier sibling gives which is in the same scan
(`Possible`; one that was not listed or could not be read does not count), and no
sibling of the scan which had it from the start is overlooked (`Complete`). That is the
meaning given to the comment "the output is identical either way": it can hold to the
letter only when nothing changes meanwhile, which is the case where both ends of every
interval coincide.

### Turns, Transcript, TimeAccounting

`Turns` is the loop of `segment_turns`: `Open`, `Close` and `Pass` are one round, for
the next event. The events come in time order, because line 143 has sorted them. What is
computed after the loop is computed from the state (`AllTurns`, `ActiveInstants`,
`Label`).

`Transcript` adds what is before the loop. `Write` appends a line with any timestamp
(scanner.py 342-346 says that lines come out of order; only a result is not stamped
before its call), `Begin` is a scan that sorts what the file holds by then and starts the
loop anew, `Step` one round of it. `past` keeps what the scan before it found.

`TimeAccounting` adds the transcripts of subagents (`Extend`) and computes, from the
state, what turn_classifier.py and time_accounting.py compute:

| definitions | code |
|---|---|
| `Streaks` | `afk_streaks` |
| `Timed`, `Samples`, `PermissionWait`, `Group`, `Limit`, `Span`, `Spans` | `classify_tool_calls`, `_permission_baselines`, `_poll_groups` |
| `UnionOf`, `ThreadPieces` | `tool_pieces_union`, `_turn_pieces` |
| `Queued`, `Rejoined`, `MainTurns` | `_is_queued`, `_main_turns` |
| `PiecesOf`, `Credit`, `TurnSegments`, `Partition` | `_pieces_by_turn`, `partition_main_thread` |
| `Subagent`, `Shell`, `Working`, `Points`, `InOrder`, `UnionAndPeak` | `_agent_from_events`, `_background_shells`, `account_agents`, `_union_and_peak` |
| `Interactive`, `Activity`, `Waiting`, `Bridges`, `RunOn`, `LongestRun` | `longest_run_seconds` |
| `Row`, `Cell`, `Met`, `WithAgents` | `grid_seconds`, `_between_with_agents_ms` |

Most algorithms are translated as the code has them (sweeps, folds, cuts at sorted
bounds). Where a loop only intersects or measures lists of intervals, sets stand for
it: `Covered` and `Cell` (instants of a part of the window), and the loop of
`_between_with_agents_ms`, whose pairs of overlapping stretches `Met` names at once. A loop over a list sorted by
time is `InOrder`: a fold over the set that takes the `Latest` element last. The
properties say what the algorithms should compute instant by instant.

## 4. What the runs show

| run | instance | shows |
|---|---|---|
| `conc` | 2 sessions, 2 digests, 2 scans interleaved, a revision | `LedgerIsOneUpload`, `ChainAsRecomputed` for two scans, `SkippedKeptUnlessListed`, `UploadsAsIfFull` |
| `faults` | 1 session in up to 2 copies, 2 interleaved scans, 2 faults, a kill, a revision | `TypeOK`, `LoneSaveNeverTears`, `GivesUpOnlyInFull`, `UploadsAsIfFull` |
| `live` | 2 sessions of 1 digest, none skipped (so every scan has to score), 2 scans, a revision, no fault | `ScanScores` |
| `timely` | step and blocking calls in sequence, silences and ages within the limits, one scan may die, zombies never reaped | `TypeOK`, `ScanRunsAlone`, `NeverLockedOut` |
| `messy` | step and blocking calls in sequence, a daily scan, a death, a kill, scans silent for and older than any limit | `ReportsOwnScan`, `ReportedOnce`, `ProgressNeverBack` |
| `pairing` | 2 bases, 2 accounts, 2 changes of base or account, 2 faults (an answer lost, a slow_down), a kill | `TypeOK`, `TokensOfTheirBase`, `TokensOfThisDevice`, `TokenKept`, `SameCodeResumed`, `PairsAndForgets`, `LoginCompletes` |
| `choices` | 2 agents, 1 base, 2 accounts that alternate, 2 scans that may fall silent, a kill of a call or a scan | `TypeOK`, `ReadsOnlyGranted`, `ChoiceKept` |
| `features` | 2 sessions of which one plans, 2 overlapping scans, every file edited once, a read or a scan that fails | `TypeOK`, `CacheSound`, `SameAsCold` |
| `session` | sessions of up to 4 events on 5 ticks, in five menus of events; a subagent with up to 2; beside them transcripts of up to 3 lines of the first menu, stamped with these ticks in any order and scanned after any of them | `TypeOK`, `TurnsApart`, `NoWorkLost`, `StreaksAddUp`, `PartitionExact`, `GraceShared`, `Identities`, `LongestRunIsLongest`, `TurnsByTime`, `SettledTurnsStay` |

Why the bounds are enough. Two sessions let one be the cause of a 409 or 422 and
the other its victim; two digests let content change and change back; two scans
give every pairwise interleaving, and a violation that needs three (run `chain`)
is checked with three. Two copies of one hash are the least with which the last
copy wins. One revision is what a scan can meet between two requests; two faults
reach "lost answer, then failed save". In `StepRun` two pids give a followed
scan and another one; more would only repeat them, since a pid is free again
when nothing speaks of it. `timely` has `StaleAfter = 3` above two requests'
silence and `MaxAge = 6` above `LifeLimit = 5`: a scan there is never silent or at work
for as long as the code's limits, which is what its comments assume, and no daily scan
runs. `messy` has none of this: a step may be stale and too old at any moment.

In `pairing` two bases share the one pending login; two changes reach "switch, then
come back", two faults "lost answer, then a refusal". In `choices` two scans are one
that is chosen for and one that reads, and of two accounts each can be the wrong one;
two bases with two accounts are too many states, so that a choice stays with its base is
shown by `ReadsJustified` only, which is for any number of bases. In `features` one edit of each file tells "before" from "after", which is all
that a fingerprint compares; two scans give the overlap on one temporary name, and a
third would meet what a second leaves. In `session` every limit is one tick except
`KCap` (two), so that four ticks hold a gap below, at and above each; `PollRunMin`
is 2 instead of the code's 3, so that a run of polls, its successor and a result fit
into four events. Four events make up two turns with a notification between them, a
call of each outcome with a sample to compare it with, two overlapping calls, or a
shell with its notification; five menus keep these families apart. A session
that mixes them is not checked: their product is far larger. In a transcript three
lines are a turn and a line that comes late and splits, ends or starts it. Each property of this run
was seen to fail for a wrong variant of the code within these bounds.

Deadlock: in `DeltaUpload`, `Consent` and `Extraction` all scans end, and a session of
`Turns` or `Transcript` is complete at its bound, so those runs set `CHECK_DEADLOCK FALSE`. `StepRun`
never stops (the clock ticks) and neither does `Login` (a call can always follow):
both are checked for deadlock.

Symmetry: permutations of sessions, digests and scans (of pids and calls in
`StepRun`'s `messy`, of scans in `Extraction`, of agents, accounts and scans in
`Consent`, of call ids in `session`) in the runs without liveness; the modules tell these values apart
only by equality.

### Disagreements between comments and code

Three runs are expected to be violated; each checks one sentence of the
repository against what the code does.

| run | sentence | what happens |
|---|---|---|
| `skip` | scan.py 194 "Sessions skipped this scan ... stay scored" | the full fallback drops every preserved session, also those the service would have taken |
| `chain` | delta_upload.py 149 the chain is the one "the server recomputes" | another scan saves between the two reads of the ledger |
| `success` | run.py 979 a choice is recorded only "after a successful scan" | the daily scan writes "done" beside the scan of a step; the step is reported, and its choice recorded, while its own scan has only begun |

More that the models show, or that came up while writing them, without a run of its
own:

* delta_upload.py 70 calls the save an "Atomic replace"; two scans that save at
  once share `uploaded.json.tmp`, and the renamed file may be half written. It
  loads as empty and costs one full upload (`LoneSaveNeverTears`,
  `LedgerIsOneUpload`).
* run.py 919 says that no second scan starts beside a step's "(e.g. the daily hook fired
  mid-scan)"; a session start is handed to `daily.main` (836) before that guard, and
  `daily.main` looks at nothing. `timely` has no daily scan; with one `ScanRunsAlone`
  does not hold.
* run.py 691 takes 330 s for the longest silence of a scan; `_send` makes up to three
  requests, and again after a 401, without a status write: two slow ones outlast the
  600 s, and a scan at work is given up. `timely` assumes that they do not.
* run.py 852 drops "a finished scan nobody collected", but lines 856-858 compare only
  the age: a scan at work for more than an hour loses its record, and with it the
  protection of the guard. `timely` assumes that no scan gets that old.
* A login while a call waits for its scan, or between two step calls, makes the call
  record the choice for whoever logged in (consent.py 218, 155), against consent.py 12:
  "scoped by API base AND account/session identity". It is an exception of
  `ReadsOnlyGranted`.
* A login between a scan's token and its decision applies the choice of one account
  to what is uploaded for another (scan.py 226 and 263): an exception of
  `ReadsOnlyGranted`.
* An agent's call that is told to slow down ends without a token the user has allowed,
  and the longer interval is not saved: the next call starts with the short one again
  (device_flow.py 94, run.py 332). `LoginCompletes` holds because slow_down is bounded.
* `step.json` does not name the base or account the scan ran for; the report uses
  those of its own environment.
* feature_cache.py 163 also says "Atomic replace"; two scans share the temporary name
  and `features.json` can be torn or hold the other scan's entries. It is harmless:
  a torn file is an empty cache, and each entry carries its own fingerprint
  (`CacheSound`).
* After a 401 the message (reauth.py 109) tells the user to run /conductorscore; a
  stored token ends that call in `Resolve`, and only `login --switch` replaces it.
* A code that was denied, or whose access token was lost, is shown again until it
  expires (`NotGranted`); `LoginCompletes` therefore needs `Expire` to be fair.
* A kill between opening and writing `device_id` leaves an empty id for good
  (`ReadDeviceId` reads it as it is). Tokens still match it (`TokensOfThisDevice`).

`ReportsOwnScan` holds for a scan that no other one crossed: none was at work when
`status.json` was removed for it, none was started after that, and no later call
removed the file again. That includes stale steps, steps that are too old, kills and
deaths; it excludes a daily scan beside it and a blocking run after a step that was
never collected, whose result the next step call reports as its own.

### Fairness

`DeltaUpload!FairSpec` gives weak fairness to each scan's steps and to the
service's answer. A request has a 330 s timeout and the service a limit of 300 s
(scan.py 95-118), so every request ends in an answer or in `NetworkError`; a
scan is one sequential process that waits for nothing else. Crashes, faults and
revisions are never fair and are bounded, since with endless failures nothing
ends. `StepRun!FairSpec` gives weak fairness to the clock, to the start of a scan, its
going over to the upload or its end, and its exit (it has finitely many sessions to read
and requests to send), to running calls and to new calls: the agent repeats `run.py
--step` as SKILL.md tells it. Which mode a new call has is not fair, nor is
`Reap`: a container without an init never reaps.

`Login!FairSpec`: calls are made again and run on (weak fairness), codes expire (weak
fairness), and the user answers a code that is shown again and again (strong
fairness, since a code may expire or be discarded before the answer; SKILL.md has
the agent show the code and call again). Faults, kills, and calls for another base
or account are bounded. `Consent`, `Extraction`, `Turns` and `Transcript` state no liveness: their
scans and loops are sequential and wait for nothing.

## 5. What is proved

### DeltaUploadProofs

`DeltaUploadProofs` proves, for every number of sessions, digests, scans, copies,
faults, crashes and revisions:

| theorem | statement |
|---|---|
| `TypeCorrect` | `Spec => []TypeOK` |
| `LedgerAlwaysOneUpload` | `Spec => []LedgerIsOneUpload` |
| `NeverGivesUpWithRefs` | `Spec => []GivesUpOnlyInFull` |
| `SkippedKept` | `Spec => SkippedKeptUnlessListed` |
| `LoneSaverNeverTears` | `Spec => LoneSaveNeverTears` |
| `DeltaImplementsFull` | `Spec => UploadsAsIfFull`, the refinement |

Assumptions: `NoneAssumption` (the absent value is none of the values it stands
beside) and `BoundsAssumption` (the bounds are natural numbers, at least one copy).

The invariant. None of the properties is inductive. `IInv` adds to `TypeOK`:

* `BodyInv`: a body on its way or being saved is faithful to its scan's payload,
  i.e. what the service makes of it is the payload plus, for sessions outside it,
  a preserved digest or nothing. Needed because the merge happens long after the
  body was built, and after retries rebuilt it.
* `FileInv`: the ledger and the temporary file hold accepted lists, and a scan
  that got "ok" will write one. Needed because any scan may rename any scan's
  temporary file.
* `AcceptedInv`: a request on the wire, or refused, was not accepted yet, and
  every step of saving comes after acceptance. Needed for "at most once".
* `PhaseInv`: `pc`, `payload` and `outcome` agree.
* `LadderInv`: the last rung has no refs; before it, every known skipped session
  the service did not list is kept.

`BodyStep`, `AcceptedStep`, `FileStep`, `PhaseStep`, `LadderStep` and
`GivesUpStep` show that a step preserves each part, with one case per action
that touches it; `IInvInductive` puts them together. The refinement is
`RefinesInit` and `RefinesStep`: `Extract` and the three ways to report map to
the abstract actions, `ServeAccept` to `Accept` by `BodyInv`, everything else to a
stutter.

`LoneSaveNeverTears` is about the saves that another one overlaps (`crowded`: both were
at some moment between the opening of the temporary file and the end of their save). It has an invariant of its own: `SaverInv` says that two scans in
their saves are both crowded, and that one which is not has the temporary file to
itself: torn exactly between its open and its write, whole when it renames it.

### StepRunProofs

`StepRunProofs` proves, for every number of process ids and calls, every limit,
and every number of deaths, kills and daily scans:

| theorem | statement |
|---|---|
| `TypeCorrect` | `Spec => []TypeOK` |
| `OneReport` | `MaxCalls = 1` implies `Spec => ReportedOnce` |
| `ProgressGrows` | `MaxCalls = 1` implies `Spec => ProgressNeverBack` |
| `OwnScanReported` | `Spec => []ReportsOwnScan` |

Assumptions: `StepRunAssumption` (the absent value is none of the values it
stands beside, finitely many calls, limits that are natural numbers, a step is
not too old before it is stale). `MaxCalls = 1` says that one call of `run.py`
ends before the next begins, as an agent that waits for each command makes it.
It is needed: two calls that load one step and find its scan finished both
report it. No theorem assumes anything about timing: staleness and age may be reached by
any scan at any moment; and `OwnScanReported` is not limited to calls in sequence either.

The invariant `IInv` adds to `TypeOK`:

* `HeldInv`: a call has a scan in hand at exactly the labels that use one.
* `OneCall`: at most one call is active; the only part that needs `MaxCalls = 1`.
* `CollectInv`: neither `step.json` nor a call speaks of a scan already
  reported, and a scan about to be reported has left `step.json`. Needed because
  a call may be killed anywhere and the next one starts from what the file says.
* `PercentInv`: what `step.json` or a call will print of a scan is at least what
  was printed. Needed because `status.json` may meanwhile belong to another
  scan, or be gone.

For `OwnScanReported` `CrossInv` says of every followed scan that is not crossed that
`status.json` is as that scan alone has left it and that no other scan works; and that,
while a call is `lone`, there is no `status.json` and no scan at work, so that the scan it
then starts is not crossed either. `CrossScan`, `CrossSpawn` and `CrossCall` show that
the steps of scans, starts of scans and steps of calls keep it.

`CollectStep` and `PercentStep` have one case per group of actions. That the
scans of other calls are not disturbed is `OthersIdle`, that scans and the clock
leave calls and `step.json` alone is `OthersFrame`, that a new pid is one nothing
speaks of is `SpawnedFresh`.

### LoginProofs

For any bases, accounts and bounds (`LoginAssumption`: the absent value is none of
the others):

| theorem | statement |
|---|---|
| `TypeCorrect` | `Spec => []TypeOK` |
| `TokensStayApart` | `Spec => []TokensOfTheirBase` |
| `TokensFitDevice` | `Spec => []TokensOfThisDevice` |
| `TokensAreKept` | `Spec => TokenKept` |
| `CodesAreResumed` | `Spec => SameCodeResumed` |
| `LoginPairs` | `Spec => PairsAndForgets`, the refinement of `PairedAccounts` |

`IInv` adds: `UnpairedInv` (a call that logs in has no token, so `Keep` is a `Pair`),
`DeviceInv` (the id is not created while a token exists), `PendingInv` (the code a
call polls is of its own base, although the file is shared; a spent code has an
account), `DropInv` (a call that overwrites the pending login found it unusable).

### ConsentProofs

For any agents, bases, accounts and scans (`ConsentAssumption`):

| theorem | statement |
|---|---|
| `TypeCorrect` | `Spec => []TypeOK` |
| `ReadsJustified` | `Spec => []ReadsOnlyGranted` |
| `ChoicesKept` | `Spec => ChoiceKept` |

`ReadsOnlyGranted` is not inductive: what a scan reads comes from the file, which
comes from a call's draft, which comes from a scan some call reported. `FileInv` says that
the file and the draft hold, under a key that did not stray, only what was named for
it; `RecordInv` that a call which reports has the choice of the very scan it reports,
though not that this scan has ended; `ScanInv` is the property scan by scan: a scan that
holds a token has named its choice for that account, one that has not decided reads
nothing.

### TurnsProofs

For sessions of any length over any events (`TurnsAssumption`):

| theorem | statement |
|---|---|
| `TypeCorrect` | `Spec => []TypeOK` |
| `Apart` | `Spec => []TurnsApart` |
| `WorkKept` | `Spec => []NoWorkLost` |

`Timeline`: turns that have ended end before the open one begins, which begins at the
latest now. For `WorkKept`, `WorkInv` adds `EventsInv` (events are in time order and a
result follows its call, so that whether it answers a question does not change when
events follow), `OpenInv` (after a prompt without a hand-back, the open turn is that
prompt's) and `CoverInv` (everything up to the next prompt or the hand-back is in the
open turn or in one that has ended there).

### ExtractionProofs

For any sessions, scans, edits and faults (`ExtractionAssumption`: the absent value
and the torn file are no cache, entry or output):

| theorem | statement |
|---|---|
| `TypeCorrect` | `Spec => []TypeOK` |
| `CacheStaysSound` | `Spec => []CacheSound` |
| `ExtractionImplementsCold` | `Spec => SameAsCold`, the refinement of `ColdExtraction` |

`CacheSound` speaks of entries whose files have not changed; what is inductive is that
every entry, in a file, loaded or about to be saved, is `Honest`: its features are from
versions at or after its fingerprint and not after now, and so are its files when the
fingerprint still fits. Scan by scan, `GotInv` says the same of what pass 1 keeps,
`SettledInv` that a session left by pass 1 was parsed or hit and that its plan artifact
is noted if the fingerprinted version had one, and `NewInv` (`Sound`) that what pass 2
has made is an honest entry and part of a cold scan's output. `FateInv` ties `fate` to
what a scan holds of a session at each stage; with it, every sibling whose plan signal a
scan noted is one of that scan, and none of the scan with an artifact from the start is
missed.

### DataLemmas

Facts on finite sets and sequences, for every input: `Min` and `Max` of a finite set of
integers, `SumFunction` (empty, one element more, split, equal summands), `FoldLeftDomain`
and `FoldLeft` as the value of a recursion over `1 .. n`. A recursive definition is
reasoned about without a lemma that takes an operator: the function it defines is a set,
`RecursionOnSubsets` shows that it exists and equals its definition, and the induction
is over a set of numbers (`NatSetInduction`, from the well-foundedness of < on the
naturals).

### TimeAccountingProofs

For sessions of any length over any events, with any number of subagents, and any
limits (`TurnsAssumption`, `TimeAccountingAssumption`: the limits are natural numbers, the
absent value is no streak):

| theorem | statement |
|---|---|
| `SessionKeepsTurns` | `SessionSpec => [](TypeOK /\ TurnsApart /\ NoWorkLost)` |
| `WindowPartitioned` | `SessionSpec => []PartitionExact` |
| `StreaksRight` | `SessionSpec => []StreaksAddUp` |
| `GraceOnce` | `SessionSpec => []GraceShared` |
| `GridAddsUp` | `SessionSpec => []Identities` |
| `RunLongest` | `SessionSpec => []LongestRunIsLongest` |

`SessionInv` is the invariant of `Turns`, kept when a subagent writes (`ExtendStep`), with
`Stamped`: turns begin and end at events. Needed because the window is made of the
events' times and the partition of the turns': only then do turns lie in the window.
The rest is about what is computed from one such state.

* `WindowPartitioned`. The turns of the main thread are in order and apart also after
  turns cut by a queued prompt are joined (`JoinedOrdered`). The neighbours among a
  finite set of bounds cover each instant between the least and the greatest once
  (`NeighboursCover`), so the pieces of a turn tile it, whatever calls overlap in it
  (`ThreadTiles`). Idle time, credit and pieces are `Parts` of adjacent stretches, which
  join (`PartsJoin`), over the turns by induction (`TurnsParts`).
* `StreaksRight`. `StreakInv` is the invariant of the loop of `afk_streaks`: what is out,
  with the streak that is open, are the streaks of the turns so far, each with the active
  instants of its turns, none could be longer, and a streak is open exactly after an
  unattended turn. `StreakStep` keeps it in each of the three branches.
* `GraceOnce`. A call that polls belongs to one run, the same for all its calls
  (`SameRun`), which `_poll_groups` finds (`GroupIsRun`) and which by the order of the
  calls is a run in the property's sense (`PollRunIsRun`). Each call takes the least of
  what it needs and what those before it left; then together they take the least of
  the need and the grace (`Shares`).
* `GridAddsUp`. A loop `InOrder` keeps what each of its rounds keeps (`InOrderKeeps`, by
  induction over the beginnings of its set). `SweepInv` for the sweep, after the points so
  far: the depth is the number of agents whose interval has begun and not ended, the union
  the busy instants before the last point, and the peak is reached at an instant and
  exceeded at none. It needs that one agent's intervals are apart (`Agenda`: they are
  stretches, `StretchesApart`), that ends come before starts at the same instant
  (`AgentStarts`: then the agents that are open all work at that instant), and that nobody
  starts or ends between two points (`BetweenPoints`). The rows of the grid are disjoint
  parts of the partition (`PartitionKinds`, `RowsAddUp`). A second invariant,
  `FewAgents`, says that only finitely many agents have written: without it sums and
  maxima would be of infinite sets.
* `RunLongest`. A gap is bridged exactly if every window in it, one instant longer than
  the limit, contains a wait (`BridgesWaits`); so a run up to the end of a stretch goes
  on into the next one exactly if the gap before that is bridged (`RunsJoin`). `RunInv`,
  after the stretches so far: `cur` counts the activity from the earliest instant from
  which a run reaches the last stretch's end, `best` belongs to some run or is 0, and
  every run so far counts at most one of the two.

### Only model-checked

`ScanScores`, `NeverLockedOut` and `LoginCompletes`: liveness under fairness is outside
what TLAPS proves here. `ChainAsRecomputed` holds for at most two scans and is false in
general (run `chain`). `ScanRunsAlone` needs the limits of `timely`, which the code does
not keep. `TurnsByTime` and `SettledTurnsStay` are about the sort and the whole loop on
its result. Every other property of a passing run is the subject of a
theorem.

## 6. What is not modelled

* `src/skills/conductorscore/scripts`: a generated copy of `src/scripts`, half of the
  repository's lines. What holds for the one holds for the other.
* The session viewer (2417 lines): renders one transcript as HTML.
* The provider adapters and the counters: single passes that match text, over one file
  or one session's events. Which event a line becomes is data, covered by the
  repository's unit tests; `Turns` starts at the events.
* Contents of metrics, transcripts and the report; wording; the field list of the
  payload.
* In `DeltaUpload`: SHA-256 collisions; a service that lies.
* In `StepRun`: the temporary-directory fallback (it turns a step call into a
  blocking one), failed writes of `step.json`, a failing `Popen`, clock changes. The
  provider choice carried in `step.json` is in `Consent`.
* In `Login`: login calls that overlap, a device id a scan creates on its own, the
  one-time conversion of a version 1 `auth.json`.
* The throttle stamp of the daily refresh, the update notice and the old hook's
  migration: single reads and writes of one value. What a daily scan does to others is
  in `StepRun`, `Consent` and `Extraction` (one more scan).
* In `Extraction`: which features a session yields, Cursor's database (always read),
  the 30-day window (it chooses the sessions a scan lists).
* In `Turns`: sidechain and usage events, lines without a timestamp (the loop skips
  them), and the older report of parallel subagents by intervals.
* In `TimeAccounting`: Codex agents reported by events, counts of turns and gaps,
  events clipped to a window narrower than the session, rounding of milliseconds to
  seconds and minutes (the median rounds, since it decides a wait).

## 7. Running

    tlc -workers 2 -config MCDeltaUpload_conc.cfg MCDeltaUpload
    tlc -workers 2 -config MCStepRun_timely.cfg MCStepRun
    tlc -workers 2 -config MCTimeAccounting_session.cfg MCTimeAccounting
    tlapm DeltaUploadProofs.tla
    tlapm DataLemmas.tla

Each `MC<module>_<run>.cfg` belongs to one row of section 4; `tlapm` checks each
`<module>Proofs.tla` and `DataLemmas.tla`; a module's proofs are checked by themselves,
what it extends is not checked again. Definitions named
`<operator>_<what>` next to an operator are wrong variants of it, each the
bug one of the properties would catch; no specification uses them.
