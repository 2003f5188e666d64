-------------------------------- MODULE Consent --------------------------------
(***************************************************************************)
(* Which coding agents' transcripts a scan may read: the gate of run.py    *)
(* that asks the user, decide in the scan, the choices cached per API base *)
(* and account (agents/consent.py), and the report that records a choice,  *)
(* with step.json carrying it from the call that started the scan to the   *)
(* one that reports it. Whether that scan succeeded is read from           *)
(* status.json, which all scans write (StepRun has its percentages).       *)
(*                                                                         *)
(* The account a base is paired with changes as PairedAccounts allows      *)
(* (Login implements it). Calls of run.py follow each other; scans and the *)
(* daily hook run beside them. There is no clock: a scan that may be       *)
(* silent for long may be so in any state.                                 *)
(***************************************************************************)
EXTENDS Integers, FiniteSets

CONSTANTS
  Agents,     \* coding agents: claude, codex, cursor
  Active,     \* those with sessions in the last 30 days
  Bases, Accounts, Scans, None,
  Silences,   \* of a scan that works: {FALSE}, or {FALSE, TRUE} when status.json may stay
              \* unchanged for ten minutes
  MaxChanges, \* bound: accounts forgotten or replaced
  MaxKills    \* bound: calls and scans killed

Keys == Bases \X ({None} \cup Accounts)

\* Per scan: how it was started; the account whose token it holds, the account when
\* it decided, and the agents it reads.
Scanned == [st : {"starting", "deciding", "reading", "done", "failed"}, base : Bases, launch : Agents,
            chosen : SUBSET Agents, who : {None} \cup Accounts, then : {None} \cup Accounts,
            reads : SUBSET Agents]

ASSUME ConsentAssumption ==
  /\ Active \subseteq Agents
  /\ None \notin Bases /\ None \notin Agents /\ None \notin Accounts /\ None \notin Scans /\ None \notin Keys /\ None \notin Scanned
  /\ None \notin [Keys -> SUBSET Agents]
  /\ Silences \subseteq BOOLEAN /\ MaxChanges \in Nat /\ MaxKills \in Nat

VARIABLES
  account,   \* per base the account it is paired with, or None
  consent,   \* the cached choices: per key a set of agents, {} for none
  job,       \* step.json: the scan it names, or None
  status,    \* status.json: None, "running", or a terminal phase
  \* the call of run.py
  pc, base, launch,
  chosen,    \* CONDUCTORSCORE_PROVIDERS: the user's choice, or {}
  of,        \* the scan the call waits for or reports, or None
  draft,     \* what the call is writing to the consent file, or None
  scan,      \* per scan None or a record of Scanned
  \* history
  named,     \* per base and account the agents chosen for a scan that took its token
  strayed,   \* keys a choice was recorded under that was made for another
  changes, kills

paired == <<account, changes>>
call   == <<base, launch, chosen, of>>
past   == <<named, strayed>>
vars   == <<paired, consent, job, status, pc, call, draft, scan, past, kills>>

NoChoices == [k \in Keys |-> {}]

Paired == INSTANCE PairedAccounts

Init ==
  /\ Paired!Init /\ changes = 0
  /\ consent = NoChoices /\ job = None /\ status = None
  /\ pc = "idle" /\ base = None /\ launch = None /\ chosen = {} /\ of = None /\ draft = None
  /\ scan = [s \in Scans |-> None]
  /\ named = NoChoices /\ strayed = {} /\ kills = 0

\* A login, or login --switch.
ChangeAccount ==
  /\ Paired!Next
  /\ \/ UNCHANGED changes /\ \E b \in Bases : account'[b] # None /\ account[b] = None
     \/ changes < MaxChanges /\ changes' = changes + 1
  /\ UNCHANGED <<consent, job, status, pc, call, draft, scan, past, kills>>

\* Mutant: the choice is cached per base.
Key_Base(b) == <<b, None>>
\* _cache_key: the base and whoever is logged in there now; without login "anon".
Key(b) == <<b, account[b]>>

-----------------------------------------------------------------------------
(* Calls of run.py.                                                          *)

\* --providers names one agent or all.
Choices == {Agents} \cup {{g} : g \in Agents}

\* run.py [--providers], with --step only when step.json names no scan; without a
\* login the call ends in Login.
Begin(b, l, sel) ==
  /\ pc = "idle" /\ account[b] # None
  /\ base' = b /\ launch' = l /\ chosen' = sel /\ UNCHANGED of
  /\ pc' = "gate"
  /\ UNCHANGED <<paired, consent, job, status, draft, scan, past, kills>>

EndCall == pc' = "idle" /\ base' = None /\ launch' = None /\ chosen' = {} /\ of' = None

Settled == chosen # {} \/ consent[Key(base)] # {} \/ Cardinality(Active) <= 1

\* The providers gate: a choice of now, or of before, or nothing to choose.
\* Otherwise the user is asked: in a terminal here, through an agent by ending
\* the call.
Gate ==
  /\ pc = "gate"
  /\ \/ Settled /\ pc' = "spawn" /\ UNCHANGED call
     \/ ~ Settled /\ chosen' \in Choices /\ pc' = "spawn" /\ UNCHANGED <<base, launch, of>>
     \/ ~ Settled /\ EndCall
  /\ UNCHANGED <<paired, consent, job, status, draft, scan, past, kills>>

Started(b, l, sel) == [st |-> "starting", base |-> b, launch |-> l, chosen |-> sel,
                       who |-> None, then |-> None, reads |-> {}]

Terminal == {"done", "failed"}

\* _step_running is false: a terminal phase, whichever scan wrote it; a scan that is
\* gone; or one that has been silent for ten minutes.
Stopped(s, silent) == status \in Terminal \/ scan[s].st \in {"done", "failed"} \/ silent

\* The recorded scan still runs: the call starts none.
Refuse == /\ pc = "spawn" /\ job # None /\ ~ Stopped(job, FALSE)
          /\ EndCall
          /\ UNCHANGED <<paired, consent, job, status, draft, scan, past, kills>>

\* status.json is removed and the scan inherits the call's environment. With --step,
\* step.json keeps the choice and the call ends; otherwise the call waits.
SpawnScan(s, silent) ==
  /\ pc = "spawn" /\ scan[s] = None
  /\ job # None => Stopped(job, silent)
  /\ status' = None
  /\ scan' = [scan EXCEPT ![s] = Started(base, launch, chosen)]
  /\ \/ job = None /\ job' = s /\ EndCall
     \/ pc' = "wait" /\ of' = s /\ UNCHANGED <<job, base, launch, chosen>>
  /\ UNCHANGED <<paired, consent, draft, past, kills>>

Waited ==
  /\ pc = "wait" /\ scan[of].st \in {"done", "failed"}
  /\ pc' = "report"
  /\ UNCHANGED <<paired, consent, job, status, call, draft, scan, past, kills>>

\* run.py --step, from whatever environment, when the recorded scan does not run:
\* step.json is removed, and the choice restored from it.
Report(b, silent) ==
  /\ pc = "idle" /\ job # None /\ Stopped(job, silent)
  /\ base' = b /\ chosen' = scan[job].chosen /\ of' = job /\ UNCHANGED launch
  /\ job' = None
  /\ pc' = "report"
  /\ UNCHANGED <<paired, consent, status, draft, scan, past, kills>>

\* status.json is read again: only "done" records the choice.
Final ==
  /\ pc = "report"
  /\ IF status = "done" /\ chosen # {} THEN pc' = "record" /\ UNCHANGED call ELSE EndCall
  /\ UNCHANGED <<paired, consent, job, status, draft, scan, past, kills>>

\* A scan nobody collected within an hour is dropped.
DropStep ==
  /\ pc = "idle" /\ job # None
  /\ job' = None
  /\ UNCHANGED <<paired, consent, status, pc, call, draft, scan, past, kills>>

\* Mutant: the file is written with this entry alone.
Recorded_Alone == [NoChoices EXCEPT ![Key(base)] = chosen]
\* The file as read now, with the choice under the key of now.
Recorded == [consent EXCEPT ![Key(base)] = chosen]

\* write_cached_consent: the file is opened for writing, which empties it.
OpenConsent ==
  /\ pc = "record"
  /\ draft' = Recorded /\ consent' = NoChoices
  /\ strayed' = IF account[base] # None /\ base = scan[of].base /\ account[base] = scan[of].who
                  THEN strayed ELSE strayed \cup {<<base, account[base]>>}
  /\ pc' = "write"
  /\ UNCHANGED <<paired, job, status, call, scan, named, kills>>

WriteConsent ==
  /\ pc = "write"
  /\ consent' = draft /\ draft' = None
  /\ EndCall
  /\ UNCHANGED <<paired, job, status, scan, past, kills>>

\* A call is killed; what it was writing is lost.
Kill ==
  /\ pc # "idle" /\ kills < MaxKills
  /\ EndCall /\ draft' = None /\ kills' = kills + 1
  /\ UNCHANGED <<paired, consent, job, status, scan, past>>

-----------------------------------------------------------------------------
(* Scans.                                                                    *)

\* The daily hook spawns a scan without a choice and without the gate.
Daily(s, b, l) ==
  /\ scan[s] = None
  /\ scan' = [scan EXCEPT ![s] = Started(b, l, {})]
  /\ UNCHANGED <<paired, consent, job, status, pc, call, draft, past, kills>>

\* The first phase is written; _load_auth: the token the scan will upload with;
\* without one it stops.
ReadAuth(s) ==
  /\ scan[s] # None /\ scan[s].st = "starting"
  /\ status' = "running"
  /\ LET b == scan[s].base  who == account[b] IN
     /\ scan' = [scan EXCEPT ![s].st = IF who = None THEN "failed" ELSE "deciding", ![s].who = who]
     /\ named' = IF who = None THEN named ELSE [named EXCEPT ![<<b, who>>] = @ \cup scan[s].chosen]
  /\ UNCHANGED <<paired, consent, job, pc, call, draft, strayed, kills>>

\* Mutant: an agent with recent sessions is read without having been named.
Reads_Active(c, key) == IF c.chosen # {} THEN c.chosen ELSE {c.launch} \cup consent[key] \cup Active
\* Mutant: a missing entry is taken for an agent.
Reads_Missing(c, key) ==
  IF c.chosen # {} THEN c.chosen
  ELSE {c.launch} \cup IF consent[key] = {} THEN {None} ELSE consent[key]
\* An explicit choice overrides; else the launching agent and those chosen before.
Reads(c, key) == IF c.chosen # {} THEN c.chosen ELSE {c.launch} \cup consent[key]

\* decide, and the extraction it lets begin.
Decide(s) ==
  /\ scan[s] # None /\ scan[s].st = "deciding"
  /\ LET c == scan[s] IN
     scan' = [scan EXCEPT ![s].st = "reading", ![s].then = account[c.base],
                          ![s].reads = Reads(c, Key(c.base))]
  /\ UNCHANGED <<paired, consent, job, status, pc, call, draft, past, kills>>

\* Progress of the extraction and of the upload.
Emit(s) ==
  /\ scan[s] # None /\ scan[s].st = "reading"
  /\ status' = "running"
  /\ UNCHANGED <<paired, consent, job, pc, call, draft, scan, past, kills>>

\* The scan uploaded ("done"), or stopped: no sessions, or an error.
End(s, phase) ==
  /\ scan[s] # None /\ scan[s].st = "reading"
  /\ status' = phase
  /\ scan' = [scan EXCEPT ![s].st = phase]
  /\ UNCHANGED <<paired, consent, job, pc, call, draft, past, kills>>

\* The scan dies; status.json stays as it is.
Die(s) ==
  /\ scan[s] # None /\ scan[s].st \in {"starting", "deciding", "reading"} /\ kills < MaxKills
  /\ scan' = [scan EXCEPT ![s].st = "failed"]
  /\ kills' = kills + 1
  /\ UNCHANGED <<paired, consent, job, status, pc, call, draft, past>>

-----------------------------------------------------------------------------
Calls ==
  \/ \E b \in Bases, l \in Agents, sel \in {{}} \cup Choices : Begin(b, l, sel)
  \/ Gate \/ Refuse \/ \E s \in Scans, silent \in Silences : SpawnScan(s, silent)
  \/ Waited \/ (\E b \in Bases, silent \in Silences : Report(b, silent)) \/ Final
  \/ DropStep \/ OpenConsent \/ WriteConsent \/ Kill

Scanning ==
  \E s \in Scans :
    \/ \E b \in Bases, l \in Agents : Daily(s, b, l)
    \/ ReadAuth(s) \/ Decide(s) \/ Emit(s) \/ Die(s)
    \/ \E phase \in Terminal : End(s, phase)

Next == ChangeAccount \/ Calls \/ Scanning

Spec == Init /\ [][Next]_vars

-----------------------------------------------------------------------------
\* Every variable has its type.
TypeOK ==
  /\ account \in [Bases -> {None} \cup Accounts]
  /\ consent \in [Keys -> SUBSET Agents] /\ named \in [Keys -> SUBSET Agents]
  /\ job \in {None} \cup Scans
  /\ status \in {None, "running"} \cup Terminal
  /\ pc \in {"idle", "gate", "spawn", "wait", "report", "record", "write"} /\ of \in {None} \cup Scans
  /\ base \in {None} \cup Bases /\ launch \in {None} \cup Agents /\ chosen \in SUBSET Agents
  /\ draft \in {None} \cup [Keys -> SUBSET Agents]
  /\ scan \in [Scans -> {None} \cup Scanned]
  /\ strayed \in SUBSET Keys
  /\ changes \in 0..MaxChanges /\ kills \in 0..MaxKills

\* A scan reads the agent that launched it, those the user chose for this scan, and
\* those the user chose for an earlier scan of the same account, though that scan may
\* have failed (RecordsSuccess). The guard has the two exceptions: a login between the
\* scan's token and its decision; and a choice recorded for its account that was made
\* for another (a report after a login, from the environment of another
\* base, or of a scan that never took a token). A kill while the file is written never
\* widens what is read.
ReadsOnlyGranted ==
  \A s \in Scans :
    scan[s] # None /\ scan[s].then = scan[s].who /\ <<scan[s].base, scan[s].who>> \notin strayed =>
    scan[s].reads \subseteq {scan[s].launch} \cup scan[s].chosen \cup named[<<scan[s].base, scan[s].who>>]

\* run.py, _report_final: "We only reach here after a successful scan" when a choice is
\* recorded. The code does not keep it: "done" may be another scan's.
RecordsSuccess == pc = "record" => scan[of].st = "done"

\* What the file says, or is about to.
View == IF draft # None THEN draft ELSE consent

\* A recorded choice is only ever replaced by a choice: recording one account's
\* loses no other's, unless the call is killed while it writes.
ChoiceKept ==
  [][\A k \in Keys : View[k] # {} => View'[k] # {} \/ (pc = "write" /\ kills' > kills)]_vars
=============================================================================
