------------------------------ MODULE ConsentProofs ------------------------------
(***************************************************************************)
(* For any agents, bases, accounts and scans: types, what a scan reads, and *)
(* what recording a choice keeps. The strengthening relates the two sides  *)
(* of the cached file: FileInv says that what it holds, or is about to,    *)
(* was chosen for a scan of the key's account; RecordInv that a call holds *)
(* the choice of the scan it reports; ScanInv what a scan did with it.     *)
(***************************************************************************)
EXTENDS Consent, TLAPS

Mine(c) == <<c.base, c.who>>

CallInv ==
  /\ pc # "idle" => base \in Bases
  /\ pc \in {"gate", "spawn"} => launch \in Agents
  /\ (pc = "write") <=> (draft # None)

RecordInv ==
  /\ job # None => scan[job] # None
  /\ pc \in {"wait", "report", "record"} => of # None /\ scan[of] # None /\ chosen = scan[of].chosen
  /\ pc = "record" => chosen # {}

FileInv ==
  \A k \in Keys \ strayed : consent[k] \subseteq named[k] /\ (draft # None => draft[k] \subseteq named[k])

\* A scan that has not decided reads nothing; one with an account has named its choice.
Sound(c, given, apart) ==
  /\ c.st \in {"starting", "deciding"} => c.reads = {}
  /\ c.who # None => c.chosen \subseteq given[Mine(c)]
  /\ c.then = c.who /\ Mine(c) \notin apart => c.reads \subseteq {c.launch} \cup c.chosen \cup given[Mine(c)]

ScanInv == \A s \in Scans : scan[s] # None => Sound(scan[s], named, strayed)

IInv == TypeOK /\ CallInv /\ RecordInv /\ FileInv /\ ScanInv

-----------------------------------------------------------------------------
LEMMA MineIsKey ==
  ASSUME NEW c \in Scanned
  PROVE  Mine(c) \in Keys
BY DEF Mine, Keys, Scanned

LEMMA ScanIsScanned ==
  ASSUME IInv, NEW s \in Scans, scan[s] # None
  PROVE  scan[s] \in Scanned /\ Mine(scan[s]) \in Keys /\ Sound(scan[s], named, strayed)
<1>1. scan[s] \in Scanned
  BY DEF IInv, TypeOK
<1>2. QED BY <1>1, MineIsKey DEF IInv, ScanInv

LEMMA KeyIsKey ==
  ASSUME IInv, NEW b \in Bases
  PROVE  Key(b) \in Keys /\ account[b] \in {None} \cup Accounts
BY DEF Key, Keys, IInv, TypeOK

\* More is named, and more keys stray: what a scan did stays sound.
LEMMA SoundGrows ==
  ASSUME NEW c \in Scanned, NEW given, NEW more, NEW apart, NEW wider,
         Sound(c, given, apart), \A k \in Keys : given[k] \subseteq more[k], apart \subseteq wider
  PROVE  Sound(c, more, wider)
<1>1. Mine(c) \in Keys
  BY MineIsKey
<1>2. QED BY <1>1 DEF Sound

LEMMA ScansGrow ==
  ASSUME IInv, UNCHANGED scan, \A k \in Keys : named[k] \subseteq named'[k], strayed \subseteq strayed'
  PROVE  ScanInv'
<1> SUFFICES ASSUME NEW s \in Scans, scan[s] # None PROVE Sound(scan[s], named', strayed')
  BY DEF ScanInv
<1>1. scan[s] \in Scanned /\ Sound(scan[s], named, strayed)
  BY ScanIsScanned
<1>2. QED BY <1>1, SoundGrows

\* One scan takes a step.
LEMMA OneScan ==
  ASSUME IInv, NEW s \in Scans, NEW c \in Scanned, scan' = [scan EXCEPT ![s] = c],
         Sound(c, named', strayed), UNCHANGED strayed,
         \A k \in Keys : named[k] \subseteq named'[k]
  PROVE  ScanInv' /\ scan' \in [Scans -> {None} \cup Scanned]
<1>1. scan \in [Scans -> {None} \cup Scanned]
  BY DEF IInv, TypeOK
<1>2. ASSUME NEW r \in Scans, scan'[r] # None
      PROVE  Sound(scan'[r], named', strayed')
  <2>1. CASE r = s
    BY <1>1, <2>1
  <2>2. CASE r # s
    <3>1. scan'[r] = scan[r]
      BY <1>1, <2>2
    <3>2. scan[r] \in Scanned /\ Sound(scan[r], named, strayed)
      BY <1>2, <3>1, ScanIsScanned
    <3>3. QED BY <3>1, <3>2, SoundGrows
  <2>3. QED BY <2>1, <2>2
<1>3. QED BY <1>1, <1>2 DEF ScanInv

LEMMA FileGrows ==
  ASSUME IInv, UNCHANGED <<consent, draft>>, strayed \subseteq strayed',
         \A k \in Keys : named[k] \subseteq named'[k]
  PROVE  FileInv'
BY DEF IInv, FileInv

-----------------------------------------------------------------------------
LEMMA InitInv == Init => IInv
<1> SUFFICES ASSUME Init PROVE IInv
  OBVIOUS
<1>1. NoChoices \in [Keys -> SUBSET Agents]
  BY DEF NoChoices
<1>2. account = [b \in Bases |-> None]
  BY DEF Init, Paired!Init
<1>3. TypeOK
  BY <1>1, <1>2, ConsentAssumption DEF Init, TypeOK
<1>4. CallInv /\ RecordInv /\ ScanInv
  BY DEF Init, CallInv, RecordInv, ScanInv
<1>5. FileInv
  BY DEF Init, FileInv, NoChoices
<1>6. QED BY <1>3, <1>4, <1>5 DEF IInv

LEMMA AccountStep ==
  ASSUME IInv, ChangeAccount
  PROVE  IInv'
<1>1. account' \in [Bases -> {None} \cup Accounts] /\ changes' \in 0..MaxChanges
  <2>1. account' \in [Bases -> {None} \cup Accounts]
    BY DEF ChangeAccount, Paired!Next, Paired!Forget, Paired!Pair, IInv, TypeOK
  <2>2. changes' \in 0..MaxChanges
    BY ConsentAssumption DEF ChangeAccount, IInv, TypeOK
  <2>3. QED BY <2>1, <2>2
<1>2. UNCHANGED <<consent, job, status, pc, base, launch, chosen, of, draft, scan, named, strayed, kills>>
  BY DEF ChangeAccount, call, past
<1>3. QED BY <1>1, <1>2 DEF IInv, TypeOK, CallInv, RecordInv, FileInv, ScanInv

\* A call that only gets on, or ends.
Onward == \/ \E b \in Bases, l \in Agents, sel \in {{}} \cup Choices : Begin(b, l, sel)
          \/ Gate \/ Refuse \/ Waited \/ (\E b \in Bases, silent \in Silences : Report(b, silent)) \/ Final
          \/ DropStep \/ Kill

LEMMA CallStep ==
  ASSUME IInv, Onward
  PROVE  IInv' /\ consent' = consent /\ (draft' = draft \/ (pc = "write" /\ kills' > kills))
<1> USE ConsentAssumption
<1>1. \A sel \in {{}} \cup Choices : sel \in SUBSET Agents
  BY DEF Choices
<1>2. UNCHANGED <<account, changes, consent, status, scan, named, strayed>>
  BY DEF Onward, Begin, Gate, Refuse, Waited, Report, Final, DropStep, Kill, paired, past
<1>3. /\ TypeOK' /\ CallInv' /\ RecordInv'
      /\ (draft' = draft /\ kills' = kills) \/ (draft' = None /\ kills' = kills + 1)
  <2> USE <1>1, <1>2 DEF IInv, TypeOK, CallInv, RecordInv
  <2>1. ASSUME NEW b \in Bases, NEW l \in Agents, NEW sel \in {{}} \cup Choices, Begin(b, l, sel)
        PROVE  TypeOK' /\ CallInv' /\ RecordInv' /\ draft' = draft /\ kills' = kills
    BY <2>1 DEF Begin
  <2>2. CASE Gate
    BY <2>2 DEF Gate, call, EndCall
  <2>3. CASE Refuse
    BY <2>3 DEF Refuse, EndCall
  <2>4. CASE Waited
    BY <2>4 DEF Waited, call
  <2>5. ASSUME NEW b \in Bases, NEW silent \in Silences, Report(b, silent)
        PROVE  TypeOK' /\ CallInv' /\ RecordInv' /\ draft' = draft /\ kills' = kills
    <3>1. scan[job] \in Scanned
      BY <2>5 DEF Report
    <3>2. scan[job].chosen \in SUBSET Agents
      BY <3>1 DEF Scanned
    <3>3. QED BY <2>5, <3>2 DEF Report
  <2>6. CASE Final
    BY <2>6 DEF Final, call, EndCall
  <2>7. CASE DropStep
    BY <2>7 DEF DropStep, call
  <2>8. CASE Kill
    BY <2>8 DEF Kill, EndCall
  <2>9. QED BY <2>1, <2>2, <2>3, <2>4, <2>5, <2>6, <2>7, <2>8 DEF Onward
<1>4. FileInv' /\ ScanInv'
  BY <1>2, <1>3 DEF IInv, FileInv, ScanInv
<1>5. kills \in Nat
  BY DEF IInv, TypeOK
<1>6. draft' = draft \/ (pc = "write" /\ kills' > kills)
  BY <1>3, <1>5 DEF IInv, CallInv
<1>7. QED BY <1>2, <1>3, <1>4, <1>5, <1>6 DEF IInv

LEMMA SpawnStep ==
  ASSUME IInv, NEW s \in Scans,
         (\E silent \in Silences : SpawnScan(s, silent)) \/ \E b \in Bases, l \in Agents : Daily(s, b, l)
  PROVE  IInv' /\ consent' = consent /\ draft' = draft
<1> USE ConsentAssumption
<1>1. PICK b \in Bases, l \in Agents, sel \in SUBSET Agents : scan' = [scan EXCEPT ![s] = Started(b, l, sel)]
  <2>1. ASSUME NEW silent \in Silences, SpawnScan(s, silent)
        PROVE  \E b \in Bases, l \in Agents, sel \in SUBSET Agents : scan' = [scan EXCEPT ![s] = Started(b, l, sel)]
    BY <2>1 DEF SpawnScan, IInv, TypeOK, CallInv
  <2>2. ASSUME NEW b \in Bases, NEW l \in Agents, Daily(s, b, l)
        PROVE  scan' = [scan EXCEPT ![s] = Started(b, l, {})]
    BY <2>2 DEF Daily
  <2>3. QED BY <2>1, <2>2
<1>2. Started(b, l, sel) \in Scanned /\ Started(b, l, sel) # None
  BY DEF Started, Scanned
<1>3. UNCHANGED <<account, changes, consent, draft, named, strayed, kills>> /\ scan[s] = None
  BY DEF SpawnScan, Daily, paired, past
<1>4. Sound(Started(b, l, sel), named', strayed)
  BY DEF Started, Sound
<1>5. ScanInv' /\ scan' \in [Scans -> {None} \cup Scanned]
  BY <1>1, <1>2, <1>3, <1>4, OneScan
<1>6. \A r \in Scans : scan[r] # None => scan'[r] = scan[r]
  BY <1>1, <1>3 DEF IInv, TypeOK
<1>7. scan'[s] # None
  BY <1>1, <1>2 DEF IInv, TypeOK
<1>8. TypeOK' /\ CallInv' /\ RecordInv'
  <2> USE <1>3, <1>5, <1>6, <1>7 DEF IInv, TypeOK, CallInv, RecordInv
  <2>1. ASSUME NEW silent \in Silences, SpawnScan(s, silent)
        PROVE  TypeOK' /\ CallInv' /\ RecordInv'
    <3>1. status' = None /\ scan'[s] = Started(base, launch, chosen) /\ Started(base, launch, chosen).chosen = chosen
      BY <2>1 DEF SpawnScan, Started
    <3>2. CASE job' = s /\ EndCall
      BY <2>1, <3>1, <3>2 DEF SpawnScan, EndCall
    <3>3. CASE pc' = "wait" /\ of' = s /\ UNCHANGED <<job, base, launch, chosen>>
      BY <2>1, <3>1, <3>3 DEF SpawnScan
    <3>4. QED BY <2>1, <3>2, <3>3 DEF SpawnScan
  <2>2. CASE \E d \in Bases, k \in Agents : Daily(s, d, k)
    BY <2>2 DEF Daily, call
  <2>3. QED BY <2>1, <2>2
<1>9. FileInv'
  BY <1>3, FileGrows
<1>10. QED BY <1>3, <1>5, <1>8, <1>9 DEF IInv

\* A scan that goes on; the call does not.
LEMMA ScanGoesOn ==
  ASSUME IInv, NEW s \in Scans, NEW c \in Scanned,
         scan[s] # None, c.chosen = scan[s].chosen, scan' = [scan EXCEPT ![s] = c],
         Sound(c, named', strayed), \A k \in Keys : named[k] \subseteq named'[k],
         named' \in [Keys -> SUBSET Agents], status' \in {None, "running"} \cup Terminal,
         kills' \in 0..MaxKills,
         UNCHANGED <<account, changes, consent, job, pc, base, launch, chosen, of, draft, strayed>>
  PROVE  IInv' /\ consent' = consent /\ draft' = draft
<1>1. ScanInv' /\ scan' \in [Scans -> {None} \cup Scanned]
  BY OneScan
<1>2. FileInv'
  BY FileGrows
<1>3. TypeOK' /\ CallInv'
  BY <1>1 DEF IInv, TypeOK, CallInv
<1>4. RecordInv'
  <2>1. \A r \in Scans : scan[r] # None => scan'[r] # None /\ scan'[r].chosen = scan[r].chosen
    BY ConsentAssumption DEF IInv, TypeOK
  <2>2. (job # None => job \in Scans) /\ (of # None => of \in Scans)
    BY DEF IInv, TypeOK
  <2>3. QED BY <2>1, <2>2 DEF IInv, RecordInv
<1>5. QED BY <1>1, <1>2, <1>3, <1>4 DEF IInv

LEMMA ReadAuthStep ==
  ASSUME IInv, NEW s \in Scans, ReadAuth(s)
  PROVE  IInv' /\ consent' = consent /\ draft' = draft
<1> DEFINE who == account[scan[s].base]
           st == IF who = None THEN "failed" ELSE "deciding"
           c == [scan[s] EXCEPT !.st = st, !.who = who]
           k == <<scan[s].base, who>>
<1>1. scan[s] # None /\ scan[s].st = "starting" /\ scan[s] \in Scanned /\ scan[s].reads = {}
  BY ScanIsScanned DEF ReadAuth, Sound
<1>2. who \in {None} \cup Accounts /\ scan[s].base \in Bases /\ scan[s].chosen \in SUBSET Agents
  BY <1>1 DEF Scanned, IInv, TypeOK
<1>3. scan' = [scan EXCEPT ![s] = c]
  BY DEF ReadAuth, IInv, TypeOK
<1>4. named' = IF who = None THEN named ELSE [named EXCEPT ![k] = @ \cup scan[s].chosen]
  BY DEF ReadAuth
<1>5. st \in {"failed", "deciding"}
  OBVIOUS
<1> HIDE DEF who, st
<1>6. c \in Scanned /\ c.reads = {} /\ c.st = st /\ c.chosen = scan[s].chosen /\ c.who = who /\ Mine(c) = k
  BY <1>1, <1>2, <1>5 DEF Scanned, Mine
<1>7. k \in Keys
  BY <1>2 DEF Keys
<1> HIDE DEF c, k
<1>8. /\ named' \in [Keys -> SUBSET Agents] /\ \A j \in Keys : named[j] \subseteq named'[j]
      /\ who # None => scan[s].chosen \subseteq named'[k]
  BY <1>2, <1>4, <1>7 DEF IInv, TypeOK
<1>9. Sound(c, named', strayed)
  BY <1>6, <1>8 DEF Sound
<1>10. UNCHANGED <<account, changes, consent, job, pc, base, launch, chosen, of, draft, strayed, kills>> /\ status' = "running"
  BY DEF ReadAuth, paired, call
<1>11. kills' \in 0..MaxKills
  BY <1>10 DEF IInv, TypeOK
<1>12. QED BY <1>1, <1>3, <1>6, <1>8, <1>9, <1>10, <1>11, ScanGoesOn

LEMMA DecideStep ==
  ASSUME IInv, NEW s \in Scans, Decide(s)
  PROVE  IInv' /\ consent' = consent /\ draft' = draft
<1> DEFINE key == Key(scan[s].base)
           then == account[scan[s].base]
           reads == Reads(scan[s], key)
           c == [scan[s] EXCEPT !.st = "reading", !.then = then, !.reads = reads]
<1>1. scan[s] # None /\ scan[s].st = "deciding" /\ scan[s] \in Scanned /\ Sound(scan[s], named, strayed)
  BY ScanIsScanned DEF Decide
<1>2. scan[s].base \in Bases /\ scan[s].launch \in Agents /\ scan[s].chosen \in SUBSET Agents
  BY <1>1 DEF Scanned
<1>3. key \in Keys /\ then \in {None} \cup Accounts /\ key = <<scan[s].base, then>>
  BY <1>2, KeyIsKey DEF Key
<1>4. consent[key] \in SUBSET Agents
  BY <1>3 DEF IInv, TypeOK
<1>5. reads \in SUBSET Agents /\ reads \subseteq {scan[s].launch} \cup scan[s].chosen \cup consent[key]
  BY <1>2, <1>4 DEF Reads
<1>6. UNCHANGED <<account, changes, consent, job, status, pc, base, launch, chosen, of, draft, named, strayed, kills>>
  BY DEF Decide, paired, call, past
<1>7. scan' = [scan EXCEPT ![s] = c]
  BY DEF Decide, IInv, TypeOK
<1> HIDE DEF key, reads, then
<1>8. /\ c \in Scanned /\ c.st = "reading" /\ c.then = then /\ c.reads = reads /\ c.who = scan[s].who
      /\ c.launch = scan[s].launch /\ c.chosen = scan[s].chosen /\ Mine(c) = Mine(scan[s])
  BY <1>1, <1>3, <1>5 DEF Scanned, Mine
<1>9. key \notin strayed => consent[key] \subseteq named[key]
  BY <1>3 DEF IInv, FileInv
<1>10. then = scan[s].who => key = Mine(scan[s])
  BY <1>3 DEF Mine
<1> HIDE DEF c
<1>11. Sound(c, named', strayed)
  BY <1>1, <1>5, <1>6, <1>8, <1>9, <1>10 DEF Sound
<1>12. (\A k \in Keys : named[k] \subseteq named'[k]) /\ named' \in [Keys -> SUBSET Agents]
       /\ status' \in {None, "running"} \cup Terminal /\ kills' \in 0..MaxKills
  BY <1>6 DEF IInv, TypeOK
<1>13. QED BY <1>1, <1>6, <1>7, <1>8, <1>11, <1>12, ScanGoesOn

\* A scan that writes, ends or dies.
LEMMA EndStep ==
  ASSUME IInv, NEW s \in Scans, Emit(s) \/ Die(s) \/ \E phase \in Terminal : End(s, phase)
  PROVE  IInv' /\ consent' = consent /\ draft' = draft
<1>1. scan[s] # None /\ scan[s] \in Scanned /\ Sound(scan[s], named, strayed)
  BY ScanIsScanned DEF Emit, Die, End
<1>2. scan \in [Scans -> {None} \cup Scanned] /\ status \in {None, "running"} \cup Terminal
  BY DEF IInv, TypeOK
<1>3. PICK st \in {scan[s].st, "done", "failed"} : scan' = [scan EXCEPT ![s] = [scan[s] EXCEPT !.st = st]]
  <2>1. CASE Emit(s)
    <3>1. scan' = [scan EXCEPT ![s] = scan[s]]
      BY <1>2, <2>1 DEF Emit
    <3>2. scan[s] = [scan[s] EXCEPT !.st = scan[s].st]
      BY <1>1 DEF Scanned
    <3>3. QED BY <3>1, <3>2
  <2>2. CASE Die(s)
    BY <1>2, <2>2 DEF Die
  <2>3. CASE \E phase \in Terminal : End(s, phase)
    BY <1>2, <2>3 DEF End, Terminal
  <2>4. QED BY <2>1, <2>2, <2>3
<1> DEFINE c == [scan[s] EXCEPT !.st = st]
<1>4. st \in {"starting", "deciding", "reading", "done", "failed"}
  BY <1>1 DEF Scanned
<1>5. /\ c \in Scanned /\ c.st = st /\ c.reads = scan[s].reads /\ c.then = scan[s].then /\ c.who = scan[s].who
      /\ c.launch = scan[s].launch /\ c.chosen = scan[s].chosen /\ Mine(c) = Mine(scan[s])
  BY <1>1, <1>4 DEF Scanned, Mine
<1>6. scan' = [scan EXCEPT ![s] = c]
  BY <1>3
<1> HIDE DEF c
<1>7. UNCHANGED <<account, changes, consent, job, pc, base, launch, chosen, of, draft, named, strayed>>
  BY DEF Emit, Die, End, paired, call, past
<1>8. Sound(c, named', strayed)
  BY <1>1, <1>3, <1>5, <1>7 DEF Sound
<1>9. status' \in {None, "running"} \cup Terminal
  BY <1>2 DEF Emit, Die, End, Terminal
<1>10. kills' \in 0..MaxKills
  BY ConsentAssumption DEF Emit, Die, End, IInv, TypeOK
<1>11. (\A k \in Keys : named[k] \subseteq named'[k]) /\ named' \in [Keys -> SUBSET Agents]
  BY <1>7 DEF IInv, TypeOK
<1>12. QED BY <1>1, <1>5, <1>6, <1>7, <1>8, <1>9, <1>10, <1>11, ScanGoesOn

\* The choice of a scan is written: under its account's key, or one
\* that is noted as strayed.
LEMMA OpenStep ==
  ASSUME IInv, OpenConsent
  PROVE  /\ IInv' /\ draft' = [consent EXCEPT ![Key(base)] = chosen] /\ chosen # {}
         /\ draft = None /\ draft' # None
<1> USE ConsentAssumption
<1>1. /\ pc = "record" /\ base \in Bases /\ of # None /\ of \in Scans /\ scan[of] # None
      /\ chosen = scan[of].chosen /\ chosen # {} /\ draft = None
  BY DEF OpenConsent, IInv, TypeOK, CallInv, RecordInv
<1> DEFINE key == Key(base)
<1>2. key \in Keys /\ key = <<base, account[base]>>
  BY <1>1, KeyIsKey DEF Key
<1>3. consent \in [Keys -> SUBSET Agents] /\ chosen \in SUBSET Agents /\ NoChoices \in [Keys -> SUBSET Agents]
  BY DEF IInv, TypeOK, NoChoices
<1>4. draft' = [consent EXCEPT ![key] = chosen] /\ consent' = NoChoices
  BY DEF OpenConsent, Recorded
<1> HIDE DEF key
<1>5. strayed' = IF account[base] # None /\ base = scan[of].base /\ account[base] = scan[of].who
                  THEN strayed ELSE strayed \cup {key}
  BY <1>2 DEF OpenConsent
<1>6. draft' \in [Keys -> SUBSET Agents] /\ draft' # None
  BY <1>2, <1>3, <1>4
<1>7. strayed \subseteq strayed' /\ strayed' \in SUBSET Keys
  BY <1>2, <1>5 DEF IInv, TypeOK
<1>8. UNCHANGED <<account, changes, job, status, base, launch, chosen, of, scan, named, kills>> /\ pc' = "write"
  BY DEF OpenConsent, paired, call
<1>9. TypeOK' /\ CallInv' /\ RecordInv'
  BY <1>1, <1>3, <1>4, <1>6, <1>7, <1>8 DEF IInv, TypeOK, CallInv, RecordInv
<1>10. ScanInv'
  BY <1>7, <1>8, ScansGrow
<1>11. FileInv'
  <2> SUFFICES ASSUME NEW k \in Keys \ strayed' PROVE draft'[k] \subseteq named[k]
    BY <1>4, <1>8 DEF FileInv, NoChoices
  <2>1. CASE k # key
    BY <1>3, <1>4, <1>7, <2>1 DEF IInv, FileInv
  <2>2. CASE k = key
    <3>1. key = Mine(scan[of]) /\ scan[of].who # None
      BY <1>2, <1>5, <2>2 DEF Mine
    <3>2. chosen \subseteq named[key]
      BY <1>1, <3>1, ScanIsScanned DEF Sound
    <3>3. QED BY <1>2, <1>3, <1>4, <2>2, <3>2
  <2>3. QED BY <2>1, <2>2
<1>12. QED BY <1>1, <1>4, <1>6, <1>8, <1>9, <1>10, <1>11 DEF IInv, key

LEMMA WriteStep ==
  ASSUME IInv, WriteConsent
  PROVE  IInv' /\ draft # None /\ consent' = draft /\ draft' = None
<1>1. draft # None /\ draft \in [Keys -> SUBSET Agents]
  BY DEF WriteConsent, IInv, TypeOK, CallInv
<1>2. UNCHANGED <<account, changes, job, status, scan, named, strayed, kills>> /\ consent' = draft /\ draft' = None
      /\ EndCall
  BY DEF WriteConsent, paired, past
<1>3. TypeOK' /\ CallInv' /\ RecordInv'
  BY <1>1, <1>2 DEF IInv, TypeOK, CallInv, RecordInv, EndCall
<1>4. FileInv' /\ ScanInv'
  BY <1>1, <1>2 DEF IInv, FileInv, ScanInv
<1>5. QED BY <1>1, <1>2, <1>3, <1>4 DEF IInv

-----------------------------------------------------------------------------
\* What a step does to the choices, recorded or being recorded.
Keeping == \A k \in Keys : View[k] # {} => View'[k] # {} \/ (pc = "write" /\ kills' > kills)

LEMMA NextInv ==
  ASSUME IInv, Next
  PROVE  IInv' /\ Keeping
<1>1. ASSUME consent' = consent, draft' = draft \/ (pc = "write" /\ kills' > kills)
      PROVE  Keeping
  BY <1>1 DEF Keeping, View
<1>2. CASE ChangeAccount
  <2>1. UNCHANGED <<consent, draft>>
    BY <1>2 DEF ChangeAccount
  <2>2. QED BY <1>1, <1>2, <2>1, AccountStep
<1>3. CASE Calls
  <2>1. CASE \E s \in Scans, silent \in Silences : SpawnScan(s, silent)
    BY <1>1, <2>1, SpawnStep
  <2>2. CASE OpenConsent
    <3> DEFINE key == Key(base)
    <3>1. IInv' /\ draft' = [consent EXCEPT ![key] = chosen] /\ chosen # {}
      BY <2>2, OpenStep
    <3>2. View = consent /\ View' = draft'
      BY <2>2, OpenStep DEF View
    <3>3. consent \in [Keys -> SUBSET Agents]
      BY DEF IInv, TypeOK
    <3> HIDE DEF key
    <3>4. \A k \in Keys : draft'[k] = consent[k] \/ draft'[k] # {}
      BY <3>1, <3>3
    <3>5. QED BY <3>1, <3>2, <3>4 DEF Keeping
  <2>3. CASE WriteConsent
    BY <2>3, WriteStep DEF Keeping, View
  <2>4. QED BY <1>1, <1>3, <2>1, <2>2, <2>3, CallStep DEF Calls, Onward
<1>4. CASE Scanning
  <2>1. PICK s \in Scans : \/ \E b \in Bases, l \in Agents : Daily(s, b, l)
                           \/ ReadAuth(s) \/ Decide(s) \/ Emit(s) \/ Die(s)
                           \/ \E phase \in Terminal : End(s, phase)
    BY <1>4 DEF Scanning
  <2>2. IInv' /\ consent' = consent /\ draft' = draft
    BY <2>1, SpawnStep, ReadAuthStep, DecideStep, EndStep
  <2>3. QED BY <1>1, <2>2
<1>5. QED BY <1>2, <1>3, <1>4 DEF Next

LEMMA StutterInv ==
  ASSUME IInv, UNCHANGED vars
  PROVE  IInv'
BY DEF IInv, TypeOK, CallInv, RecordInv, FileInv, ScanInv, vars, paired, call, past

LEMMA Inductive == Spec => []IInv
<1>1. IInv /\ [Next]_vars => IInv'
  BY NextInv, StutterInv
<1>2. QED BY <1>1, InitInv, PTL DEF Spec

\* The account, the files, the call and the scans always have their types.
THEOREM TypeCorrect == Spec => []TypeOK
<1>1. IInv => TypeOK
  BY DEF IInv
<1>2. QED BY <1>1, Inductive, PTL

\* A scan reads what was named for it or for an earlier scan of its account, whatever
\* calls, scans and logins come between, but for the two exceptions of
\* ReadsOnlyGranted.
THEOREM ReadsJustified == Spec => []ReadsOnlyGranted
<1>1. IInv => ReadsOnlyGranted
  BY DEF IInv, ScanInv, Sound, Mine, ReadsOnlyGranted
<1>2. QED BY <1>1, Inductive, PTL

\* Recording a choice loses no other, unless the call is killed while it writes.
THEOREM ChoicesKept == Spec => ChoiceKept
<1>1. IInv /\ [Next]_vars =>
        [\A k \in Keys : View[k] # {} => View'[k] # {} \/ (pc = "write" /\ kills' > kills)]_vars
  BY NextInv DEF Keeping
<1>2. QED BY <1>1, Inductive, PTL DEF Spec, ChoiceKept
=============================================================================
