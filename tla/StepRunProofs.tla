----------------------------- MODULE StepRunProofs -----------------------------
(***************************************************************************)
(* Proofs about StepRun, for every number of process ids and calls, and    *)
(* every limit. That no scan is reported twice, and that progress does not *)
(* go back, holds for calls that do not overlap (MaxCalls = 1): two calls  *)
(* that follow one scan at once may report it twice. That a scan's own end *)
(* is what is reported, unless another scan crossed it, holds for any      *)
(* calls, silences, ages, deaths and kills.                                *)
(***************************************************************************)
EXTENDS StepRun, FiniteSetTheorems, TLAPS

\* A call has a scan in hand exactly from its start, or from loading step.json,
\* to the end of the call.
HeldInv ==
  \A c \in Calls : held[c] # None <=>
    pc[c] \in {"record", "recording", "poll", "progress", "save", "saving", "clear",
               "report", "wait"}

\* Calls do not overlap.
OneCall == \A c, d \in Calls : (pc[c] # "idle" /\ pc[d] # "idle") => c = d

\* Nothing speaks of a reported scan any more, and a scan about to be reported
\* has left step.json.
CollectInv ==
  /\ \A p \in reported : ~ Followed(p)
  /\ \A c \in Calls : pc[c] \in {"report", "wait"}
                        => step = None \/ step.pid # held[c].pid

\* Whatever will be printed for a scan is no less than what was.
PercentInv ==
  /\ step # None => step.percent >= printed[step.pid]
  /\ \A c \in Calls : held[c] # None => held[c].percent >= printed[held[c].pid]

TypeInv == TypeOK /\ HeldInv
IInv == TypeInv /\ OneCall /\ CollectInv /\ PercentInv

-----------------------------------------------------------------------------
(* Types, and what a call has in hand.                                      *)

LEMMA TypeInit == Init => TypeInv
BY StepRunAssumption DEF Init, TypeInv, HeldInv, TypeOK, Lives, Labels, Percents

\* A new scan, and a scan that has gone, keep the types of what they change.
LEMMA SpawnType ==
  ASSUME TypeOK, NEW p \in Pids, NEW clear, Spawn(p, clear)
  PROVE  /\ life' \in [Pids -> Lives] /\ age' \in [Pids -> 0..MaxAge]
         /\ own' \in [Pids -> Percents] /\ quiet' \in [Pids -> 0..QuietLimit]
         /\ posts' \in [Pids -> 0..MaxPosts] /\ zombie' \in [Pids -> BOOLEAN]
         /\ ended' \subseteq Pids /\ printed' \in [Pids -> Percents]
         /\ reported' \subseteq Pids /\ crossed' \subseteq Pids /\ lone' \subseteq Calls
BY StepRunAssumption DEF TypeOK, Spawn, Lives, Percents

LEMMA GoneType ==
  ASSUME TypeOK, NEW p \in Pids, Gone(p)
  PROVE  /\ life' \in [Pids -> Lives] /\ own' \in [Pids -> Percents]
         /\ quiet' \in [Pids -> 0..QuietLimit] /\ posts' \in [Pids -> 0..MaxPosts]
         /\ zombie' \in [Pids -> BOOLEAN]
<1>1. zombie' \in [Pids -> BOOLEAN]
  BY DEF TypeOK, Gone
<1>2. /\ life' \in [Pids -> Lives] /\ own' \in [Pids -> Percents]
      /\ quiet' \in [Pids -> 0..QuietLimit] /\ posts' \in [Pids -> 0..MaxPosts]
  BY StepRunAssumption DEF TypeOK, Gone, Lives, Percents
<1>3. QED BY <1>1, <1>2

LEMMA ScanType ==
  ASSUME TypeInv, NEW p \in Pids, ScanStep(p)
  PROVE  TypeInv'
<1> USE StepRunAssumption DEF TypeInv, TypeOK, cache, scans, history, bounds
<1>1. TypeOK'
  <2> USE DEF WriteStatus, Lives, Percents
  <2>1. CASE StartScan(p)     BY <2>1 DEF StartScan, Status, Phases
  <2>2. CASE EmitProgress(p)  BY <2>2 DEF EmitProgress, Status, Phases
  <2>3. CASE StartUpload(p)   BY <2>3 DEF StartUpload, Status, Phases
  <2>4. CASE PostAgain(p)     BY <2>4 DEF PostAgain
  <2>5. CASE FinishScan(p)    BY <2>5 DEF FinishScan, Status, Phases, Terminal
  <2>6. CASE Exit(p)          BY <2>6, GoneType DEF Exit
  <2>7. QED BY <2>1, <2>2, <2>3, <2>4, <2>5, <2>6 DEF ScanStep
<1>2. UNCHANGED <<pc, held>>
  BY DEF ScanStep, StartScan, EmitProgress, StartUpload, PostAgain, FinishScan, Exit
<1>3. QED BY <1>1, <1>2 DEF HeldInv

LEMMA WorldType ==
  ASSUME TypeInv, NEW p \in Pids, Die(p) \/ Reap(p) \/ Daily(p)
  PROVE  TypeInv'
<1>0. Daily(p) =>
        /\ life' \in [Pids -> Lives] /\ age' \in [Pids -> 0..MaxAge]
        /\ own' \in [Pids -> Percents] /\ quiet' \in [Pids -> 0..QuietLimit]
        /\ posts' \in [Pids -> 0..MaxPosts] /\ zombie' \in [Pids -> BOOLEAN]
        /\ ended' \subseteq Pids /\ printed' \in [Pids -> Percents]
        /\ reported' \subseteq Pids /\ crossed' \subseteq Pids /\ lone' \subseteq Calls
  BY SpawnType DEF Daily, TypeInv
<1> USE StepRunAssumption DEF TypeInv, TypeOK, cache, scans, history, bounds
<1>1. CASE Die(p)    BY <1>1, GoneType DEF Die, HeldInv
<1>2. CASE Reap(p)   BY <1>2 DEF Reap, HeldInv
<1>3. CASE Daily(p)
  <2>1. UNCHANGED <<status, touched, step, mode, pc, child, held, deaths, kills>> /\ dailies' \in 0..MaxDaily
    BY <1>3 DEF Daily
  <2>2. QED BY <1>3, <1>0, <2>1 DEF HeldInv
<1>4. QED BY <1>1, <1>2, <1>3

LEMMA TickType == ASSUME TypeInv, Tick PROVE TypeInv'
<1> USE StepRunAssumption DEF TypeInv, TypeOK, Tick, Percents
<1>1. /\ touched' \in 0..StaleAfter /\ age' \in [Pids -> 0..MaxAge]
      /\ quiet' \in [Pids -> 0..QuietLimit]
  BY DEF Smaller
<1>2. printed' \in [Pids -> Percents] /\ ended' \subseteq Pids /\ reported' \subseteq Pids
        /\ crossed' \subseteq Pids
  OBVIOUS
<1>3. QED BY <1>1, <1>2 DEF HeldInv, bounds

LEMMA CallType ==
  ASSUME TypeInv, NEW c \in Calls, CallStep(c) \/ Begin(c) \/ Kill(c)
  PROVE  TypeInv'
<1> USE StepRunAssumption
    DEF TypeInv, HeldInv, TypeOK, cache, scans, history, bounds, Goto, EndCall, Labels, Percents
<1>1. CASE Begin(c)         BY <1>1 DEF Begin
<1>2. CASE LoadStep(c)      BY <1>2 DEF LoadStep
<1>3. CASE DropStep(c)      BY <1>3 DEF DropStep
<1>4. CASE Guard(c)
  <2>1. /\ pc' \in [Calls -> Labels] /\ mode' \in [Calls -> Modes \cup {None}]
        /\ child' \in [Calls -> BOOLEAN] /\ held' \in [Calls -> Step \cup {None}]
    BY <1>4 DEF Guard
  <2>2. \A d \in Calls : held'[d] # None <=>
          pc'[d] \in {"record", "recording", "poll", "progress", "save", "saving", "clear", "report", "wait"}
    BY <1>4 DEF Guard
  <2>3. QED BY <1>4, <2>1, <2>2 DEF Guard
<1>5. CASE UnlinkStatus(c)  BY <1>5 DEF UnlinkStatus, Cleared
<1>6. CASE SpawnScan(c)
  <2>1. PICK p \in Pids : Spawn(p, c \in lone) /\ Record(c, p, 0)
    BY <1>6 DEF SpawnScan
  <2>2. /\ held' \in [Calls -> Step \cup {None}] /\ held'[c] # None
        /\ \A d \in Calls \ {c} : held'[d] = held[d]
    BY <2>1 DEF Record, Step
  <2>3. QED BY <1>6, <2>1, <2>2, SpawnType DEF SpawnScan
<1>7. CASE RecordStep(c)    BY <1>7 DEF RecordStep, Truncate
<1>8. CASE RecordedStep(c)  BY <1>8 DEF RecordedStep
<1>9. CASE Deadline(c)      BY <1>9 DEF Deadline
<1>10. CASE Progress(c)
  <2>1. StatusPercent \in Percents
    BY DEF StatusPercent, Status
  <2>2. held[c] \in Step
    BY <1>10 DEF Progress
  <2>3. /\ held' \in [Calls -> Step \cup {None}] /\ held'[c] # None
        /\ \A d \in Calls \ {c} : held'[d] = held[d]
    BY <1>10, <2>1, <2>2 DEF Progress, Record, Larger, Step
  <2>4. QED BY <1>10, <2>3 DEF Progress
<1>11. CASE SaveStep(c)     BY <1>11 DEF SaveStep, Truncate
<1>12. CASE SavedStep(c)
  <2>1. held[c] \in Step
    BY <1>12 DEF SavedStep
  <2>2. printed' \in [Pids -> Percents] /\ step' \in Step \cup {None}
    BY <1>12, <2>1 DEF SavedStep, Step
  <2>3. QED BY <1>12, <2>2 DEF SavedStep
<1>13. CASE StepFinished(c) BY <1>13 DEF StepFinished
<1>14. CASE ClearStep(c)    BY <1>14 DEF ClearStep
<1>15. CASE WaitedFor(c)    BY <1>15 DEF WaitedFor
<1>16. CASE ReportFinal(c)
  <2>1. held[c].pid \in Pids
    BY <1>16 DEF ReportFinal, Step
  <2>2. QED BY <1>16, <2>1 DEF ReportFinal
<1>17. CASE Kill(c)         BY <1>17 DEF Kill, Active
<1>18. QED
  BY <1>1, <1>2, <1>3, <1>4, <1>5, <1>6, <1>7, <1>8, <1>9, <1>10, <1>11, <1>12, <1>13,
     <1>14, <1>15, <1>16, <1>17 DEF CallStep

LEMMA TypeStep == TypeInv /\ [Next]_vars => TypeInv'
<1> SUFFICES ASSUME TypeInv, [Next]_vars PROVE TypeInv'
  OBVIOUS
<1>1. CASE UNCHANGED vars
  BY <1>1 DEF vars, cache, scans, history, bounds, TypeInv, TypeOK, HeldInv
<1>2. CASE Next
  BY <1>2, ScanType, WorldType, TickType, CallType DEF Next
<1>3. QED BY <1>1, <1>2

\* Both files, the scans and the calls keep their types, for every number of
\* processes and calls; ages and counts stay within the limits run.py compares
\* them with.
THEOREM TypeCorrect == Spec => []TypeOK
<1>1. TypeInv => TypeOK
  BY DEF TypeInv
<1>2. QED BY TypeInit, TypeStep, <1>1, PTL DEF Spec

-----------------------------------------------------------------------------
(* Calls that do not overlap.                                               *)

\* A call that runs leaves the others alone.
LEMMA CallFrame ==
  ASSUME TypeInv, NEW c \in Calls, CallStep(c) \/ Kill(c)
  PROVE  /\ pc[c] # "idle"
         /\ \A d \in Calls \ {c} : pc'[d] = pc[d] /\ held'[d] = held[d]
<1> USE DEF TypeInv, TypeOK, Goto, EndCall, Record
<1>1. CASE LoadStep(c) \/ DropStep(c) \/ Guard(c) \/ UnlinkStatus(c)
  BY <1>1 DEF LoadStep, DropStep, Guard, UnlinkStatus
<1>2. CASE SpawnScan(c) \/ RecordStep(c) \/ RecordedStep(c) \/ Deadline(c) \/ Progress(c)
  BY <1>2 DEF SpawnScan, RecordStep, Truncate, RecordedStep, Deadline, Progress
<1>3. CASE SaveStep(c) \/ SavedStep(c) \/ StepFinished(c) \/ ClearStep(c)
  BY <1>3 DEF SaveStep, Truncate, SavedStep, StepFinished, ClearStep
<1>4. CASE WaitedFor(c) \/ ReportFinal(c) \/ Kill(c)
  BY <1>4 DEF WaitedFor, ReportFinal, Kill, Active
<1>5. QED BY <1>1, <1>2, <1>3, <1>4 DEF CallStep

\* With room for one, a call begins when no other runs.
LEMMA BeginsAlone ==
  ASSUME TypeInv, MaxCalls = 1, NEW c \in Calls, Begin(c)
  PROVE  \A d \in Calls : pc[d] = "idle"
<1>1. IsFiniteSet(Active)
  BY StepRunAssumption, FS_Subset DEF Active
<1>2. Cardinality(Active) = 0
  BY <1>1, FS_CardinalityType DEF Begin
<1>3. QED BY <1>1, <1>2, FS_EmptySet DEF Active

\* What scans, the clock and the hook do does not touch step.json or a call.
LEMMA OthersFrame ==
  ASSUME NEW p \in Pids, ScanStep(p) \/ Die(p) \/ Reap(p) \/ Daily(p) \/ Tick
  PROVE  UNCHANGED <<step, pc, held>>
BY DEF ScanStep, StartScan, EmitProgress, StartUpload, PostAgain, FinishScan, Exit, Die, Reap,
       Daily, Tick

LEMMA OneCallStep ==
  ASSUME IInv, MaxCalls = 1, [Next]_vars
  PROVE  OneCall'
<1> TypeInv /\ OneCall
  BY DEF IInv
<1>1. ASSUME NEW p \in Pids, ScanStep(p) \/ Die(p) \/ Reap(p) \/ Daily(p) PROVE OneCall'
  BY <1>1, OthersFrame DEF OneCall
<1>2. ASSUME NEW c \in Calls, CallStep(c) \/ Kill(c) PROVE OneCall'
  BY <1>2, CallFrame DEF OneCall
<1>3. ASSUME NEW c \in Calls, Begin(c) PROVE OneCall'
  <2>1. \A d \in Calls \ {c} : pc[d] = "idle" /\ pc'[d] = pc[d]
    BY <1>3, BeginsAlone DEF Begin, Goto, TypeInv, TypeOK
  <2>2. QED BY <2>1 DEF OneCall
<1>4. CASE UNCHANGED vars
  BY <1>4 DEF OneCall, vars
<1>5. CASE Tick
  BY <1>5 DEF Tick, OneCall
<1>6. QED BY <1>1, <1>2, <1>3, <1>4, <1>5 DEF Next

\* While a call runs, every other one is idle and has nothing in hand.
LEMMA OthersIdle ==
  ASSUME IInv, NEW c \in Calls, CallStep(c) \/ Kill(c), NEW d \in Calls \ {c}
  PROVE  pc[d] = "idle" /\ pc'[d] = "idle" /\ held[d] = None /\ held'[d] = None
BY CallFrame DEF IInv, TypeInv, OneCall, HeldInv

-----------------------------------------------------------------------------
(* Reported once.                                                           *)

\* A new scan is one nothing speaks of.
LEMMA SpawnedFresh ==
  ASSUME TypeInv, CollectInv, NEW p \in Pids, NEW clear, Spawn(p, clear)
  PROVE  ~ Followed(p) /\ reported' = reported \ {p}
BY DEF Spawn, Fresh

LEMMA CollectStep ==
  ASSUME IInv, MaxCalls = 1, [Next]_vars
  PROVE  CollectInv'
<1> TypeInv /\ OneCall /\ CollectInv
  BY DEF IInv
<1>1. ASSUME NEW p \in Pids, ScanStep(p) \/ Die(p) \/ Reap(p) \/ Daily(p) PROVE CollectInv'
  <2>1. reported' \subseteq reported
    BY <1>1 DEF ScanStep, StartScan, EmitProgress, StartUpload, PostAgain, FinishScan, Exit,
                Die, Reap, Daily, Spawn, history
  <2>2. QED BY <1>1, <2>1, OthersFrame DEF CollectInv, Followed
<1>2. CASE Tick
  BY <1>2 DEF Tick, CollectInv, Followed
<1>3. ASSUME NEW c \in Calls, Begin(c) PROVE CollectInv'
  BY <1>3 DEF Begin, Goto, CollectInv, Followed, history, TypeInv, TypeOK
<1>4. ASSUME NEW c \in Calls, CallStep(c) \/ Kill(c) PROVE CollectInv'
  <2> USE DEF TypeInv, TypeOK, HeldInv, CollectInv, Followed, Goto, EndCall, Record, history
  <2>1. \A d \in Calls \ {c} : pc'[d] = "idle" /\ held[d] = None /\ held'[d] = None
    BY <1>4, OthersIdle
  <2>2. CASE LoadStep(c) \/ DropStep(c) \/ Guard(c) \/ UnlinkStatus(c)
    BY <2>1, <2>2 DEF LoadStep, DropStep, Guard, UnlinkStatus
  <2>3. CASE SpawnScan(c)
    <3>1. PICK p \in Pids : Spawn(p, c \in lone) /\ Record(c, p, 0)
      BY <2>3 DEF SpawnScan
    <3>2. held'[c] = [pid |-> p, percent |-> 0] /\ step' = step
      BY <2>3, <3>1 DEF SpawnScan
    <3>3. ~ Followed(p) /\ reported' = reported \ {p}
      BY <3>1, SpawnedFresh
    <3>4. QED BY <2>1, <3>2, <3>3
  <2>4. CASE RecordStep(c) \/ RecordedStep(c) \/ SaveStep(c)
    BY <2>1, <2>4 DEF RecordStep, Truncate, RecordedStep, SaveStep
  <2>5. CASE Progress(c)
    BY <2>1, <2>5 DEF Progress
  <2>6. CASE SavedStep(c)
    BY <2>1, <2>6 DEF SavedStep
  <2>7. CASE Deadline(c) \/ StepFinished(c) \/ ClearStep(c) \/ WaitedFor(c)
    BY <2>1, <2>7 DEF Deadline, StepFinished, ClearStep, WaitedFor
  <2>8. CASE ReportFinal(c)
    BY <2>1, <2>8 DEF ReportFinal
  <2>9. CASE Kill(c)
    BY <2>1, <2>9 DEF Kill
  <2>10. QED
    BY <1>4, <2>2, <2>3, <2>4, <2>5, <2>6, <2>7, <2>8, <2>9 DEF CallStep
<1>5. CASE UNCHANGED vars
  BY <1>5 DEF vars, history, CollectInv, Followed
<1>6. QED BY <1>1, <1>2, <1>3, <1>4, <1>5 DEF Next

-----------------------------------------------------------------------------
(* Progress.                                                                *)

LEMMA PercentStep ==
  ASSUME IInv, MaxCalls = 1, [Next]_vars
  PROVE  PercentInv'
<1> TypeInv /\ OneCall /\ PercentInv
  BY DEF IInv
<1> USE DEF TypeInv, TypeOK, Step
<1>1. ASSUME NEW p \in Pids, ScanStep(p) \/ Die(p) \/ Reap(p) PROVE PercentInv'
  <2>1. printed' = printed
    BY <1>1 DEF ScanStep, StartScan, EmitProgress, StartUpload, PostAgain, FinishScan, Exit,
                Die, Reap, history
  <2>2. QED BY <1>1, <2>1, OthersFrame DEF PercentInv
<1>2. ASSUME NEW p \in Pids, Daily(p) PROVE PercentInv'
  <2>1. /\ ~ Followed(p)
        /\ \A q \in Pids \ {p} : printed'[q] = printed[q]
    BY <1>2 DEF Daily, Spawn, Fresh
  <2>2. QED BY <1>2, <2>1, OthersFrame DEF PercentInv, Followed
<1>3. CASE Tick
  <2>1. \A p \in Pids : Followed(p) => printed'[p] = printed[p]
    BY <1>3 DEF Tick
  <2>2. QED BY <1>3, <2>1 DEF Tick, PercentInv, Followed
<1>4. ASSUME NEW c \in Calls, Begin(c) PROVE PercentInv'
  BY <1>4 DEF Begin, PercentInv, history
<1>5. ASSUME NEW c \in Calls, CallStep(c) \/ Kill(c) PROVE PercentInv'
  <2> USE DEF HeldInv, PercentInv, Goto, EndCall, Record, history
  <2>1. \A d \in Calls \ {c} : held'[d] = None
    BY <1>5, OthersIdle
  <2>2. CASE LoadStep(c) \/ DropStep(c) \/ Guard(c) \/ UnlinkStatus(c)
    BY <2>1, <2>2 DEF LoadStep, DropStep, Guard, UnlinkStatus
  <2>3. CASE SpawnScan(c)
    <3>1. PICK p \in Pids : Spawn(p, c \in lone) /\ Record(c, p, 0)
      BY <2>3 DEF SpawnScan
    <3>2. held'[c] = [pid |-> p, percent |-> 0] /\ step' = step
      BY <2>3, <3>1 DEF SpawnScan
    <3>3. /\ printed'[p] = 0
          /\ \A q \in Pids \ {p} : printed'[q] = printed[q]
          /\ step # None => step.pid # p
      BY <3>1 DEF Spawn, Fresh, Followed
    <3>4. QED BY <2>1, <3>2, <3>3
  <2>4. CASE RecordStep(c) \/ RecordedStep(c) \/ SaveStep(c)
    BY <2>1, <2>4 DEF RecordStep, Truncate, RecordedStep, SaveStep
  <2>5. CASE Progress(c)
    <3>1. StatusPercent \in Percents /\ held[c] \in Step
      <4>1. StatusPercent \in Percents
        BY StepRunAssumption DEF StatusPercent, Status, Percents
      <4>2. held[c] \in Step
        BY <2>5 DEF Progress
      <4>3. QED BY <4>1, <4>2
    <3>2. /\ held'[c] = [pid |-> held[c].pid, percent |-> Larger(held[c].percent, StatusPercent)]
          /\ step' = step /\ printed' = printed
      BY <2>5 DEF Progress
    <3>3. Larger(held[c].percent, StatusPercent) >= held[c].percent
      BY <3>1, StepRunAssumption DEF Larger, Percents
    <3>4. QED BY <2>1, <3>1, <3>2, <3>3, StepRunAssumption DEF Larger, Percents
  <2>6. CASE SavedStep(c)
    <3>1. held[c] \in Step
      BY <2>6 DEF SavedStep
    <3>2. step' = held[c] /\ printed'[held[c].pid] = held[c].percent /\ held'[c] = None
      BY <2>6, <3>1 DEF SavedStep
    <3>3. QED BY <2>1, <3>1, <3>2, StepRunAssumption DEF Percents
  <2>7. CASE Deadline(c) \/ StepFinished(c) \/ ClearStep(c) \/ WaitedFor(c)
    BY <2>1, <2>7 DEF Deadline, StepFinished, ClearStep, WaitedFor
  <2>8. CASE ReportFinal(c) \/ Kill(c)
    BY <2>1, <2>8 DEF ReportFinal, Kill
  <2>9. QED
    BY <1>5, <2>2, <2>3, <2>4, <2>5, <2>6, <2>7, <2>8 DEF CallStep
<1>6. CASE UNCHANGED vars
  BY <1>6 DEF vars, history, PercentInv
<1>7. QED BY <1>1, <1>2, <1>3, <1>4, <1>5, <1>6 DEF Next

-----------------------------------------------------------------------------
(* The theorems.                                                            *)

LEMMA IInvInit == Init => IInv
<1> SUFFICES ASSUME Init PROVE IInv
  OBVIOUS
<1>1. OneCall /\ CollectInv /\ PercentInv
  BY DEF Init, OneCall, CollectInv, PercentInv
<1>2. QED BY <1>1, TypeInit DEF IInv

LEMMA IInvStep == MaxCalls = 1 /\ IInv /\ [Next]_vars => IInv'
<1> SUFFICES ASSUME MaxCalls = 1, IInv, [Next]_vars PROVE IInv'
  OBVIOUS
<1>1. TypeInv'
  BY TypeStep DEF IInv
<1>2. QED BY <1>1, OneCallStep, CollectStep, PercentStep DEF IInv

\* The end of a scan is reported at most once (_step_wait clears the step before
\* it reports), as long as calls do not overlap.
THEOREM OneReport == ASSUME MaxCalls = 1 PROVE Spec => ReportedOnce
<1>1. IInv /\ [Next]_vars =>
        [\A c \in Calls : ReportFinal(c) => held[c].pid \notin reported]_vars
  <2> SUFFICES ASSUME IInv, NEW c \in Calls, ReportFinal(c)
               PROVE  held[c].pid \notin reported
    OBVIOUS
  <2>1. held[c] # None
    BY DEF IInv, TypeInv, HeldInv, ReportFinal
  <2>2. QED BY <2>1 DEF IInv, CollectInv, Followed
<1>2. MaxCalls = 1
  OBVIOUS
<1>3. IInv /\ [Next]_vars => IInv'
  BY IInvStep
<1>4. QED BY <1>1, <1>3, IInvInit, PTL DEF Spec, ReportedOnce

\* Progress lines of one scan never go back (_step_wait), whatever else writes
\* status.json, as long as calls do not overlap.
THEOREM ProgressGrows == ASSUME MaxCalls = 1 PROVE Spec => ProgressNeverBack
<1>1. IInv /\ [Next]_vars =>
        [\A p \in Pids : Followed(p) => printed'[p] >= printed[p]]_vars
  <2> SUFFICES ASSUME IInv, Next, NEW p \in Pids, Followed(p)
               PROVE  printed'[p] >= printed[p]
    OBVIOUS
  <2> USE DEF IInv, TypeInv, TypeOK
  <2>1. printed[p] >= printed[p]
    BY StepRunAssumption DEF Percents
  <2>2. ASSUME NEW c \in Calls, SavedStep(c) PROVE printed'[p] >= printed[p]
    <3>1. held[c] # None /\ held[c] \in Step
      BY <2>2 DEF HeldInv, SavedStep
    <3>2. printed' = [printed EXCEPT ![held[c].pid] = held[c].percent]
      BY <2>2 DEF SavedStep
    <3>3. CASE p = held[c].pid
      <4>1. printed'[p] = held[c].percent
        BY <3>2, <3>3
      <4>2. held[c].percent >= printed[p]
        BY <3>1, <3>3 DEF PercentInv
      <4>3. QED BY <4>1, <4>2
    <3>4. CASE p # held[c].pid
      <4>1. printed'[p] = printed[p]
        BY <3>2, <3>4
      <4>2. QED BY <2>1, <4>1
    <3>5. QED BY <3>3, <3>4
  <2>3. ASSUME NEW q \in Pids, NEW clear, Spawn(q, clear) PROVE printed'[p] >= printed[p]
    BY <2>1, <2>3 DEF Spawn, Fresh
  <2>4. CASE printed' = printed
    BY <2>1, <2>4
  <2>5. CASE Tick
    BY <2>1, <2>5 DEF Tick
  <2>6. \/ printed' = printed \/ Tick
        \/ \E c \in Calls : SavedStep(c)
        \/ (\E q \in Pids : Daily(q)) \/ \E c \in Calls : SpawnScan(c)
    <3> USE DEF history
    <3>1. ASSUME NEW q \in Pids, ScanStep(q) \/ Die(q) \/ Reap(q) PROVE printed' = printed
      BY <3>1 DEF ScanStep, StartScan, EmitProgress, StartUpload, PostAgain, FinishScan, Exit,
                  Die, Reap
    <3>2. ASSUME NEW c \in Calls, Begin(c) \/ Kill(c) \/ CallStep(c), ~ SavedStep(c), ~ SpawnScan(c)
          PROVE  printed' = printed
      BY <3>2 DEF Begin, Kill, CallStep, LoadStep, DropStep, Guard, UnlinkStatus, RecordStep,
                  Truncate, RecordedStep, Deadline, Progress, SaveStep, StepFinished, ClearStep,
                  WaitedFor, ReportFinal
    <3>3. QED BY <3>1, <3>2 DEF Next
  <2>7. QED BY <2>2, <2>3, <2>4, <2>5, <2>6 DEF Daily, SpawnScan
<1>2. IInv /\ [Next]_vars => IInv'
  BY IInvStep
<1>3. QED BY <1>1, <1>2, IInvInit, PTL DEF Spec, ProgressNeverBack

-----------------------------------------------------------------------------
(* A scan's own end.                                                         *)

\* status.json as the scan p alone has left it.
OwnStatus(p) ==
  IF p \in ended THEN status # None /\ status.by = p /\ status.phase \in Terminal
  ELSE status # None => status.phase \notin Terminal

\* No scan but p is at work, and p itself only while it has not written its end.
AtWork(p) == \A q \in Pids : Working(q) => q = p /\ p \notin ended

CrossInv ==
  /\ \A p \in Pids : (Followed(p) /\ p \notin crossed) => OwnStatus(p) /\ AtWork(p)
  /\ lone # {} => status = None /\ \A q \in Pids : ~ Working(q)

\* What a scan writes is the status of a scan that works.
LEMMA CrossScan ==
  ASSUME TypeInv, CrossInv, NEW p \in Pids, ScanStep(p) \/ Die(p) \/ Reap(p)
  PROVE  CrossInv'
<1> USE DEF TypeInv, TypeOK
<1>1. /\ \A q \in Pids : Followed(q)' <=> Followed(q)
      /\ crossed' = crossed /\ lone' = lone
  <2>1. UNCHANGED <<step, held, crossed, lone>>
    BY DEF ScanStep, StartScan, EmitProgress, StartUpload, PostAgain, FinishScan, Exit, Die, Reap, history
  <2>2. QED BY <2>1 DEF Followed
<1>2. ASSUME Working(p) PROVE lone = {} /\ \A q \in Pids : Followed(q) /\ q \notin crossed => q = p /\ p \notin ended
  BY <1>2 DEF CrossInv, AtWork
<1>3. \A q \in Pids : q # p => (Working(q)' <=> Working(q))
  BY DEF ScanStep, StartScan, EmitProgress, StartUpload, PostAgain, FinishScan, Exit, Die, Reap, Gone, Working
<1>4. CASE StartScan(p) \/ EmitProgress(p) \/ StartUpload(p)
  <2>1. Working(p) /\ Working(p)' /\ ended' = ended
    BY <1>4 DEF StartScan, EmitProgress, StartUpload, Working
  <2>2. status' # None => status'.phase \notin Terminal
    BY <1>4 DEF StartScan, EmitProgress, StartUpload, WriteStatus, Terminal
  <2>3. QED BY <1>1, <1>2, <1>3, <2>1, <2>2 DEF CrossInv, OwnStatus, AtWork
<1>5. CASE FinishScan(p)
  <2>1. Working(p) /\ ~ Working(p)' /\ ended' = ended \cup {p}
    BY <1>5 DEF FinishScan, Working
  <2>2. status' # None /\ status'.by = p /\ status'.phase \in Terminal
    <3>1. PICK phase \in Terminal : status' = [by |-> p, phase |-> phase, percent |-> 0]
      BY <1>5 DEF FinishScan
    <3>2. status' \in [by : Pids, phase : {"starting", "scanning", "uploading", "done", "error", "no_sessions"},
                       percent : 0 .. FullPercent]
      BY <3>1, StepRunAssumption DEF Terminal
    <3>3. QED BY <3>1, <3>2, StepRunAssumption
  <2>3. QED BY <1>1, <1>2, <1>3, <2>1, <2>2 DEF CrossInv, OwnStatus, AtWork
<1>6. CASE PostAgain(p) \/ Exit(p) \/ Die(p) \/ Reap(p)
  <2>1. status' = status /\ ended' = ended /\ (Working(p)' => Working(p))
    BY <1>6 DEF PostAgain, Exit, Die, Reap, Gone, Working, cache
  <2>2. QED BY <1>1, <1>3, <2>1 DEF CrossInv, OwnStatus, AtWork
<1>7. QED BY <1>4, <1>5, <1>6 DEF ScanStep

\* A scan that is started crosses every other that something speaks of.
LEMMA CrossSpawn ==
  ASSUME TypeInv, CrossInv, NEW p \in Pids, NEW clear \in BOOLEAN, Spawn(p, clear), status' = status,
         clear => lone # {}, \A q \in Pids \ {p} : Followed(q)' => Followed(q)
  PROVE  (Followed(p)' => p \in crossed') \/ clear => CrossInv'
<1> USE DEF TypeInv, TypeOK
<1>1. \A q \in Pids \ {p} : Followed(q)' => q \in crossed'
  BY DEF Spawn
<1>2. lone' = {} /\ p \notin ended'
  BY DEF Spawn
<1>3. ASSUME clear PROVE OwnStatus(p)' /\ AtWork(p)'
  <2>1. status = None /\ \A q \in Pids : ~ Working(q)
    BY <1>3 DEF CrossInv
  <2>2. \A q \in Pids : Working(q)' => q = p
    BY <2>1 DEF Spawn, Working
  <2>3. QED BY <1>2, <2>1, <2>2 DEF OwnStatus, AtWork
<1>4. QED BY <1>1, <1>2, <1>3 DEF CrossInv

LEMMA CrossCall ==
  ASSUME TypeInv, CrossInv, NEW c \in Calls, CallStep(c) \/ Begin(c) \/ Kill(c)
  PROVE  CrossInv'
<1> USE DEF TypeInv, TypeOK
<1>1. CASE SpawnScan(c)
  <2>1. PICK p \in Pids : Spawn(p, c \in lone) /\ Record(c, p, 0)
    BY <1>1 DEF SpawnScan
  <2>2. status' = status /\ step' = step
    BY <1>1 DEF SpawnScan, cache
  <2>3. \A q \in Pids \ {p} : Followed(q)' => Followed(q)
    BY <2>1, <2>2 DEF Record, Followed
  <2>4. c \notin lone => p \in crossed'
    BY <2>1 DEF Spawn
  <2>5. QED
    <3>1. CASE c \in lone
      BY <2>1, <2>2, <2>3, <3>1, CrossSpawn
    <3>2. CASE c \notin lone
      <4>1. (c \in lone) = FALSE
        BY <3>2
      <4>2. Spawn(p, FALSE)
        BY <2>1, <4>1
      <4>3. FALSE \in BOOLEAN /\ (FALSE => lone # {}) /\ p \in crossed'
        BY <2>4, <3>2
      <4>4. QED BY <2>2, <2>3, <4>2, <4>3, CrossSpawn
    <3>3. QED BY <3>1, <3>2
<1>2. CASE UnlinkStatus(c)
  <2>1. status' = None /\ \A q \in Pids : (Working(q)' <=> Working(q)) /\ (Followed(q)' => q \in crossed')
    BY <1>2 DEF UnlinkStatus, Cleared, Followed, Working, scans
  <2>2. lone' # {} => \A q \in Pids : ~ Working(q)
    BY <1>2 DEF UnlinkStatus, Cleared, CrossInv
  <2>3. QED BY <2>1, <2>2 DEF CrossInv
<1>3. ASSUME ~ SpawnScan(c), ~ UnlinkStatus(c) PROVE CrossInv'
  <2>1. UNCHANGED <<status, life, ended, crossed, lone>>
    BY <1>3 DEF CallStep, LoadStep, DropStep, Guard, RecordStep, Truncate, RecordedStep, Deadline, Progress,
                SaveStep, SavedStep, StepFinished, ClearStep, WaitedFor, ReportFinal, Begin, Kill,
                cache, scans, history
  <2>2. \A q \in Pids : Followed(q)' => Followed(q)
    <3> USE DEF HeldInv, Followed, Goto, EndCall, Record
    <3>1. CASE LoadStep(c) \/ DropStep(c) \/ Guard(c) \/ Begin(c)
      BY <3>1 DEF LoadStep, DropStep, Guard, Begin
    <3>2. CASE RecordStep(c) \/ SaveStep(c) \/ RecordedStep(c)
      BY <3>2 DEF RecordStep, Truncate, SaveStep, RecordedStep
    <3>3. CASE Progress(c)
      BY <3>3 DEF Progress
    <3>4. CASE SavedStep(c)
      BY <3>4 DEF SavedStep
    <3>5. CASE Deadline(c) \/ StepFinished(c) \/ ClearStep(c) \/ WaitedFor(c)
      BY <3>5 DEF Deadline, StepFinished, ClearStep, WaitedFor
    <3>6. CASE ReportFinal(c) \/ Kill(c)
      BY <3>6 DEF ReportFinal, Kill
    <3>7. QED BY <1>3, <3>1, <3>2, <3>3, <3>4, <3>5, <3>6 DEF CallStep
  <2>3. QED BY <2>1, <2>2 DEF CrossInv, OwnStatus, AtWork, Working
<1>4. QED BY <1>1, <1>2, <1>3

LEMMA CrossStep == TypeInv /\ CrossInv /\ [Next]_vars => CrossInv'
<1> SUFFICES ASSUME TypeInv, CrossInv, [Next]_vars PROVE CrossInv'
  OBVIOUS
<1>1. ASSUME NEW p \in Pids, Daily(p) PROVE CrossInv'
  <2>1. /\ Spawn(p, FALSE) /\ status' = status /\ ~ Followed(p)
        /\ \A q \in Pids : Followed(q)' <=> Followed(q)
    BY <1>1 DEF Daily, Spawn, Fresh, Followed, cache
  <2>2. QED BY <2>1, CrossSpawn
<1>2. CASE Tick
  <2>1. /\ UNCHANGED <<status, life, lone>> /\ \A q \in Pids : Followed(q)' <=> Followed(q)
        /\ \A q \in Pids : Followed(q) => (q \in crossed' <=> q \in crossed) /\ (q \in ended' <=> q \in ended)
    BY <1>2 DEF Tick, Followed, TypeInv, TypeOK
  <2>2. QED BY <2>1 DEF CrossInv, OwnStatus, AtWork, Working
<1>3. CASE UNCHANGED vars
  BY <1>3 DEF vars, cache, scans, history, CrossInv, OwnStatus, AtWork, Working, Followed
<1>4. QED BY <1>1, <1>2, <1>3, CrossScan, CrossCall DEF Next

\* What a call reports is what the scan it followed wrote last, whichever scans
\* died, fell silent, grew old or were started by whom: unless one of them was at
\* work beside it from the moment status.json was removed for it, or a later call
\* removed that file.
THEOREM OwnScanReported == Spec => []ReportsOwnScan
<1>1. Init => CrossInv
  BY DEF Init, CrossInv, Followed
<1>2. TypeInv /\ CrossInv => ReportsOwnScan
  <2> SUFFICES ASSUME TypeInv, CrossInv, NEW c \in Calls, pc[c] = "report", held[c].pid \notin crossed
               PROVE  OwnStatus(held[c].pid)
    BY DEF ReportsOwnScan, OwnStatus
  <2>1. held[c] # None /\ held[c] \in Step
    BY DEF TypeInv, HeldInv, TypeOK
  <2>2. held[c].pid \in Pids /\ Followed(held[c].pid)
    BY <2>1 DEF Step, Followed
  <2>3. QED BY <2>2 DEF CrossInv
<1>3. QED BY TypeInit, TypeStep, CrossStep, <1>1, <1>2, PTL DEF Spec
=============================================================================
