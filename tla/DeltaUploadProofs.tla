--------------------------- MODULE DeltaUploadProofs ---------------------------
(***************************************************************************)
(* What DeltaUpload keeps for every number of sessions, digests and scans, *)
(* however many of them run at once and whatever fails.                    *)
(***************************************************************************)
EXTENDS DeltaUpload, FiniteSetTheorems, TLAPS

-----------------------------------------------------------------------------
(* The inductive invariant.                                                 *)

\* What a body says of its scan's payload and of what was loaded: a session of
\* the payload is in it with the payload's digest; any other session in it is a
\* preserved one, with the digest the ledger had.
Faithful(p, skip, kn, b) ==
  \A h \in Sessions :
    /\ p[h] # << >> => Merged(b)[h] = Last(p[h])
    /\ p[h] = << >> => /\ b.full[h] = << >>
                       /\ b.refs[h] \in {None, kn.digests[h]}
                       /\ b.refs[h] # None => h \in Preserved(p, skip, kn)

BodyInv == \A s \in Scans :
  (s \in wire \/ pc[s] \in {"await", "open", "write"}) =>
     /\ payload[s] # NoPayload
     /\ Faithful(payload[s], skipped[s], known[s], body[s])

\* The files, and the ledger a scan is about to write, are accepted uploads.
FileInv ==
  /\ Nothing \in uploads
  /\ ledger.digests \in uploads
  /\ tmp # None => tmp.digests \in uploads
  /\ \A s \in Scans :
       (pc[s] \in {"open", "write"} \/ Answered(s, "ok")) => Merged(body[s]) \in uploads

\* Who has been accepted, by where the scan is.
AcceptedInv == \A s \in Scans :
  /\ s \in wire => s \notin accepted
  /\ s \in wire => pc[s] \in {"await", "ended"} /\ reply[s] = None
  /\ pc[s] \in {"idle", "ledger", "stubs"} => s \notin accepted
  /\ pc[s] \in {"open", "write", "replace", "unlink"} => s \in accepted
  /\ \A k \in {"unresolved", "invalid", "unauthorized"} :
       Answered(s, k) => s \notin accepted
  /\ Answered(s, "ok") => s \in accepted

\* Where the scan is, by its payload and outcome.
PhaseInv == \A s \in Scans :
  /\ outcome[s] = "running" <=> pc[s] # "ended"
  /\ pc[s] = "idle" => payload[s] = NoPayload
  /\ pc[s] \notin {"idle", "ended"} => payload[s] # NoPayload

\* The last resort carries no refs; before it, every known skipped session is
\* kept unless the service listed it.
LadderInv == \A s \in Scans :
  /\ (pc[s] = "await" /\ attempt[s] = "full") => ~ HasRefs(body[s])
  /\ pc[s] = "await" => Unpreservable(payload[s], skipped[s], known[s]) = {}
  /\ (s \in wire /\ attempt[s] # "full") =>
       \A h \in skipped[s] \ expand[s] :
         (payload[s][h] = << >> /\ known[s].digests[h] # None)
            => Merged(body[s])[h] = known[s].digests[h]

IInv == TypeOK /\ BodyInv /\ FileInv /\ AcceptedInv /\ PhaseInv /\ LadderInv /\ GivesUpOnlyInFull

-----------------------------------------------------------------------------
(* The helpers on payloads and bodies.                                      *)

\* The copies of one session: their number, the last one, and what comes before
\* a single one.
LEMMA CopiesFacts ==
  ASSUME NEW q \in BoundedSeq(Digests, MaxCopies)
  PROVE  /\ q \in Seq(Digests) /\ Len(q) \in Nat
         /\ q # << >> => Len(q) # 0 /\ Last(q) \in Digests
         /\ Len(q) = 1 => q # << >> /\ Front(q) = << >>
<1>1. PICK m \in 0..MaxCopies : q \in [1..m -> Digests]
  BY DEF BoundedSeq, SeqOf
<1>2. q \in Seq(Digests) /\ Len(q) = m
  BY <1>1, BoundsAssumption
<1>3. q # << >> => Len(q) # 0 /\ Last(q) \in Digests
  BY <1>1, <1>2, BoundsAssumption DEF Last
<1>4. Len(q) = 1 => q # << >> /\ Front(q) = << >>
  BY <1>2 DEF Front
<1>5. QED BY <1>2, <1>3, <1>4, BoundsAssumption

LEMMA EmptyCopies == << >> \in BoundedSeq(Digests, MaxCopies)
<1>1. << >> \in [1..0 -> Digests] OBVIOUS
<1>2. 0 \in 0..MaxCopies BY BoundsAssumption
<1>3. QED BY <1>1, <1>2 DEF BoundedSeq, SeqOf

\* build_body yields a well-formed body.
LEMMA BuildBodyType ==
  ASSUME NEW p \in Payloads, NEW kn \in [digests : Entries, chain : Entries],
         NEW exp \in SUBSET Sessions, NEW pres \in SUBSET Sessions
  PROVE  BuildBody(p, kn, exp, pres) \in Body
<1> DEFINE b == BuildBody(p, kn, exp, pres)
<1>1. \A h \in Sessions : p[h] \in BoundedSeq(Digests, MaxCopies)
  BY DEF Payloads
<1>2. \A h \in Sessions : GoesAsRef(p, kn.digests, exp, h) => Front(p[h]) = << >>
  BY <1>1, CopiesFacts DEF GoesAsRef
<1>3. b.full \in Payloads
  BY <1>1, <1>2, EmptyCopies DEF BuildBody, Payloads
<1>4. b.refs \in Entries
  BY DEF BuildBody, Entries
<1>5. b.chain \in Entries
  BY <1>1, CopiesFacts DEF BuildBody, Entries
<1>6. QED BY <1>3, <1>4, <1>5 DEF BuildBody, Body

LEMMA PreservedType ==
  ASSUME NEW p, NEW skip \in SUBSET Sessions, NEW kn
  PROVE  Preserved(p, skip, kn) \in SUBSET Sessions
BY DEF Preserved

LEMMA LoadedType ==
  ASSUME TypeOK, NEW s \in Scans
  PROVE  Loaded(s) \in [digests : Entries, chain : Entries]
BY DEF TypeOK, Loaded, File

\* The ledger to be written is well formed.
LEMMA NewLedgerType ==
  ASSUME NEW p \in Payloads, NEW skip, NEW kn \in [digests : Entries, chain : Entries], NEW b
  PROVE  NewLedger(p, skip, kn, b) \in File
<1>1. \A h \in Sessions : p[h] # << >> => Last(p[h]) \in Digests
  BY CopiesFacts DEF Payloads
<1>2. QED BY <1>1 DEF NewLedger, File, Entries

\* The merged list of a body is a list of entries.
LEMMA MergedType ==
  ASSUME NEW b \in Body
  PROVE  Merged(b) \in Entries
<1>1. \A h \in Sessions : b.full[h] # << >> => Last(b.full[h]) \in Digests
  BY CopiesFacts DEF Body, Payloads
<1>2. QED BY <1>1 DEF Merged, Body, Entries

LEMMA NothingTypes ==
  /\ Nothing \in Entries
  /\ NoPayload \in Payloads
  /\ NothingKnown \in [digests : Entries, chain : Entries]
  /\ NoBody \in Body
  /\ TornFile \in File
BY EmptyCopies DEF Nothing, NoPayload, NothingKnown, NoBody, TornFile, Entries, Payloads, Body, File

-----------------------------------------------------------------------------
(* Type correctness.                                                        *)

LEMMA TypeInit == Init => TypeOK
BY NothingTypes, BoundsAssumption DEF Init, TypeOK, File, Entries, Labels, Outcomes, Nothing

LEMMA TypeStep == TypeOK /\ [Next]_vars => TypeOK'
<1> USE DEF vars, files, local, server, bounds, Goto, Finish, Fault
<1> SUFFICES ASSUME TypeOK, [Next]_vars PROVE TypeOK'
  OBVIOUS
<1>1. ASSUME NEW s \in Scans, Extract(s) PROVE TypeOK'
  <2>1. PICK p \in Payloads, skip \in SUBSET Sessions :
          /\ payload' = [payload EXCEPT ![s] = p]
          /\ skipped' = [skipped EXCEPT ![s] = skip]
          /\ IF p = NoPayload THEN Finish(s, "no_sessions")
                              ELSE Goto(s, "ledger") /\ UNCHANGED outcome
    BY <1>1 DEF Extract
  <2>2. QED BY <1>1, <2>1 DEF TypeOK, Extract, Labels, Outcomes
<1>2. ASSUME NEW s \in Scans, LoadLedger(s) PROVE TypeOK'
  <2>1. known' \in [Scans -> [digests : Entries, chain : Entries]]
    BY <1>2 DEF TypeOK, LoadLedger, File
  <2>2. QED BY <1>2, <2>1 DEF TypeOK, LoadLedger, Labels
<1>3. ASSUME NEW s \in Scans, SkipUpload(s) PROVE TypeOK'
  BY <1>3, LoadedType, BuildBodyType, PreservedType, NewLedgerType, MergedType, NothingTypes,
     BoundsAssumption
     DEF TypeOK, SkipUpload, Labels, Outcomes
<1>4. ASSUME NEW s \in Scans, PostDelta(s) PROVE TypeOK'
  <2>1. BuildBody(payload[s], Loaded(s), {},
                  Preserved(payload[s], skipped[s], Loaded(s))) \in Body
    BY BuildBodyType, PreservedType, LoadedType DEF TypeOK
  <2>2. QED BY <1>4, <2>1, LoadedType DEF TypeOK, PostDelta, Post, Labels
<1>5. ASSUME NEW s \in Scans, RetryExpanded(s) PROVE TypeOK'
  <2>1. reply[s].hashes \in SUBSET Sessions
    BY <1>5 DEF TypeOK, RetryExpanded, Answered, Reply
  <2>2. BuildBody(payload[s], known[s], reply[s].hashes,
                  Preserved(payload[s], skipped[s], known[s])) \in Body
    BY <2>1, BuildBodyType, PreservedType DEF TypeOK
  <2>3. QED BY <1>5, <2>1, <2>2 DEF TypeOK, RetryExpanded, Post, Labels
<1>6. ASSUME NEW s \in Scans, RetryFull(s) PROVE TypeOK'
  <2>1. BuildBody(payload[s], NothingKnown, {}, {}) \in Body
    BY BuildBodyType, PreservedType, NothingTypes DEF TypeOK
  <2>2. QED BY <1>6, <2>1, LoadedType DEF TypeOK, RetryFull, Post, Labels
<1>7. ASSUME NEW s \in Scans, GiveUp(s) PROVE TypeOK'
  BY <1>7, LoadedType, BuildBodyType, PreservedType, NewLedgerType, MergedType, NothingTypes,
     BoundsAssumption
     DEF TypeOK, GiveUp, Labels, Outcomes
<1>8. ASSUME NEW s \in Scans, Reauthenticate(s) PROVE TypeOK'
  BY <1>8, LoadedType, BuildBodyType, PreservedType, NewLedgerType, MergedType, NothingTypes,
     BoundsAssumption
     DEF TypeOK, Reauthenticate, Labels, Outcomes
<1>9. ASSUME NEW s \in Scans, TokenRejected(s) PROVE TypeOK'
  BY <1>9, LoadedType, BuildBodyType, PreservedType, NewLedgerType, MergedType, NothingTypes,
     BoundsAssumption
     DEF TypeOK, TokenRejected, Labels, Outcomes
<1>10. ASSUME NEW s \in Scans, Accepted(s) PROVE TypeOK'
  BY <1>10, LoadedType, BuildBodyType, PreservedType, NewLedgerType, MergedType, NothingTypes,
     BoundsAssumption
     DEF TypeOK, Accepted, Labels, Outcomes
<1>11. ASSUME NEW s \in Scans, OpenTmp(s) PROVE TypeOK'
  BY <1>11, LoadedType, BuildBodyType, PreservedType, NewLedgerType, MergedType, NothingTypes,
     BoundsAssumption
     DEF TypeOK, OpenTmp, Crowd, Saving, Labels, Outcomes
<1>12. ASSUME NEW s \in Scans, WriteTmp(s) PROVE TypeOK'
  <2> DEFINE new == NewLedger(payload[s], skipped[s], known[s], body[s])
  <2>1. new \in File
    BY NewLedgerType DEF TypeOK
  <2>2. \A old : Written(old, new) \subseteq File
    BY <2>1, NothingTypes DEF Written
  <2> HIDE DEF new
  <2>3. ledger' \in File /\ tmp' \in File \cup {None}
    BY <1>12, <2>2 DEF TypeOK, WriteTmp, new
  <2>4. QED BY <1>12, <2>3 DEF TypeOK, WriteTmp, Labels
<1>13. ASSUME NEW s \in Scans, Replace(s) PROVE TypeOK'
  BY <1>13, LoadedType, BuildBodyType, PreservedType, NewLedgerType, MergedType, NothingTypes,
     BoundsAssumption
     DEF TypeOK, Replace, Labels, Outcomes
<1>14. ASSUME NEW s \in Scans, SaveFails(s) PROVE TypeOK'
  BY <1>14, LoadedType, BuildBodyType, PreservedType, NewLedgerType, MergedType, NothingTypes,
     BoundsAssumption
     DEF TypeOK, SaveFails, Crowd, Saving, Labels, Outcomes
<1>15. ASSUME NEW s \in Scans, Unlink(s) PROVE TypeOK'
  BY <1>15, LoadedType, BuildBodyType, PreservedType, NewLedgerType, MergedType, NothingTypes,
     BoundsAssumption
     DEF TypeOK, Unlink, Labels, Outcomes
<1>16. ASSUME NEW s \in Scans, ServeUnresolved(s) PROVE TypeOK'
  <2>1. wire' \in SUBSET Scans /\ reply' \in [Scans -> Reply \cup {None}]
    BY <1>16 DEF TypeOK, ServeUnresolved, Reject, Answer, Answers, Reply, Unresolved
  <2>2. QED BY <1>16, <2>1, BoundsAssumption DEF TypeOK, ServeUnresolved
<1>17. ASSUME NEW s \in Scans, ServeInvalid(s) PROVE TypeOK'
  <2>1. wire' \in SUBSET Scans /\ reply' \in [Scans -> Reply \cup {None}]
    BY <1>17 DEF TypeOK, ServeInvalid, Reject, Answer, Answers, Reply
  <2>2. QED BY <1>17, <2>1, BoundsAssumption DEF TypeOK, ServeInvalid
<1>18. ASSUME NEW s \in Scans, ServeRefused(s) PROVE TypeOK'
  <2>1. wire' \in SUBSET Scans /\ reply' \in [Scans -> Reply \cup {None}]
    BY <1>18 DEF TypeOK, ServeRefused, Reject, Answer, Answers, Reply
  <2>2. QED BY <1>18, <2>1, BoundsAssumption DEF TypeOK, ServeRefused
<1>19. ASSUME NEW s \in Scans, ServeAccept(s) PROVE TypeOK'
  <2>1. wire' \in SUBSET Scans /\ reply' \in [Scans -> Reply \cup {None}]
    BY <1>19 DEF TypeOK, ServeAccept, Reject, Answer, Answers, Reply
  <2>2. Merged(body[s]) \in Entries
    BY MergedType DEF TypeOK
  <2>3. stored' \in Entries /\ outdated' \in SUBSET Sessions /\ unfit' \in SUBSET Sessions
    BY <1>19, <2>2 DEF TypeOK, ServeAccept, Entries
  <2>4. scored' \in Entries /\ uploads' \in SUBSET Entries /\ accepted' \in SUBSET Scans
    BY <1>19, <2>2 DEF TypeOK, ServeAccept
  <2>5. faults' \in 0..MaxFaults
    BY <1>19, BoundsAssumption DEF TypeOK, ServeAccept
  <2>6. QED BY <1>19, <2>1, <2>3, <2>4, <2>5 DEF TypeOK, ServeAccept
<1>20. ASSUME NEW s \in Scans, NetworkError(s) PROVE TypeOK'
  BY <1>20, LoadedType, BuildBodyType, PreservedType, NewLedgerType, MergedType, NothingTypes,
     BoundsAssumption
     DEF TypeOK, NetworkError, Labels, Outcomes
<1>21. ASSUME NEW s \in Scans, Crash(s) PROVE TypeOK'
  BY <1>21, LoadedType, BuildBodyType, PreservedType, NewLedgerType, MergedType, NothingTypes,
     BoundsAssumption
     DEF TypeOK, Crash, Labels, Outcomes
<1>22. ASSUME Revise PROVE TypeOK'
  BY <1>22, BoundsAssumption DEF TypeOK, Revise
<1>23. CASE UNCHANGED vars
  BY <1>23 DEF TypeOK
<1>24. QED
  BY <1>1, <1>2, <1>3, <1>4, <1>5, <1>6, <1>7, <1>8, <1>9, <1>10, <1>11, <1>12, <1>13, <1>14, <1>15, <1>16, <1>17, <1>18, <1>19, <1>20, <1>21, <1>22, <1>23 DEF Next, Send, Save, Serve

\* Every value the program, the files and the service take is of its kind.
THEOREM TypeCorrect == Spec => []TypeOK
BY TypeInit, TypeStep, PTL DEF Spec

-----------------------------------------------------------------------------
(* What the bodies of _send say.                                            *)

\* A body with refs: faithful to the payload, and keeping every skipped session
\* the ledger knows unless it is to be expanded.
LEMMA DeltaBody ==
  ASSUME NEW p \in Payloads, NEW skip \in SUBSET Sessions,
         NEW kn \in [digests : Entries, chain : Entries], NEW exp \in SUBSET Sessions,
         NEW b, b = BuildBody(p, kn, exp, Preserved(p, skip, kn))
  PROVE  /\ Faithful(p, skip, kn, b)
         /\ Unpreservable(p, skip, kn) = {} =>
              \A h \in skip \ exp : (p[h] = << >> /\ kn.digests[h] # None)
                                      => Merged(b)[h] = kn.digests[h]
<1> DEFINE pres == Preserved(p, skip, kn)
<1>1. \A h \in Sessions : /\ p[h] = << >> => ~ GoesAsRef(p, kn.digests, exp, h)
                          /\ GoesAsRef(p, kn.digests, exp, h) =>
                               Front(p[h]) = << >> /\ kn.digests[h] = Last(p[h])
  BY CopiesFacts DEF Payloads, GoesAsRef
<1>2. \A h \in Sessions : p[h] # << >> => Merged(b)[h] = Last(p[h])
  BY <1>1 DEF Merged, BuildBody
<1>3. \A h \in Sessions : p[h] = << >> =>
        /\ b.full[h] = << >>
        /\ b.refs[h] = IF h \in pres \ exp THEN kn.digests[h] ELSE None
  BY <1>1 DEF BuildBody
<1>4. Faithful(p, skip, kn, b)
  BY <1>2, <1>3 DEF Faithful
<1>5. ASSUME Unpreservable(p, skip, kn) = {}, NEW h \in skip \ exp,
             p[h] = << >>, kn.digests[h] # None
      PROVE  Merged(b)[h] = kn.digests[h]
  <2>1. h \in pres
    BY <1>5 DEF Unpreservable, Preserved
  <2>2. QED BY <1>3, <1>5, <2>1 DEF Merged
<1>6. QED BY <1>4, <1>5

\* The body PostDelta posts is one of these.
LEMMA PostDeltaBody ==
  ASSUME TypeOK, NEW s \in Scans, PostDelta(s)
  PROVE  /\ Faithful(payload[s], skipped[s], Loaded(s), body'[s])
         /\ \A h \in skipped[s] \ {} : (payload[s][h] = << >> /\ Loaded(s).digests[h] # None)
                                         => Merged(body'[s])[h] = Loaded(s).digests[h]
<1>1. /\ payload[s] \in Payloads /\ skipped[s] \in SUBSET Sessions
      /\ Loaded(s) \in [digests : Entries, chain : Entries]
  BY LoadedType DEF TypeOK
<1>2. /\ Unpreservable(payload[s], skipped[s], Loaded(s)) = {}
      /\ body'[s] = BuildBody(payload[s], Loaded(s), {},
                              Preserved(payload[s], skipped[s], Loaded(s)))
  BY DEF TypeOK, PostDelta, Post
<1>3. Faithful(payload[s], skipped[s], Loaded(s), body'[s])
  BY <1>1, <1>2, DeltaBody
<1>4. ASSUME NEW h \in skipped[s] \ {}, payload[s][h] = << >>, Loaded(s).digests[h] # None
      PROVE  Merged(body'[s])[h] = Loaded(s).digests[h]
  BY <1>1, <1>2, <1>4, DeltaBody
<1>5. QED BY <1>3, <1>4

\* The last resort: faithful, and without refs.
LEMMA FullBody ==
  ASSUME NEW p \in Payloads, NEW skip, NEW kn,
         NEW b, b = BuildBody(p, NothingKnown, {}, {})
  PROVE  Faithful(p, skip, kn, b) /\ ~ HasRefs(b)
<1>1. \A h \in Sessions : ~ GoesAsRef(p, NothingKnown.digests, {}, h)
  BY CopiesFacts, NoneAssumption DEF Payloads, GoesAsRef, NothingKnown, Nothing
<1>2. \A h \in Sessions : b.full[h] = p[h] /\ b.refs[h] = None
  BY <1>1 DEF BuildBody
<1>3. QED BY <1>2 DEF Faithful, HasRefs, Merged

\* The ledger _send writes after an accepted body is the list that was scored.
LEMMA LedgerOfBody ==
  ASSUME NEW p \in Payloads, NEW skip, NEW kn \in [digests : Entries, chain : Entries],
         NEW b \in Body, Faithful(p, skip, kn, b)
  PROVE  NewLedger(p, skip, kn, b).digests = Merged(b)
<1>1. Merged(b) = [h \in Sessions |-> Merged(b)[h]]
  BY DEF Merged
<1>2. \A h \in Sessions :
        Merged(b)[h] = IF p[h] # << >> THEN Last(p[h])
                       ELSE IF h \in {g \in Preserved(p, skip, kn) : b.refs[g] # None}
                              THEN kn.digests[h] ELSE None
  BY DEF Faithful, Merged
<1>3. QED BY <1>1, <1>2 DEF NewLedger

-----------------------------------------------------------------------------
(* The inductive invariant is one.                                          *)

LEMMA InitIInv == Init => IInv
<1> SUFFICES ASSUME Init PROVE IInv
  OBVIOUS
<1>1. TypeOK
  BY TypeInit
<1>2. BodyInv /\ FileInv /\ AcceptedInv /\ PhaseInv /\ LadderInv /\ GivesUpOnlyInFull
  BY <1>1 DEF Init, BodyInv, FileInv, AcceptedInv, PhaseInv, LadderInv, GivesUpOnlyInFull, Answered
<1>3. QED BY <1>1, <1>2 DEF IInv

LEMMA BodyStep ==
  ASSUME IInv, [Next]_vars
  PROVE  BodyInv'
<1> USE DEF vars, files, local, server, bounds, Goto, Finish
<1> TypeOK /\ BodyInv /\ AcceptedInv /\ PhaseInv
  BY DEF IInv
<1>1. ASSUME NEW s \in Scans, Extract(s) \/ LoadLedger(s) \/ SkipUpload(s) PROVE BodyInv'
  BY <1>1 DEF TypeOK, BodyInv, AcceptedInv, Extract, LoadLedger, SkipUpload
<1>2. ASSUME NEW s \in Scans, PostDelta(s) PROVE BodyInv'
  <2>1. Faithful(payload[s], skipped[s], Loaded(s), body'[s])
    BY <1>2, PostDeltaBody DEF IInv
  <2>2. QED BY <1>2, <2>1 DEF TypeOK, BodyInv, PhaseInv, PostDelta, Post
<1>3. ASSUME NEW s \in Scans, RetryExpanded(s) PROVE BodyInv'
  <2>1. reply[s].hashes \in SUBSET Sessions
    BY <1>3 DEF TypeOK, RetryExpanded, Answered, Reply
  <2>2. Faithful(payload[s], skipped[s], known[s], body'[s])
    BY <1>3, <2>1, DeltaBody DEF TypeOK, RetryExpanded, Post
  <2>3. QED BY <1>3, <2>2 DEF TypeOK, BodyInv, RetryExpanded, Post, Answered
<1>4. ASSUME NEW s \in Scans, RetryFull(s) PROVE BodyInv'
  <2>1. Faithful(payload[s], skipped[s], known[s], body'[s])
    BY <1>4, FullBody DEF TypeOK, RetryFull, Post
  <2>2. QED BY <1>4, <2>1 DEF TypeOK, BodyInv, RetryFull, Post, Answered
<1>5. ASSUME NEW s \in Scans,
             GiveUp(s) \/ Reauthenticate(s) \/ TokenRejected(s) \/ Accepted(s)
      PROVE BodyInv'
  BY <1>5 DEF TypeOK, BodyInv, GiveUp, Reauthenticate, TokenRejected, Accepted, Answered
<1>6. ASSUME NEW s \in Scans, Save(s) PROVE BodyInv'
  BY <1>6 DEF TypeOK, BodyInv, Save, OpenTmp, WriteTmp, Replace, SaveFails, Unlink
<1>7. ASSUME NEW s \in Scans, Serve(s) PROVE BodyInv'
  BY <1>7 DEF TypeOK, BodyInv, Serve, ServeUnresolved, ServeInvalid, ServeRefused,
              ServeAccept, Reject
<1>8. ASSUME NEW s \in Scans, NetworkError(s) \/ Crash(s) PROVE BodyInv'
  BY <1>8 DEF TypeOK, BodyInv, NetworkError, Crash
<1>9. CASE Revise \/ UNCHANGED vars
  BY <1>9 DEF BodyInv, Revise
<1>10. QED
  BY <1>1, <1>2, <1>3, <1>4, <1>5, <1>6, <1>7, <1>8, <1>9 DEF Next, Send

LEMMA AcceptedStep ==
  ASSUME IInv, [Next]_vars
  PROVE  AcceptedInv'
<1> USE DEF vars, files, local, server, bounds, Goto, Finish
<1> TypeOK /\ AcceptedInv
  BY DEF IInv
<1>1. ASSUME NEW s \in Scans, Extract(s) \/ LoadLedger(s) \/ SkipUpload(s) PROVE AcceptedInv'
  BY <1>1 DEF TypeOK, AcceptedInv, Answered, Extract, LoadLedger, SkipUpload
<1>2. ASSUME NEW s \in Scans, PostDelta(s) \/ RetryExpanded(s) \/ RetryFull(s)
      PROVE AcceptedInv'
  BY <1>2 DEF TypeOK, AcceptedInv, Answered, PostDelta, RetryExpanded, RetryFull, Post
<1>3. ASSUME NEW s \in Scans,
             GiveUp(s) \/ Reauthenticate(s) \/ TokenRejected(s) \/ Accepted(s)
      PROVE AcceptedInv'
  BY <1>3 DEF TypeOK, AcceptedInv, Answered, GiveUp, Reauthenticate, TokenRejected, Accepted
<1>4. ASSUME NEW s \in Scans, Save(s) PROVE AcceptedInv'
  BY <1>4 DEF TypeOK, AcceptedInv, Answered, Save, OpenTmp, WriteTmp, Replace, SaveFails, Unlink
<1>5. ASSUME NEW s \in Scans, ServeUnresolved(s) \/ ServeInvalid(s) \/ ServeRefused(s)
      PROVE AcceptedInv'
  BY <1>5 DEF TypeOK, AcceptedInv, Answered, ServeUnresolved, ServeInvalid, ServeRefused,
              Reject, Answer
<1>6. ASSUME NEW s \in Scans, ServeAccept(s) PROVE AcceptedInv'
  BY <1>6 DEF TypeOK, AcceptedInv, Answered, ServeAccept, Reject, Answer
<1>7. ASSUME NEW s \in Scans, NetworkError(s) \/ Crash(s) PROVE AcceptedInv'
  BY <1>7 DEF TypeOK, AcceptedInv, Answered, NetworkError, Crash
<1>8. CASE Revise \/ UNCHANGED vars
  BY <1>8 DEF AcceptedInv, Answered, Revise
<1>9. QED
  BY <1>1, <1>2, <1>3, <1>4, <1>5, <1>6, <1>7, <1>8 DEF Next, Send, Serve

LEMMA FileStep ==
  ASSUME IInv, [Next]_vars
  PROVE  FileInv'
<1> USE DEF vars, files, local, server, bounds, Goto, Finish
<1> TypeOK /\ BodyInv /\ FileInv /\ AcceptedInv
  BY DEF IInv
<1>1. ASSUME NEW s \in Scans, Extract(s) \/ LoadLedger(s) \/ SkipUpload(s) PROVE FileInv'
  BY <1>1 DEF TypeOK, FileInv, Answered, Extract, LoadLedger, SkipUpload
<1>2. ASSUME NEW s \in Scans, PostDelta(s) \/ RetryExpanded(s) \/ RetryFull(s)
      PROVE FileInv'
  BY <1>2 DEF TypeOK, FileInv, Answered, PostDelta, RetryExpanded, RetryFull, Post
<1>3. ASSUME NEW s \in Scans, GiveUp(s) \/ TokenRejected(s) \/ Reauthenticate(s)
      PROVE FileInv'
  BY <1>3 DEF TypeOK, FileInv, Answered, GiveUp, TokenRejected, Reauthenticate
<1>4. ASSUME NEW s \in Scans, Accepted(s) PROVE FileInv'
  BY <1>4 DEF TypeOK, FileInv, Answered, Accepted
<1>5. ASSUME NEW s \in Scans, OpenTmp(s) PROVE FileInv'
  BY <1>5 DEF TypeOK, FileInv, Answered, OpenTmp, TornFile
<1>6. ASSUME NEW s \in Scans, WriteTmp(s) PROVE FileInv'
  <2> DEFINE new == NewLedger(payload[s], skipped[s], known[s], body[s])
  <2>1. new.digests \in uploads
    BY <1>6, LedgerOfBody DEF TypeOK, BodyInv, FileInv, WriteTmp
  <2>2. TornFile.digests \in uploads
    BY DEF FileInv, TornFile
  <2>3. \A old : \A f \in Written(old, new) : f.digests \in uploads
    BY <2>1, <2>2 DEF Written
  <2> HIDE DEF new
  <2>4. ledger'.digests \in uploads /\ (tmp' # None => tmp'.digests \in uploads)
    BY <1>6, <2>3 DEF FileInv, WriteTmp, new
  <2>5. QED BY <1>6, <2>4 DEF TypeOK, FileInv, Answered, WriteTmp
<1>7. ASSUME NEW s \in Scans, Replace(s) PROVE FileInv'
  BY <1>7 DEF TypeOK, FileInv, Answered, Replace
<1>8. ASSUME NEW s \in Scans, SaveFails(s) \/ Unlink(s) PROVE FileInv'
  BY <1>8 DEF TypeOK, FileInv, Answered, SaveFails, Unlink
<1>9. ASSUME NEW s \in Scans, ServeUnresolved(s) \/ ServeInvalid(s) \/ ServeRefused(s)
      PROVE FileInv'
  BY <1>9 DEF TypeOK, FileInv, Answered, ServeUnresolved, ServeInvalid, ServeRefused,
              Reject, Answer
<1>10. ASSUME NEW s \in Scans, ServeAccept(s) PROVE FileInv'
  BY <1>10 DEF TypeOK, FileInv, Answered, ServeAccept, Reject, Answer
<1>11. ASSUME NEW s \in Scans, NetworkError(s) \/ Crash(s) PROVE FileInv'
  BY <1>11 DEF TypeOK, FileInv, Answered, NetworkError, Crash
<1>12. CASE Revise \/ UNCHANGED vars
  BY <1>12 DEF FileInv, Answered, Revise
<1>13. QED
  BY <1>1, <1>2, <1>3, <1>4, <1>5, <1>6, <1>7, <1>8, <1>9, <1>10, <1>11, <1>12
     DEF Next, Send, Save, Serve

LEMMA PhaseStep ==
  ASSUME IInv, [Next]_vars
  PROVE  PhaseInv'
<1> USE DEF vars, files, local, server, bounds, Goto, Finish
<1> TypeOK /\ PhaseInv
  BY DEF IInv
<1>1. ASSUME NEW s \in Scans, Extract(s) PROVE PhaseInv'
  <2>1. PICK p \in Payloads :
          /\ payload' = [payload EXCEPT ![s] = p]
          /\ IF p = NoPayload THEN Finish(s, "no_sessions")
                              ELSE Goto(s, "ledger") /\ UNCHANGED outcome
    BY <1>1 DEF Extract
  <2>2. QED BY <1>1, <2>1 DEF TypeOK, PhaseInv, Extract
<1>2. ASSUME NEW s \in Scans, Send(s) PROVE PhaseInv'
  BY <1>2 DEF TypeOK, PhaseInv, Send, LoadLedger, SkipUpload, PostDelta, RetryExpanded,
              RetryFull, GiveUp, Reauthenticate, TokenRejected, Accepted, Post, Answered
<1>3. ASSUME NEW s \in Scans, Save(s) PROVE PhaseInv'
  BY <1>3 DEF TypeOK, PhaseInv, Save, OpenTmp, WriteTmp, Replace, SaveFails, Unlink
<1>4. ASSUME NEW s \in Scans, Serve(s) PROVE PhaseInv'
  BY <1>4 DEF PhaseInv, Serve, ServeUnresolved, ServeInvalid, ServeRefused, ServeAccept
<1>5. ASSUME NEW s \in Scans, NetworkError(s) \/ Crash(s) PROVE PhaseInv'
  BY <1>5 DEF TypeOK, PhaseInv, NetworkError, Crash, Running
<1>6. CASE Revise \/ UNCHANGED vars
  BY <1>6 DEF PhaseInv, Revise
<1>7. QED BY <1>1, <1>2, <1>3, <1>4, <1>5, <1>6 DEF Next

LEMMA LadderStep ==
  ASSUME IInv, [Next]_vars
  PROVE  LadderInv'
<1> USE DEF vars, files, local, server, bounds, Goto, Finish
<1> TypeOK /\ AcceptedInv /\ LadderInv
  BY DEF IInv
<1>1. ASSUME NEW s \in Scans, Extract(s) \/ LoadLedger(s) \/ SkipUpload(s) PROVE LadderInv'
  <2>1. s \notin wire /\ pc'[s] # "await"
    BY <1>1 DEF TypeOK, AcceptedInv, Extract, LoadLedger, SkipUpload
  <2>2. wire' = wire /\ body' = body /\ attempt' = attempt /\ expand' = expand
    BY <1>1 DEF Extract, LoadLedger, SkipUpload
  <2>3. ASSUME NEW t \in Scans, t # s
        PROVE  /\ pc'[t] = pc[t] /\ payload'[t] = payload[t] /\ skipped'[t] = skipped[t]
               /\ known'[t] = known[t]
    <3>1. CASE Extract(s)      BY <2>3, <3>1 DEF TypeOK, Extract
    <3>2. CASE LoadLedger(s)   BY <2>3, <3>2 DEF TypeOK, LoadLedger
    <3>3. CASE SkipUpload(s)   BY <2>3, <3>3 DEF TypeOK, SkipUpload
    <3>4. QED BY <1>1, <3>1, <3>2, <3>3
  <2>4. QED BY <2>1, <2>2, <2>3 DEF LadderInv, HasRefs
<1>2. ASSUME NEW s \in Scans, PostDelta(s) PROVE LadderInv'
  <2>1. \A h \in skipped[s] \ {} : (payload[s][h] = << >> /\ Loaded(s).digests[h] # None)
                                     => Merged(body'[s])[h] = Loaded(s).digests[h]
    BY <1>2, PostDeltaBody DEF IInv
  <2>2. QED BY <1>2, <2>1 DEF TypeOK, LadderInv, PostDelta, Post
<1>3. ASSUME NEW s \in Scans, RetryExpanded(s) PROVE LadderInv'
  <2>1. reply[s].hashes \in SUBSET Sessions
    BY <1>3 DEF TypeOK, RetryExpanded, Answered, Reply
  <2>2. Unpreservable(payload[s], skipped[s], known[s]) = {}
    BY <1>3 DEF LadderInv, RetryExpanded, Answered
  <2>3. \A h \in skipped[s] \ reply[s].hashes :
          (payload[s][h] = << >> /\ known[s].digests[h] # None)
             => Merged(body'[s])[h] = known[s].digests[h]
    BY <1>3, <2>1, <2>2, DeltaBody DEF TypeOK, RetryExpanded, Post
  <2>4. QED BY <1>3, <2>2, <2>3 DEF TypeOK, LadderInv, RetryExpanded, Post
<1>4. ASSUME NEW s \in Scans, RetryFull(s) PROVE LadderInv'
  <2>1. \A h \in Sessions : body'[s].refs[h] = None
    BY <1>4, FullBody DEF TypeOK, RetryFull, Post, HasRefs
  <2>2. Unpreservable(payload[s], skipped[s], known[s]) = {}
    BY <1>4 DEF LadderInv, RetryFull, Answered
  <2>3. QED BY <1>4, <2>1, <2>2 DEF TypeOK, LadderInv, RetryFull, Post, HasRefs
<1>5. ASSUME NEW s \in Scans,
             GiveUp(s) \/ Reauthenticate(s) \/ TokenRejected(s) \/ Accepted(s)
      PROVE LadderInv'
  BY <1>5 DEF TypeOK, LadderInv, GiveUp, Reauthenticate, TokenRejected, Accepted, HasRefs
<1>6. ASSUME NEW s \in Scans, Save(s) PROVE LadderInv'
  BY <1>6 DEF TypeOK, LadderInv, Save, OpenTmp, WriteTmp, Replace, SaveFails, Unlink, HasRefs
<1>7. ASSUME NEW s \in Scans, Serve(s) PROVE LadderInv'
  BY <1>7 DEF TypeOK, LadderInv, Serve, ServeUnresolved, ServeInvalid, ServeRefused,
              ServeAccept, Reject, HasRefs
<1>8. ASSUME NEW s \in Scans, NetworkError(s) \/ Crash(s) PROVE LadderInv'
  BY <1>8 DEF TypeOK, LadderInv, NetworkError, Crash, HasRefs
<1>9. CASE Revise \/ UNCHANGED vars
  BY <1>9 DEF LadderInv, Revise, HasRefs
<1>10. QED
  BY <1>1, <1>2, <1>3, <1>4, <1>5, <1>6, <1>7, <1>8, <1>9 DEF Next, Send

LEMMA GivesUpStep ==
  ASSUME IInv, [Next]_vars
  PROVE  GivesUpOnlyInFull'
<1> USE DEF vars, files, local, server, bounds, Goto, Finish
<1> TypeOK /\ PhaseInv /\ LadderInv /\ GivesUpOnlyInFull
  BY DEF IInv
<1>1. ASSUME NEW s \in Scans, Extract(s) PROVE GivesUpOnlyInFull'
  <2>1. body' = body /\ reply' = reply /\ \A t \in Scans : outcome'[t] # "http" \/ outcome'[t] = outcome[t]
    BY <1>1 DEF TypeOK, Extract
  <2>2. QED BY <2>1 DEF GivesUpOnlyInFull, HasRefs
<1>2. ASSUME NEW s \in Scans, GiveUp(s) PROVE GivesUpOnlyInFull'
  BY <1>2 DEF TypeOK, GivesUpOnlyInFull, LadderInv, GiveUp, Answered, HasRefs
<1>3. ASSUME NEW s \in Scans,
             LoadLedger(s) \/ SkipUpload(s) \/ PostDelta(s) \/ RetryExpanded(s) \/ RetryFull(s)
               \/ Reauthenticate(s) \/ TokenRejected(s) \/ Accepted(s)
      PROVE GivesUpOnlyInFull'
  BY <1>3 DEF TypeOK, PhaseInv, GivesUpOnlyInFull, LoadLedger, SkipUpload, PostDelta,
              RetryExpanded, RetryFull, Reauthenticate, TokenRejected, Accepted, Post,
              Answered, HasRefs
<1>4. ASSUME NEW s \in Scans, Save(s) PROVE GivesUpOnlyInFull'
  BY <1>4 DEF TypeOK, GivesUpOnlyInFull, Save, OpenTmp, WriteTmp, Replace, SaveFails,
              Unlink, HasRefs
<1>5. ASSUME NEW s \in Scans, Serve(s) PROVE GivesUpOnlyInFull'
  BY <1>5 DEF TypeOK, PhaseInv, GivesUpOnlyInFull, Serve, ServeUnresolved, ServeInvalid,
              ServeRefused, ServeAccept, Reject, HasRefs
<1>6. ASSUME NEW s \in Scans, NetworkError(s) \/ Crash(s) PROVE GivesUpOnlyInFull'
  BY <1>6 DEF TypeOK, GivesUpOnlyInFull, NetworkError, Crash, HasRefs
<1>7. CASE Revise \/ UNCHANGED vars
  BY <1>7 DEF GivesUpOnlyInFull, Revise, HasRefs
<1>8. QED
  BY <1>1, <1>2, <1>3, <1>4, <1>5, <1>6, <1>7 DEF Next, Send

LEMMA IInvInductive == IInv /\ [Next]_vars => IInv'
<1> SUFFICES ASSUME IInv, [Next]_vars PROVE IInv'
  OBVIOUS
<1>1. TypeOK'
  BY TypeStep DEF IInv
<1>2. QED BY <1>1, BodyStep, FileStep, AcceptedStep, PhaseStep, LadderStep, GivesUpStep DEF IInv

-----------------------------------------------------------------------------
(* The safety theorems.                                                     *)

\* Only an accepted upload updates the ledger, and as a whole (scan.py _send,
\* delta_upload.py save_ledger): however many scans share the file and its one
\* tmp name, what it loads as is one merged list the service scored, or nothing.
THEOREM LedgerAlwaysOneUpload == Spec => []LedgerIsOneUpload
<1>1. IInv => LedgerIsOneUpload
  BY DEF IInv, FileInv, LedgerIsOneUpload
<1>2. QED BY <1>1, InitIInv, IInvInductive, PTL DEF Spec

\* The retry ladder of _send never stops short of the full payload on a 409 or
\* a 422.
THEOREM NeverGivesUpWithRefs == Spec => []GivesUpOnlyInFull
<1>1. IInv => GivesUpOnlyInFull
  BY DEF IInv
<1>2. QED BY <1>1, InitIInv, IInvInductive, PTL DEF Spec

\* What an acceptance is: only the service accepts, one request at a time, and
\* what it scores is the merged list of that request.
LEMMA AcceptStep ==
  ASSUME [Next]_vars, NEW s \in accepted' \ accepted, s \in Scans
  PROVE  ServeAccept(s)
<1> USE DEF vars, files, local, server, bounds, Goto, Finish
<1>1. ASSUME NEW t \in Scans, Extract(t) \/ Send(t) PROVE accepted' = accepted
  BY <1>1 DEF Extract, Send, LoadLedger, SkipUpload, PostDelta, RetryExpanded, RetryFull,
              GiveUp, Reauthenticate, TokenRejected, Accepted
<1>2. ASSUME NEW t \in Scans, Save(t) PROVE accepted' = accepted
  BY <1>2 DEF Save, OpenTmp, WriteTmp, Replace, SaveFails, Unlink
<1>3. ASSUME NEW t \in Scans, ServeUnresolved(t) \/ ServeInvalid(t) \/ ServeRefused(t)
      PROVE accepted' = accepted
  BY <1>3 DEF ServeUnresolved, ServeInvalid, ServeRefused
<1>4. ASSUME NEW t \in Scans, NetworkError(t) \/ Crash(t) PROVE accepted' = accepted
  BY <1>4 DEF NetworkError, Crash
<1>5. ASSUME Revise \/ UNCHANGED vars PROVE accepted' = accepted
  BY <1>5 DEF Revise
<1>6. PICK t \in Scans : ServeAccept(t)
  BY <1>1, <1>2, <1>3, <1>4, <1>5 DEF Next, Serve
<1>7. t = s
  BY <1>6 DEF ServeAccept
<1>8. QED BY <1>6, <1>7

\* No session the ledger knows is lost to a parser that raised, before the full
\* fallback: it leaves the scored list only when the service listed it.
THEOREM SkippedKept == Spec => SkippedKeptUnlessListed
<1>1. IInv /\ [Next]_vars =>
        [\A s \in accepted' \ accepted : attempt[s] # "full" =>
           \A h \in skipped[s] \ expand[s] :
             (payload[s][h] = << >> /\ known[s].digests[h] # None)
                => scored'[h] = known[s].digests[h]]_vars
  <2> SUFFICES ASSUME IInv, [Next]_vars, NEW s \in accepted' \ accepted, attempt[s] # "full",
                      NEW h \in skipped[s] \ expand[s],
                      payload[s][h] = << >>, known[s].digests[h] # None
               PROVE  scored'[h] = known[s].digests[h]
    OBVIOUS
  <2>1. s \in Scans
    BY TypeStep DEF IInv, TypeOK
  <2>2. s \in wire /\ scored' = Merged(body[s])
    BY <2>1, AcceptStep DEF ServeAccept, Reject
  <2>3. QED BY <2>1, <2>2 DEF IInv, LadderInv
<1>2. QED BY <1>1, InitIInv, IInvInductive, PTL DEF Spec, SkippedKeptUnlessListed

-----------------------------------------------------------------------------
(* A save that runs alone does not tear the ledger.                         *)

\* While no other save overlaps a scan's, it has the temporary file to itself,
\* and what it leaves there at each step is known.
SaverInv ==
  /\ \A s \in Scans : fd[s] # None => pc[s] = "write"
  /\ \A s, t \in Saving : s # t => s \in crowded
  /\ \A s \in Scans \ crowded :
       /\ pc[s] = "write" => fd[s] = "tmp" /\ tmp = TornFile
       /\ (pc[s] = "replace" /\ tmp # None) => tmp.whole = TRUE

LEMMA SaverInit == Init => SaverInv
BY DEF Init, SaverInv, Saving

\* Steps that touch no file, and bring no scan to a step of saving.
LEMMA SaverKept ==
  ASSUME SaverInv, UNCHANGED files,
         \A s \in Scans : /\ pc'[s] \in {"write", "replace", "unlink"} => pc'[s] = pc[s]
                          /\ pc[s] = "write" => pc'[s] = "write"
  PROVE  SaverInv'
BY DEF SaverInv, Saving, files

\* Every step but those of a save.
LEMMA SaverElsewhere ==
  ASSUME TypeOK, SaverInv, [Next]_vars, \A s \in Scans : ~ Save(s)
  PROVE  SaverInv' /\ ledger' = ledger
<1> USE DEF vars, local, server, bounds, Goto, Finish
<1>1. ASSUME NEW s \in Scans, Extract(s) \/ Send(s) PROVE SaverInv' /\ ledger' = ledger
  <2>1. UNCHANGED files
    BY <1>1 DEF Extract, Send, LoadLedger, SkipUpload, PostDelta, RetryExpanded, RetryFull,
                GiveUp, Reauthenticate, TokenRejected, Accepted
  <2>2. /\ pc[s] \in {"idle", "ledger", "stubs", "await"}
        /\ pc'[s] \in {"ledger", "stubs", "await", "open", "ended"}
        /\ \A t \in Scans \ {s} : pc'[t] = pc[t]
    BY <1>1 DEF TypeOK, Extract, Send, LoadLedger, SkipUpload, PostDelta, RetryExpanded,
                RetryFull, GiveUp, Reauthenticate, TokenRejected, Accepted, Post, Answered
  <2>3. QED BY <2>1, <2>2, SaverKept DEF files
<1>2. ASSUME NEW s \in Scans, Serve(s) PROVE SaverInv' /\ ledger' = ledger
  <2>1. UNCHANGED files /\ UNCHANGED pc
    BY <1>2 DEF Serve, ServeUnresolved, ServeInvalid, ServeRefused, ServeAccept
  <2>2. QED BY <2>1, SaverKept DEF files
<1>3. ASSUME NEW s \in Scans, Crash(s) PROVE SaverInv' /\ ledger' = ledger
  <2>1. /\ UNCHANGED <<ledger, tmp, crowded>>
        /\ pc' = [pc EXCEPT ![s] = "ended"] /\ fd' = [fd EXCEPT ![s] = None]
    BY <1>3 DEF Crash
  <2>2. QED BY <2>1 DEF TypeOK, SaverInv, Saving
<1>4. ASSUME NEW s \in Scans, NetworkError(s) PROVE SaverInv' /\ ledger' = ledger
  <2>1. UNCHANGED files
    BY <1>4 DEF NetworkError
  <2>2. pc[s] = "await" /\ pc' = [pc EXCEPT ![s] = "ended"]
    BY <1>4 DEF NetworkError
  <2>3. QED BY <2>1, <2>2, SaverKept DEF TypeOK, files
<1>5. CASE Revise \/ UNCHANGED vars
  BY <1>5, SaverKept DEF Revise, files
<1>6. QED BY <1>1, <1>2, <1>3, <1>4, <1>5 DEF Next

\* A save that begins beside another makes both crowded.
LEMMA SaverOpens ==
  ASSUME TypeOK, SaverInv, NEW s \in Scans, OpenTmp(s)
  PROVE  SaverInv' /\ ledger' = ledger
<1>1. /\ pc[s] = "open" /\ tmp' = TornFile /\ ledger' = ledger
      /\ fd' = [fd EXCEPT ![s] = "tmp"] /\ pc' = [pc EXCEPT ![s] = "write"]
      /\ crowded' = IF Saving = {} THEN crowded ELSE crowded \cup Saving \cup {s}
  BY DEF OpenTmp, Goto, Crowd
<1>2. Saving' = Saving \cup {s}
  BY <1>1 DEF TypeOK, Saving
<1>3. \A t \in Scans : t \in Saving => t = s \/ t \in crowded'
  BY <1>1
<1>4. \A u, t \in Saving' : u # t => u \in crowded'
  BY <1>1, <1>2 DEF SaverInv
<1>5. QED BY <1>1, <1>3, <1>4 DEF TypeOK, SaverInv, Saving

\* The steps of a save that is open: what it does to the ledger is a whole file
\* unless it is crowded.
LEMMA SaverWrites ==
  ASSUME TypeOK, SaverInv, NEW s \in Scans, WriteTmp(s)
  PROVE  SaverInv' /\ (s \notin crowded => ledger' = ledger)
<1> DEFINE new == NewLedger(payload[s], skipped[s], known[s], body[s])
<1>1. new.whole = TRUE
  BY DEF NewLedger
<1>2. /\ fd' = [fd EXCEPT ![s] = None] /\ pc' = [pc EXCEPT ![s] = "replace"]
      /\ pc[s] = "write" /\ crowded' = crowded
  BY DEF WriteTmp, Goto
<1>3. s \notin crowded => ledger' = ledger /\ tmp' = new
  BY NoneAssumption DEF SaverInv, WriteTmp, Written
<1>4. Saving' = Saving
  BY <1>2 DEF TypeOK, Saving
<1>5. \A t \in Scans \ crowded : t # s => pc[t] \notin {"write", "replace"}
  BY <1>2 DEF SaverInv, Saving
<1> HIDE DEF new
<1>6. QED BY <1>1, <1>2, <1>3, <1>4, <1>5 DEF TypeOK, SaverInv

LEMMA SaverReplaces ==
  ASSUME TypeOK, SaverInv, NEW s \in Scans, Replace(s)
  PROVE  SaverInv' /\ (s \notin crowded => ledger'.whole = TRUE)
<1>1. /\ tmp # None /\ ledger' = tmp /\ tmp' = None /\ crowded' = crowded
      /\ pc[s] = "replace" /\ pc' = [pc EXCEPT ![s] = "ended"]
  BY DEF Replace, Finish, Goto
<1>2. \A t \in Scans : fd'[t] # None => fd[t] # None
  BY NoneAssumption DEF TypeOK, Replace
<1>3. \A t \in Scans \ crowded : t # s => pc[t] \notin {"write", "replace"}
  BY <1>1 DEF SaverInv, Saving
<1>4. QED BY <1>1, <1>2, <1>3 DEF TypeOK, SaverInv, Saving

LEMMA SaverFails ==
  ASSUME TypeOK, SaverInv, NEW s \in Scans, SaveFails(s) \/ Unlink(s)
  PROVE  SaverInv' /\ ledger' = ledger
<1>1. CASE SaveFails(s)
  <2>1. /\ UNCHANGED <<ledger, tmp>> /\ pc[s] \in {"open", "write", "replace"}
        /\ pc' = [pc EXCEPT ![s] = "unlink"] /\ fd' = [fd EXCEPT ![s] = None]
        /\ pc[s] = "open" => Crowd(s)
        /\ pc[s] # "open" => crowded' = crowded
    BY <1>1 DEF SaveFails, Goto
  <2>2. Saving' = Saving \cup {s} /\ (pc[s] # "open" => s \in Saving)
    BY <2>1 DEF TypeOK, Saving
  <2>3. \A u, t \in Saving' : u # t => u \in crowded'
    BY <2>1, <2>2 DEF SaverInv, Crowd
  <2>4. \A t \in Scans : pc'[t] \in {"write", "replace"} => pc[t] = pc'[t] /\ fd'[t] = fd[t]
    BY <2>1 DEF TypeOK, Crowd
  <2>5. crowded \subseteq crowded'
    BY <2>1 DEF Crowd
  <2>6. QED BY <2>1, <2>3, <2>4, <2>5 DEF TypeOK, SaverInv
<1>2. CASE Unlink(s)
  <2>1. /\ ledger' = ledger /\ tmp' = None /\ crowded' = crowded
        /\ pc[s] = "unlink" /\ pc' = [pc EXCEPT ![s] = "ended"]
    BY <1>2 DEF Unlink, Finish, Goto
  <2>2. \A t \in Scans : fd'[t] # None => fd[t] # None
    BY <1>2, NoneAssumption DEF TypeOK, Unlink
  <2>3. \A t \in Scans \ crowded : t # s => pc[t] \notin {"write", "replace"}
    BY <2>1 DEF SaverInv, Saving
  <2>4. QED BY <2>1, <2>2, <2>3 DEF TypeOK, SaverInv, Saving
<1>3. QED BY <1>1, <1>2

\* A save that no other save overlaps never tears the ledger (delta_upload.py
\* save_ledger writes a temporary file and renames it), whatever was accepted,
\* killed or failed before or meanwhile: only a crowded save leaves a torn file.
THEOREM LoneSaverNeverTears == Spec => LoneSaveNeverTears
<1> DEFINE Tears == ledger' # ledger /\ ~ ledger'.whole
           Cause == \E s \in crowded' : pc[s] \in {"write", "replace"} /\ pc'[s] # pc[s]
<1>1. ASSUME TypeOK, SaverInv, [Next]_vars PROVE SaverInv' /\ (Tears => Cause)
  <2>1. CASE \A s \in Scans : ~ Save(s)
    BY <1>1, <2>1, SaverElsewhere
  <2>2. ASSUME NEW s \in Scans, OpenTmp(s) \/ SaveFails(s) \/ Unlink(s)
        PROVE SaverInv' /\ ledger' = ledger
    BY <1>1, <2>2, SaverOpens, SaverFails
  <2>3. ASSUME NEW s \in Scans, WriteTmp(s) \/ Replace(s)
        PROVE  SaverInv' /\ (Tears => s \in crowded)
    BY <1>1, <2>3, SaverWrites, SaverReplaces
  <2>4. ASSUME NEW s \in Scans, WriteTmp(s) \/ Replace(s)
        PROVE  crowded' = crowded /\ pc[s] \in {"write", "replace"} /\ pc'[s] # pc[s]
    BY <1>1, <2>4 DEF TypeOK, WriteTmp, Replace, Goto, Finish
  <2>5. QED BY <2>1, <2>2, <2>3, <2>4 DEF Save
<1>2. IInv /\ SaverInv /\ [Next]_vars => (IInv /\ SaverInv)'
  BY <1>1, IInvInductive DEF IInv
<1>3. IInv /\ SaverInv /\ [Next]_vars =>
        [ledger' # ledger /\ ~ ledger'.whole =>
           \E s \in crowded' : pc[s] \in {"write", "replace"} /\ pc'[s] # pc[s]]_vars
  BY <1>1 DEF IInv
<1>4. QED BY <1>2, <1>3, InitIInv, SaverInit, PTL DEF Spec, LoneSaveNeverTears

-----------------------------------------------------------------------------
(* Uploading with refs, a ledger and retries implements uploading in full.  *)

LEMMA SameSequences ==
  /\ \A q : Full!Last(q) = Last(q)
  /\ [Sessions -> Full!BoundedSeq(Digests, MaxCopies)] = Payloads
BY DEF Full!Last, Last, Full!BoundedSeq, BoundedSeq, Full!SeqOf, SeqOf, Payloads

LEMMA RefinesInit == Init => Full!Init
BY DEF Init, Full!Init, NoPayload, Full!NoPayload, Entries

\* What the service scores of an accepted body is what it would have scored of
\* the whole payload, where a ref stands for the stored session.
LEMMA RefinesAccept ==
  ASSUME IInv, NEW s \in Scans, ServeAccept(s)
  PROVE  Full!Accept(s)
<1> DEFINE m == Merged(body[s])
           drop == {h \in Sessions : m[h] = None}
<1> TypeOK
  BY DEF IInv
<1>1. s \in wire /\ Unresolved(body[s]) = {}
  BY DEF ServeAccept, Reject
<1>2. payload[s] # NoPayload /\ s \notin accepted
      /\ Faithful(payload[s], skipped[s], known[s], body[s])
  BY <1>1 DEF IInv, BodyInv, AcceptedInv
<1>3. m = [h \in Sessions |-> IF payload[s][h] # << >> THEN Last(payload[s][h])
                              ELSE IF h \in drop THEN None ELSE stored[h]]
  <2>1. \A h \in Sessions : payload[s][h] # << >> => m[h] = Last(payload[s][h])
    BY <1>2 DEF Faithful
  <2>2. ASSUME NEW h \in Sessions, payload[s][h] = << >>, m[h] # None
        PROVE  m[h] = stored[h]
    BY <1>1, <1>2, <2>2 DEF Faithful, Merged, Unresolved
  <2>3. m = [h \in Sessions |-> m[h]]
    BY DEF Merged
  <2> HIDE DEF m
  <2>4. QED BY <2>1, <2>2, <2>3
<1>4. scored' = m
  BY DEF ServeAccept
<1>5. PICK keep \in SUBSET {h \in Sessions : m[h] = None /\ stored[h] # None} :
        stored' = [h \in Sessions |-> IF m[h] # None THEN m[h]
                                      ELSE IF h \in keep THEN stored[h] ELSE None]
  BY DEF ServeAccept
<1>6. accepted' = accepted \cup {s} /\ payload' = payload /\ outcome' = outcome
  BY DEF ServeAccept, local
<1>7. drop \in SUBSET Sessions /\ keep \in SUBSET Sessions
  OBVIOUS
<1> HIDE DEF m, drop
<1>8. scored' = [h \in Sessions |-> IF payload[s][h] # << >> THEN Full!Last(payload[s][h])
                                    ELSE IF h \in drop THEN None ELSE stored[h]]
  BY <1>3, <1>4, SameSequences
<1>9. stored' = [h \in Sessions |-> IF scored'[h] # None THEN scored'[h]
                                    ELSE IF h \in keep THEN stored[h] ELSE None]
  BY <1>4, <1>5
<1>10. QED
  BY <1>2, <1>6, <1>7, <1>8, <1>9 DEF Full!Accept, Full!NoPayload, NoPayload

LEMMA RefinesStep == IInv /\ [Next]_vars => [Full!Next]_(Full!vars)
<1> USE DEF vars, files, local, server, bounds, Goto, Finish
<1> SUFFICES ASSUME IInv, [Next]_vars PROVE Full!Next \/ UNCHANGED Full!vars
  OBVIOUS
<1> TypeOK /\ PhaseInv /\ AcceptedInv
  BY DEF IInv
<1>1. ASSUME NEW s \in Scans, Extract(s) PROVE Full!Extract(s)
  <2>1. PICK p \in Payloads :
          /\ payload' = [payload EXCEPT ![s] = p]
          /\ IF p = NoPayload THEN Finish(s, "no_sessions")
                              ELSE Goto(s, "ledger") /\ UNCHANGED outcome
    BY <1>1 DEF Extract
  <2>2. outcome' = [outcome EXCEPT ![s] = IF p = NoPayload THEN "no_sessions" ELSE @]
    BY <2>1 DEF TypeOK
  <2>3. payload[s] = NoPayload /\ outcome[s] = "running"
    BY <1>1 DEF PhaseInv, Extract
  <2>4. UNCHANGED <<accepted, stored, scored>>
    BY <1>1 DEF Extract
  <2>5. QED
    BY <2>1, <2>2, <2>3, <2>4, SameSequences DEF Full!Extract, NoPayload, Full!NoPayload
<1>2. ASSUME NEW s \in Scans, NEW o \in Outcomes \ {"running", "no_sessions"},
             Finish(s, o), pc[s] \notin {"idle", "ended"},
             o = "done" => s \in accepted, o = "skipped" => s \notin accepted,
             UNCHANGED <<payload, accepted, stored, scored>>
      PROVE Full!Report(s)
  BY <1>2 DEF TypeOK, PhaseInv, Full!Report, NoPayload, Full!NoPayload
<1>3. ASSUME NEW s \in Scans, SkipUpload(s) PROVE Full!Report(s)
  BY <1>2, <1>3 DEF AcceptedInv, SkipUpload, Outcomes
<1>4. ASSUME NEW s \in Scans, GiveUp(s) PROVE Full!Report(s)
  BY <1>2, <1>4 DEF GiveUp, Answered, Outcomes
<1>5. ASSUME NEW s \in Scans, TokenRejected(s) PROVE Full!Report(s)
  BY <1>2, <1>5 DEF TokenRejected, Answered, Outcomes
<1>6. ASSUME NEW s \in Scans, NetworkError(s) PROVE Full!Report(s)
  BY <1>2, <1>6 DEF NetworkError, Outcomes
<1>7. ASSUME NEW s \in Scans, Crash(s) PROVE Full!Report(s)
  BY <1>2, <1>7 DEF Crash, Running, Outcomes
<1>8. ASSUME NEW s \in Scans, Replace(s) PROVE Full!Report(s)
  BY <1>2, <1>8 DEF AcceptedInv, Replace, Outcomes
<1>9. ASSUME NEW s \in Scans, Unlink(s) PROVE Full!Report(s)
  BY <1>2, <1>9 DEF AcceptedInv, Unlink, Outcomes
<1>10. ASSUME NEW s \in Scans,
              LoadLedger(s) \/ PostDelta(s) \/ RetryExpanded(s) \/ RetryFull(s)
                \/ Reauthenticate(s) \/ Accepted(s)
       PROVE UNCHANGED Full!vars
  BY <1>10 DEF Full!vars, LoadLedger, PostDelta, RetryExpanded, RetryFull, Reauthenticate,
               Accepted
<1>11. ASSUME NEW s \in Scans, OpenTmp(s) \/ WriteTmp(s) \/ SaveFails(s)
       PROVE UNCHANGED Full!vars
  BY <1>11 DEF Full!vars, OpenTmp, WriteTmp, SaveFails
<1>12. ASSUME NEW s \in Scans, ServeUnresolved(s) \/ ServeInvalid(s) \/ ServeRefused(s)
       PROVE UNCHANGED Full!vars
  BY <1>12 DEF Full!vars, ServeUnresolved, ServeInvalid, ServeRefused
<1>13. CASE Revise \/ UNCHANGED vars
  BY <1>13 DEF Full!vars, Revise
<1>14. QED
  BY <1>1, <1>3, <1>4, <1>5, <1>6, <1>7, <1>8, <1>9, <1>10, <1>11, <1>12, <1>13, RefinesAccept
     DEF Next, Send, Save, Serve, Full!Next

\* Refs, the ledger and the retry ladder are invisible from outside: an account
\* uploaded to with deltas by any number of concurrent, failing scans goes
\* through the states of one that is sent whole payloads, and a scan that
\* reports "done" was accepted (scan.py _send and main).
THEOREM DeltaImplementsFull == Spec => UploadsAsIfFull
<1>1. QED
  BY RefinesInit, RefinesStep, InitIInv, IInvInductive, PTL DEF Spec, UploadsAsIfFull, Full!Spec
=============================================================================
