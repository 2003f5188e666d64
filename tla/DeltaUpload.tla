------------------------------ MODULE DeltaUpload ------------------------------
(***************************************************************************)
(* The upload half of a scan: scripts/scan.py `_send` with                 *)
(* scripts/delta_upload.py, the local ledger uploaded.json, and the ingest *)
(* service as WIRE_FORMAT.md "Schema v0.14" describes it (external).       *)
(*                                                                         *)
(* Several scan processes (a /conductorscore run, a terminal run, the      *)
(* daily background scan) may run at once and share the one ledger file.   *)
(* Each file operation, each request, each answer is a step of its own.    *)
(*                                                                         *)
(* A digest is a fingerprint of the whole session, and the nine chain      *)
(* integers are part of it, so the chain entry of a session is modelled by *)
(* the digest of the content it was computed from.                         *)
(***************************************************************************)
EXTENDS Integers, FiniteSets, SequencesExt

CONSTANTS
  Sessions,      \* session hashes
  Digests,       \* digests a session's content may have
  Scans,         \* scan processes; each runs once
  None,          \* absent: no entry, no file, no answer
  MaxCopies,     \* transcripts that may share one session hash
  MaxSkipped,    \* bound: sessions one scan fails to parse
  MaxRunning,    \* scans that may run at the same time
  MaxFaults,     \* bound: network, server and file-system failures
  MaxCrashes,    \* bound: scans killed half way
  MaxRevisions   \* bound: revisions of the ingest service

ASSUME NoneAssumption ==
  /\ None \notin Digests
  /\ None \notin {"tmp", "ledger", "orphan"}
  /\ None \notin [whole : BOOLEAN, digests : [Sessions -> Digests \cup {None}],
                  chain : [Sessions -> Digests \cup {None}]]
  /\ None \notin [kind : {"ok", "unresolved", "invalid", "unauthorized", "error"},
                  hashes : SUBSET Sessions]

ASSUME BoundsAssumption ==
  /\ MaxCopies \in Nat \ {0}
  /\ {MaxSkipped, MaxRunning, MaxFaults, MaxCrashes, MaxRevisions} \subseteq Nat

VARIABLES
  \* the cache directory
  ledger,     \* uploaded.json, as it would load
  tmp,        \* uploaded.json.tmp, one fixed name for every scan, or None
  fd,         \* the file each scan has open for writing
  \* one scan process
  pc, payload, skipped, known, expand, attempt, body, reauthed, outcome,
  \* the network
  wire,       \* scans whose last request is on its way to the server
  reply,      \* the answer each waiting scan will read, or None
  \* the ingest service (external)
  stored,     \* digest stored per session
  outdated,   \* sessions whose digest was stored under an older revision
  unfit,      \* sessions whose stored copy no longer validates
  scored,     \* the merged list last scored
  \* history and bounds
  uploads,    \* every merged list ever scored
  accepted,   \* scans whose upload the server accepted
  crowded,    \* scans whose save another scan's save overlapped
  faults, crashes, revisions

files    == <<ledger, tmp, fd, crowded>>
local    == <<payload, skipped, known, expand, attempt, body, reauthed>>
server   == <<stored, outdated, unfit, scored, uploads, accepted>>
bounds   == <<faults, crashes, revisions>>
vars     == <<files, local, pc, outcome, wire, reply, server, bounds>>

Entries  == [Sessions -> Digests \cup {None}]
File     == [whole : BOOLEAN, digests : Entries, chain : Entries]
Payloads == [Sessions -> BoundedSeq(Digests, MaxCopies)]
Body     == [full : Payloads, refs : Entries, chain : Entries]

Nothing   == [h \in Sessions |-> None]
NoPayload == [h \in Sessions |-> << >>]

\* What load_ledger and load_chain_stubs read: a missing file and one that
\* does not parse both load as {}; `whole` tells them apart for the properties.
NoLedger == [whole |-> TRUE,  digests |-> Nothing, chain |-> Nothing]
TornFile == [whole |-> FALSE, digests |-> Nothing, chain |-> Nothing]
NothingKnown == [digests |-> Nothing, chain |-> Nothing]
NoBody == [full |-> NoPayload, refs |-> Nothing, chain |-> Nothing]

Answers == {"ok", "unresolved", "invalid", "unauthorized", "error"}
Reply   == [kind : Answers, hashes : SUBSET Sessions]
Answer(k, hs) == [kind |-> k, hashes |-> hs]

Outcomes == {"running", "no_sessions", "skipped", "done", "http",
             "reauth_needed", "neterr", "crashed"}
Labels == {"idle", "ledger", "stubs", "await", "open", "write", "replace",
           "unlink", "ended"}

Running == {s \in Scans : pc[s] \notin {"idle", "ended"}}

-----------------------------------------------------------------------------
(* delta_upload.py: pure functions of the payload and of what was loaded.   *)

\* preserved_for: skipped sessions the ledger can keep as refs.
Preserved(p, skip, kn) ==
  {h \in skip : p[h] = << >> /\ kn.digests[h] # None /\ kn.chain[h] # None}

\* Mutant: a session whose chain integers are unknown does not stop the upload.
Unpreservable_Never(p, skip, kn) == {}

\* unpreservable_for: skipped, uploaded before, chain integers unknown.
Unpreservable(p, skip, kn) ==
  {h \in skip : p[h] = << >> /\ kn.digests[h] # None /\ kn.chain[h] = None}

\* Mutant: one copy of a session that occurs twice may go as a ref.
GoesAsRef_AnyCopy(p, digests, exp, h) ==
  h \notin exp /\ p[h] # << >> /\ digests[h] = Last(p[h])

\* Mutant: any session the ledger knows goes as a ref, changed or not.
GoesAsRef_Changed(p, digests, exp, h) ==
  h \notin exp /\ Len(p[h]) = 1 /\ digests[h] # None

\* A session goes as a ref when it occurs once, is not to be expanded, and the
\* ledger records the very digest the payload carries.
GoesAsRef(p, digests, exp, h) ==
  /\ h \notin exp
  /\ Len(p[h]) = 1
  /\ digests[h] = Last(p[h])

\* Mutant: session_chain is left as extracted, without the preserved sessions.
BuildBody_PayloadChain(p, kn, exp, preserved) ==
  LET AsRef(h) == GoesAsRef(p, kn.digests, exp, h) IN
  [full  |-> [h \in Sessions |-> IF AsRef(h) THEN Front(p[h]) ELSE p[h]],
   refs  |-> [h \in Sessions |-> IF AsRef(h) \/ h \in preserved \ exp
                                    THEN kn.digests[h] ELSE None],
   chain |-> [h \in Sessions |-> IF p[h] # << >> THEN Last(p[h]) ELSE None]]

\* build_body: refs for what the ledger records, full copies for the rest, the
\* kept preserved sessions as refs, and session_chain over both.
BuildBody(p, kn, exp, preserved) ==
  LET kept == preserved \ exp IN
  [full  |-> [h \in Sessions |->
                IF GoesAsRef(p, kn.digests, exp, h) THEN Front(p[h]) ELSE p[h]],
   refs  |-> [h \in Sessions |->
                IF GoesAsRef(p, kn.digests, exp, h) \/ h \in kept
                  THEN kn.digests[h] ELSE None],
   chain |-> [h \in Sessions |->
                IF p[h] # << >> THEN Last(p[h])
                ELSE IF h \in kept THEN kn.chain[h] ELSE None]]

HasRefs(b) == \E h \in Sessions : b.refs[h] # None

\* Mutant: every preserved session is recorded, sent or not.
NewLedger_Unsent(p, skip, kn, b) ==
  LET Entry(old) == [h \in Sessions |->
        IF p[h] # << >> THEN Last(p[h])
        ELSE IF h \in Preserved(p, skip, kn) THEN old[h] ELSE None]
  IN [whole |-> TRUE, digests |-> Entry(kn.digests), chain |-> Entry(kn.chain)]

\* The ledger _send writes: the payload's digests, and the preserved sessions
\* that were in the body the server accepted.
NewLedger(p, skip, kn, b) ==
  LET sent == {h \in Preserved(p, skip, kn) : b.refs[h] # None}
      Entry(old) == [h \in Sessions |-> IF p[h] # << >> THEN Last(p[h])
                                        ELSE IF h \in sent THEN old[h] ELSE None]
  IN [whole |-> TRUE, digests |-> Entry(kn.digests), chain |-> Entry(kn.chain)]

-----------------------------------------------------------------------------
(* The ingest service's view of a body.                                     *)

Unresolved(b) == {h \in Sessions : /\ b.full[h] = << >>
                                   /\ b.refs[h] # None
                                   /\ b.refs[h] # stored[h] \/ h \in outdated}

\* Refs replaced by the stored session; of several full copies the last, and a
\* full copy before a ref.
Merged(b) == [h \in Sessions |-> IF b.full[h] # << >> THEN Last(b.full[h])
                                 ELSE b.refs[h]]

\* A ref resolves to a stored copy that today's validation rejects.
Rejected(b) == \E h \in unfit : b.full[h] = << >> /\ b.refs[h] # None

-----------------------------------------------------------------------------
(* The cache directory starts as an earlier scan left it: no upload yet, an *)
(* upload of this client, or one of an older client that recorded no chain  *)
(* integers for some sessions.                                              *)
Init ==
  /\ \E old \in Entries, uncharted \in SUBSET Sessions :
       /\ ledger = [whole |-> TRUE, digests |-> old,
                    chain |-> [h \in Sessions |-> IF h \in uncharted THEN None ELSE old[h]]]
       /\ stored = old
       /\ scored = old
       /\ uploads = {old, Nothing}
  /\ tmp = None
  /\ fd = [s \in Scans |-> None]
  /\ pc = [s \in Scans |-> "idle"]
  /\ payload = [s \in Scans |-> NoPayload]
  /\ skipped = [s \in Scans |-> {}]
  /\ known = [s \in Scans |-> NothingKnown]
  /\ expand = [s \in Scans |-> {}]
  /\ attempt = [s \in Scans |-> "delta"]
  /\ body = [s \in Scans |-> NoBody]
  /\ reauthed = [s \in Scans |-> FALSE]
  /\ outcome = [s \in Scans |-> "running"]
  /\ wire = {}
  /\ reply = [s \in Scans |-> None]
  /\ outdated = {} /\ unfit = {} /\ accepted = {} /\ crowded = {}
  /\ faults = 0 /\ crashes = 0 /\ revisions = 0

Goto(s, l) == pc' = [pc EXCEPT ![s] = l]

Finish(s, o) == /\ Goto(s, "ended")
                /\ outcome' = [outcome EXCEPT ![s] = o]

Fault == faults < MaxFaults /\ faults' = faults + 1 /\ UNCHANGED <<crashes, revisions>>

\* Extraction is over: some sessions parsed, some were skipped because their
\* parser raised. A scan without sessions uploads nothing.
Extract(s) ==
  /\ pc[s] = "idle"
  /\ Cardinality(Running) < MaxRunning
  /\ \E p \in Payloads, skip \in SUBSET Sessions :
       /\ \A h \in skip : Len(p[h]) < MaxCopies
       /\ Cardinality(skip) <= MaxSkipped
       /\ payload' = [payload EXCEPT ![s] = p]
       /\ skipped' = [skipped EXCEPT ![s] = skip]
       /\ IF p = NoPayload
            THEN Finish(s, "no_sessions")
            ELSE Goto(s, "ledger") /\ UNCHANGED outcome
  /\ UNCHANGED <<files, known, expand, attempt, body, reauthed, wire, reply, server, bounds>>

\* _send reads uploaded.json twice: the digests, then the chain integers.
LoadLedger(s) ==
  /\ pc[s] = "ledger"
  /\ known' = [known EXCEPT ![s].digests = ledger.digests]
  /\ Goto(s, "stubs")
  /\ UNCHANGED <<files, payload, skipped, expand, attempt, body, reauthed, outcome,
                 wire, reply, server, bounds>>

Loaded(s) == [digests |-> known[s].digests, chain |-> ledger.chain]

Post(s, b, a) ==
  /\ body' = [body EXCEPT ![s] = b]
  /\ attempt' = [attempt EXCEPT ![s] = a]
  /\ wire' = wire \cup {s}
  /\ reply' = [reply EXCEPT ![s] = None]
  /\ Goto(s, "await")

SkipUpload(s) ==
  /\ pc[s] = "stubs"
  /\ Unpreservable(payload[s], skipped[s], Loaded(s)) # {}
  /\ known' = [known EXCEPT ![s] = Loaded(s)]
  /\ Finish(s, "skipped")
  /\ UNCHANGED <<files, payload, skipped, expand, attempt, body, reauthed,
                 wire, reply, server, bounds>>

PostDelta(s) ==
  /\ pc[s] = "stubs"
  /\ Unpreservable(payload[s], skipped[s], Loaded(s)) = {}
  /\ known' = [known EXCEPT ![s] = Loaded(s)]
  /\ expand' = [expand EXCEPT ![s] = {}]
  /\ Post(s, BuildBody(payload[s], Loaded(s), {},
                       Preserved(payload[s], skipped[s], Loaded(s))), "delta")
  /\ UNCHANGED <<files, payload, skipped, reauthed, outcome, server, bounds>>

-----------------------------------------------------------------------------
(* The ingest service answers one request, also one whose sender has gone.  *)

Reject(s, r) ==
  /\ s \in wire
  /\ wire' = wire \ {s}
  /\ reply' = IF pc[s] = "await" THEN [reply EXCEPT ![s] = r] ELSE reply

ServeUnresolved(s) ==
  /\ Unresolved(body[s]) # {}
  /\ Reject(s, Answer("unresolved", Unresolved(body[s])))
  /\ UNCHANGED <<files, local, pc, outcome, server, bounds>>

\* 422: a referenced stored copy no longer validates, or (a fault) the payload
\* itself is refused.
ServeInvalid(s) ==
  /\ Unresolved(body[s]) = {}
  /\ \/ Rejected(body[s]) /\ UNCHANGED bounds
     \/ ~ Rejected(body[s]) /\ Fault
  /\ Reject(s, Answer("invalid", {}))
  /\ UNCHANGED <<files, local, pc, outcome, server>>

\* 401, or a gateway or server error before anything is written.
ServeRefused(s) ==
  /\ Fault
  /\ \E k \in {"unauthorized", "error"} : Reject(s, Answer(k, {}))
  /\ UNCHANGED <<files, local, pc, outcome, server>>

\* The merged list is stored and scored; of the stored sessions not in it the
\* service keeps any part. The answer may turn into a 504 on the way.
ServeAccept(s) ==
  LET m == Merged(body[s])
      listed == {h \in Sessions : m[h] # None}
  IN /\ Unresolved(body[s]) = {} /\ ~ Rejected(body[s])
     /\ \/ Reject(s, Answer("ok", {})) /\ UNCHANGED bounds
        \/ Reject(s, Answer("error", {})) /\ Fault
     /\ \E keep \in SUBSET {h \in Sessions \ listed : stored[h] # None} :
          /\ stored' = [h \in Sessions |-> IF h \in listed THEN m[h]
                                           ELSE IF h \in keep THEN stored[h] ELSE None]
          /\ outdated' = outdated \cap keep
          /\ unfit' = unfit \cap keep
     /\ scored' = m
     /\ uploads' = uploads \cup {m}
     /\ accepted' = accepted \cup {s}
     /\ UNCHANGED <<files, local, pc, outcome>>

Serve(s) == ServeUnresolved(s) \/ ServeInvalid(s) \/ ServeRefused(s) \/ ServeAccept(s)

\* A deployment of the service: digests of some stored sessions no longer match
\* and some stored copies no longer validate.
Revise ==
  /\ revisions < MaxRevisions
  /\ \E S, U \in SUBSET {h \in Sessions : stored[h] # None} :
       /\ outdated' = outdated \cup S
       /\ unfit' = unfit \cup U
  /\ revisions' = revisions + 1
  /\ UNCHANGED <<files, local, pc, outcome, wire, reply, stored, scored, uploads,
                 accepted, faults, crashes>>

-----------------------------------------------------------------------------
(* _send and main: what the scan does with the answer.                      *)

Answered(s, k) == pc[s] = "await" /\ reply[s] # None /\ reply[s].kind = k

RetryExpanded(s) ==
  /\ Answered(s, "unresolved") /\ attempt[s] = "delta"
  /\ expand' = [expand EXCEPT ![s] = reply[s].hashes]
  /\ Post(s, BuildBody(payload[s], known[s], reply[s].hashes,
                       Preserved(payload[s], skipped[s], known[s])), "expanded")
  /\ UNCHANGED <<files, payload, skipped, known, reauthed, outcome, server, bounds>>

RetryFull(s) ==
  /\ \/ Answered(s, "unresolved") /\ attempt[s] = "expanded"
     \/ Answered(s, "invalid") /\ HasRefs(body[s])
  /\ Post(s, BuildBody(payload[s], NothingKnown, {}, {}), "full")
  /\ UNCHANGED <<files, payload, skipped, known, expand, reauthed, outcome, server, bounds>>

\* Mutant: a second 409 is final.
GiveUp_SecondConflict(s) ==
  /\ \/ Answered(s, "error")
     \/ Answered(s, "unresolved") /\ attempt[s] # "delta"
     \/ Answered(s, "invalid") /\ ~ HasRefs(body[s])
  /\ Finish(s, "http")
  /\ UNCHANGED <<files, local, wire, reply, server, bounds>>

\* Mutant: a 422 is final, refs or not.
GiveUp_Unprocessable(s) ==
  /\ \/ Answered(s, "error")
     \/ Answered(s, "unresolved") /\ attempt[s] = "full"
     \/ Answered(s, "invalid")
  /\ Finish(s, "http")
  /\ UNCHANGED <<files, local, wire, reply, server, bounds>>

GiveUp(s) ==
  /\ \/ Answered(s, "error")
     \/ Answered(s, "unresolved") /\ attempt[s] = "full"
     \/ Answered(s, "invalid") /\ ~ HasRefs(body[s])
  /\ Finish(s, "http")
  /\ UNCHANGED <<files, local, wire, reply, server, bounds>>

\* main: one silent re-authentication, then the whole of _send again.
Reauthenticate(s) ==
  /\ Answered(s, "unauthorized") /\ ~ reauthed[s]
  /\ reauthed' = [reauthed EXCEPT ![s] = TRUE]
  /\ reply' = [reply EXCEPT ![s] = None]
  /\ Goto(s, "ledger")
  /\ UNCHANGED <<files, payload, skipped, known, expand, attempt, body, outcome,
                 wire, server, bounds>>

\* Re-authentication needs the user, or the fresh token was rejected as well.
TokenRejected(s) ==
  /\ Answered(s, "unauthorized")
  /\ Finish(s, "reauth_needed")
  /\ UNCHANGED <<files, local, wire, reply, server, bounds>>

\* Connection refused, reset or timed out: the request may never arrive, may
\* still arrive, or was answered and the answer lost.
NetworkError(s) ==
  /\ pc[s] = "await"
  /\ Fault
  /\ wire' \in {wire, wire \ {s}}
  /\ reply' = [reply EXCEPT ![s] = None]
  /\ Finish(s, "neterr")
  /\ UNCHANGED <<files, local, server>>

Accepted(s) ==
  /\ Answered(s, "ok")
  /\ Goto(s, "open")
  /\ UNCHANGED <<files, local, outcome, wire, reply, server, bounds>>

-----------------------------------------------------------------------------
(* save_ledger, one file operation at a time. An open file survives being   *)
(* renamed or unlinked under its writer, so fd follows the file.            *)

\* Saves at work, and what a save that begins beside them is recorded as.
Saving == {s \in Scans : pc[s] \in {"write", "replace", "unlink"}}

Crowd(s) == crowded' = IF Saving = {} THEN crowded ELSE crowded \cup Saving \cup {s}

\* Mutant: the ledger itself is opened for writing.
OpenTmp_InPlace(s) ==
  /\ pc[s] = "open"
  /\ ledger' = TornFile
  /\ fd' = [fd EXCEPT ![s] = "ledger"]
  /\ Crowd(s)
  /\ Goto(s, "write")
  /\ UNCHANGED <<tmp, local, outcome, wire, reply, server, bounds>>

\* open(tmp, "w"): creates the file or truncates the one that is there.
OpenTmp(s) ==
  /\ pc[s] = "open"
  /\ tmp' = TornFile
  /\ fd' = [fd EXCEPT ![s] = "tmp"]
  /\ Crowd(s)
  /\ Goto(s, "write")
  /\ UNCHANGED <<ledger, local, outcome, wire, reply, server, bounds>>

\* Writing over what another scan wrote in the meantime leaves its tail behind
\* when it was longer.
Written(old, new) == IF old = TornFile THEN {new} ELSE {new, TornFile}

WriteTmp(s) ==
  LET new == NewLedger(payload[s], skipped[s], known[s], body[s]) IN
  /\ pc[s] = "write"
  /\ \/ fd[s] = "tmp"    /\ tmp' \in Written(tmp, new) /\ UNCHANGED ledger
     \/ fd[s] = "ledger" /\ ledger' \in Written(ledger, new) /\ UNCHANGED tmp
     \/ fd[s] = "orphan" /\ UNCHANGED <<ledger, tmp>>
  /\ fd' = [fd EXCEPT ![s] = None]
  /\ Goto(s, "replace")
  /\ UNCHANGED <<crowded, local, outcome, wire, reply, server, bounds>>

\* Mutant: replacing a tmp file that is gone is taken for a success.
Replace_Missing(s) ==
  /\ pc[s] = "replace"
  /\ ledger' = tmp
  /\ tmp' = None
  /\ fd' = [fd EXCEPT ![s] = None]
  /\ Finish(s, "done")
  /\ UNCHANGED <<crowded, local, wire, reply, server, bounds>>

\* os.replace(tmp, path): a writer that still has tmp open now writes the ledger.
Replace(s) ==
  /\ pc[s] = "replace"
  /\ tmp # None
  /\ ledger' = tmp
  /\ tmp' = None
  /\ fd' = [t \in Scans |-> CASE fd[t] = "tmp" -> "ledger"
                              [] fd[t] = "ledger" -> "orphan"
                              [] OTHER -> fd[t]]
  /\ Finish(s, "done")
  /\ UNCHANGED <<crowded, local, wire, reply, server, bounds>>

\* An OSError of open, write or replace is swallowed; the tmp file is removed.
SaveFails(s) ==
  /\ \/ pc[s] = "open" /\ Fault /\ Crowd(s)
     \/ pc[s] \in {"write", "replace"} /\ Fault /\ UNCHANGED crowded
     \/ pc[s] = "replace" /\ tmp = None /\ UNCHANGED <<crowded, bounds>>
  /\ fd' = [fd EXCEPT ![s] = None]
  /\ Goto(s, "unlink")
  /\ UNCHANGED <<ledger, tmp, local, outcome, wire, reply, server>>

Unlink(s) ==
  /\ pc[s] = "unlink"
  /\ tmp' = None
  /\ fd' = [t \in Scans |-> IF fd[t] = "tmp" THEN "orphan" ELSE fd[t]]
  /\ Finish(s, "done")
  /\ UNCHANGED <<ledger, crowded, local, wire, reply, server, bounds>>

\* The process is killed, or an exception reaches scan.py's backstop (a 2xx
\* answer that does not parse): no step of the scan follows.
Crash(s) ==
  /\ s \in Running
  /\ crashes < MaxCrashes
  /\ crashes' = crashes + 1
  /\ fd' = [fd EXCEPT ![s] = None]
  /\ wire' \in {wire, wire \ {s}}
  /\ reply' = [reply EXCEPT ![s] = None]
  /\ Finish(s, "crashed")
  /\ UNCHANGED <<ledger, tmp, crowded, local, server, faults, revisions>>

-----------------------------------------------------------------------------
Send(s) == \/ LoadLedger(s) \/ SkipUpload(s) \/ PostDelta(s)
           \/ RetryExpanded(s) \/ RetryFull(s) \/ GiveUp(s)
           \/ Reauthenticate(s) \/ TokenRejected(s) \/ Accepted(s)
Save(s) == OpenTmp(s) \/ WriteTmp(s) \/ Replace(s) \/ SaveFails(s) \/ Unlink(s)

Next == \/ \E s \in Scans : Extract(s) \/ Send(s) \/ Save(s) \/ Serve(s)
        \/ \E s \in Scans : NetworkError(s) \/ Crash(s)
        \/ Revise

Spec == Init /\ [][Next]_vars

\* A started scan keeps running (it crashes only by Crash), and a wait ends: the
\* service answers within its 300 s limit or the scan's 330 s timeout fires.
FairSpec == /\ Spec
            /\ \A s \in Scans : WF_vars(Send(s) \/ Save(s))
            /\ \A s \in Scans : WF_vars(Serve(s) \/ NetworkError(s))

-----------------------------------------------------------------------------
TypeOK ==
  /\ ledger \in File
  /\ tmp \in File \cup {None}
  /\ fd \in [Scans -> {None, "tmp", "ledger", "orphan"}]
  /\ pc \in [Scans -> Labels]
  /\ payload \in [Scans -> Payloads]
  /\ skipped \in [Scans -> SUBSET Sessions]
  /\ known \in [Scans -> [digests : Entries, chain : Entries]]
  /\ expand \in [Scans -> SUBSET Sessions]
  /\ attempt \in [Scans -> {"delta", "expanded", "full"}]
  /\ body \in [Scans -> Body]
  /\ reauthed \in [Scans -> BOOLEAN]
  /\ outcome \in [Scans -> Outcomes]
  /\ wire \in SUBSET Scans
  /\ reply \in [Scans -> Reply \cup {None}]
  /\ stored \in Entries
  /\ outdated \in SUBSET Sessions
  /\ unfit \in SUBSET Sessions
  /\ scored \in Entries
  /\ uploads \in SUBSET Entries
  /\ accepted \in SUBSET Scans
  /\ crowded \in SUBSET Scans
  /\ faults \in 0..MaxFaults
  /\ crashes \in 0..MaxCrashes
  /\ revisions \in 0..MaxRevisions

-----------------------------------------------------------------------------
(* Properties.                                                              *)

\* "Only an accepted upload updates the ledger" (scan.py, _send), and whole:
\* whatever the interleaving of scans, what uploaded.json loads as is nothing
\* or exactly one merged list the service accepted, never parts of two.
LedgerIsOneUpload == ledger.digests \in uploads

\* "Atomic replace" (delta_upload.py, save_ledger): a save that no other save
\* overlaps never leaves a torn ledger, whatever failed or was killed before or
\* during it, and nothing but a save changes the file. Every scan uses the one
\* temporary file, so two saves at once can tear it.
LoneSaveNeverTears ==
  [][ledger' # ledger /\ ~ ledger'.whole =>
       \E s \in crowded' : pc[s] \in {"write", "replace"} /\ pc'[s] # pc[s]]_vars

\* A scan never gives up on a 409 or 422 the full payload would have avoided:
\* when it reports an HTTP failure its last body had no ref left, unless the
\* service failed or refused for another reason.
GivesUpOnlyInFull ==
  \A s \in Scans : (outcome[s] = "http" /\ reply[s].kind # "error")
                      => ~ HasRefs(body[s])

\* session_chain covers the sessions "in that order, as the server recomputes
\* it over the resolved sessions" (delta_upload.py, build_body): the chain of
\* an accepted body is the chain of the list the service scored.
ChainAsRecomputed ==
  [][\A s \in accepted' \ accepted : body[s].chain = scored']_vars

\* A skipped session the ledger knows leaves the scored set only when the
\* service itself listed it as unresolved, as long as the scan has not fallen
\* back to the full payload.
SkippedKeptUnlessListed ==
  [][\A s \in accepted' \ accepted : attempt[s] # "full" =>
       \A h \in skipped[s] \ expand[s] :
         (payload[s][h] = << >> /\ known[s].digests[h] # None)
            => scored'[h] = known[s].digests[h]]_vars

\* "Sessions skipped this scan (parser raised) that the server already holds
\* stay scored" (scan.py, _send): a skipped session that the ledger records and
\* the service can resolve and validate is in the list it scores.
SkippedStaysScored ==
  [][\A s \in accepted' \ accepted : \A h \in skipped[s] \ (outdated \cup unfit) :
       (payload[s][h] = << >> /\ known[s].digests[h] # None
          /\ stored[h] = known[s].digests[h])
          => scored'[h] = stored[h]]_vars

\* Delta uploads are indistinguishable from full ones: the refinement.
Full == INSTANCE FullUpload WITH payload <- payload, outcome <- outcome, accepted <- accepted,
                                 stored <- stored, scored <- scored
UploadsAsIfFull == Full!Spec

\* With no failure of network, service or process, every scan ends, scored or
\* deliberately skipped, whatever other scans and revisions do to the stored
\* digests between its requests: the 409/422 ladder always reaches the bottom.
ScanScores == \A s \in Scans : pc[s] = "ledger" ~> outcome[s] \in {"done", "skipped"}
=============================================================================
