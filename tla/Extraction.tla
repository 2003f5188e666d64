------------------------------- MODULE Extraction ------------------------------
(***************************************************************************)
(* scanner.extract and the feature cache: a scan lists its sessions,       *)
(* fingerprints and reads each one whose features are not in the cache     *)
(* (pass 1), scores them (pass 2) and replaces features.json. Agents go on *)
(* writing the transcripts meanwhile; scans overlap and share the cache    *)
(* file and its one temporary name.                                        *)
(*                                                                         *)
(* A session is a transcript and the transcripts of its subagents, each    *)
(* abstracted to a version; what is computed from a file is the version    *)
(* that was read. No file returns to an earlier version with the times and *)
(* sizes it had then. A Cursor session has no file of its own and is       *)
(* always read, like one that misses.                                      *)
(***************************************************************************)
EXTENDS Integers

CONSTANTS
  Sessions,
  Prior,      \* pairs: the first started within 24 hours before the second, in
              \* one project
  Planners,   \* sessions that come to make a plan artifact
  Scans, None,
  Torn,       \* a file that was truncated and is not yet written
  Written,    \* the files that change: <<session, "main">> or <<session, "subs">>
  MaxEdits,   \* bound: versions of a file
  MaxSkips    \* bound: reads that fail, scans that fail or are killed

\* The features of a session (per file the version they come from), a fingerprint,
\* an entry of the cache, and what pass 1 keeps of a session.
Versions == 0..MaxEdits
Features == [meta : Versions, events : Versions, tools : Versions, subs : Versions, prior : BOOLEAN]
Fingerprints == [meta : Versions, main : Versions, subs : Versions]
Entries == [fp : Fingerprints, plan : BOOLEAN, feat : Features]
Caches == [Sessions -> {None} \cup Entries]
Found == [fp : Fingerprints, events : {None} \cup Versions, tools : {None} \cup Versions]
Files == [Sessions -> [main : Versions, subs : Versions]]
Outputs == [Sessions -> {None} \cup Features]

ASSUME ExtractionAssumption ==
  /\ Planners \subseteq Sessions /\ Prior \subseteq Sessions \X Sessions
  /\ MaxEdits \in Nat /\ MaxSkips \in Nat
  /\ None \notin Versions /\ None \notin Features /\ None \notin Entries /\ None \notin Found
  /\ None \notin Files /\ None \notin Outputs /\ None \notin Caches
  /\ Torn # None /\ Torn \notin Caches

VARIABLES
  ver,       \* per session the versions of its transcript and its subagents'
  \* per scan: ver when it began, what became of each session, and the output
  \* (see ColdExtraction)
  began, fate, out,
  \* features.json and its temporary file: per session an entry;
  \* None without the file
  features, temp,
  \* the scans
  pc, todo,
  old,       \* the cache the scan loaded
  met,       \* per session of the scan the version its timestamps were listed at
  got,       \* per session None or its fingerprint, and the versions it was
             \* parsed from (None: taken from the cache)
  planned,   \* sessions with a plan artifact (artifact_times_by_project)
  new,       \* per session None or the entry of pass 2
  skips

files == <<features, temp>>
local == <<todo, old, met, got, planned, new>>
vars  == <<ver, began, fate, out, files, pc, local, skips>>

Empty == [s \in Sessions |-> None]

\* Sessions come in the order they were listed in, whatever that is.
First(S) == CHOOSE s \in S : TRUE

\* A planning session has made its plan artifact in every version but the first.
Produced(s, v) == s \in Planners /\ v > 0

Init ==
  /\ ver = [s \in Sessions |-> [main |-> 0, subs |-> 0]]
  /\ began = [sc \in Scans |-> None] /\ out = [sc \in Scans |-> None]
  /\ fate = [sc \in Scans |-> [s \in Sessions |-> "out"]]
  /\ features = None /\ temp = None
  /\ pc = [sc \in Scans |-> "none"] /\ todo = [sc \in Scans |-> {}]
  /\ old = [sc \in Scans |-> Empty] /\ met = [sc \in Scans |-> Empty]
  /\ got = [sc \in Scans |-> Empty] /\ planned = [sc \in Scans |-> {}] /\ new = [sc \in Scans |-> Empty]
  /\ skips = 0

Goto(sc, l) == pc' = [pc EXCEPT ![sc] = l]

\* A scan that is over remembers nothing but its output.
Forgotten(sc) ==
  /\ todo' = [todo EXCEPT ![sc] = {}] /\ old' = [old EXCEPT ![sc] = Empty]
  /\ met' = [met EXCEPT ![sc] = Empty] /\ got' = [got EXCEPT ![sc] = Empty]
  /\ planned' = [planned EXCEPT ![sc] = {}] /\ new' = [new EXCEPT ![sc] = Empty]

Fault == skips < MaxSkips /\ skips' = skips + 1

\* An agent writes on.
Edit(s) ==
  /\ \/ /\ <<s, "main">> \in Written /\ ver[s].main < MaxEdits
        /\ ver' = [ver EXCEPT ![s].main = @ + 1]
     \/ /\ <<s, "subs">> \in Written /\ ver[s].subs < MaxEdits
        /\ ver' = [ver EXCEPT ![s].subs = @ + 1]
  /\ UNCHANGED <<began, fate, out, files, pc, local, skips>>

-----------------------------------------------------------------------------
(* Pass 1.                                                                   *)

\* find_sessions: the sessions S of the providers the scan may read, with their
\* timestamps.
Begin(sc, S) ==
  /\ pc[sc] = "none"
  /\ began' = [began EXCEPT ![sc] = ver]
  /\ met' = [met EXCEPT ![sc] = [s \in Sessions |-> IF s \in S THEN ver[s].main ELSE None]]
  /\ fate' = [fate EXCEPT ![sc] = [s \in Sessions |-> IF s \in S THEN "in" ELSE "out"]]
  /\ Goto(sc, "open")
  /\ UNCHANGED <<ver, out, files, todo, old, got, planned, new, skips>>

\* Mutant: the file is taken for a cache as it is.
OpenCache_Trusting(sc) ==
  /\ pc[sc] = "open"
  /\ old' = [old EXCEPT ![sc] = features]
  /\ todo' = [todo EXCEPT ![sc] = {s \in Sessions : met[sc][s] # None}]
  /\ Goto(sc, "load")
  /\ UNCHANGED <<ver, began, fate, out, files, met, got, planned, new, skips>>

\* FeatureCache: a file that does not parse, or is of another version of the
\* program, is an empty cache.
OpenCache(sc) ==
  /\ pc[sc] = "open"
  /\ \E cache \in {Empty} \cup ({features} \ {None, Torn}) : old' = [old EXCEPT ![sc] = cache]
  /\ todo' = [todo EXCEPT ![sc] = {s \in Sessions : met[sc][s] # None}]
  /\ Goto(sc, "load")
  /\ UNCHANGED <<ver, began, fate, out, files, met, got, planned, new, skips>>

\* file_fingerprint: times and sizes of the files now, and the timestamps as listed.
Fingerprint(sc, s) == [meta |-> met[sc][s], main |-> ver[s].main, subs |-> ver[s].subs]

Hit(sc, s) == old[sc][s] # None /\ old[sc][s].fp = Fingerprint(sc, s)

\* The fingerprint comes before the read. A hit is not read at all.
Look(sc) ==
  /\ pc[sc] = "load" /\ todo[sc] # {}
  /\ LET s == First(todo[sc]) IN
       /\ got' = [got EXCEPT ![sc][s] = [fp |-> Fingerprint(sc, s), events |-> None, tools |-> None]]
       /\ \/ /\ Hit(sc, s)
             /\ planned' = [planned EXCEPT ![sc] = IF old[sc][s].plan THEN @ \cup {s} ELSE @]
             /\ todo' = [todo EXCEPT ![sc] = @ \ {s}] /\ UNCHANGED pc
          \/ /\ ~ Hit(sc, s)
             /\ Goto(sc, "read") /\ UNCHANGED <<planned, todo>>
  /\ UNCHANGED <<ver, began, fate, out, files, old, met, new, skips>>

\* _read_session reads a transcript twice, for events and for tool counts; in
\* pass 1 a plan artifact is noted.
ReadEvents(sc) ==
  /\ pc[sc] \in {"read", "reread"}
  /\ LET s == First(todo[sc]) IN got' = [got EXCEPT ![sc][s].events = ver[s].main]
  /\ Goto(sc, IF pc[sc] = "read" THEN "tools" ELSE "retools")
  /\ UNCHANGED <<ver, began, fate, out, files, todo, old, met, planned, new, skips>>

ReadTools(sc) ==
  /\ pc[sc] \in {"tools", "retools"}
  /\ LET s == First(todo[sc]) IN
       /\ got' = [got EXCEPT ![sc][s].tools = ver[s].main]
       /\ \/ /\ pc[sc] = "tools"
             /\ planned' = [planned EXCEPT ![sc] = IF Produced(s, got[sc][s].events) THEN @ \cup {s} ELSE @]
             /\ todo' = [todo EXCEPT ![sc] = @ \ {s}] /\ Goto(sc, "load")
          \/ /\ pc[sc] = "retools"
             /\ Goto(sc, "score") /\ UNCHANGED <<planned, todo>>
  /\ UNCHANGED <<ver, began, fate, out, files, old, met, new, skips>>

\* _read_session_or_skip: a session that cannot be read is left out, in pass 2
\* with its plan artifact already noted.
Skip(sc) ==
  /\ pc[sc] \in {"read", "tools", "reread", "retools"}
  /\ Fault
  /\ LET s == First(todo[sc]) IN
       /\ todo' = [todo EXCEPT ![sc] = @ \ {s}]
       /\ got' = [got EXCEPT ![sc][s] = None]
       /\ fate' = [fate EXCEPT ![sc][s] = IF pc[sc] \in {"read", "tools"} THEN "out" ELSE "seen"]
  /\ Goto(sc, IF pc[sc] \in {"read", "tools"} THEN "load" ELSE "score")
  /\ UNCHANGED <<ver, began, out, files, old, met, planned, new>>

-----------------------------------------------------------------------------
(* Pass 2.                                                                   *)

ScoreAll(sc) ==
  /\ pc[sc] = "load" /\ todo[sc] = {}
  /\ todo' = [todo EXCEPT ![sc] = {s \in Sessions : got[sc][s] # None}]
  /\ Goto(sc, "score")
  /\ UNCHANGED <<ver, began, fate, out, files, old, met, got, planned, new, skips>>

\* _had_plan_artifact_prior_24h.
HadPrior(sc, s) == \E p \in planned[sc] : <<p, s>> \in Prior

\* Mutant: the plan signal of the earlier scan stands.
Reusable_Stale(sc, s) == got[sc][s].tools = None
Reusable(sc, s) == got[sc][s].tools = None /\ old[sc][s].feat.prior = HadPrior(sc, s)

\* Mutant: the fingerprint is taken when the entry is stored.
Entry_LatePrint(sc, s, f) == [fp |-> Fingerprint(sc, s), plan |-> s \in planned[sc], feat |-> f]
Entry(sc, s, f) == [fp |-> got[sc][s].fp, plan |-> s \in planned[sc], feat |-> f]

Scored(sc, s, f) ==
  /\ new' = [new EXCEPT ![sc][s] = Entry(sc, s, f)]
  /\ todo' = [todo EXCEPT ![sc] = @ \ {s}]
  /\ UNCHANGED pc

\* A hit stands if a cold scan would see the same plan signal; otherwise the
\* session is read after all. _build_per_session reads the subagents.
Score(sc) ==
  /\ pc[sc] = "score" /\ todo[sc] # {}
  /\ LET s == First(todo[sc]) IN
       \/ Reusable(sc, s) /\ Scored(sc, s, old[sc][s].feat)
       \/ /\ ~ Reusable(sc, s) /\ got[sc][s].tools = None
          /\ Goto(sc, "reread") /\ UNCHANGED <<todo, new>>
       \/ /\ got[sc][s].tools # None
          /\ Scored(sc, s, [meta |-> met[sc][s], events |-> got[sc][s].events,
                            tools |-> got[sc][s].tools, subs |-> ver[s].subs,
                            prior |-> HadPrior(sc, s)])
  /\ UNCHANGED <<ver, began, fate, out, files, old, met, got, planned, skips>>

-----------------------------------------------------------------------------
(* save, and the end of the scan.                                            *)

\* The entries of this scan, through one temporary name: opened (truncated),
\* written, and renamed.
OpenTemp(sc) ==
  /\ pc[sc] = "score" /\ todo[sc] = {}
  /\ temp' = Torn
  /\ Goto(sc, "write")
  /\ UNCHANGED <<ver, began, fate, out, features, local, skips>>

WriteTemp(sc) ==
  /\ pc[sc] = "write"
  /\ temp' = new[sc]
  /\ Goto(sc, "rename")
  /\ UNCHANGED <<ver, began, fate, out, features, local, skips>>

\* Another scan's open descriptor follows the file it opened: what it writes then
\* lands in features.json, or nowhere. Its own rename finds no temporary file.
WriteRenamed(sc) ==
  /\ pc[sc] \in {"renamed", "gone"}
  /\ features' = IF pc[sc] = "renamed" THEN new[sc] ELSE features
  /\ Goto(sc, "rename")
  /\ UNCHANGED <<ver, began, fate, out, temp, local, skips>>

\* The end of save ends the scan. lost: what becomes of the files others have open.
Ended(sc, lost) ==
  /\ pc' = [s \in Scans |-> IF s = sc THEN "done"
                            ELSE IF pc[s] \in DOMAIN lost THEN lost[pc[s]] ELSE pc[s]]
  /\ out' = [out EXCEPT ![sc] =
       [s \in Sessions |-> IF new[sc][s] = None THEN None ELSE new[sc][s].feat]]
  /\ Forgotten(sc)
  /\ UNCHANGED <<ver, began, fate, skips>>

Rename(sc) ==
  /\ pc[sc] = "rename" /\ temp # None
  /\ features' = temp /\ temp' = None
  /\ Ended(sc, [write |-> "renamed", renamed |-> "gone"])

\* A write that fails, or the rename without a temporary file.
SaveFails(sc) ==
  /\ \/ pc[sc] = "rename" /\ temp = None /\ UNCHANGED skips
     \/ pc[sc] \in {"write", "renamed", "gone", "rename"} /\ Fault
  /\ Goto(sc, "unlink")
  /\ UNCHANGED <<ver, began, fate, out, files, local>>

\* "any filesystem error is swallowed"; whose the temporary file is does not matter.
Unlink(sc) ==
  /\ pc[sc] = "unlink"
  /\ temp' = None
  /\ UNCHANGED features
  /\ Ended(sc, [write |-> "gone"])

\* An error in pass 2 that is not the session's reading, or a kill.
Stop(sc) ==
  /\ pc[sc] \notin {"none", "done"}
  /\ Fault
  /\ Goto(sc, "done")
  /\ Forgotten(sc)
  /\ UNCHANGED <<ver, began, fate, out, files>>

Scan(sc) == \/ OpenCache(sc) \/ Look(sc) \/ ReadEvents(sc) \/ ReadTools(sc) \/ ScoreAll(sc)
            \/ Score(sc) \/ OpenTemp(sc) \/ WriteTemp(sc) \/ WriteRenamed(sc)
            \/ Rename(sc) \/ SaveFails(sc) \/ Unlink(sc) \/ Skip(sc) \/ Stop(sc)

Next == \/ \E s \in Sessions : Edit(s)
        \/ \E sc \in Scans : Scan(sc) \/ \E S \in SUBSET Sessions : Begin(sc, S)

Spec == Init /\ [][Next]_vars

-----------------------------------------------------------------------------
Labels == {"none", "open", "load", "read", "tools", "score", "reread", "retools",
           "write", "renamed", "gone", "rename", "unlink", "done"}

TypeOK ==
  /\ ver \in Files
  /\ began \in [Scans -> {None} \cup Files]
  /\ fate \in [Scans -> [Sessions -> {"in", "seen", "out"}]]
  /\ out \in [Scans -> {None} \cup Outputs]
  /\ features \in {None, Torn} \cup Caches
  /\ temp \in {None, Torn} \cup Caches
  /\ pc \in [Scans -> Labels] /\ todo \in [Scans -> SUBSET Sessions]
  /\ old \in [Scans -> Caches] /\ new \in [Scans -> Caches]
  /\ met \in [Scans -> [Sessions -> {None} \cup Versions]]
  /\ got \in [Scans -> [Sessions -> {None} \cup Found]] /\ planned \in [Scans -> SUBSET Sessions]
  /\ skips \in 0..MaxSkips

-----------------------------------------------------------------------------
(* Properties.                                                               *)

\* A cache entry that the next scan would take for its session, as the files are
\* now, holds what that scan would compute from them.
CacheSound ==
  features \notin {None, Torn} =>
    \A s \in Sessions :
      (/\ features[s] # None
       /\ features[s].fp = [meta |-> ver[s].main, main |-> ver[s].main, subs |-> ver[s].subs]) =>
      /\ {features[s].feat.meta, features[s].feat.events, features[s].feat.tools} = {ver[s].main}
      /\ features[s].feat.subs = ver[s].subs
      /\ features[s].plan = Produced(s, ver[s].main)

\* "Unchanged sessions are reused from it instead of re-parsed; the output is
\* identical either way" (extract): every output is one of a scan without cache.
Cold == INSTANCE ColdExtraction
SameAsCold == Cold!Spec
=============================================================================
