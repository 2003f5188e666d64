----------------------------- MODULE ExtractionProofs ----------------------------
(***************************************************************************)
(* The feature cache for any sessions, scans, edits, failures and kills:   *)
(* types, CacheSound, and the refinement of ColdExtraction. The            *)
(* strengthening is that every entry is Honest: its features are not older *)
(* than its fingerprint, wherever it is (in a file, loaded, or about to be *)
(* saved); scan by scan, that what pass 1 keeps of a session lies between  *)
(* the listing and now, and is parsed or a hit; and that a session of the  *)
(* scan is to be read, scored, or was given up as unreadable.              *)
(***************************************************************************)
EXTENDS Extraction, TLAPS

\* v: the files of s.
Honest(e, s, v) ==
  /\ e.fp.meta = e.feat.meta /\ e.fp.meta <= e.fp.main
  /\ e.fp.main <= e.feat.events /\ e.feat.events <= v.main
  /\ e.fp.main <= e.feat.tools /\ e.feat.tools <= v.main
  /\ e.fp.subs <= e.feat.subs /\ e.feat.subs <= v.subs
  /\ Produced(s, e.fp.main) => e.plan
  /\ e.plan => Produced(s, v.main)

HonestCache(cache) == \A s \in Sessions : cache[s] # None => Honest(cache[s], s, ver[s])

FileInv == (features \notin {None, Torn} => HonestCache(features)) /\ (temp \notin {None, Torn} => HonestCache(temp))

Early == {"none", "open", "load", "read", "tools"}
Reading == {"read", "tools", "reread", "retools"}
Pass2 == {"score", "reread", "retools"}

BeganInv(sc) ==
  /\ pc[sc] = "none" <=> began[sc] = None
  /\ pc[sc] # "done" => out[sc] = None
  /\ began[sc] # None =>
       \A s \in Sessions : began[sc][s].main <= ver[s].main /\ began[sc][s].subs <= ver[s].subs

MetInv(sc) ==
  \A s \in Sessions : /\ met[sc][s] # None => began[sc] # None /\ met[sc][s] = began[sc][s].main
                      /\ got[sc][s] # None => met[sc][s] # None

\* What pass 1 keeps of a session; g is got[sc][s], b is began[sc][s], v the files of s.
Kept(g, b, v) ==
  /\ g.fp.meta = b.main /\ b.main <= g.fp.main /\ g.fp.main <= v.main
  /\ b.subs <= g.fp.subs /\ g.fp.subs <= v.subs
  /\ g.events # None => g.fp.main <= g.events /\ g.events <= v.main
  /\ g.tools # None => g.events # None /\ g.fp.main <= g.tools /\ g.tools <= v.main
GotInv(sc) == \A s \in Sessions : got[sc][s] # None => began[sc] # None /\ Kept(got[sc][s], began[sc][s], ver[s])

\* A session whose turn in pass 1 is over was parsed or hit.
AtHand(sc, s) == pc[sc] \in {"read", "tools"} /\ s = First(todo[sc])
SettledInv(sc) ==
  \A s \in Sessions : got[sc][s] # None /\ ~ AtHand(sc, s) =>
    /\ got[sc][s].tools = None => old[sc][s] # None /\ old[sc][s].fp = got[sc][s].fp
    /\ Produced(s, got[sc][s].fp.main) => s \in planned[sc]

TodoInv(sc) ==
  /\ pc[sc] \in Reading => todo[sc] # {} /\ got[sc][First(todo[sc])] # None
  /\ pc[sc] \in {"tools", "retools"} => got[sc][First(todo[sc])].events # None
  /\ pc[sc] \in {"load", "read", "tools"} => \A s \in todo[sc] : met[sc][s] # None
  /\ pc[sc] \in Pass2 => \A s \in todo[sc] : got[sc][s] # None
  /\ pc[sc] \in {"none", "open"} => \A s \in Sessions : got[sc][s] = None

PlannedInv(sc) == \A s \in planned[sc] : Produced(s, ver[s].main)

\* What pass 2 has made is an honest entry and part of a cold scan's output.
\* p: planned[sc].
Sound(e, s, b, v, p) ==
  /\ Honest(e, s, v)
  /\ e.feat.meta = b.main /\ b.subs <= e.feat.subs
  /\ e.feat.prior <=> \E q \in p : <<q, s>> \in Prior
  /\ Produced(s, b.main) => s \in p
NewInv(sc) ==
  \A s \in Sessions : new[sc][s] # None =>
    /\ pc[sc] \notin Early /\ began[sc] # None
    /\ Sound(new[sc][s], s, began[sc][s], ver[s], planned[sc])

ScanInv(sc) ==
  /\ BeganInv(sc) /\ MetInv(sc) /\ HonestCache(old[sc]) /\ GotInv(sc) /\ SettledInv(sc)
  /\ TodoInv(sc) /\ PlannedInv(sc) /\ NewInv(sc)

\* What has become of a session, by what the scan holds of it.
FateInv(sc) ==
  /\ pc[sc] \in {"none", "open"} => planned[sc] = {}
  /\ pc[sc] \in {"load", "read", "tools"} => planned[sc] \cap todo[sc] = {}
  /\ pc[sc] = "open" => \A s \in Sessions : fate[sc][s] = IF met[sc][s] # None THEN "in" ELSE "out"
  /\ pc[sc] \in {"load", "read", "tools"} =>
       \A s \in Sessions : fate[sc][s] = IF s \in todo[sc] \/ got[sc][s] # None THEN "in" ELSE "out"
  /\ pc[sc] \in Pass2 => \A s \in todo[sc] : new[sc][s] = None
  /\ pc[sc] \notin Early \cup {"done"} =>
       \A s \in Sessions :
         /\ fate[sc][s] = "in" <=> s \in todo[sc] \/ new[sc][s] # None
         /\ fate[sc][s] # "out" /\ Produced(s, began[sc][s].main) => s \in planned[sc]
  /\ \A s \in planned[sc] : fate[sc][s] # "out"
  /\ pc[sc] \in {"write", "renamed", "gone", "rename", "unlink"} => todo[sc] = {}

IInv == TypeOK /\ FileInv /\ \A sc \in Scans : ScanInv(sc) /\ FateInv(sc)

-----------------------------------------------------------------------------
File == [main : Versions, subs : Versions]

LEMMA VersionsAreInts == \A v \in Versions : v \in Int /\ v # None
BY ExtractionAssumption DEF Versions

\* Later files leave honest entries, plans and what was kept as they are.
LEMMA ProducedLater ==
  ASSUME NEW s, NEW v \in Versions, NEW w \in Versions, v <= w, Produced(s, v)
  PROVE  Produced(s, w)
BY VersionsAreInts DEF Produced

LEMMA HonestLater ==
  ASSUME NEW s, NEW e \in Entries, NEW v \in File, NEW w \in File, v.main <= w.main, v.subs <= w.subs,
         Honest(e, s, v)
  PROVE  Honest(e, s, w)
<1>1. /\ v.main \in Versions /\ w.main \in Versions /\ v.subs \in Versions /\ w.subs \in Versions
      /\ e.feat.events \in Versions /\ e.feat.tools \in Versions /\ e.feat.subs \in Versions
  BY DEF File, Entries, Features
<1>2. /\ e.feat.events <= w.main /\ e.feat.tools <= w.main /\ e.feat.subs <= w.subs
  BY <1>1, VersionsAreInts DEF Honest
<1>3. e.plan => Produced(s, w.main)
  BY <1>1, ProducedLater DEF Honest
<1>4. QED BY <1>2, <1>3 DEF Honest

LEMMA KeptLater ==
  ASSUME NEW g \in Found, NEW b \in File, NEW v \in File, NEW w \in File, v.main <= w.main, v.subs <= w.subs,
         Kept(g, b, v)
  PROVE  Kept(g, b, w)
<1>1. /\ v.main \in Int /\ w.main \in Int /\ v.subs \in Int /\ w.subs \in Int
      /\ g.fp.main \in Int /\ g.fp.subs \in Int
      /\ g.events # None => g.events \in Int
      /\ g.tools # None => g.tools \in Int
  BY VersionsAreInts DEF File, Found, Fingerprints
<1>2. QED BY <1>1 DEF Kept

LEMMA FirstIsIn ==
  ASSUME NEW S, S # {}
  PROVE  First(S) \in S
BY DEF First

\* No file gets older.
Later == \A s \in Sessions : ver[s].main <= ver'[s].main /\ ver[s].subs <= ver'[s].subs

LEMMA FilesTyped ==
  ASSUME TypeOK, NEW s \in Sessions
  PROVE  /\ ver[s] \in File
         /\ \A sc \in Scans : began[sc] # None => began[sc][s] \in File
         /\ \A sc \in Scans : old[sc][s] # None => old[sc][s] \in Entries
         /\ \A sc \in Scans : new[sc][s] # None => new[sc][s] \in Entries
         /\ \A sc \in Scans : got[sc][s] # None => got[sc][s] \in Found
         /\ \A sc \in Scans : met[sc][s] # None => met[sc][s] \in Versions
BY DEF TypeOK, Files, File, Caches

LEMMA CacheLater ==
  ASSUME TypeOK, TypeOK', Later, NEW cache \in Caches, HonestCache(cache)
  PROVE  HonestCache(cache)'
<1> SUFFICES ASSUME NEW s \in Sessions, cache[s] # None
             PROVE  Honest(cache[s], s, ver'[s])
  BY DEF HonestCache
<1>1. cache[s] \in Entries
  BY DEF Caches
<1>2. ver[s] \in File /\ ver'[s] \in File
  BY DEF TypeOK, Files, File
<1>3. QED BY <1>1, <1>2, HonestLater DEF HonestCache, Later

\* A scan that does nothing in a step keeps its invariant.
LEMMA Untouched ==
  ASSUME TypeOK, TypeOK', Later, NEW sc \in Scans, ScanInv(sc),
         began'[sc] = began[sc], out'[sc] = out[sc], todo'[sc] = todo[sc], old'[sc] = old[sc], met'[sc] = met[sc],
         got'[sc] = got[sc], planned'[sc] = planned[sc], new'[sc] = new[sc],
         pc'[sc] = pc[sc] \/ (pc[sc] \in {"write", "renamed"} /\ pc'[sc] \in {"renamed", "gone"})
  PROVE  ScanInv(sc)'
<1>1. \A s \in Sessions : ver[s] \in File /\ ver'[s] \in File
  BY FilesTyped DEF TypeOK, Files, File
<1>2. \A s \in Sessions : /\ ver[s].main \in Int /\ ver[s].subs \in Int
                          /\ ver'[s].main \in Int /\ ver'[s].subs \in Int
  BY <1>1, VersionsAreInts DEF File
<1>3. BeganInv(sc)'
  <2>1. ASSUME NEW s \in Sessions, began[sc] # None
        PROVE  began[sc][s].main \in Int /\ began[sc][s].subs \in Int
    BY <2>1, FilesTyped, VersionsAreInts DEF File
  <2>2. QED BY <1>2, <2>1 DEF ScanInv, BeganInv, Later
<1>4. MetInv(sc)'
  BY DEF ScanInv, MetInv
<1>5. HonestCache(old[sc])'
  <2>1. old[sc] \in Caches /\ HonestCache(old[sc])
    BY DEF TypeOK, ScanInv
  <2>2. \A s \in Sessions : old[sc][s] # None => Honest(old[sc][s], s, ver'[s])
    BY <1>1, <2>1, FilesTyped, HonestLater DEF HonestCache, Later
  <2>3. QED BY <2>2 DEF HonestCache
<1>6. GotInv(sc)'
  <2>1. ASSUME NEW s \in Sessions, got[sc][s] # None
        PROVE  began[sc] # None /\ Kept(got[sc][s], began[sc][s], ver'[s])
    <3>1. began[sc] # None /\ Kept(got[sc][s], began[sc][s], ver[s])
      BY <2>1 DEF ScanInv, GotInv
    <3>2. QED BY <1>1, <2>1, <3>1, FilesTyped, KeptLater DEF Later
  <2>2. QED BY <2>1 DEF GotInv
<1>7. SettledInv(sc)'
  BY DEF ScanInv, SettledInv, AtHand
<1>8. TodoInv(sc)'
  BY DEF ScanInv, TodoInv, Reading, Pass2
<1>9. PlannedInv(sc)'
  <2>1. ASSUME NEW s \in planned[sc]
        PROVE  Produced(s, ver'[s].main)
    <3>1. s \in Sessions /\ Produced(s, ver[s].main)
      BY <2>1 DEF ScanInv, PlannedInv, TypeOK
    <3>2. QED BY <1>1, <3>1, ProducedLater DEF Later, File
  <2>2. QED BY <2>1 DEF PlannedInv
<1>10. NewInv(sc)'
  <2>1. ASSUME NEW s \in Sessions, new[sc][s] # None
        PROVE  /\ pc'[sc] \notin Early /\ began[sc] # None
               /\ Sound(new[sc][s], s, began[sc][s], ver'[s], planned[sc])
    <3>1. /\ pc[sc] \notin Early /\ began[sc] # None
          /\ Sound(new[sc][s], s, began[sc][s], ver[s], planned[sc])
      BY <2>1 DEF ScanInv, NewInv
    <3>2. Honest(new[sc][s], s, ver'[s])
      BY <1>1, <2>1, <3>1, FilesTyped, HonestLater DEF Later, Sound
    <3>3. pc'[sc] \notin Early
      BY <3>1 DEF Early
    <3>4. QED BY <3>1, <3>2, <3>3 DEF Sound
  <2>2. QED BY <2>1 DEF NewInv
<1>11. QED BY <1>3, <1>4, <1>5, <1>6, <1>7, <1>8, <1>9, <1>10 DEF ScanInv

-----------------------------------------------------------------------------
(* Types.                                                                    *)

LEMMA EmptyTyped ==
  /\ Empty \in Caches
  /\ Empty \in [Sessions -> {None} \cup Versions] /\ Empty \in [Sessions -> {None} \cup Found]
BY DEF Empty, Caches

LEMMA ForgottenTyped ==
  ASSUME TypeOK, NEW sc \in Scans, Forgotten(sc)
  PROVE  /\ todo' \in [Scans -> SUBSET Sessions]
         /\ old' \in [Scans -> Caches] /\ new' \in [Scans -> Caches]
         /\ met' \in [Scans -> [Sessions -> {None} \cup Versions]]
         /\ got' \in [Scans -> [Sessions -> {None} \cup Found]] /\ planned' \in [Scans -> SUBSET Sessions]
BY EmptyTyped DEF TypeOK, Forgotten

LEMMA FaultTyped ==
  ASSUME TypeOK, Fault
  PROVE  skips' \in 0..MaxSkips
BY ExtractionAssumption DEF TypeOK, Fault

LEMMA TodoSession ==
  ASSUME TypeOK, NEW sc \in Scans, todo[sc] # {}
  PROVE  First(todo[sc]) \in Sessions /\ First(todo[sc]) \in todo[sc]
BY FirstIsIn DEF TypeOK

LEMMA FileEdit ==
  ASSUME NEW r \in File, NEW n \in Versions
  PROVE  /\ [r EXCEPT !.main = n] \in File /\ [r EXCEPT !.subs = n] \in File
         /\ [r EXCEPT !.main = n].main = n /\ [r EXCEPT !.main = n].subs = r.subs
         /\ [r EXCEPT !.subs = n].subs = n /\ [r EXCEPT !.subs = n].main = r.main
BY DEF File

LEMMA SetsTyped ==
  ASSUME NEW f \in [Scans -> SUBSET Sessions], NEW sc \in Scans, NEW S \in SUBSET Sessions
  PROVE  [f EXCEPT ![sc] = S] \in [Scans -> SUBSET Sessions]
OBVIOUS

LEMMA EditTyped ==
  ASSUME TypeOK, NEW s \in Sessions, Edit(s)
  PROVE  TypeOK' /\ Later
<1>1. \A x \in Sessions : ver[x] \in File /\ ver[x].main \in 0..MaxEdits /\ ver[x].subs \in 0..MaxEdits
  BY FilesTyped DEF File, Versions
<1>2. PICK r \in File : /\ ver' = [ver EXCEPT ![s] = r]
                        /\ ver[s].main <= r.main /\ ver[s].subs <= r.subs
  <2>1. CASE ver[s].main < MaxEdits /\ ver' = [ver EXCEPT ![s].main = @ + 1]
    <3>1. ver[s].main + 1 \in Versions
      BY <1>1, <2>1, ExtractionAssumption DEF Versions
    <3> DEFINE r == [ver[s] EXCEPT !.main = ver[s].main + 1]
    <3>2. r \in File /\ r.main = ver[s].main + 1 /\ r.subs = ver[s].subs
      BY <1>1, <3>1, FileEdit
    <3>3. ver' = [ver EXCEPT ![s] = r]
      BY <2>1
    <3> HIDE DEF r
    <3>4. ver[s].main <= r.main /\ ver[s].subs <= r.subs
      BY <1>1, <3>2
    <3>5. QED BY <3>2, <3>3, <3>4
  <2>2. CASE ver[s].subs < MaxEdits /\ ver' = [ver EXCEPT ![s].subs = @ + 1]
    <3>1. ver[s].subs + 1 \in Versions
      BY <1>1, <2>2, ExtractionAssumption DEF Versions
    <3> DEFINE r == [ver[s] EXCEPT !.subs = ver[s].subs + 1]
    <3>2. r \in File /\ r.main = ver[s].main /\ r.subs = ver[s].subs + 1
      BY <1>1, <3>1, FileEdit
    <3>3. ver' = [ver EXCEPT ![s] = r]
      BY <2>2
    <3> HIDE DEF r
    <3>4. ver[s].main <= r.main /\ ver[s].subs <= r.subs
      BY <1>1, <3>2
    <3>5. QED BY <3>2, <3>3, <3>4
  <2>3. QED BY <2>1, <2>2 DEF Edit
<1>3. ver' \in Files
  BY <1>2 DEF TypeOK, Files, File
<1>4. \A x \in Sessions : ver'[x] = IF x = s THEN r ELSE ver[x]
  BY <1>2 DEF TypeOK, Files
<1>5. Later
  BY <1>1, <1>2, <1>4 DEF Later
<1>6. QED BY <1>3, <1>5 DEF TypeOK, Edit, files, local

LEMMA SameFilesLater ==
  ASSUME TypeOK, ver' = ver
  PROVE  Later
<1>1. \A s \in Sessions : ver[s].main \in Int /\ ver[s].subs \in Int
  BY FilesTyped, VersionsAreInts DEF File
<1>2. QED BY <1>1 DEF Later

LEMMA BeginTyped ==
  ASSUME TypeOK, NEW sc \in Scans, NEW S \in SUBSET Sessions, Begin(sc, S)
  PROVE  TypeOK'
<1>1. [s \in Sessions |-> IF s \in S THEN ver[s].main ELSE None] \in [Sessions -> {None} \cup Versions]
  BY FilesTyped DEF File
<1>2. [s \in Sessions |-> IF s \in S THEN "in" ELSE "out"] \in [Sessions -> {"in", "seen", "out"}]
  OBVIOUS
<1>3. QED BY <1>1, <1>2 DEF TypeOK, Begin, Goto, Labels, files

LEMMA FingerprintTyped ==
  ASSUME TypeOK, NEW sc \in Scans, NEW s \in Sessions, met[sc][s] # None
  PROVE  Fingerprint(sc, s) \in Fingerprints
BY FilesTyped DEF Fingerprint, Fingerprints, File

LEMMA OpenCacheTyped ==
  ASSUME TypeOK, NEW sc \in Scans, OpenCache(sc)
  PROVE  TypeOK'
<1>1. PICK cache \in {Empty} \cup ({features} \ {None, Torn}) : old' = [old EXCEPT ![sc] = cache]
  BY DEF OpenCache
<1>2. cache \in Caches
  BY EmptyTyped DEF TypeOK
<1>3. QED BY <1>1, <1>2 DEF TypeOK, OpenCache, Goto, Labels, files

LEMMA LookTyped ==
  ASSUME TypeOK, NEW sc \in Scans, TodoInv(sc), Look(sc)
  PROVE  TypeOK'
<1> DEFINE s == First(todo[sc])
<1>1. s \in Sessions /\ s \in todo[sc] /\ pc[sc] = "load"
  BY TodoSession DEF Look
<1>2. [fp |-> Fingerprint(sc, s), events |-> None, tools |-> None] \in Found
  BY <1>1, FingerprintTyped DEF TodoInv, Found
<1>3. got' = [got EXCEPT ![sc][s] = [fp |-> Fingerprint(sc, s), events |-> None, tools |-> None]]
  BY DEF Look
<1>4. \/ todo' = [todo EXCEPT ![sc] = @ \ {s}] /\ UNCHANGED pc
         /\ planned' = [planned EXCEPT ![sc] = IF old[sc][s].plan THEN @ \cup {s} ELSE @]
      \/ pc' = [pc EXCEPT ![sc] = "read"] /\ UNCHANGED <<planned, todo>>
  BY DEF Look, Goto
<1> HIDE DEF s
<1>5. planned' \in [Scans -> SUBSET Sessions] /\ todo' \in [Scans -> SUBSET Sessions]
  <2>1. todo[sc] \ {s} \in SUBSET Sessions /\ planned[sc] \in SUBSET Sessions
        /\ planned[sc] \cup {s} \in SUBSET Sessions
    BY <1>1 DEF TypeOK
  <2> DEFINE P == IF old[sc][s].plan THEN planned[sc] \cup {s} ELSE planned[sc]
  <2>2. P \in SUBSET Sessions
    BY <2>1
  <2>3. planned' = planned \/ planned' = [planned EXCEPT ![sc] = P]
    BY <1>4, Zenon
  <2>4. todo' = todo \/ todo' = [todo EXCEPT ![sc] = todo[sc] \ {s}]
    BY <1>4
  <2> HIDE DEF P
  <2>5. planned \in [Scans -> SUBSET Sessions] /\ todo \in [Scans -> SUBSET Sessions]
    BY DEF TypeOK
  <2>6. QED BY <2>1, <2>2, <2>3, <2>4, <2>5, SetsTyped
<1>6. pc' \in [Scans -> Labels]
  BY <1>4 DEF TypeOK, Labels
<1>7. got' \in [Scans -> [Sessions -> {None} \cup Found]]
  BY <1>1, <1>2, <1>3 DEF TypeOK
<1>8. QED BY <1>7, <1>5, <1>6 DEF TypeOK, Look, files

LEMMA ReadEventsTyped ==
  ASSUME TypeOK, NEW sc \in Scans, TodoInv(sc), ReadEvents(sc)
  PROVE  TypeOK'
<1> DEFINE s == First(todo[sc])
<1>1. s \in Sessions /\ got[sc][s] # None
  BY TodoSession DEF ReadEvents, TodoInv, Reading
<1>2. got[sc][s] \in Found /\ ver[s].main \in Versions
  BY <1>1, FilesTyped DEF File
<1>3. got' = [got EXCEPT ![sc][s].events = ver[s].main]
  BY DEF ReadEvents
<1>4. pc' \in [Scans -> Labels]
  BY DEF TypeOK, ReadEvents, Goto, Labels
<1> HIDE DEF s
<1>5. [got[sc][s] EXCEPT !.events = ver[s].main] \in Found
  BY <1>2 DEF Found
<1>6. got' \in [Scans -> [Sessions -> {None} \cup Found]]
  BY <1>1, <1>3, <1>5 DEF TypeOK
<1>7. QED BY <1>4, <1>6 DEF TypeOK, ReadEvents, files

LEMMA ReadToolsTyped ==
  ASSUME TypeOK, NEW sc \in Scans, TodoInv(sc), ReadTools(sc)
  PROVE  TypeOK'
<1> DEFINE s == First(todo[sc])
<1>1. s \in Sessions /\ got[sc][s] # None
  BY TodoSession DEF ReadTools, TodoInv, Reading
<1>2. got[sc][s] \in Found /\ ver[s].main \in Versions
  BY <1>1, FilesTyped DEF File
<1>3. got' = [got EXCEPT ![sc][s].tools = ver[s].main]
  BY DEF ReadTools
<1>4. \/ /\ planned' = [planned EXCEPT ![sc] = IF Produced(s, got[sc][s].events) THEN @ \cup {s} ELSE @]
         /\ todo' = [todo EXCEPT ![sc] = @ \ {s}] /\ pc' = [pc EXCEPT ![sc] = "load"]
      \/ pc' = [pc EXCEPT ![sc] = "score"] /\ UNCHANGED <<planned, todo>>
  BY DEF ReadTools, Goto
<1> HIDE DEF s
<1>5. planned' \in [Scans -> SUBSET Sessions] /\ todo' \in [Scans -> SUBSET Sessions]
  <2>1. todo[sc] \ {s} \in SUBSET Sessions /\ planned[sc] \in SUBSET Sessions
        /\ planned[sc] \cup {s} \in SUBSET Sessions
    BY <1>1 DEF TypeOK
  <2> DEFINE P == IF Produced(s, got[sc][s].events) THEN planned[sc] \cup {s} ELSE planned[sc]
  <2>2. P \in SUBSET Sessions
    BY <2>1
  <2>3. planned' = planned \/ planned' = [planned EXCEPT ![sc] = P]
    BY <1>4, Zenon
  <2>4. todo' = todo \/ todo' = [todo EXCEPT ![sc] = todo[sc] \ {s}]
    BY <1>4
  <2> HIDE DEF P
  <2>5. planned \in [Scans -> SUBSET Sessions] /\ todo \in [Scans -> SUBSET Sessions]
    BY DEF TypeOK
  <2>6. QED BY <2>1, <2>2, <2>3, <2>4, <2>5, SetsTyped
<1>6. pc' \in [Scans -> Labels]
  BY <1>4 DEF TypeOK, Labels
<1>7. [got[sc][s] EXCEPT !.tools = ver[s].main] \in Found
  BY <1>2 DEF Found
<1>8. got' \in [Scans -> [Sessions -> {None} \cup Found]]
  BY <1>1, <1>3, <1>7 DEF TypeOK
<1>9. QED BY <1>8, <1>5, <1>6 DEF TypeOK, ReadTools, files

LEMMA SkipTyped ==
  ASSUME TypeOK, NEW sc \in Scans, TodoInv(sc), Skip(sc)
  PROVE  TypeOK'
<1>1. First(todo[sc]) \in Sessions
  BY TodoSession DEF Skip, TodoInv, Reading
<1>2. skips' \in 0..MaxSkips
  BY FaultTyped DEF Skip
<1>3. QED BY <1>1, <1>2 DEF TypeOK, Skip, Goto, Labels, files

LEMMA ScoreAllTyped ==
  ASSUME TypeOK, NEW sc \in Scans, ScoreAll(sc)
  PROVE  TypeOK'
BY DEF TypeOK, ScoreAll, Goto, Labels, files

\* The features of a session read in this scan.
Fresh(sc, s) ==
  [meta |-> met[sc][s], events |-> got[sc][s].events, tools |-> got[sc][s].tools, subs |-> ver[s].subs,
   prior |-> HadPrior(sc, s)]

LEMMA EntryTyped ==
  ASSUME TypeOK, NEW sc \in Scans, NEW s \in Sessions, got[sc][s] # None, NEW f \in Features
  PROVE  Entry(sc, s, f) \in Entries
<1>1. got[sc][s].fp \in Fingerprints
  BY FilesTyped DEF Found
<1>2. (s \in planned[sc]) \in BOOLEAN
  OBVIOUS
<1> DEFINE plan == s \in planned[sc]
<1>3. plan \in BOOLEAN
  BY <1>2
<1>4. Entry(sc, s, f) = [fp |-> got[sc][s].fp, plan |-> plan, feat |-> f]
  BY Zenon DEF Entry
<1> HIDE DEF plan
<1>5. QED BY <1>1, <1>3, <1>4 DEF Entries

LEMMA FreshTyped ==
  ASSUME TypeOK, NEW sc \in Scans, NEW s \in Sessions, got[sc][s] # None, met[sc][s] # None,
         got[sc][s].events # None, got[sc][s].tools # None
  PROVE  Fresh(sc, s) \in Features
<1>1. /\ met[sc][s] \in Versions /\ got[sc][s].events \in Versions /\ got[sc][s].tools \in Versions
      /\ ver[s].subs \in Versions
  BY FilesTyped DEF Found, File
<1> DEFINE prior == HadPrior(sc, s)
<1>2. prior \in BOOLEAN
  BY DEF HadPrior
<1>3. Fresh(sc, s) = [meta |-> met[sc][s], events |-> got[sc][s].events, tools |-> got[sc][s].tools,
                      subs |-> ver[s].subs, prior |-> prior]
  BY Zenon DEF Fresh
<1> HIDE DEF prior
<1>4. QED BY <1>1, <1>2, <1>3 DEF Features

\* The features pass 2 stores for s.
Chosen(sc, s, f) == \/ f = old[sc][s].feat /\ Reusable(sc, s)
                    \/ f = Fresh(sc, s) /\ got[sc][s].tools # None

LEMMA ScoreSteps ==
  ASSUME TypeOK, NEW sc \in Scans, Score(sc)
  PROVE  /\ pc[sc] = "score" /\ First(todo[sc]) \in Sessions /\ First(todo[sc]) \in todo[sc]
         /\ UNCHANGED <<ver, began, fate, out, features, temp, old, met, got, planned, skips>>
         /\ \/ \E f : Chosen(sc, First(todo[sc]), f) /\ Scored(sc, First(todo[sc]), f)
            \/ /\ ~ Reusable(sc, First(todo[sc])) /\ got[sc][First(todo[sc])].tools = None
               /\ pc' = [pc EXCEPT ![sc] = "reread"] /\ UNCHANGED <<todo, new>>
BY TodoSession DEF Score, Chosen, Fresh, Goto, files

LEMMA ScoreTyped ==
  ASSUME TypeOK, NEW sc \in Scans, ScanInv(sc), Score(sc)
  PROVE  TypeOK'
<1> DEFINE s == First(todo[sc])
<1>1. /\ pc[sc] = "score" /\ s \in Sessions /\ s \in todo[sc]
      /\ UNCHANGED <<ver, began, fate, out, features, temp, old, met, got, planned, skips>>
  BY ScoreSteps
<1>2. got[sc][s] # None /\ met[sc][s] # None
  BY <1>1 DEF ScanInv, TodoInv, MetInv, Pass2
<1>3. ASSUME NEW f, Chosen(sc, s, f)
      PROVE  f \in Features
  <2>1. CASE f = old[sc][s].feat /\ Reusable(sc, s)
    <3>1. ~ AtHand(sc, s)
      BY <1>1 DEF AtHand
    <3>2. old[sc][s] # None
      BY <1>1, <1>2, <2>1, <3>1 DEF ScanInv, SettledInv, Reusable
    <3>3. QED BY <1>1, <2>1, <3>2, FilesTyped DEF Entries
  <2>2. CASE f = Fresh(sc, s) /\ got[sc][s].tools # None
    <3>1. got[sc][s].events # None
      BY <1>1, <1>2, <2>2 DEF ScanInv, GotInv, Kept
    <3>2. QED BY <1>1, <1>2, <2>2, <3>1, FreshTyped
  <2>3. QED BY <1>3, <2>1, <2>2 DEF Chosen
<1>4. \/ \E f : Chosen(sc, s, f) /\ Scored(sc, s, f)
      \/ /\ ~ Reusable(sc, s) /\ got[sc][s].tools = None
         /\ pc' = [pc EXCEPT ![sc] = "reread"] /\ UNCHANGED <<todo, new>>
  BY ScoreSteps, Zenon
<1> HIDE DEF s
<1>5. CASE pc' = [pc EXCEPT ![sc] = "reread"] /\ UNCHANGED <<todo, new>>
  BY <1>1, <1>5 DEF TypeOK, Labels
<1>6. ASSUME NEW f \in Features, Scored(sc, s, f)
      PROVE  TypeOK'
  <2>1. Entry(sc, s, f) \in Entries
    BY <1>1, <1>2, EntryTyped
  <2>2. /\ new' = [new EXCEPT ![sc][s] = Entry(sc, s, f)]
        /\ todo' = [todo EXCEPT ![sc] = todo[sc] \ {s}] /\ UNCHANGED pc
    BY <1>6 DEF Scored
  <2>3. new' \in [Scans -> Caches]
    BY <1>1, <2>1, <2>2 DEF TypeOK, Caches
  <2>4. todo' \in [Scans -> SUBSET Sessions]
    BY <2>2, SetsTyped DEF TypeOK
  <2>5. QED BY <1>1, <2>2, <2>3, <2>4 DEF TypeOK
<1>7. QED BY <1>3, <1>4, <1>5, <1>6

LEMMA WriteTyped ==
  ASSUME TypeOK, NEW sc \in Scans, OpenTemp(sc) \/ WriteTemp(sc) \/ WriteRenamed(sc)
  PROVE  TypeOK'
<1>1. new[sc] \in Caches
  BY DEF TypeOK
<1>2. CASE OpenTemp(sc)
  BY <1>2 DEF TypeOK, OpenTemp, Goto, Labels, local
<1>3. CASE WriteTemp(sc)
  BY <1>1, <1>3 DEF TypeOK, WriteTemp, Goto, Labels, local
<1>4. CASE WriteRenamed(sc)
  BY <1>1, <1>4 DEF TypeOK, WriteRenamed, Goto, Labels, local
<1>5. QED BY <1>2, <1>3, <1>4

\* The features that leave a scan.
Output(sc) == [s \in Sessions |-> IF new[sc][s] = None THEN None ELSE new[sc][s].feat]

LEMMA OutputTyped ==
  ASSUME TypeOK, NEW sc \in Scans
  PROVE  Output(sc) \in Outputs
<1>1. \A s \in Sessions : new[sc][s] # None => new[sc][s].feat \in Features
  BY FilesTyped DEF Entries
<1>2. QED BY <1>1 DEF Output, Outputs

LEMMA EndedTyped ==
  ASSUME TypeOK, NEW sc \in Scans, NEW lost, Ended(sc, lost), \A l \in DOMAIN lost : lost[l] \in Labels,
         features' \in {features, temp}, temp' = None
  PROVE  TypeOK'
<1>1. out' = [out EXCEPT ![sc] = Output(sc)]
  BY DEF Ended, Output
<1>2. out' \in [Scans -> {None} \cup Outputs]
  BY <1>1, OutputTyped DEF TypeOK
<1>3. pc' \in [Scans -> Labels]
  <2>1. pc' = [s \in Scans |-> IF s = sc THEN "done"
                              ELSE IF pc[s] \in DOMAIN lost THEN lost[pc[s]] ELSE pc[s]]
    BY DEF Ended
  <2>2. "done" \in Labels /\ \A s \in Scans : pc[s] \in Labels
    BY DEF TypeOK, Labels
  <2>3. QED BY <2>1, <2>2
<1>4. features' \in {None, Torn} \cup Caches /\ temp' \in {None, Torn} \cup Caches
  BY DEF TypeOK
<1>5. Forgotten(sc) /\ UNCHANGED <<ver, began, fate, skips>>
  BY DEF Ended
<1>6. QED BY <1>2, <1>3, <1>4, <1>5, ForgottenTyped DEF TypeOK

LEMMA SavedTyped ==
  ASSUME TypeOK, NEW sc \in Scans, Rename(sc) \/ Unlink(sc) \/ SaveFails(sc)
  PROVE  TypeOK'
<1>1. CASE Rename(sc)
  BY <1>1, EndedTyped DEF Rename, Labels
<1>2. CASE Unlink(sc)
  BY <1>2, EndedTyped DEF Unlink, Labels
<1>3. CASE SaveFails(sc)
  <2>1. skips' \in 0..MaxSkips
    BY <1>3, FaultTyped DEF SaveFails, TypeOK
  <2>2. pc' \in [Scans -> Labels]
    BY <1>3 DEF SaveFails, TypeOK, Goto, Labels
  <2>3. QED BY <1>3, <2>1, <2>2 DEF SaveFails, TypeOK, files, local
<1>4. QED BY <1>1, <1>2, <1>3

LEMMA StopTyped ==
  ASSUME TypeOK, NEW sc \in Scans, Stop(sc)
  PROVE  TypeOK'
<1>1. pc' \in [Scans -> Labels]
  BY DEF TypeOK, Stop, Goto, Labels
<1>2. Forgotten(sc) /\ UNCHANGED <<ver, began, fate, out, features, temp>>
  BY DEF Stop, files
<1>3. skips' \in 0..MaxSkips
  BY FaultTyped DEF Stop
<1>4. QED BY <1>1, <1>2, <1>3, ForgottenTyped DEF TypeOK

LEMMA ScanTyped ==
  ASSUME TypeOK, NEW sc \in Scans, ScanInv(sc), Scan(sc)
  PROVE  TypeOK' /\ UNCHANGED <<ver, began>>
<1>1. TodoInv(sc)
  BY DEF ScanInv
<1>2. TypeOK'
  BY <1>1, OpenCacheTyped, LookTyped, ReadEventsTyped, ReadToolsTyped, ScoreAllTyped, ScoreTyped, WriteTyped,
     SavedTyped, SkipTyped, StopTyped DEF Scan
<1>3. UNCHANGED <<ver, began>>
  BY DEF Scan, OpenCache, Look, ReadEvents, ReadTools, ScoreAll, Score, OpenTemp, WriteTemp, WriteRenamed, Rename,
         SaveFails, Unlink, Ended, Skip, Stop
<1>4. QED BY <1>2, <1>3

-----------------------------------------------------------------------------
(* What a scan's step leaves alone.                                          *)

Frame(sc) == /\ began'[sc] = began[sc] /\ fate'[sc] = fate[sc] /\ out'[sc] = out[sc] /\ todo'[sc] = todo[sc] /\ old'[sc] = old[sc]
             /\ met'[sc] = met[sc] /\ got'[sc] = got[sc] /\ planned'[sc] = planned[sc] /\ new'[sc] = new[sc]
             /\ pc'[sc] = pc[sc] \/ (pc[sc] \in {"write", "renamed"} /\ pc'[sc] \in {"renamed", "gone"})

LEMMA OthersFrame ==
  ASSUME TypeOK, NEW sc \in Scans, NEW x \in Scans, x # sc,
         Scan(sc) \/ \E S \in SUBSET Sessions : Begin(sc, S)
  PROVE  Frame(x)
<1>1. CASE \E S \in SUBSET Sessions : Begin(sc, S)
  BY <1>1 DEF Begin, Goto, files, Frame, TypeOK
<1>2. CASE OpenCache(sc)
  BY <1>2 DEF OpenCache, Goto, files, Frame, TypeOK
<1>3. CASE Look(sc)
  BY <1>3 DEF Look, Goto, files, Frame, TypeOK
<1>4. CASE ReadEvents(sc)
  BY <1>4 DEF ReadEvents, Goto, files, Frame, TypeOK
<1>5. CASE ReadTools(sc)
  BY <1>5 DEF ReadTools, Goto, files, Frame, TypeOK
<1>6. CASE ScoreAll(sc)
  BY <1>6 DEF ScoreAll, Goto, files, Frame, TypeOK
<1>7. CASE Score(sc)
  BY <1>7 DEF Score, Scored, Goto, files, Frame, TypeOK
<1>8. CASE OpenTemp(sc) \/ WriteTemp(sc) \/ WriteRenamed(sc)
  BY <1>8 DEF OpenTemp, WriteTemp, WriteRenamed, Goto, local, Frame, TypeOK
<1>9. CASE Rename(sc) \/ Unlink(sc)
  <2>1. Frame(x)
    BY <1>9 DEF Rename, Unlink, Ended, Forgotten, Frame, TypeOK
  <2>2. QED BY <2>1
<1>10. CASE Skip(sc)
  BY <1>10 DEF Skip, Goto, files, Frame, TypeOK
<1>11. CASE Stop(sc)
  BY <1>11 DEF Stop, Goto, Forgotten, files, Frame, TypeOK
<1>12. CASE SaveFails(sc)
  BY <1>12 DEF SaveFails, Goto, files, local, Frame, TypeOK
<1>13. QED BY <1>1, <1>2, <1>3, <1>4, <1>5, <1>6, <1>7, <1>8, <1>9, <1>10, <1>11, <1>12 DEF Scan

-----------------------------------------------------------------------------
(* The scan that takes the step.                                             *)

\* A scan that is over.
LEMMA ScanOver ==
  ASSUME TypeOK, NEW sc \in Scans, ScanInv(sc), pc[sc] # "none", ver' = ver, began' = began,
         pc'[sc] = "done", Forgotten(sc)
  PROVE  ScanInv(sc)'
<1>1. /\ todo'[sc] = {} /\ old'[sc] = Empty /\ met'[sc] = Empty /\ got'[sc] = Empty
      /\ planned'[sc] = {} /\ new'[sc] = Empty
  BY DEF TypeOK, Forgotten
<1>2. \A s \in Sessions : Empty[s] = None
  BY DEF Empty
<1>3. BeganInv(sc)'
  BY DEF ScanInv, BeganInv
<1>4. MetInv(sc)' /\ HonestCache(old[sc])' /\ GotInv(sc)' /\ SettledInv(sc)' /\ PlannedInv(sc)' /\ NewInv(sc)'
  BY <1>1, <1>2 DEF MetInv, HonestCache, GotInv, SettledInv, PlannedInv, NewInv
<1>5. TodoInv(sc)'
  BY <1>1, <1>2 DEF TodoInv, Reading, Pass2
<1>6. QED BY <1>3, <1>4, <1>5 DEF ScanInv

LEMMA BeginScan ==
  ASSUME TypeOK, NEW sc \in Scans, ScanInv(sc), NEW S \in SUBSET Sessions, Begin(sc, S)
  PROVE  ScanInv(sc)'
<1>1. /\ pc[sc] = "none" /\ pc'[sc] = "open" /\ began'[sc] = ver /\ ver' = ver
      /\ met'[sc] = [s \in Sessions |-> IF s \in S THEN ver[s].main ELSE None]
      /\ UNCHANGED <<out, todo, old, got, planned, new>>
  BY DEF TypeOK, Begin, Goto, files
<1>2. \A s \in Sessions : got[sc][s] = None /\ new[sc][s] = None
  BY <1>1 DEF ScanInv, TodoInv, NewInv, Early
<1>3. BeganInv(sc)'
  <2>1. ver # None
    BY ExtractionAssumption DEF TypeOK
  <2>2. \A s \in Sessions : ver[s].main \in Int /\ ver[s].subs \in Int
    BY FilesTyped, VersionsAreInts DEF File
  <2>3. QED BY <1>1, <2>1, <2>2 DEF ScanInv, BeganInv
<1>4. MetInv(sc)'
  <2>1. ver # None
    BY ExtractionAssumption DEF TypeOK
  <2>2. QED BY <1>1, <1>2, <2>1 DEF MetInv
<1>5. HonestCache(old[sc])'
  BY <1>1 DEF ScanInv, HonestCache
<1>6. GotInv(sc)' /\ SettledInv(sc)' /\ NewInv(sc)'
  BY <1>1, <1>2 DEF GotInv, SettledInv, NewInv
<1>7. TodoInv(sc)'
  BY <1>1, <1>2 DEF TodoInv, Reading, Pass2
<1>8. PlannedInv(sc)'
  BY <1>1 DEF ScanInv, PlannedInv
<1>9. QED BY <1>3, <1>4, <1>5, <1>6, <1>7, <1>8 DEF ScanInv

LEMMA OpenCacheScan ==
  ASSUME TypeOK, FileInv, NEW sc \in Scans, ScanInv(sc), OpenCache(sc)
  PROVE  ScanInv(sc)'
<1>1. PICK cache \in {Empty} \cup ({features} \ {None, Torn}) : old' = [old EXCEPT ![sc] = cache]
  BY DEF OpenCache
<1>2. /\ pc[sc] = "open" /\ pc'[sc] = "load" /\ old'[sc] = cache
      /\ todo'[sc] = {s \in Sessions : met[sc][s] # None}
      /\ UNCHANGED <<ver, began, out, met, got, planned, new>>
  BY <1>1 DEF TypeOK, OpenCache, Goto
<1>3. \A s \in Sessions : got[sc][s] = None /\ new[sc][s] = None
  BY <1>2 DEF ScanInv, TodoInv, NewInv, Early
<1>4. HonestCache(old[sc])'
  <2>1. HonestCache(cache)
    BY DEF FileInv, HonestCache, Empty
  <2>2. QED BY <1>2, <2>1 DEF HonestCache
<1>5. BeganInv(sc)' /\ MetInv(sc)' /\ PlannedInv(sc)'
  BY <1>2 DEF ScanInv, BeganInv, MetInv, PlannedInv
<1>6. GotInv(sc)' /\ SettledInv(sc)' /\ NewInv(sc)'
  BY <1>2, <1>3 DEF GotInv, SettledInv, NewInv
<1>7. TodoInv(sc)'
  BY <1>2, <1>3 DEF TodoInv, Reading, Pass2
<1>8. QED BY <1>4, <1>5, <1>6, <1>7 DEF ScanInv

LEMMA ScoreAllScan ==
  ASSUME TypeOK, NEW sc \in Scans, ScanInv(sc), ScoreAll(sc)
  PROVE  ScanInv(sc)'
<1>1. /\ pc[sc] = "load" /\ pc'[sc] = "score" /\ todo'[sc] = {s \in Sessions : got[sc][s] # None}
      /\ UNCHANGED <<ver, began, out, old, met, got, planned, new>>
  BY DEF TypeOK, ScoreAll, Goto
<1>2. BeganInv(sc)' /\ MetInv(sc)' /\ HonestCache(old[sc])' /\ GotInv(sc)' /\ PlannedInv(sc)'
  BY <1>1 DEF ScanInv, BeganInv, MetInv, HonestCache, GotInv, PlannedInv
<1>3. SettledInv(sc)'
  BY <1>1 DEF ScanInv, SettledInv, AtHand
<1>4. TodoInv(sc)'
  BY <1>1 DEF TodoInv, Reading, Pass2
<1>5. NewInv(sc)'
  BY <1>1 DEF ScanInv, NewInv, Early
<1>6. QED BY <1>2, <1>3, <1>4, <1>5 DEF ScanInv

LEMMA WriteScan ==
  ASSUME TypeOK, NEW sc \in Scans, ScanInv(sc),
         OpenTemp(sc) \/ WriteTemp(sc) \/ WriteRenamed(sc) \/ SaveFails(sc)
  PROVE  ScanInv(sc)'
<1>1. /\ pc[sc] \in {"score", "write", "renamed", "gone", "rename"} /\ pc'[sc] \in {"write", "rename", "unlink"}
      /\ UNCHANGED <<ver, began, out, todo, old, met, got, planned, new>>
  BY DEF TypeOK, OpenTemp, WriteTemp, WriteRenamed, SaveFails, Goto, files, local
<1>2. BeganInv(sc)' /\ MetInv(sc)' /\ HonestCache(old[sc])' /\ GotInv(sc)' /\ PlannedInv(sc)'
  BY <1>1 DEF ScanInv, BeganInv, MetInv, HonestCache, GotInv, PlannedInv
<1>3. SettledInv(sc)'
  BY <1>1 DEF ScanInv, SettledInv, AtHand
<1>4. TodoInv(sc)'
  BY <1>1 DEF TodoInv, Reading, Pass2
<1>5. NewInv(sc)'
  BY <1>1 DEF ScanInv, NewInv, Early
<1>6. QED BY <1>2, <1>3, <1>4, <1>5 DEF ScanInv

LEMMA LookScan ==
  ASSUME TypeOK, NEW sc \in Scans, ScanInv(sc), Look(sc)
  PROVE  ScanInv(sc)'
<1> DEFINE s == First(todo[sc])
           g == [fp |-> Fingerprint(sc, s), events |-> None, tools |-> None]
<1>1. /\ pc[sc] = "load" /\ s \in Sessions /\ s \in todo[sc]
      /\ UNCHANGED <<ver, began, out, old, met, new>>
  BY TodoSession DEF Look, files
<1>2. got'[sc] = [got[sc] EXCEPT ![s] = g]
  <2>1. got' = [got EXCEPT ![sc][s] = g]
    BY DEF Look
  <2> HIDE DEF g
  <2>2. QED BY <2>1 DEF TypeOK
<1>3. \/ /\ Hit(sc, s) /\ pc'[sc] = "load" /\ todo'[sc] = todo[sc] \ {s}
         /\ planned'[sc] = IF old[sc][s].plan THEN planned[sc] \cup {s} ELSE planned[sc]
      \/ ~ Hit(sc, s) /\ pc'[sc] = "read" /\ todo'[sc] = todo[sc] /\ planned'[sc] = planned[sc]
  <2>1. CASE Hit(sc, s)
    BY <1>1, <2>1 DEF Look, TypeOK
  <2>2. CASE ~ Hit(sc, s)
    BY <1>1, <2>2 DEF Look, Goto, TypeOK
  <2>3. QED BY <2>1, <2>2
<1>4. met[sc][s] # None /\ began[sc] # None /\ met[sc][s] = began[sc][s].main
  BY <1>1 DEF ScanInv, TodoInv, MetInv
<1>5. g.fp = Fingerprint(sc, s) /\ g.events = None /\ g.tools = None /\ g # None
  <2>1. g \in Found
    BY <1>1, <1>4, FingerprintTyped DEF Found
  <2>2. QED BY <2>1, ExtractionAssumption
<1>6. Kept(g, began[sc][s], ver[s])
  <2>1. /\ g.fp.meta = met[sc][s] /\ g.fp.main = ver[s].main /\ g.fp.subs = ver[s].subs
    BY <1>5 DEF Fingerprint
  <2>2. began[sc][s].main <= ver[s].main /\ began[sc][s].subs <= ver[s].subs
    BY <1>1, <1>4 DEF ScanInv, BeganInv
  <2>3. ver[s].main \in Int /\ ver[s].subs \in Int
    BY <1>1, FilesTyped, VersionsAreInts DEF File
  <2>4. QED BY <1>4, <1>5, <2>1, <2>2, <2>3 DEF Kept
<1>7. \A x \in Sessions : got'[sc][x] = IF x = s THEN g ELSE got[sc][x]
  <2>1. DOMAIN got[sc] = Sessions
    BY DEF TypeOK
  <2> HIDE DEF g
  <2>2. QED BY <1>2, <2>1
<1>8. Hit(sc, s) => /\ old[sc][s] # None /\ old[sc][s].fp = g.fp
                    /\ (Produced(s, g.fp.main) => old[sc][s].plan)
                    /\ (old[sc][s].plan => Produced(s, ver[s].main))
  BY <1>1, <1>5 DEF Hit, ScanInv, HonestCache, Honest
<1> HIDE DEF s, g
<1>9. BeganInv(sc)' /\ HonestCache(old[sc])'
  BY <1>1, <1>3 DEF ScanInv, BeganInv, HonestCache
<1>10. MetInv(sc)'
  BY <1>1, <1>4, <1>7 DEF ScanInv, MetInv
<1>11. GotInv(sc)'
  BY <1>1, <1>4, <1>6, <1>7 DEF ScanInv, GotInv
<1>12. planned[sc] \subseteq planned'[sc]
  BY <1>3
<1>13. SettledInv(sc)'
  <2> SUFFICES ASSUME NEW x \in Sessions, got'[sc][x] # None, ~ AtHand(sc, x)'
               PROVE  /\ got'[sc][x].tools = None => old[sc][x] # None /\ old[sc][x].fp = got'[sc][x].fp
                      /\ Produced(x, got'[sc][x].fp.main) => x \in planned'[sc]
    BY <1>1 DEF SettledInv
  <2>1. CASE x # s
    BY <1>1, <1>7, <1>12, <2>1 DEF ScanInv, SettledInv, AtHand
  <2>2. CASE x = s
    <3>1. Hit(sc, s)
      BY <1>3, <2>2 DEF AtHand, s
    <3>2. old[sc][s].plan => s \in planned'[sc]
      BY <1>3, <3>1
    <3>3. QED BY <1>7, <1>8, <2>2, <3>1, <3>2
  <2>3. QED BY <2>1, <2>2
<1>14. TodoInv(sc)'
  <2>1. CASE Hit(sc, s)
    BY <1>1, <1>3, <2>1 DEF ScanInv, TodoInv, Reading, Pass2
  <2>2. CASE ~ Hit(sc, s)
    <3>1. got'[sc][s] # None /\ First(todo'[sc]) = s
      BY <1>1, <1>3, <1>5, <1>7, <2>2 DEF s
    <3>2. QED BY <1>1, <1>3, <2>2, <3>1 DEF ScanInv, TodoInv, Reading, Pass2
  <2>3. QED BY <2>1, <2>2
<1>15. PlannedInv(sc)'
  <2>1. \A x \in planned'[sc] : x \in planned[sc] \/ (x = s /\ Hit(sc, s) /\ old[sc][s].plan)
    BY <1>3
  <2>2. QED BY <1>1, <1>8, <2>1 DEF ScanInv, PlannedInv
<1>16. NewInv(sc)'
  BY <1>1, <1>3 DEF ScanInv, NewInv, Early
<1>17. QED BY <1>9, <1>10, <1>11, <1>13, <1>14, <1>15, <1>16 DEF ScanInv

LEMMA FoundEdit ==
  ASSUME NEW r \in Found, NEW v \in Versions
  PROVE  /\ [r EXCEPT !.events = v] \in Found /\ [r EXCEPT !.tools = v] \in Found
         /\ [r EXCEPT !.events = v].fp = r.fp /\ [r EXCEPT !.tools = v].fp = r.fp
         /\ [r EXCEPT !.events = v].events = v /\ [r EXCEPT !.events = v].tools = r.tools
         /\ [r EXCEPT !.tools = v].tools = v /\ [r EXCEPT !.tools = v].events = r.events
BY DEF Found

LEMMA ReadEventsScan ==
  ASSUME TypeOK, NEW sc \in Scans, ScanInv(sc), ReadEvents(sc)
  PROVE  ScanInv(sc)'
<1> DEFINE s == First(todo[sc])
           g == [got[sc][s] EXCEPT !.events = ver[s].main]
<1>1. /\ \/ pc[sc] = "read" /\ pc'[sc] = "tools"
         \/ pc[sc] = "reread" /\ pc'[sc] = "retools"
      /\ UNCHANGED <<ver, began, out, todo, old, met, planned, new>>
  BY DEF TypeOK, ReadEvents, Goto, files
<1>2. s \in Sessions /\ s \in todo[sc] /\ got[sc][s] # None
  BY <1>1, TodoSession DEF ScanInv, TodoInv, Reading
<1>3. got[sc][s] \in Found /\ ver[s].main \in Versions
  BY <1>2, FilesTyped DEF File
<1>4. g \in Found /\ g.fp = got[sc][s].fp /\ g.events = ver[s].main /\ g.tools = got[sc][s].tools /\ g # None
  BY <1>3, FoundEdit, ExtractionAssumption
<1>5. \A x \in Sessions : got'[sc][x] = IF x = s THEN g ELSE got[sc][x]
  <2>1. got' = [got EXCEPT ![sc][s] = g]
    BY DEF ReadEvents
  <2> HIDE DEF g, s
  <2>2. QED BY <2>1 DEF TypeOK
<1>6. began[sc] # None /\ Kept(got[sc][s], began[sc][s], ver[s])
  BY <1>2 DEF ScanInv, GotInv
<1>7. Kept(g, began[sc][s], ver[s])
  BY <1>3, <1>4, <1>6, VersionsAreInts DEF Kept, Found, Fingerprints
<1> HIDE DEF g
<1>8. First(todo'[sc]) = s /\ \A x \in Sessions : AtHand(sc, x)' <=> AtHand(sc, x)
  BY <1>1 DEF AtHand
<1> HIDE DEF s
<1>9. BeganInv(sc)' /\ HonestCache(old[sc])' /\ PlannedInv(sc)'
  BY <1>1 DEF ScanInv, BeganInv, HonestCache, PlannedInv
<1>10. MetInv(sc)'
  BY <1>1, <1>2, <1>5 DEF ScanInv, MetInv
<1>11. GotInv(sc)'
  BY <1>1, <1>5, <1>6, <1>7 DEF ScanInv, GotInv
<1>12. SettledInv(sc)'
  <2> SUFFICES ASSUME NEW x \in Sessions, got'[sc][x] # None, ~ AtHand(sc, x)'
               PROVE  /\ got'[sc][x].tools = None => old[sc][x] # None /\ old[sc][x].fp = got'[sc][x].fp
                      /\ Produced(x, got'[sc][x].fp.main) => x \in planned[sc]
    BY <1>1 DEF SettledInv
  <2>1. got[sc][x] # None /\ got'[sc][x].tools = got[sc][x].tools /\ got'[sc][x].fp = got[sc][x].fp
    BY <1>2, <1>4, <1>5
  <2>2. ~ AtHand(sc, x)
    BY <1>8
  <2>3. QED BY <2>1, <2>2 DEF ScanInv, SettledInv
<1>13. TodoInv(sc)'
  <2>1. \A x \in Sessions : got[sc][x] # None => got'[sc][x] # None
    BY <1>4, <1>5
  <2>2. got'[sc][s].events # None
    BY <1>2, <1>3, <1>4, <1>5, VersionsAreInts
  <2>3. todo'[sc] \subseteq Sessions
    BY <1>1 DEF TypeOK
  <2>4. QED BY <1>1, <1>2, <1>8, <2>1, <2>2, <2>3 DEF ScanInv, TodoInv, Reading, Pass2
<1>14. NewInv(sc)'
  BY <1>1 DEF ScanInv, NewInv, Early
<1>15. QED BY <1>9, <1>10, <1>11, <1>12, <1>13, <1>14 DEF ScanInv

LEMMA ReadToolsScan ==
  ASSUME TypeOK, NEW sc \in Scans, ScanInv(sc), ReadTools(sc)
  PROVE  ScanInv(sc)'
<1> DEFINE s == First(todo[sc])
           g == [got[sc][s] EXCEPT !.tools = ver[s].main]
<1>1. /\ \/ /\ pc[sc] = "tools" /\ pc'[sc] = "load" /\ todo'[sc] = todo[sc] \ {s}
            /\ planned'[sc] = IF Produced(s, got[sc][s].events) THEN planned[sc] \cup {s} ELSE planned[sc]
         \/ pc[sc] = "retools" /\ pc'[sc] = "score" /\ todo'[sc] = todo[sc] /\ planned'[sc] = planned[sc]
      /\ UNCHANGED <<ver, began, out, old, met, new>>
  BY DEF TypeOK, ReadTools, Goto, files
<1>2. s \in Sessions /\ s \in todo[sc] /\ got[sc][s] # None /\ got[sc][s].events # None
  BY <1>1, TodoSession DEF ScanInv, TodoInv, Reading
<1>3. got[sc][s] \in Found /\ ver[s].main \in Versions
  BY <1>2, FilesTyped DEF File
<1>4. g \in Found /\ g.fp = got[sc][s].fp /\ g.tools = ver[s].main /\ g.events = got[sc][s].events /\ g # None
  BY <1>3, FoundEdit, ExtractionAssumption
<1>5. \A x \in Sessions : got'[sc][x] = IF x = s THEN g ELSE got[sc][x]
  <2>1. got' = [got EXCEPT ![sc][s] = g]
    BY DEF ReadTools
  <2> HIDE DEF g, s
  <2>2. QED BY <2>1 DEF TypeOK
<1>6. began[sc] # None /\ Kept(got[sc][s], began[sc][s], ver[s])
  BY <1>2 DEF ScanInv, GotInv
<1>7. /\ g.fp.main \in Versions /\ g.events \in Versions /\ g.fp.main <= g.events /\ g.events <= ver[s].main
  BY <1>2, <1>3, <1>4, <1>6 DEF Kept, Found, Fingerprints
<1>8. Kept(g, began[sc][s], ver[s])
  BY <1>2, <1>3, <1>4, <1>6, <1>7, VersionsAreInts DEF Kept
<1>9. g.tools # None
  BY <1>3, <1>4, VersionsAreInts
<1> HIDE DEF g
<1>10. \A x \in Sessions : ~ AtHand(sc, x)' /\ (x # s => ~ AtHand(sc, x)) /\ (pc[sc] = "retools" => ~ AtHand(sc, x))
  BY <1>1 DEF AtHand
<1> HIDE DEF s
<1>11. BeganInv(sc)' /\ HonestCache(old[sc])'
  BY <1>1 DEF ScanInv, BeganInv, HonestCache
<1>12. MetInv(sc)'
  BY <1>1, <1>2, <1>5 DEF ScanInv, MetInv
<1>13. GotInv(sc)'
  BY <1>1, <1>5, <1>6, <1>8 DEF ScanInv, GotInv
<1>14. SettledInv(sc)'
  <2> SUFFICES ASSUME NEW x \in Sessions, got'[sc][x] # None
               PROVE  /\ got'[sc][x].tools = None => old[sc][x] # None /\ old[sc][x].fp = got'[sc][x].fp
                      /\ Produced(x, got'[sc][x].fp.main) => x \in planned'[sc]
    BY <1>1 DEF SettledInv
  <2>1. planned[sc] \subseteq planned'[sc]
    BY <1>1
  <2>2. CASE x # s
    BY <1>5, <1>10, <2>1, <2>2 DEF ScanInv, SettledInv
  <2>3. CASE x = s /\ pc[sc] = "tools"
    <3>1. Produced(s, g.fp.main) => Produced(s, g.events)
      BY <1>7, ProducedLater
    <3>2. QED BY <1>1, <1>4, <1>5, <1>9, <2>3, <3>1
  <2>4. CASE x = s /\ pc[sc] = "retools"
    BY <1>1, <1>2, <1>4, <1>5, <1>10, <1>9, <2>4 DEF ScanInv, SettledInv
  <2>5. QED BY <1>1, <2>2, <2>3, <2>4
<1>15. TodoInv(sc)'
  <2>1. \A x \in Sessions : got[sc][x] # None => got'[sc][x] # None
    BY <1>4, <1>5
  <2>2. todo[sc] \subseteq Sessions
    BY DEF TypeOK
  <2>3. QED BY <1>1, <2>1, <2>2 DEF ScanInv, TodoInv, Reading, Pass2
<1>16. PlannedInv(sc)'
  <2>1. \A x \in planned'[sc] : x \in planned[sc] \/ (x = s /\ Produced(s, g.events))
    BY <1>1, <1>4
  <2>2. Produced(s, g.events) => Produced(s, ver[s].main)
    BY <1>3, <1>7, ProducedLater
  <2>3. QED BY <1>1, <2>1, <2>2 DEF ScanInv, PlannedInv
<1>17. NewInv(sc)'
  BY <1>1 DEF ScanInv, NewInv, Early
<1>18. QED BY <1>11, <1>12, <1>13, <1>14, <1>15, <1>16, <1>17 DEF ScanInv

LEMMA SkipScan ==
  ASSUME TypeOK, NEW sc \in Scans, ScanInv(sc), Skip(sc)
  PROVE  ScanInv(sc)'
<1> DEFINE s == First(todo[sc])
<1>1. /\ \/ pc[sc] \in {"read", "tools"} /\ pc'[sc] = "load"
         \/ pc[sc] \in {"reread", "retools"} /\ pc'[sc] = "score"
      /\ todo'[sc] = todo[sc] \ {s}
      /\ UNCHANGED <<ver, began, out, old, met, planned, new>>
  BY DEF TypeOK, Skip, Goto, files
<1>2. s \in Sessions
  BY <1>1, TodoSession DEF ScanInv, TodoInv, Reading
<1>3. \A x \in Sessions : got'[sc][x] = IF x = s THEN None ELSE got[sc][x]
  <2>1. got' = [got EXCEPT ![sc][s] = None]
    BY DEF Skip
  <2> HIDE DEF s
  <2>2. QED BY <2>1 DEF TypeOK
<1>4. \A x \in Sessions : x # s => ~ AtHand(sc, x)
  BY DEF AtHand
<1> HIDE DEF s
<1>5. BeganInv(sc)' /\ HonestCache(old[sc])' /\ PlannedInv(sc)'
  BY <1>1 DEF ScanInv, BeganInv, HonestCache, PlannedInv
<1>6. MetInv(sc)' /\ GotInv(sc)'
  BY <1>1, <1>3 DEF ScanInv, MetInv, GotInv
<1>7. SettledInv(sc)'
  BY <1>1, <1>3, <1>4 DEF ScanInv, SettledInv
<1>8. TodoInv(sc)'
  <2>1. todo[sc] \subseteq Sessions
    BY DEF TypeOK
  <2>2. QED BY <1>1, <1>3, <2>1 DEF ScanInv, TodoInv, Reading, Pass2
<1>9. NewInv(sc)'
  BY <1>1 DEF ScanInv, NewInv, Early
<1>10. QED BY <1>5, <1>6, <1>7, <1>8, <1>9 DEF ScanInv

\* An entry with the fingerprint taken in pass 1 and the plan signal of this scan.
LEMMA EntrySound ==
  ASSUME TypeOK, NEW sc \in Scans, ScanInv(sc), pc[sc] = "score",
         NEW s \in Sessions, got[sc][s] # None, NEW f \in Features,
         f.meta = began[sc][s].main,
         got[sc][s].fp.main <= f.events, f.events <= ver[s].main,
         got[sc][s].fp.main <= f.tools, f.tools <= ver[s].main,
         got[sc][s].fp.subs <= f.subs, f.subs <= ver[s].subs,
         f.prior <=> HadPrior(sc, s)
  PROVE  Sound(Entry(sc, s, f), s, began[sc][s], ver[s], planned[sc])
<1> DEFINE e == Entry(sc, s, f)
<1>1. e.fp = got[sc][s].fp /\ e.feat = f /\ (e.plan <=> s \in planned[sc])
  BY Zenon DEF Entry
<1>2. began[sc] # None /\ Kept(got[sc][s], began[sc][s], ver[s])
  BY DEF ScanInv, GotInv
<1>3. /\ began[sc][s].main \in Versions /\ began[sc][s].subs \in Versions
      /\ got[sc][s].fp.main \in Versions /\ got[sc][s].fp.subs \in Versions /\ f.subs \in Versions
  BY <1>2, FilesTyped DEF File, Found, Fingerprints, Features
<1>4. Produced(s, got[sc][s].fp.main) => s \in planned[sc]
  BY DEF ScanInv, SettledInv, AtHand
<1>5. s \in planned[sc] => Produced(s, ver[s].main)
  BY DEF ScanInv, PlannedInv
<1>6. Produced(s, began[sc][s].main) => s \in planned[sc]
  BY <1>2, <1>3, <1>4, ProducedLater DEF Kept
<1>7. e.feat.prior <=> \E q \in planned[sc] : <<q, s>> \in Prior
  BY <1>1, Zenon DEF HadPrior
<1>8. e.plan => Produced(s, ver[s].main)
  BY <1>1, <1>5, Zenon
<1>9. Produced(s, e.fp.main) => e.plan
  BY <1>1, <1>4, Zenon
<1>10. e.feat.meta = began[sc][s].main /\ began[sc][s].subs <= e.feat.subs
  <2> HIDE DEF e
  <2>1. QED BY <1>1, <1>2, <1>3, VersionsAreInts DEF Kept
<1> HIDE DEF e
<1>11. Honest(e, s, ver[s])
  BY <1>1, <1>2, <1>8, <1>9 DEF Honest, Kept
<1>12. Sound(e, s, began[sc][s], ver[s], planned[sc])
  BY <1>6, <1>7, <1>11, <1>10 DEF Sound
<1>13. QED BY <1>12 DEF e

LEMMA ScoreScan ==
  ASSUME TypeOK, NEW sc \in Scans, ScanInv(sc), Score(sc)
  PROVE  ScanInv(sc)'
<1> DEFINE s == First(todo[sc])
<1>1. /\ pc[sc] = "score" /\ s \in Sessions /\ s \in todo[sc]
      /\ UNCHANGED <<ver, began, fate, out, features, temp, old, met, got, planned, skips>>
  BY ScoreSteps
<1>2. /\ got[sc][s] # None /\ met[sc][s] # None /\ began[sc] # None /\ met[sc][s] = began[sc][s].main
      /\ Kept(got[sc][s], began[sc][s], ver[s])
  BY <1>1 DEF ScanInv, TodoInv, MetInv, GotInv, Pass2
<1>3. ASSUME NEW f, Chosen(sc, s, f)
      PROVE  f \in Features /\ Sound(Entry(sc, s, f), s, began[sc][s], ver[s], planned[sc])
  <2>1. CASE f = old[sc][s].feat /\ Reusable(sc, s)
    <3>1. ~ AtHand(sc, s)
      BY <1>1 DEF AtHand
    <3>2. old[sc][s] # None /\ old[sc][s].fp = got[sc][s].fp
      BY <1>1, <1>2, <2>1, <3>1 DEF ScanInv, SettledInv, Reusable
    <3>3. f \in Features
      BY <1>1, <2>1, <3>2, FilesTyped DEF Entries
    <3>4. Honest(old[sc][s], s, ver[s])
      BY <1>1, <3>2 DEF ScanInv, HonestCache
    <3>5. f.prior <=> HadPrior(sc, s)
      BY <2>1, Zenon DEF Reusable
    <3>6. f.meta = began[sc][s].main
      BY <1>2, <2>1, <3>2, <3>4 DEF Honest, Kept
    <3>7. /\ got[sc][s].fp.main <= f.events /\ f.events <= ver[s].main
          /\ got[sc][s].fp.main <= f.tools /\ f.tools <= ver[s].main
          /\ got[sc][s].fp.subs <= f.subs /\ f.subs <= ver[s].subs
      BY <2>1, <3>2, <3>4 DEF Honest
    <3>8. QED BY <1>1, <1>2, <3>3, <3>5, <3>6, <3>7, EntrySound
  <2>2. CASE f = Fresh(sc, s) /\ got[sc][s].tools # None
    <3>1. got[sc][s].events # None
      BY <1>1, <1>2, <2>2 DEF Kept
    <3>2. f \in Features
      BY <1>1, <1>2, <2>2, <3>1, FreshTyped
    <3>3. /\ f.meta = met[sc][s] /\ f.events = got[sc][s].events /\ f.tools = got[sc][s].tools
          /\ f.subs = ver[s].subs
      BY <2>2, Zenon DEF Fresh
    <3>4. f.prior <=> HadPrior(sc, s)
      BY <2>2, Zenon DEF Fresh
    <3>5. ver[s].subs \in Int
      BY <1>1, FilesTyped, VersionsAreInts DEF File
    <3>6. /\ got[sc][s].fp.main <= f.events /\ f.events <= ver[s].main
          /\ got[sc][s].fp.main <= f.tools /\ f.tools <= ver[s].main
          /\ got[sc][s].fp.subs <= f.subs /\ f.subs <= ver[s].subs
      BY <1>2, <2>2, <3>1, <3>3, <3>5 DEF Kept
    <3>7. f.meta = began[sc][s].main
      BY <1>2, <3>3
    <3>8. QED BY <1>1, <1>2, <3>2, <3>4, <3>6, <3>7, EntrySound
  <2>3. QED BY <1>3, <2>1, <2>2 DEF Chosen
<1>4. \/ \E f : Chosen(sc, s, f) /\ Scored(sc, s, f)
      \/ /\ ~ Reusable(sc, s) /\ got[sc][s].tools = None
         /\ pc' = [pc EXCEPT ![sc] = "reread"] /\ UNCHANGED <<todo, new>>
  BY ScoreSteps, Zenon
<1>5. BeganInv(sc)' /\ MetInv(sc)' /\ HonestCache(old[sc])' /\ GotInv(sc)' /\ PlannedInv(sc)'
  <2>1. pc'[sc] \in {"score", "reread"}
    BY <1>1, <1>4 DEF TypeOK, Scored
  <2>2. QED BY <1>1, <2>1 DEF ScanInv, BeganInv, MetInv, HonestCache, GotInv, PlannedInv
<1>6. ASSUME pc' = [pc EXCEPT ![sc] = "reread"], UNCHANGED <<todo, new>>
      PROVE  SettledInv(sc)' /\ TodoInv(sc)' /\ NewInv(sc)'
  <2>1. pc'[sc] = "reread"
    BY <1>6 DEF TypeOK
  <2>2. SettledInv(sc)'
    BY <1>1, <2>1 DEF ScanInv, SettledInv, AtHand
  <2>3. TodoInv(sc)'
    BY <1>1, <1>2, <1>6, <2>1 DEF ScanInv, TodoInv, Reading, Pass2
  <2>4. NewInv(sc)'
    BY <1>1, <1>6, <2>1 DEF ScanInv, NewInv, Early
  <2>5. QED BY <2>2, <2>3, <2>4
<1> HIDE DEF s
<1>7. ASSUME NEW f, Scored(sc, s, f), Sound(Entry(sc, s, f), s, began[sc][s], ver[s], planned[sc])
      PROVE  SettledInv(sc)' /\ TodoInv(sc)' /\ NewInv(sc)'
  <2>1. /\ todo'[sc] = todo[sc] \ {s} /\ pc'[sc] = "score"
        /\ \A x \in Sessions : new'[sc][x] = IF x = s THEN Entry(sc, s, f) ELSE new[sc][x]
    <3> HIDE DEF Entry
    <3>1. QED BY <1>1, <1>7 DEF Scored, TypeOK, Caches
  <2>2. SettledInv(sc)'
    BY <1>1, <2>1 DEF ScanInv, SettledInv, AtHand
  <2>3. TodoInv(sc)'
    BY <1>1, <2>1 DEF ScanInv, TodoInv, Reading, Pass2
  <2>4. NewInv(sc)'
    BY <1>1, <1>2, <1>7, <2>1 DEF ScanInv, NewInv, Early
  <2>5. QED BY <2>2, <2>3, <2>4
<1>8. SettledInv(sc)' /\ TodoInv(sc)' /\ NewInv(sc)'
  <2>1. ASSUME NEW f, Chosen(sc, s, f), Scored(sc, s, f)
        PROVE  SettledInv(sc)' /\ TodoInv(sc)' /\ NewInv(sc)'
    BY <1>3, <1>7, <2>1
  <2>2. QED BY <1>4, <1>6, <2>1
<1>9. QED BY <1>5, <1>8 DEF ScanInv

LEMMA EndScan ==
  ASSUME TypeOK, NEW sc \in Scans, ScanInv(sc), Rename(sc) \/ Unlink(sc) \/ Stop(sc)
  PROVE  ScanInv(sc)'
<1>1. ver' = ver /\ began' = began /\ Forgotten(sc) /\ pc[sc] # "none"
  BY DEF Rename, Unlink, Ended, Stop
<1>2. pc'[sc] = "done"
  BY DEF TypeOK, Rename, Unlink, Ended, Stop, Goto
<1>3. QED BY <1>1, <1>2, ScanOver

LEMMA ScanScan ==
  ASSUME TypeOK, FileInv, NEW sc \in Scans, ScanInv(sc), Scan(sc)
  PROVE  ScanInv(sc)'
BY OpenCacheScan, LookScan, ReadEventsScan, ReadToolsScan, SkipScan, ScoreAllScan, ScoreScan, WriteScan, EndScan
   DEF Scan

-----------------------------------------------------------------------------
(* What becomes of the sessions of a scan.                                   *)

LEMMA FateUntouched ==
  ASSUME NEW x \in Scans, FateInv(x), Frame(x)
  PROVE  FateInv(x)'
BY DEF FateInv, Frame, Pass2, Early

\* A scan that is over, or about to save, has nothing left to do.
LEMMA FateOver ==
  ASSUME TypeOK, NEW sc \in Scans, FateInv(sc), Rename(sc) \/ Unlink(sc) \/ Stop(sc)
  PROVE  FateInv(sc)'
<1>1. planned'[sc] = {} /\ todo'[sc] = {} /\ pc'[sc] = "done"
  BY DEF TypeOK, Rename, Unlink, Ended, Stop, Forgotten, Goto
<1>2. QED BY <1>1 DEF FateInv, Pass2, Early

LEMMA FateBegin ==
  ASSUME TypeOK, NEW sc \in Scans, NEW S \in SUBSET Sessions, FateInv(sc), Begin(sc, S)
  PROVE  FateInv(sc)'
<1>1. /\ pc[sc] = "none" /\ pc'[sc] = "open" /\ planned'[sc] = planned[sc]
      /\ met'[sc] = [s \in Sessions |-> IF s \in S THEN ver[s].main ELSE None]
      /\ fate'[sc] = [s \in Sessions |-> IF s \in S THEN "in" ELSE "out"]
  BY DEF TypeOK, Begin, Goto
<1>2. \A s \in Sessions : ver[s].main # None
  BY FilesTyped, VersionsAreInts DEF File
<1>3. QED BY <1>1, <1>2 DEF FateInv, Pass2, Early

LEMMA FateOpenCache ==
  ASSUME TypeOK, NEW sc \in Scans, ScanInv(sc), FateInv(sc), OpenCache(sc)
  PROVE  FateInv(sc)'
<1>1. /\ pc[sc] = "open" /\ pc'[sc] = "load" /\ todo'[sc] = {s \in Sessions : met[sc][s] # None}
      /\ UNCHANGED <<fate, got, planned>>
  BY DEF TypeOK, OpenCache, Goto
<1>2. \A s \in Sessions : got[sc][s] = None
  BY <1>1 DEF ScanInv, TodoInv
<1>3. QED BY <1>1, <1>2 DEF FateInv, Pass2, Early

LEMMA FateLook ==
  ASSUME TypeOK, NEW sc \in Scans, ScanInv(sc), FateInv(sc), Look(sc)
  PROVE  FateInv(sc)'
<1> DEFINE s == First(todo[sc])
           g == [fp |-> Fingerprint(sc, s), events |-> None, tools |-> None]
<1>1. /\ pc[sc] = "load" /\ s \in Sessions /\ s \in todo[sc] /\ pc'[sc] \in {"load", "read"}
      /\ fate'[sc] = fate[sc]
  BY TodoSession DEF Look, Goto, TypeOK
<1>2. \/ todo'[sc] = todo[sc] \ {s} /\ planned'[sc] \subseteq planned[sc] \cup {s}
      \/ todo'[sc] = todo[sc] /\ planned'[sc] = planned[sc]
  <2>1. CASE Hit(sc, s)
    BY <1>1, <2>1 DEF Look, TypeOK
  <2>2. CASE ~ Hit(sc, s)
    BY <1>1, <2>2 DEF Look, Goto, TypeOK
  <2>3. QED BY <2>1, <2>2
<1>3. g # None
  <2>1. g \in Found
    BY <1>1, FingerprintTyped DEF Found, ScanInv, TodoInv
  <2>2. QED BY <2>1, ExtractionAssumption
<1>4. \A x \in Sessions : got'[sc][x] = IF x = s THEN g ELSE got[sc][x]
  <2>1. got' = [got EXCEPT ![sc][s] = g]
    BY DEF Look
  <2> HIDE DEF g, s
  <2>2. QED BY <2>1 DEF TypeOK
<1> HIDE DEF s, g
<1>5. \A x \in Sessions : fate[sc][x] = IF x \in todo[sc] \/ got[sc][x] # None THEN "in" ELSE "out"
  BY <1>1 DEF FateInv
<1>6. \A x \in Sessions : x \in todo[sc] \/ got[sc][x] # None <=> x \in todo'[sc] \/ got'[sc][x] # None
  BY <1>1, <1>2, <1>3, <1>4
<1>7. planned'[sc] \cap todo'[sc] = {} /\ \A x \in planned'[sc] : fate[sc][x] # "out"
  BY <1>1, <1>2, <1>5 DEF FateInv
<1>8. QED BY <1>1, <1>5, <1>6, <1>7 DEF FateInv, Pass2, Early

LEMMA FateReadEvents ==
  ASSUME TypeOK, NEW sc \in Scans, ScanInv(sc), FateInv(sc), ReadEvents(sc)
  PROVE  FateInv(sc)'
<1> DEFINE s == First(todo[sc])
           g == [got[sc][s] EXCEPT !.events = ver[s].main]
<1>1. /\ \/ pc[sc] = "read" /\ pc'[sc] = "tools"
         \/ pc[sc] = "reread" /\ pc'[sc] = "retools"
      /\ UNCHANGED <<began, fate, todo, planned, new>>
  BY DEF TypeOK, ReadEvents, Goto, files
<1>2. s \in Sessions /\ s \in todo[sc]
  BY <1>1, TodoSession DEF ScanInv, TodoInv, Reading
<1>3. \A x \in Sessions : got'[sc][x] = IF x = s THEN g ELSE got[sc][x]
  <2>1. got' = [got EXCEPT ![sc][s] = g]
    BY DEF ReadEvents
  <2> HIDE DEF g, s
  <2>2. QED BY <2>1 DEF TypeOK
<1> HIDE DEF s, g
<1>4. \A x \in Sessions : x \in todo[sc] \/ got[sc][x] # None <=> x \in todo[sc] \/ got'[sc][x] # None
  BY <1>2, <1>3
<1>5. QED BY <1>1, <1>4 DEF FateInv, Pass2, Early

LEMMA FateReadTools ==
  ASSUME TypeOK, NEW sc \in Scans, ScanInv(sc), FateInv(sc), ReadTools(sc)
  PROVE  FateInv(sc)'
<1> DEFINE s == First(todo[sc])
           g == [got[sc][s] EXCEPT !.tools = ver[s].main]
<1>1. /\ \/ /\ pc[sc] = "tools" /\ pc'[sc] = "load" /\ todo'[sc] = todo[sc] \ {s}
            /\ planned'[sc] \subseteq planned[sc] \cup {s}
         \/ pc[sc] = "retools" /\ pc'[sc] = "score" /\ todo'[sc] = todo[sc] /\ planned'[sc] = planned[sc]
      /\ UNCHANGED <<began, fate, new>>
  BY DEF TypeOK, ReadTools, Goto, files
<1>2. s \in Sessions /\ s \in todo[sc] /\ got[sc][s] # None
  BY <1>1, TodoSession DEF ScanInv, TodoInv, Reading
<1>3. g # None
  <2>1. got[sc][s] \in Found /\ ver[s].main \in Versions
    BY <1>2, FilesTyped DEF File
  <2>2. QED BY <2>1, FoundEdit, ExtractionAssumption
<1>4. \A x \in Sessions : got'[sc][x] = IF x = s THEN g ELSE got[sc][x]
  <2>1. got' = [got EXCEPT ![sc][s] = g]
    BY DEF ReadTools
  <2> HIDE DEF g, s
  <2>2. QED BY <2>1 DEF TypeOK
<1> HIDE DEF s, g
<1>5. CASE pc[sc] = "tools"
  <2>1. \A x \in Sessions : x \in todo[sc] \/ got[sc][x] # None <=> x \in todo'[sc] \/ got'[sc][x] # None
    BY <1>1, <1>2, <1>3, <1>4, <1>5
  <2>2. \A x \in Sessions : fate[sc][x] = IF x \in todo[sc] \/ got[sc][x] # None THEN "in" ELSE "out"
    BY <1>5 DEF FateInv
  <2>3. planned'[sc] \cap todo'[sc] = {} /\ \A x \in planned'[sc] : fate[sc][x] # "out"
    BY <1>1, <1>2, <1>5, <2>2 DEF FateInv
  <2>4. QED BY <1>1, <1>5, <2>1, <2>2, <2>3 DEF FateInv, Pass2, Early
<1>6. CASE pc[sc] = "retools"
  BY <1>1, <1>6 DEF FateInv, Pass2, Early
<1>7. QED BY <1>1, <1>5, <1>6

LEMMA FateSkip ==
  ASSUME TypeOK, NEW sc \in Scans, ScanInv(sc), FateInv(sc), Skip(sc)
  PROVE  FateInv(sc)'
<1> DEFINE s == First(todo[sc])
<1>1. /\ \/ pc[sc] \in {"read", "tools"} /\ pc'[sc] = "load"
         \/ pc[sc] \in {"reread", "retools"} /\ pc'[sc] = "score"
      /\ todo'[sc] = todo[sc] \ {s}
      /\ UNCHANGED <<began, planned, new>>
  BY DEF TypeOK, Skip, Goto, files
<1>2. s \in Sessions /\ s \in todo[sc]
  BY <1>1, TodoSession DEF ScanInv, TodoInv, Reading
<1>3. \A x \in Sessions : /\ got'[sc][x] = IF x = s THEN None ELSE got[sc][x]
                          /\ fate'[sc][x] = IF x # s THEN fate[sc][x]
                                            ELSE IF pc[sc] \in {"read", "tools"} THEN "out" ELSE "seen"
  <2>1. /\ got' = [got EXCEPT ![sc][s] = None]
        /\ fate' = [fate EXCEPT ![sc][s] = IF pc[sc] \in {"read", "tools"} THEN "out" ELSE "seen"]
    BY DEF Skip
  <2> HIDE DEF s
  <2>2. QED BY <2>1 DEF TypeOK
<1> HIDE DEF s
<1>4. planned[sc] \subseteq Sessions
  BY DEF TypeOK
<1>5. CASE pc[sc] \in {"read", "tools"}
  <2>1. s \notin planned[sc]
    BY <1>2, <1>5 DEF FateInv
  <2>2. \A x \in Sessions : fate[sc][x] = IF x \in todo[sc] \/ got[sc][x] # None THEN "in" ELSE "out"
    BY <1>5 DEF FateInv
  <2>3. \A x \in Sessions : fate'[sc][x] = IF x \in todo'[sc] \/ got'[sc][x] # None THEN "in" ELSE "out"
    BY <1>1, <1>2, <1>3, <1>5, <2>2
  <2>4. planned'[sc] \cap todo'[sc] = {} /\ \A x \in planned'[sc] : fate'[sc][x] # "out"
    BY <1>1, <1>2, <1>3, <1>4, <1>5, <2>1 DEF FateInv
  <2>5. QED BY <1>1, <1>5, <2>3, <2>4 DEF FateInv, Pass2, Early
<1>6. CASE pc[sc] \in {"reread", "retools"}
  <2>1. /\ \A x \in todo[sc] : new[sc][x] = None
        /\ \A x \in Sessions :
             /\ fate[sc][x] = "in" <=> x \in todo[sc] \/ new[sc][x] # None
             /\ fate[sc][x] # "out" /\ Produced(x, began[sc][x].main) => x \in planned[sc]
        /\ \A x \in planned[sc] : fate[sc][x] # "out"
    BY <1>6 DEF FateInv, Pass2, Early
  <2>2. \A x \in Sessions : fate'[sc][x] = IF x = s THEN "seen" ELSE fate[sc][x]
    BY <1>3, <1>6
  <2>3. fate[sc][s] = "in" /\ new[sc][s] = None
    BY <1>2, <2>1
  <2>4. \A x \in Sessions :
          /\ fate'[sc][x] = "in" <=> x \in todo'[sc] \/ new'[sc][x] # None
          /\ fate'[sc][x] # "out" /\ Produced(x, began'[sc][x].main) => x \in planned'[sc]
    BY <1>1, <2>1, <2>2, <2>3
  <2>5. \A x \in planned'[sc] : fate'[sc][x] # "out"
    BY <1>1, <1>4, <2>1, <2>2
  <2>6. QED BY <1>1, <1>6, <2>1, <2>4, <2>5 DEF FateInv, Pass2, Early
<1>7. QED BY <1>1, <1>5, <1>6

LEMMA FateScoreAll ==
  ASSUME TypeOK, NEW sc \in Scans, ScanInv(sc), FateInv(sc), ScoreAll(sc)
  PROVE  FateInv(sc)'
<1>1. /\ pc[sc] = "load" /\ pc'[sc] = "score" /\ todo[sc] = {}
      /\ todo'[sc] = {s \in Sessions : got[sc][s] # None}
      /\ UNCHANGED <<began, fate, planned, new>>
  BY DEF TypeOK, ScoreAll, Goto
<1>2. \A s \in Sessions : new[sc][s] = None
  BY <1>1 DEF ScanInv, NewInv, Early
<1>3. \A s \in Sessions : fate[sc][s] = IF got[sc][s] # None THEN "in" ELSE "out"
  BY <1>1 DEF FateInv
<1>4. ASSUME NEW s \in Sessions, got[sc][s] # None, Produced(s, began[sc][s].main)
      PROVE  s \in planned[sc]
  <2>1. began[sc] # None /\ Kept(got[sc][s], began[sc][s], ver[s])
    BY <1>4 DEF ScanInv, GotInv
  <2>2. began[sc][s].main \in Versions /\ got[sc][s].fp.main \in Versions
    BY <1>4, <2>1, FilesTyped DEF File, Found, Fingerprints
  <2>3. Produced(s, got[sc][s].fp.main)
    BY <1>4, <2>1, <2>2, ProducedLater DEF Kept
  <2>4. QED BY <1>1, <1>4, <2>3 DEF ScanInv, SettledInv, AtHand
<1>5. \A s \in planned[sc] : fate[sc][s] # "out"
  BY DEF FateInv
<1>6. QED BY <1>1, <1>2, <1>3, <1>4, <1>5 DEF FateInv, Pass2, Early

LEMMA FateScore ==
  ASSUME TypeOK, NEW sc \in Scans, ScanInv(sc), FateInv(sc), Score(sc)
  PROVE  FateInv(sc)'
<1> DEFINE s == First(todo[sc])
<1>1. /\ pc[sc] = "score" /\ s \in Sessions /\ s \in todo[sc] /\ UNCHANGED <<began, fate, planned, got>>
  BY ScoreSteps
<1>2. got[sc][s] # None
  BY <1>1 DEF ScanInv, TodoInv, Pass2
<1>3. ASSUME NEW f, Chosen(sc, s, f), Scored(sc, s, f)
      PROVE  FateInv(sc)'
  <2>1. Entry(sc, s, f) # None
    <3>1. f \in Features
      <4>1. CASE f = old[sc][s].feat /\ Reusable(sc, s)
        <5>1. old[sc][s] # None
          BY <1>1, <1>2, <4>1 DEF ScanInv, SettledInv, Reusable, AtHand
        <5>2. QED BY <1>1, <4>1, <5>1, FilesTyped DEF Entries
      <4>2. CASE f = Fresh(sc, s) /\ got[sc][s].tools # None
        <5>1. got[sc][s].events # None /\ met[sc][s] # None
          BY <1>1, <1>2, <4>2 DEF ScanInv, GotInv, MetInv, Kept
        <5>2. QED BY <1>1, <1>2, <4>2, <5>1, FreshTyped
      <4>3. QED BY <1>3, <4>1, <4>2 DEF Chosen
    <3>2. Entry(sc, s, f) \in Entries
      BY <1>1, <1>2, <3>1, EntryTyped
    <3>3. QED BY <3>2, ExtractionAssumption
  <2> HIDE DEF s
  <2>2. /\ todo'[sc] = todo[sc] \ {s} /\ pc'[sc] = "score"
        /\ \A x \in Sessions : new'[sc][x] = IF x = s THEN Entry(sc, s, f) ELSE new[sc][x]
    <3> HIDE DEF Entry
    <3>1. QED BY <1>1, <1>3 DEF Scored, TypeOK, Caches
  <2>3. todo[sc] \subseteq Sessions
    BY DEF TypeOK
  <2>4. \A x \in Sessions : x \in todo[sc] \/ new[sc][x] # None <=> x \in todo'[sc] \/ new'[sc][x] # None
    BY <1>1, <2>1, <2>2
  <2>5. \A x \in todo'[sc] : new'[sc][x] = None
    BY <1>1, <2>2, <2>3 DEF FateInv, Pass2
  <2>6. QED BY <1>1, <2>2, <2>4, <2>5 DEF FateInv, Pass2, Early
<1>4. CASE pc' = [pc EXCEPT ![sc] = "reread"] /\ UNCHANGED <<todo, new>>
  <2>1. pc'[sc] = "reread"
    BY <1>4 DEF TypeOK
  <2> HIDE DEF s
  <2>2. QED BY <1>1, <1>4, <2>1 DEF FateInv, Pass2, Early
<1>5. \/ \E f : Chosen(sc, s, f) /\ Scored(sc, s, f)
      \/ /\ ~ Reusable(sc, s) /\ got[sc][s].tools = None
         /\ pc' = [pc EXCEPT ![sc] = "reread"] /\ UNCHANGED <<todo, new>>
  BY ScoreSteps, Zenon
<1> HIDE DEF s
<1>6. QED BY <1>3, <1>4, <1>5

LEMMA FateSave ==
  ASSUME TypeOK, NEW sc \in Scans, FateInv(sc),
         OpenTemp(sc) \/ WriteTemp(sc) \/ WriteRenamed(sc) \/ SaveFails(sc)
  PROVE  FateInv(sc)'
<1>1. /\ \/ pc[sc] = "score" /\ todo[sc] = {}
         \/ pc[sc] \in {"write", "renamed", "gone", "rename"}
      /\ pc'[sc] \in {"write", "rename", "unlink"}
      /\ UNCHANGED <<began, fate, todo, met, got, planned, new>>
  BY DEF TypeOK, OpenTemp, WriteTemp, WriteRenamed, SaveFails, Goto, files, local
<1>2. QED BY <1>1 DEF FateInv, Pass2, Early

LEMMA FateScan ==
  ASSUME TypeOK, NEW sc \in Scans, ScanInv(sc), FateInv(sc), Scan(sc)
  PROVE  FateInv(sc)'
BY FateOpenCache, FateLook, FateReadEvents, FateReadTools, FateSkip, FateScoreAll, FateScore, FateSave, FateOver
   DEF Scan

-----------------------------------------------------------------------------
(* The files.                                                                *)

\* What is saved is an honest cache.
LEMMA NewHonest ==
  ASSUME NEW sc \in Scans, ScanInv(sc)
  PROVE  HonestCache(new[sc])
BY DEF ScanInv, NewInv, HonestCache, Sound

LEMMA FilesEdit ==
  ASSUME TypeOK, TypeOK', FileInv, Later, UNCHANGED <<features, temp>>
  PROVE  FileInv'
<1>1. ASSUME features \notin {None, Torn}
      PROVE  HonestCache(features)'
  <2>1. features \in Caches /\ HonestCache(features)
    BY <1>1 DEF TypeOK, FileInv
  <2>2. \A s \in Sessions : features[s] # None => Honest(features[s], s, ver'[s])
    BY <2>1, HonestLater DEF HonestCache, TypeOK, Files, File, Caches, Later
  <2>3. QED BY <2>2 DEF HonestCache
<1>2. ASSUME temp \notin {None, Torn}
      PROVE  HonestCache(temp)'
  <2>1. temp \in Caches /\ HonestCache(temp)
    BY <1>2 DEF TypeOK, FileInv
  <2>2. \A s \in Sessions : temp[s] # None => Honest(temp[s], s, ver'[s])
    BY <2>1, HonestLater DEF HonestCache, TypeOK, Files, File, Caches, Later
  <2>3. QED BY <2>2 DEF HonestCache
<1>3. QED BY <1>1, <1>2 DEF FileInv

LEMMA FilesScan ==
  ASSUME TypeOK, FileInv, NEW sc \in Scans, ScanInv(sc), Scan(sc), ver' = ver
  PROVE  FileInv'
<1>1. HonestCache(new[sc])
  BY NewHonest
<1>2. features' \in {features, temp, new[sc]} /\ temp' \in {temp, None, Torn, new[sc]}
  <2>1. CASE OpenTemp(sc) \/ WriteTemp(sc) \/ WriteRenamed(sc)
    BY <2>1 DEF OpenTemp, WriteTemp, WriteRenamed
  <2>2. CASE Rename(sc) \/ Unlink(sc)
    BY <2>2 DEF Rename, Unlink
  <2>3. CASE ~ (OpenTemp(sc) \/ WriteTemp(sc) \/ WriteRenamed(sc) \/ Rename(sc) \/ Unlink(sc))
    <3>1. UNCHANGED <<features, temp>>
      BY <2>3 DEF Scan, OpenCache, Look, ReadEvents, ReadTools, ScoreAll, Score, SaveFails, Skip, Stop, files
    <3>2. QED BY <3>1
  <2>4. QED BY <2>1, <2>2, <2>3
<1>3. features' \notin {None, Torn} => HonestCache(features')
  BY <1>1, <1>2 DEF FileInv
<1>4. temp' \notin {None, Torn} => HonestCache(temp')
  BY <1>1, <1>2 DEF FileInv
<1>5. QED BY <1>3, <1>4 DEF FileInv, HonestCache

-----------------------------------------------------------------------------
(* The invariant.                                                            *)

LEMMA InitInv ==
  ASSUME Init
  PROVE  IInv
<1>1. [s \in Sessions |-> [main |-> 0, subs |-> 0]] \in Files
  BY ExtractionAssumption DEF Files, Versions
<1>2. TypeOK
  BY <1>1, EmptyTyped, ExtractionAssumption DEF Init, TypeOK, Labels
<1>3. FileInv
  BY DEF Init, FileInv
<1>4. ASSUME NEW sc \in Scans
      PROVE  ScanInv(sc) /\ FateInv(sc)
  <2>1. /\ pc[sc] = "none" /\ began[sc] = None /\ out[sc] = None /\ todo[sc] = {} /\ planned[sc] = {}
        /\ old[sc] = Empty /\ met[sc] = Empty /\ got[sc] = Empty /\ new[sc] = Empty
    BY DEF Init
  <2>2. \A s \in Sessions : Empty[s] = None
    BY DEF Empty
  <2>3. BeganInv(sc) /\ MetInv(sc) /\ HonestCache(old[sc]) /\ GotInv(sc) /\ SettledInv(sc)
        /\ PlannedInv(sc) /\ NewInv(sc)
    BY <2>1, <2>2 DEF BeganInv, MetInv, HonestCache, GotInv, SettledInv, PlannedInv, NewInv
  <2>4. TodoInv(sc)
    BY <2>1, <2>2 DEF TodoInv, Reading, Pass2
  <2>5. FateInv(sc)
    BY <2>1 DEF FateInv, Pass2, Early
  <2>6. QED BY <2>3, <2>4, <2>5 DEF ScanInv
<1>5. QED BY <1>2, <1>3, <1>4 DEF IInv

LEMMA NextInv ==
  ASSUME IInv, Next
  PROVE  IInv'
<1>1. TypeOK /\ FileInv /\ \A sc \in Scans : ScanInv(sc) /\ FateInv(sc)
  BY DEF IInv
<1>2. ASSUME NEW s \in Sessions, Edit(s)
      PROVE  IInv'
  <2>1. TypeOK' /\ Later
    BY <1>1, <1>2, EditTyped
  <2>2. UNCHANGED <<began, fate, out, features, temp, pc, todo, old, met, got, planned, new>>
    BY <1>2 DEF Edit, files, local
  <2>3. FileInv'
    BY <1>1, <2>1, <2>2, FilesEdit
  <2>4. \A sc \in Scans : ScanInv(sc)' /\ FateInv(sc)'
    BY <1>1, <2>1, <2>2, Untouched, FateUntouched DEF Frame
  <2>5. QED BY <2>1, <2>3, <2>4 DEF IInv
<1>3. ASSUME NEW sc \in Scans, NEW S \in SUBSET Sessions, Begin(sc, S)
      PROVE  IInv'
  <2>1. TypeOK'
    BY <1>1, <1>3, BeginTyped
  <2>2. ver' = ver /\ UNCHANGED <<features, temp>>
    BY <1>3 DEF Begin, files
  <2>3. Later
    BY <1>1, <2>2, SameFilesLater
  <2>4. FileInv'
    BY <1>1, <2>1, <2>2, <2>3, FilesEdit
  <2>5. ASSUME NEW x \in Scans, x # sc
        PROVE  ScanInv(x)' /\ FateInv(x)'
    <3>1. Frame(x)
      BY <1>1, <1>3, <2>5, OthersFrame
    <3>2. QED BY <1>1, <2>1, <2>3, <3>1, Untouched, FateUntouched DEF Frame
  <2>6. ScanInv(sc)' /\ FateInv(sc)'
    BY <1>1, <1>3, BeginScan, FateBegin
  <2>7. QED BY <2>1, <2>4, <2>5, <2>6 DEF IInv
<1>4. ASSUME NEW sc \in Scans, Scan(sc)
      PROVE  IInv'
  <2>1. TypeOK' /\ ver' = ver
    BY <1>1, <1>4, ScanTyped
  <2>2. Later
    BY <1>1, <2>1, SameFilesLater
  <2>3. FileInv'
    BY <1>1, <1>4, <2>1, FilesScan
  <2>4. ASSUME NEW x \in Scans, x # sc
        PROVE  ScanInv(x)' /\ FateInv(x)'
    <3>1. Frame(x)
      BY <1>1, <1>4, <2>4, OthersFrame
    <3>2. QED BY <1>1, <2>1, <2>2, <3>1, Untouched, FateUntouched DEF Frame
  <2>5. ScanInv(sc)' /\ FateInv(sc)'
    BY <1>1, <1>4, ScanScan, FateScan
  <2>6. QED BY <2>1, <2>3, <2>4, <2>5 DEF IInv
<1>5. QED BY <1>2, <1>3, <1>4 DEF Next

LEMMA StutterInv ==
  ASSUME IInv, UNCHANGED vars
  PROVE  IInv'
BY DEF IInv, TypeOK, FileInv, HonestCache, ScanInv, BeganInv, MetInv, GotInv, SettledInv, AtHand, TodoInv, PlannedInv,
       NewInv, FateInv, vars, files, local

LEMMA Inductive == Spec => []IInv
<1>1. IInv /\ [Next]_vars => IInv'
  BY NextInv, StutterInv
<1>2. QED BY <1>1, InitInv, PTL DEF Spec

\* The types: the cache file is a whole cache, torn or absent, and a scan's own
\* data is well-formed whatever the cache file held.
THEOREM TypeCorrect == Spec => []TypeOK
<1>1. IInv => TypeOK
  BY DEF IInv
<1>2. QED BY <1>1, Inductive, PTL

\* scanner.extract: a feature-cache entry whose fingerprint is that of its session's
\* files now was computed from these files, for any edits, overlapping scans,
\* failures and kills.
THEOREM CacheStaysSound == Spec => []CacheSound
<1>1. ASSUME IInv
      PROVE  CacheSound
  <2> SUFFICES ASSUME features \notin {None, Torn}, NEW s \in Sessions, features[s] # None,
                      features[s].fp = [meta |-> ver[s].main, main |-> ver[s].main, subs |-> ver[s].subs]
               PROVE  /\ {features[s].feat.meta, features[s].feat.events, features[s].feat.tools} = {ver[s].main}
                      /\ features[s].feat.subs = ver[s].subs
                      /\ features[s].plan = Produced(s, ver[s].main)
    BY DEF CacheSound
  <2>1. Honest(features[s], s, ver[s])
    BY <1>1 DEF IInv, FileInv, HonestCache
  <2>2. features[s] \in Entries
    BY <1>1 DEF IInv, TypeOK, Caches
  <2>3. /\ features[s].feat.events \in Int /\ features[s].feat.tools \in Int /\ features[s].feat.subs \in Int
        /\ ver[s].main \in Int /\ ver[s].subs \in Int
    BY <1>1, <2>2, FilesTyped, VersionsAreInts DEF IInv, Entries, Features, File
  <2>4. /\ features[s].fp.meta = ver[s].main /\ features[s].fp.main = ver[s].main /\ features[s].fp.subs = ver[s].subs
    OBVIOUS
  <2>5. /\ features[s].feat.meta = ver[s].main /\ features[s].feat.events = ver[s].main
        /\ features[s].feat.tools = ver[s].main /\ features[s].feat.subs = ver[s].subs
    BY <2>1, <2>3, <2>4 DEF Honest
  <2>6. features[s].plan <=> Produced(s, ver[s].main)
    BY <2>1, <2>4 DEF Honest
  <2>7. features[s].plan \in BOOLEAN /\ Produced(s, ver[s].main) \in BOOLEAN
    BY <2>2 DEF Entries, Produced
  <2>8. features[s].plan = Produced(s, ver[s].main)
    BY <2>6, <2>7, Zenon
  <2>9. QED BY <2>5, <2>8
<1>2. QED BY <1>1, Inductive, PTL

-----------------------------------------------------------------------------
(* The refinement.                                                           *)

LEMMA EditRefines ==
  ASSUME NEW s \in Sessions, Edit(s)
  PROVE  Cold!Edit(s)
BY DEF Edit, Cold!Edit

LEMMA BeginRefines ==
  ASSUME IInv, NEW sc \in Scans, NEW S \in SUBSET Sessions, Begin(sc, S)
  PROVE  Cold!Begin(sc, S)
<1>1. began[sc] = None
  BY DEF IInv, ScanInv, BeganInv, Begin
<1>2. QED BY <1>1 DEF Begin, Cold!Begin

\* A session left out is one that a scan without cache could not read.
LEMMA SkipRefines ==
  ASSUME IInv, NEW sc \in Scans, Skip(sc)
  PROVE  \E s \in Sessions : Cold!Fail(sc, s)
<1> DEFINE s == First(todo[sc])
           f == IF pc[sc] \in {"read", "tools"} THEN "out" ELSE "seen"
<1>1. TypeOK /\ ScanInv(sc) /\ FateInv(sc) /\ pc[sc] \in Reading
  BY DEF IInv, Skip, Reading
<1>2. s \in Sessions /\ s \in todo[sc]
  BY <1>1, TodoSession DEF ScanInv, TodoInv
<1>3. began[sc] # None /\ out[sc] = None
  BY <1>1 DEF ScanInv, BeganInv, Reading
<1>4. fate[sc][s] = "in"
  <2> HIDE DEF s
  <2>1. QED BY <1>1, <1>2 DEF FateInv, Reading, Pass2, Early
<1>5. fate' = [fate EXCEPT ![sc][s] = f] /\ UNCHANGED <<ver, began, out>>
  BY DEF Skip
<1>6. f \in {"out", "seen"}
  OBVIOUS
<1> HIDE DEF s, f
<1>7. QED BY <1>2, <1>3, <1>4, <1>5, <1>6 DEF Cold!Fail

\* The end of save is the end of a scan without cache.
LEMMA EndRefines ==
  ASSUME IInv, NEW sc \in Scans, Rename(sc) \/ Unlink(sc)
  PROVE  Cold!Finish(sc)
<1>1. TypeOK /\ ScanInv(sc) /\ FateInv(sc) /\ pc[sc] \in {"rename", "unlink"}
  BY DEF IInv, Rename, Unlink
<1>2. out' = [out EXCEPT ![sc] = Output(sc)] /\ out'[sc] = Output(sc) /\ UNCHANGED <<ver, began, fate>>
  BY <1>1 DEF Rename, Unlink, Ended, Output, TypeOK
<1>3. out'[sc] # None
  BY <1>1, <1>2, OutputTyped, ExtractionAssumption
<1>4. began[sc] # None /\ out[sc] = None
  BY <1>1 DEF ScanInv, BeganInv
<1>5. ASSUME NEW s \in Sessions, Output(sc)[s] # None
      PROVE  /\ new[sc][s] # None /\ Output(sc)[s] = new[sc][s].feat /\ new[sc][s].feat \in Features
             /\ Sound(new[sc][s], s, began[sc][s], ver[s], planned[sc])
  <2>1. new[sc][s] # None /\ Output(sc)[s] = new[sc][s].feat
    BY <1>5 DEF Output
  <2>2. QED BY <1>1, <2>1, FilesTyped DEF ScanInv, NewInv, Entries
<1>6. ASSUME NEW s \in Sessions, Output(sc)[s] # None
      PROVE  Cold!Possible(sc, s, Output(sc)[s])
  <2> DEFINE e == new[sc][s]
  <2>1. /\ Output(sc)[s] = e.feat /\ e.feat \in Features /\ e \in Entries
        /\ Sound(e, s, began[sc][s], ver[s], planned[sc])
    BY <1>1, <1>5, <1>6, FilesTyped
  <2>2. /\ began[sc][s].main \in Int /\ began[sc][s].subs \in Int /\ ver[s].main \in Int /\ ver[s].subs \in Int
        /\ e.feat.meta \in Int /\ e.feat.events \in Int /\ e.feat.tools \in Int /\ e.feat.subs \in Int
        /\ e.fp.main \in Int
    BY <1>1, <1>4, <2>1, FilesTyped, VersionsAreInts DEF File, Features, Entries, Fingerprints
  <2> HIDE DEF e
  <2>3. {e.feat.meta, e.feat.events, e.feat.tools} \subseteq Cold!Main(sc, s) /\ e.feat.subs \in Cold!Subs(sc, s)
    BY <2>1, <2>2 DEF Sound, Honest, Cold!Main, Cold!Subs
  <2>4. e.feat.prior => \E p \in Sessions :
                          <<p, s>> \in Prior /\ fate[sc][p] # "out" /\ Cold!Produced(p, ver[p].main)
    <3>1. e.feat.prior => \E p \in planned[sc] : <<p, s>> \in Prior
      BY <2>1 DEF Sound
    <3>2. \A p \in planned[sc] : p \in Sessions /\ fate[sc][p] # "out" /\ Produced(p, ver[p].main)
      BY <1>1 DEF ScanInv, FateInv, PlannedInv, TypeOK
    <3>3. QED BY <3>1, <3>2 DEF Produced, Cold!Produced
  <2>5. QED BY <2>1, <2>3, <2>4 DEF Cold!Possible
<1>7. ASSUME NEW s \in Sessions, Output(sc)[s] # None
      PROVE  Cold!Complete(sc, s, Output(sc)[s])
  <2> SUFFICES ASSUME NEW p \in Sessions, <<p, s>> \in Prior, fate[sc][p] # "out",
                      Cold!Produced(p, began[sc][p].main)
               PROVE  Output(sc)[s].prior
    BY DEF Cold!Complete
  <2>1. Produced(p, began[sc][p].main)
    BY DEF Produced, Cold!Produced
  <2>2. p \in planned[sc]
    BY <1>1, <2>1 DEF FateInv, Early
  <2>3. Sound(new[sc][s], s, began[sc][s], ver[s], planned[sc]) /\ Output(sc)[s] = new[sc][s].feat
    BY <1>5, <1>7
  <2>4. new[sc][s].feat.prior
    BY <2>2, <2>3 DEF Sound
  <2>5. QED BY <2>3, <2>4, Zenon
<1>8. ASSUME NEW s \in Sessions
      PROVE  Output(sc)[s] # None <=> fate[sc][s] = "in"
  <2>1. fate[sc][s] = "in" <=> new[sc][s] # None
    BY <1>1 DEF FateInv, Early
  <2>2. new[sc][s] # None => new[sc][s].feat # None
    BY <1>1, FilesTyped, ExtractionAssumption DEF Entries
  <2>3. QED BY <2>1, <2>2 DEF Output
<1>9. QED BY <1>2, <1>3, <1>4, <1>6, <1>7, <1>8 DEF Cold!Finish

LEMMA ScanRefines ==
  ASSUME IInv, NEW sc \in Scans, Scan(sc)
  PROVE  \/ Cold!Finish(sc) \/ \E s \in Sessions : Cold!Fail(sc, s)
         \/ UNCHANGED Cold!vars
<1>1. CASE Rename(sc) \/ Unlink(sc)
  BY <1>1, EndRefines
<1>2. CASE Skip(sc)
  BY <1>2, SkipRefines
<1>3. CASE ~ (Rename(sc) \/ Unlink(sc) \/ Skip(sc))
  BY <1>3 DEF Scan, OpenCache, Look, ReadEvents, ReadTools, ScoreAll, Score, OpenTemp, WriteTemp, WriteRenamed,
              SaveFails, Stop, files, Cold!vars
<1>4. QED BY <1>1, <1>2, <1>3

\* scanner.extract, "the output is identical either way": whatever the cache held
\* and whichever scans shared it, every output is one that a scan without a cache
\* could have had.
THEOREM ExtractionImplementsCold == Spec => SameAsCold
<1>1. Init => Cold!Init
  BY DEF Init, Cold!Init
<1>2. IInv /\ [Next]_vars => [Cold!Next]_(Cold!vars)
  <2>1. ASSUME IInv, Next
        PROVE  Cold!Next \/ UNCHANGED Cold!vars
    <3>1. ASSUME NEW s \in Sessions, Edit(s)
          PROVE  Cold!Next
      BY <3>1, EditRefines DEF Cold!Next
    <3>2. ASSUME NEW sc \in Scans, NEW S \in SUBSET Sessions, Begin(sc, S)
          PROVE  Cold!Next
      BY <2>1, <3>2, BeginRefines DEF Cold!Next
    <3>3. ASSUME NEW sc \in Scans, Scan(sc)
          PROVE  Cold!Next \/ UNCHANGED Cold!vars
      BY <2>1, <3>3, ScanRefines DEF Cold!Next
    <3>4. QED BY <2>1, <3>1, <3>2, <3>3 DEF Next
  <2>2. ASSUME UNCHANGED vars
        PROVE  UNCHANGED Cold!vars
    BY <2>2 DEF vars, Cold!vars
  <2>3. QED BY <2>1, <2>2
<1>3. QED BY <1>1, <1>2, Inductive, PTL DEF Spec, SameAsCold, Cold!Spec
=============================================================================
