----------------------------- MODULE ColdExtraction ----------------------------
(***************************************************************************)
(* What extract promises (scanner.py: "the output is identical either      *)
(* way", with or without the cache of an earlier scan): every session of   *)
(* the output is one the scan itself could have read, each file as it was  *)
(* at some moment between the scan's start and its end; no session of the  *)
(* scan is missing but those that could not be read; and the plan signal   *)
(* is that of the sibling sessions of the same scan. There is no cache     *)
(* here. Extraction implements it.                                         *)
(***************************************************************************)
EXTENDS Integers

CONSTANTS Sessions, Prior, Planners, Scans, None

VARIABLES
  ver,    \* per session the versions of its transcript and of its subagents'
  began,  \* per scan None, or ver as it was when the scan began
  fate,   \* per scan and session: "in" the scan; "out" of it: not listed, or not
          \* readable; or "seen": its plan signal counts, but it is left out
  out     \* per scan None, or its output: per session None or its features

vars == <<ver, began, fate, out>>

\* A planning session has made its plan artifact in every version but the first.
Produced(s, v) == s \in Planners /\ v > 0

Init ==
  /\ ver = [s \in Sessions |-> [main |-> 0, subs |-> 0]]
  /\ began = [sc \in Scans |-> None] /\ out = [sc \in Scans |-> None]
  /\ fate = [sc \in Scans |-> [s \in Sessions |-> "out"]]

Edit(s) ==
  /\ \/ ver' = [ver EXCEPT ![s].main = @ + 1]
     \/ ver' = [ver EXCEPT ![s].subs = @ + 1]
  /\ UNCHANGED <<began, fate, out>>

\* The sessions S are listed.
Begin(sc, S) ==
  /\ began[sc] = None
  /\ began' = [began EXCEPT ![sc] = ver]
  /\ fate' = [fate EXCEPT ![sc] = [s \in Sessions |-> IF s \in S THEN "in" ELSE "out"]]
  /\ UNCHANGED <<ver, out>>

\* A session cannot be read. One that was known to have its artifact before the
\* read that fails counts as a sibling all the same.
Fail(sc, s) ==
  /\ began[sc] # None /\ out[sc] = None /\ fate[sc][s] = "in"
  /\ \E f \in {"out", "seen"} : fate' = [fate EXCEPT ![sc][s] = f]
  /\ UNCHANGED <<ver, began, out>>

Main(sc, s) == began[sc][s].main .. ver[s].main
Subs(sc, s) == began[sc][s].subs .. ver[s].subs

\* What a scan can read of s. An earlier sibling that is not listed in the scan,
\* or was not readable, does not count for the plan signal.
Possible(sc, s, f) ==
  /\ {f.meta, f.events, f.tools} \subseteq Main(sc, s) /\ f.subs \in Subs(sc, s)
  /\ f.prior => \E p \in Sessions : <<p, s>> \in Prior /\ fate[sc][p] # "out" /\ Produced(p, ver[p].main)

\* A sibling of the scan whose artifact was there from the start is not overlooked.
Complete(sc, s, f) ==
  \A p \in Sessions :
    <<p, s>> \in Prior /\ fate[sc][p] # "out" /\ Produced(p, began[sc][p].main) => f.prior

Finish(sc) ==
  /\ began[sc] # None /\ out[sc] = None /\ out'[sc] # None
  /\ \A s \in Sessions :
       /\ out'[sc][s] # None <=> fate[sc][s] = "in"
       /\ out'[sc][s] # None => Possible(sc, s, out'[sc][s]) /\ Complete(sc, s, out'[sc][s])
  /\ out' = [out EXCEPT ![sc] = out'[sc]]
  /\ UNCHANGED <<ver, began, fate>>

Next == \/ \E s \in Sessions : Edit(s)
        \/ \E sc \in Scans : \/ Finish(sc)
                             \/ \E s \in Sessions : Fail(sc, s)
                             \/ \E S \in SUBSET Sessions : Begin(sc, S)

Spec == Init /\ [][Next]_vars
=============================================================================
