------------------------------ MODULE FullUpload -------------------------------
(***************************************************************************)
(* What an upload promises, with no refs, no ledger and no retries in      *)
(* sight: a scan hands over its payload at most once, the service then     *)
(* stores and scores exactly that payload, a session outside the payload   *)
(* is either kept as it was stored or dropped, and a scan reports "done"   *)
(* only for a payload that was handed over.                                *)
(***************************************************************************)
EXTENDS SequencesExt

CONSTANTS Sessions, Digests, Scans, None, MaxCopies, Outcomes

VARIABLES payload, outcome, accepted, stored, scored

vars == <<payload, outcome, accepted, stored, scored>>

NoPayload == [h \in Sessions |-> << >>]

Init == /\ payload = [s \in Scans |-> NoPayload]
        /\ outcome = [s \in Scans |-> "running"]
        /\ accepted = {}
        /\ stored \in [Sessions -> Digests \cup {None}]
        /\ scored = stored

Extract(s) ==
  /\ payload[s] = NoPayload /\ outcome[s] = "running"
  /\ \E p \in [Sessions -> BoundedSeq(Digests, MaxCopies)] :
       /\ payload' = [payload EXCEPT ![s] = p]
       /\ outcome' = [outcome EXCEPT ![s] = IF p = NoPayload THEN "no_sessions" ELSE @]
  /\ UNCHANGED <<accepted, stored, scored>>

Accept(s) ==
  /\ payload[s] # NoPayload
  /\ s \notin accepted
  /\ accepted' = accepted \cup {s}
  /\ \E drop, keep \in SUBSET Sessions :
       /\ scored' = [h \in Sessions |-> IF payload[s][h] # << >> THEN Last(payload[s][h])
                                        ELSE IF h \in drop THEN None ELSE stored[h]]
       /\ stored' = [h \in Sessions |-> IF scored'[h] # None THEN scored'[h]
                                        ELSE IF h \in keep THEN stored[h] ELSE None]
  /\ UNCHANGED <<payload, outcome>>

Report(s) ==
  /\ payload[s] # NoPayload
  /\ outcome[s] = "running"
  /\ \E o \in Outcomes \ {"running", "no_sessions"} :
       /\ o = "done" => s \in accepted
       /\ o = "skipped" => s \notin accepted
       /\ outcome' = [outcome EXCEPT ![s] = o]
  /\ UNCHANGED <<payload, accepted, stored, scored>>

Next == \E s \in Scans : Extract(s) \/ Accept(s) \/ Report(s)

Spec == Init /\ [][Next]_vars
=============================================================================
