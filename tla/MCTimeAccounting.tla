---------------------------- MODULE MCTimeAccounting ---------------------------
(***************************************************************************)
(* TimeAccounting for five kinds of session: turns that prompts, scripts   *)
(* and questions open and close; calls with every outcome; calls that      *)
(* poll; background shells; dispatches beside a subagent. Beside these,    *)
(* Transcript for turns: shorter transcripts written in any order of time  *)
(* and scanned again and again.                                            *)
(***************************************************************************)
EXTENDS TimeAccounting, Transcript

Typed1     == [kind |-> "user", how |-> "typed", tool |-> "none"]
Script     == [kind |-> "user", how |-> "scripted", tool |-> "none"]
Notice     == [kind |-> "user", how |-> "scripted", tool |-> "shell"]
Say        == [kind |-> "text", how |-> "more", tool |-> "none"]
HandBack   == [kind |-> "text", how |-> "end", tool |-> "none"]
Call(tool) == [kind |-> "tool", how |-> "more", tool |-> tool]
Back(how)  == [kind |-> "result", how |-> how, tool |-> "none"]

TurnMenu   == {Typed1, Script, Say, HandBack, Call("ask"), Back("ok")}
CallMenu   == {Script, Call("bash"), Back("auto"), Back("by_user"), Back("denied"), Back("rejected")}
PollMenu   == {Typed1, Call("poll"), Call("wait"), Back("ok")}
ShellMenu  == {Script, Call("shell"), Back("ok"), Notice, HandBack}
TaskMenu   == {Typed1, Call("task"), Back("ok")}
FiveMenus  == {TurnMenu, CallMenu, PollMenu, ShellMenu, TaskMenu}
SubMenu    == {Script, Say, Call("bash"), Back("auto")}

\* The loop reads a session in the order of time; or lines are written as they come,
\* and the loop runs over what each scan has sorted.
ScannedInit == SessionInit /\ TranscriptInit
ScannedNext ==
  \/ lines = <<>> /\ SessionNext /\ UNCHANGED <<lines, todo, parsed, past>>
  \/ (lines = <<>> => events = <<>>) /\ menu = TurnMenu /\ TranscriptNext /\ UNCHANGED sub
ScannedSpec == ScannedInit /\ [][ScannedNext]_<<transcriptVars, sub>>

Symmetry == Permutations(Ids)
=============================================================================
