--------------------------------- MODULE Login ---------------------------------
(***************************************************************************)
(* Pairing the device with an account: run.py's first run, login and       *)
(* login --switch, over the GitHub device flow (device_flow.py), the       *)
(* exchange for a token of the service (reauth.py), and three files:       *)
(* auth.json and device_id (auth_store.py: a token per API base, and the   *)
(* id a token is bound to) and pending_login.json (the one unfinished      *)
(* login, whatever its base).                                              *)
(*                                                                         *)
(* Calls of run.py follow each other, and each may be killed between any   *)
(* two file operations. A file that does not parse reads like one without  *)
(* entries, so a truncated file is written as the empty value.             *)
(***************************************************************************)
EXTENDS Integers

CONSTANTS
  Bases,      \* API bases: production, a development server
  Accounts,   \* GitHub accounts
  None,
  MaxChanges, \* bound: calls with --switch, or for another base than the last
  MaxFaults,  \* bound: failed requests, polls told to slow down, denied, late or
              \* rejected logins
  MaxKills    \* bound: calls killed half way

Token == [base : Bases, by : Accounts, device : {"empty", "id"}]
PendingLogin == [st : {"issued", "shown", "allowed", "spent", "denied"},
                 base : Bases, by : Accounts \cup {None}, old : BOOLEAN]

ASSUME LoginAssumption ==
  /\ None \notin Bases \cup Accounts \cup {"empty", "id"}
  /\ None \notin Token \cup PendingLogin
  /\ MaxChanges \in Nat /\ MaxFaults \in Nat /\ MaxKills \in Nat

VARIABLES
  \* files
  auth,      \* auth.json: per base the token: its base, account and device id
  device,    \* device_id: None, "empty" or "id"
  pending,   \* pending_login.json: the code of the unfinished login, with what
             \* became of it at GitHub
  \* the current call of run.py
  pc, op, base, tty,
  \* bounds
  changes, faults, kills

files  == <<auth, device, pending>>
caller == <<op, base, tty>>
bounds == <<changes, faults, kills>>
vars   == <<files, pc, caller, bounds>>

Init ==
  /\ auth = [b \in Bases |-> None] /\ device = None /\ pending = None
  /\ pc = "idle" /\ op = None /\ base \in Bases /\ tty = FALSE
  /\ changes = 0 /\ faults = 0 /\ kills = 0

Goto(l) == pc' = l /\ UNCHANGED caller
EndCall == pc' = "idle" /\ op' = None /\ tty' = FALSE /\ UNCHANGED base
Fault == faults < MaxFaults /\ faults' = faults + 1 /\ UNCHANGED <<changes, kills>>

-----------------------------------------------------------------------------
(* A call: run.py, run.py login, run.py login --switch.                      *)

Begin(o, b, t) ==
  /\ pc = "idle"
  /\ op' = o /\ base' = b /\ tty' = t
  /\ IF o = "switch" \/ b # base
       THEN changes < MaxChanges /\ changes' = changes + 1
       ELSE UNCHANGED changes
  /\ pc' = IF o = "switch" THEN "forget" ELSE "resolve"
  /\ UNCHANGED <<files, faults, kills>>

\* Mutant: the store is rewritten in place; a kill leaves it truncated.
Forget_InPlace ==
  /\ pc = "forget"
  /\ \/ /\ auth' = [auth EXCEPT ![base] = None]
        /\ Goto("unpend") /\ UNCHANGED bounds
     \/ /\ kills < MaxKills /\ kills' = kills + 1
        /\ auth' = [b \in Bases |-> None]
        /\ EndCall /\ UNCHANGED <<changes, faults>>
  /\ UNCHANGED <<device, pending>>

\* login --switch: clear_auth forgets the token of this base, in one rename.
Forget ==
  /\ pc = "forget"
  /\ auth' = [auth EXCEPT ![base] = None]
  /\ Goto("unpend")
  /\ UNCHANGED <<device, pending, bounds>>

\* _clear_pending: for --switch before the login, otherwise after it.
Unpend ==
  /\ pc = "unpend"
  /\ pending' = None
  /\ IF auth[base] = None THEN Goto("resolve") ELSE EndCall
  /\ UNCHANGED <<auth, device, bounds>>

\* A token for this base ends the login, also one the service rejects.
Resolve ==
  /\ pc = "resolve"
  /\ IF auth[base] = None THEN Goto("device") ELSE EndCall
  /\ UNCHANGED <<files, bounds>>

\* Mutant: every login makes a new id.
ReadDeviceId_Anew ==
  /\ pc = "device"
  /\ Goto("name") /\ device' = "empty"
  /\ UNCHANGED <<auth, pending, bounds>>

\* load_or_create_device_id: a file that is there is read, also an empty one; a
\* new one is opened, then written.
ReadDeviceId ==
  /\ pc = "device"
  /\ IF device # None THEN Goto("resume") /\ UNCHANGED device
                      ELSE Goto("name") /\ device' = "empty"
  /\ UNCHANGED <<auth, pending, bounds>>

WriteDeviceId ==
  /\ pc = "name"
  /\ device' = "id"
  /\ Goto("resume")
  /\ UNCHANGED <<auth, pending, bounds>>

\* Mutants: a login of another base is resumed; an old one is; none is.
Resumable_AnyBase == pending # None /\ ~ pending.old
Resumable_Ageless == pending # None /\ pending.base = base
Resumable_Never == FALSE
Resumable == pending # None /\ pending.base = base /\ ~ pending.old

\* An interrupted login goes on with the same code: an agent's call asks GitHub
\* before it shows the code again, a terminal shows it first.
Resume ==
  /\ pc = "resume"
  /\ Goto(IF ~ Resumable THEN "fresh" ELSE IF tty THEN "show" ELSE "poll")
  /\ UNCHANGED <<files, bounds>>

\* start_device_flow; then _save_pending: open truncates the one file, whatever
\* login it held, and the new code is written.
StartFlow ==
  /\ pc = "fresh"
  /\ Goto("save")
  /\ UNCHANGED <<files, bounds>>

OpenPending ==
  /\ pc = "save"
  /\ pending' = None
  /\ Goto("saving")
  /\ UNCHANGED <<auth, device, bounds>>

WritePending ==
  /\ pc = "saving"
  /\ pending' = [st |-> "issued", base |-> base, by |-> None, old |-> FALSE]
  /\ Goto("show")
  /\ UNCHANGED <<auth, device, bounds>>

Shown == [pending EXCEPT !.st = IF @ = "issued" THEN "shown" ELSE @]

\* The code is on the screen. A terminal goes on to poll, an agent's call stops.
Show ==
  /\ pc = "show"
  /\ pending' = Shown
  /\ IF tty THEN Goto("poll") ELSE EndCall
  /\ UNCHANGED <<auth, device, bounds>>

\* Mutant: an answer without an access token is taken for one.
Granted_Unasked ==
  /\ pc = "poll"
  /\ pending.st \in {"shown", "allowed"} /\ ~ pending.old
  /\ pending' = [pending EXCEPT !.st = "spent"]
  /\ Goto("exchange")
  /\ UNCHANGED <<auth, device, bounds>>

\* GitHub answers with the access token, once.
Granted ==
  /\ pc = "poll"
  /\ pending.st = "allowed" /\ ~ pending.old
  /\ pending' = [pending EXCEPT !.st = "spent"]
  /\ Goto("exchange")
  /\ UNCHANGED <<auth, device, bounds>>

\* No token: an agent's call stops polling after a few seconds or at an error
\* and shows the same code again; a terminal waits, and ends at an error. The
\* pending login stays, also that of a code that is spent or denied.
NotGranted ==
  /\ pc = "poll"
  /\ pending.st # "allowed" \/ pending.old
  /\ \/ tty /\ (pending.st # "shown" \/ pending.old) /\ UNCHANGED pending
     \/ ~ tty /\ pending' = Shown
  /\ EndCall
  /\ UNCHANGED <<auth, device, bounds>>

\* slow_down: GitHub wants a longer interval, and withholds the token it would
\* grant. A terminal waits and asks again; an agent's call has no time left to, and
\* shows the same code. The longer interval is not kept for the next call.
SlowDown ==
  /\ pc = "poll"
  /\ ~ pending.old
  /\ Fault
  /\ \/ tty /\ UNCHANGED <<pending, pc, caller>>
     \/ ~ tty /\ pending' = Shown /\ EndCall
  /\ UNCHANGED <<auth, device>>

\* The service checks the access token and mints its own.
Exchange ==
  /\ pc = "exchange"
  /\ Goto("keep")
  /\ UNCHANGED <<files, bounds>>

Refused ==
  /\ pc = "exchange"
  /\ Fault
  /\ pending' = None
  /\ EndCall
  /\ UNCHANGED <<auth, device>>

\* Mutant: the file holds one token.
Keep_Single ==
  /\ pc = "keep"
  /\ auth' = [b \in Bases |-> IF b = base THEN [base |-> base, by |-> pending.by, device |-> device] ELSE None]
  /\ Goto("unpend")
  /\ UNCHANGED <<device, pending, bounds>>

\* save_auth: the store as read, with the entry of this base.
Keep ==
  /\ pc = "keep"
  /\ auth' = [auth EXCEPT ![base] = [base |-> pending.base, by |-> pending.by, device |-> device]]
  /\ Goto("unpend")
  /\ UNCHANGED <<device, pending, bounds>>

\* No answer: to start_device_flow it is "unreachable", to a poll or to the
\* exchange an exception that ends the call with the pending login in place.
Unreachable ==
  /\ pc \in {"fresh", "poll", "exchange"}
  /\ Fault
  /\ EndCall
  /\ UNCHANGED files

-----------------------------------------------------------------------------
(* The user, GitHub, the machine.                                            *)

Authorise(a) ==
  /\ pending # None /\ pending.st = "shown" /\ ~ pending.old
  /\ pending' = [pending EXCEPT !.st = "allowed", !.by = a]
  /\ UNCHANGED <<auth, device, pc, caller, bounds>>

Deny ==
  /\ pending # None /\ pending.st = "shown" /\ ~ pending.old
  /\ Fault
  /\ pending' = [pending EXCEPT !.st = "denied"]
  /\ UNCHANGED <<auth, device, pc, caller>>

\* A code ends after 15 minutes: before the user has seen it, or after the user
\* authorised it, that is a fault.
Expire ==
  /\ pending # None /\ ~ pending.old
  /\ IF pending.st \in {"issued", "allowed"} THEN Fault ELSE UNCHANGED bounds
  /\ pending' = [pending EXCEPT !.old = TRUE]
  /\ UNCHANGED <<auth, device, pc, caller>>

Kill ==
  /\ pc # "idle"
  /\ kills < MaxKills /\ kills' = kills + 1
  /\ EndCall
  /\ UNCHANGED <<files, changes, faults>>

-----------------------------------------------------------------------------
Call == \/ Forget \/ Unpend \/ Resolve \/ ReadDeviceId \/ WriteDeviceId \/ Resume
        \/ StartFlow \/ OpenPending \/ WritePending \/ Show \/ Granted \/ NotGranted \/ Exchange \/ Keep
User == Deny \/ \E a \in Accounts : Authorise(a)

BeginAny == \E o \in {"run", "login", "switch"}, b \in Bases, t \in BOOLEAN : Begin(o, b, t)

Next == BeginAny \/ Call \/ SlowDown \/ Refused \/ Unreachable \/ Kill \/ User \/ Expire

Spec == Init /\ [][Next]_vars

\* The user, or the agent, calls again until the device is paired, and answers a
\* code on the screen; a call runs on; time passes.
FairSpec == Spec /\ WF_vars(BeginAny) /\ WF_vars(Call) /\ SF_vars(User) /\ WF_vars(Expire)

-----------------------------------------------------------------------------
Labels == {"idle", "forget", "unpend", "resolve", "device", "name", "resume", "fresh", "save", "saving",
           "show", "poll", "exchange", "keep"}

TypeOK ==
  /\ auth \in [Bases -> Token \cup {None}]
  /\ device \in {None, "empty", "id"}
  /\ pending \in {None} \cup PendingLogin
  /\ pc \in Labels
  /\ op \in {"run", "login", "switch", None}
  /\ base \in Bases /\ tty \in BOOLEAN
  /\ changes \in 0..MaxChanges /\ faults \in 0..MaxFaults /\ kills \in 0..MaxKills

-----------------------------------------------------------------------------
(* Properties.                                                               *)

\* "Stores device tokens keyed by API base so prod and dev credentials coexist"
\* (auth_store.py): a token under a base is one of that base, from a code its
\* client id issued, though all bases share one pending login.
TokensOfTheirBase == \A b \in Bases : auth[b] # None => auth[b].base = b

\* A token is bound to the device id it was minted with, and every upload sends
\* the id in the file: they stay the same, whatever call was killed where.
TokensOfThisDevice == \A b \in Bases : auth[b] # None => auth[b].device = device

\* A stored token goes only by login --switch for its own base: not by a kill in
\* a write, and not by a login for another base.
TokenKept ==
  [][\A b \in Bases : (auth[b] # None /\ auth'[b] # auth[b]) => op = "switch" /\ base = b]_vars

\* "An interrupted login resumes the same code rather than issuing a fresh one"
\* (run.py, _login_step): a code the user can still use stays the pending one
\* until --switch, or a login for another base, discards it.
Usable == pending # None /\ ~ pending.old /\ pending.st \in {"shown", "allowed"}
SameCodeResumed ==
  [][(Usable /\ pending' = None) => op = "switch" \/ base # pending.base]_vars

\* A user who answers in time and calls again ends up paired, whatever codes were
\* lost to kills, refusals, another base's login or a full 15 minutes, and whichever
\* polls were told to slow down, as long as GitHub does not tell each one to.
LoginCompletes == <>[](auth[base] # None)

\* What the rest of the program sees of all this: accounts come and go, one base
\* at a time, in single steps.
paired == [b \in Bases |-> IF auth[b] = None THEN None ELSE auth[b].by]
Paired == INSTANCE PairedAccounts WITH account <- paired
PairsAndForgets == Paired!Spec
=============================================================================
