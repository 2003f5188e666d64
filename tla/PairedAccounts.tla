----------------------------- MODULE PairedAccounts ----------------------------
(***************************************************************************)
(* What auth.json promises its readers: per API base no account or one,    *)
(* that of a finished login; a base is paired only when it was not, and    *)
(* what happens to one base leaves the others alone. Login implements it;  *)
(* Consent takes it as its environment.                                   *)
(***************************************************************************)
CONSTANTS Bases, Accounts, None

VARIABLE account   \* per base: the account the device is paired with, or None

Init == account = [b \in Bases |-> None]

Pair(b, a) == account[b] = None /\ account' = [account EXCEPT ![b] = a]

Forget(b) == account[b] # None /\ account' = [account EXCEPT ![b] = None]

Next == \E b \in Bases : Forget(b) \/ \E a \in Accounts : Pair(b, a)

Spec == Init /\ [][Next]_account
=============================================================================
