------------------------------ MODULE LoginProofs ------------------------------
(***************************************************************************)
(* Proofs about Login, for any bases and accounts and every bound.         *)
(***************************************************************************)
EXTENDS Login, TLAPS

\* From reading the device id on, a call is logging in to a base without token.
LoggingIn == {"device", "name", "resume", "fresh", "save", "saving", "show", "poll", "exchange", "keep"}
UnpairedInv == pc \in LoggingIn => auth[base] = None

\* Tokens carry the id in the file; while that is being written there are none.
DeviceInv ==
  /\ TokensOfThisDevice
  /\ pc = "name" => \A b \in Bases : auth[b] = None
  /\ pc \in LoggingIn \ {"device"} => device # None

\* The code a call works with is that of its base; one that was granted has an
\* account.
PendingInv ==
  /\ pc \in {"show", "poll", "exchange", "keep"} => pending # None /\ pending.base = base
  /\ pending # None /\ pending.st \in {"allowed", "spent"} => pending.by \in Accounts
  /\ pc \in {"exchange", "keep"} => pending.st = "spent"

\* A call drops the pending login at --switch, after its login, or when it cannot
\* be resumed.
DropInv ==
  /\ pc = "forget" => op = "switch"
  /\ pc = "unpend" => op = "switch" \/ ~ Usable
  /\ pc \in {"fresh", "save"} => ~ Resumable

IInv == TypeOK /\ UnpairedInv /\ DeviceInv /\ PendingInv /\ DropInv /\ TokensOfTheirBase

-----------------------------------------------------------------------------
LEMMA InitInv == Init => IInv
<1>1. Init => tty \in BOOLEAN
  BY DEF Init
<1>2. Init => IInv
  BY <1>1, LoginAssumption
     DEF Init, IInv, TypeOK, UnpairedInv, DeviceInv, PendingInv, DropInv, TokensOfTheirBase,
         TokensOfThisDevice, LoggingIn, Labels, Usable, Resumable
<1>3. QED BY <1>2

LEMMA Ended ==
  ASSUME EndCall
  PROVE  pc' = "idle" /\ op' = None /\ base' = base /\ tty' \in BOOLEAN
<1>1. tty' \in BOOLEAN
  BY DEF EndCall
<1>2. QED BY <1>1 DEF EndCall

\* Steps of a call that write no file.
LEMMA QuietStep ==
  ASSUME IInv, \/ Resolve \/ Resume \/ StartFlow \/ Exchange \/ Unreachable \/ Kill
               \/ \E o \in {"run", "login", "switch"}, b \in Bases, t \in BOOLEAN : Begin(o, b, t)
  PROVE  IInv'
<1> USE LoginAssumption
    DEF IInv, TypeOK, UnpairedInv, DeviceInv, PendingInv, DropInv, TokensOfTheirBase,
        TokensOfThisDevice, LoggingIn, Labels, files, caller, bounds, Goto, Fault,
        Usable, Resumable
<1>1. CASE Resolve      BY <1>1, Ended DEF Resolve
<1>2. CASE Resume       BY <1>2 DEF Resume
<1>3. CASE StartFlow    BY <1>3 DEF StartFlow
<1>4. CASE Exchange     BY <1>4 DEF Exchange
<1>5. CASE Unreachable  BY <1>5, Ended DEF Unreachable
<1>6. CASE Kill         BY <1>6, Ended DEF Kill
<1>7. ASSUME NEW o \in {"run", "login", "switch"}, NEW b \in Bases, NEW t \in BOOLEAN, Begin(o, b, t)
      PROVE  IInv'
  BY <1>7 DEF Begin
<1>8. QED BY <1>1, <1>2, <1>3, <1>4, <1>5, <1>6, <1>7

\* Steps that change auth.json or the device id.
LEMMA StoreStep ==
  ASSUME IInv, Forget \/ ReadDeviceId \/ WriteDeviceId \/ Keep
  PROVE  IInv'
<1> USE LoginAssumption
    DEF IInv, TypeOK, UnpairedInv, DeviceInv, PendingInv, DropInv, TokensOfTheirBase,
        TokensOfThisDevice, LoggingIn, Labels, files, caller, bounds, Goto, Usable, Resumable
<1>1. CASE Forget         BY <1>1 DEF Forget
<1>2. CASE ReadDeviceId
  <2>1. device = None => \A b \in Bases : auth[b] = None
    BY DEF Token
  <2>2. QED BY <1>2, <2>1 DEF ReadDeviceId
<1>3. CASE WriteDeviceId  BY <1>3 DEF WriteDeviceId
<1>4. CASE Keep
  <2>1. [base |-> pending.base, by |-> pending.by, device |-> device] \in Token
    BY <1>4 DEF Keep, Token, PendingLogin
  <2>2. QED BY <1>4, <2>1 DEF Keep
<1>5. QED BY <1>1, <1>2, <1>3, <1>4

\* A pending login stays one, for the same base and with the account it has.
LEMMA PendingKept ==
  ASSUME IInv, pending # None,
         Show \/ Granted \/ NotGranted \/ SlowDown \/ Deny \/ Expire \/ \E a \in Accounts : Authorise(a)
  PROVE  /\ pending' \in PendingLogin /\ pending'.base = pending.base
         /\ pending'.st \in {"allowed", "spent"} => pending'.by \in Accounts
         /\ pending.st = "spent" => pending'.st = "spent"
<1>1. pending \in PendingLogin /\ (pending.st \in {"allowed", "spent"} => pending.by \in Accounts)
  BY DEF IInv, TypeOK, PendingInv
<1>2. CASE UNCHANGED pending
  BY <1>1, <1>2
<1>3. CASE pending' = Shown
  BY <1>1, <1>3 DEF Shown, PendingLogin
<1>4. CASE Granted
  BY <1>1, <1>4 DEF Granted, PendingLogin
<1>5. CASE Deny
  BY <1>1, <1>5 DEF Deny, PendingLogin
<1>6. CASE Expire
  BY <1>1, <1>6 DEF Expire, PendingLogin
<1>7. ASSUME NEW a \in Accounts, Authorise(a)
      PROVE  /\ pending' \in PendingLogin /\ pending'.base = pending.base
             /\ pending'.by \in Accounts /\ pending.st = "shown"
  BY <1>1, <1>7 DEF Authorise, PendingLogin
<1>8. QED
  BY <1>2, <1>3, <1>4, <1>5, <1>6, <1>7 DEF Show, NotGranted, SlowDown

\* An expired login cannot be used or resumed; an answer makes none usable.
LEMMA ExpiredPending ==
  ASSUME IInv, Expire
  PROVE  ~ Usable' /\ ~ Resumable'
<1>1. pending \in PendingLogin /\ pending' = [pending EXCEPT !.old = TRUE]
  BY DEF IInv, TypeOK, Expire
<1>2. pending'.old = TRUE
  BY <1>1 DEF PendingLogin
<1>3. QED BY <1>2 DEF Usable, Resumable

LEMMA AnsweredPending ==
  ASSUME IInv, Deny \/ \E a \in Accounts : Authorise(a)
  PROVE  (Usable' => Usable) /\ (Resumable' => Resumable)
<1>1. /\ pending \in PendingLogin /\ pending.st = "shown" /\ ~ pending.old /\ pending # None
      /\ base' = base
  BY DEF IInv, TypeOK, Deny, Authorise, caller
<1>2. pending'.base = pending.base
  <2>1. CASE Deny  BY <1>1, <2>1 DEF Deny, PendingLogin
  <2>2. ASSUME NEW a \in Accounts, Authorise(a) PROVE pending'.base = pending.base
    BY <1>1, <2>2 DEF Authorise, PendingLogin
  <2>3. QED BY <2>1, <2>2
<1>3. QED BY <1>1, <1>2 DEF Usable, Resumable

LEMMA UserFrame ==
  ASSUME IInv, Deny \/ Expire \/ \E a \in Accounts : Authorise(a)
  PROVE  /\ UNCHANGED <<auth, device, pc, op, base, tty>>
         /\ changes' \in 0..MaxChanges /\ faults' \in 0..MaxFaults /\ kills' \in 0..MaxKills
<1>1. UNCHANGED <<auth, device, pc, op, base, tty>> /\ (Fault \/ UNCHANGED bounds)
  BY DEF Deny, Expire, Authorise, caller
<1>2. QED BY <1>1, LoginAssumption DEF IInv, TypeOK, Fault, bounds

\* Steps that change the pending login.
LEMMA PendingStep ==
  ASSUME IInv, \/ Unpend \/ OpenPending \/ WritePending \/ Show \/ Granted \/ NotGranted
               \/ SlowDown \/ Refused \/ Deny \/ Expire \/ \E a \in Accounts : Authorise(a)
  PROVE  IInv'
<1> USE LoginAssumption
    DEF IInv, TypeOK, UnpairedInv, DeviceInv, PendingInv, DropInv, TokensOfTheirBase,
        TokensOfThisDevice, LoggingIn, Labels, files, caller, bounds, Goto, Fault
<1>1. CASE Unpend        BY <1>1, Ended DEF Unpend, Usable, Resumable
<1>2. CASE OpenPending   BY <1>2 DEF OpenPending
<1>3. CASE WritePending
  <2>1. pending' \in PendingLogin
    BY <1>3 DEF WritePending, PendingLogin
  <2>2. QED BY <1>3, <2>1 DEF WritePending
<1>4. CASE Refused       BY <1>4, Ended DEF Refused
<1>5. CASE Show \/ Granted \/ NotGranted \/ SlowDown \/ Deny \/ Expire \/ \E a \in Accounts : Authorise(a)
  <2>1. pending # None
    BY <1>5 DEF Show, Granted, NotGranted, SlowDown, Deny, Expire, Authorise
  <2>2. /\ pending' \in PendingLogin /\ pending'.base = pending.base
        /\ pending'.st \in {"allowed", "spent"} => pending'.by \in Accounts
        /\ pending.st = "spent" => pending'.st = "spent"
    BY <1>5, <2>1, PendingKept
  <2>3. CASE Show        BY <2>1, <2>2, <2>3, Ended DEF Show
  <2>4. CASE Granted     BY <2>1, <2>2, <2>4 DEF Granted
  <2>5. CASE NotGranted  BY <2>1, <2>2, <2>5, Ended DEF NotGranted
  <2>6. CASE Deny
    <3>1. (Usable' => Usable) /\ (Resumable' => Resumable)
      BY <2>6, AnsweredPending
    <3>2. QED BY <2>1, <2>2, <2>6, <3>1, UserFrame
  <2>7. CASE Expire
    <3>1. ~ Usable' /\ ~ Resumable'
      BY <2>7, ExpiredPending
    <3>2. QED BY <2>1, <2>2, <2>7, <3>1, UserFrame
  <2>8. ASSUME NEW a \in Accounts, Authorise(a) PROVE IInv'
    <3>1. (Usable' => Usable) /\ (Resumable' => Resumable)
      BY <2>8, AnsweredPending
    <3>2. QED BY <2>1, <2>2, <2>8, <3>1, UserFrame
  <2>9. CASE SlowDown    BY <2>1, <2>2, <2>9, Ended DEF SlowDown
  <2>10. QED BY <1>5, <2>3, <2>4, <2>5, <2>6, <2>7, <2>8, <2>9
<1>6. QED BY <1>1, <1>2, <1>3, <1>4, <1>5

LEMMA StepInv == IInv /\ [Next]_vars => IInv'
<1> SUFFICES ASSUME IInv, [Next]_vars PROVE IInv'
  OBVIOUS
<1>1. CASE UNCHANGED vars
  BY <1>1 DEF vars, files, caller, bounds, IInv, TypeOK, UnpairedInv, DeviceInv, PendingInv,
     DropInv, TokensOfTheirBase, TokensOfThisDevice, Usable, Resumable
<1>2. CASE Next
  BY <1>2, QuietStep, StoreStep, PendingStep DEF Next, BeginAny, Call, User
<1>3. QED BY <1>1, <1>2

LEMMA Invariance == Spec => []IInv
BY InitInv, StepInv, PTL DEF Spec

\* The three files and the call keep their types; in particular no token is kept
\* for a code nobody authorised.
THEOREM TypeCorrect == Spec => []TypeOK
<1>1. IInv => TypeOK
  BY DEF IInv
<1>2. QED BY Invariance, <1>1, PTL

\* Production and development tokens never mix, although one file holds the
\* pending login of either.
THEOREM TokensStayApart == Spec => []TokensOfTheirBase
<1>1. IInv => TokensOfTheirBase
  BY DEF IInv
<1>2. QED BY Invariance, <1>1, PTL

\* Every token was minted for the device id the file holds, also when the write
\* of the id was cut short.
THEOREM TokensFitDevice == Spec => []TokensOfThisDevice
<1>1. IInv => TokensOfThisDevice
  BY DEF IInv, DeviceInv
<1>2. QED BY Invariance, <1>1, PTL

-----------------------------------------------------------------------------
(* Steps.                                                                   *)

\* auth.json changes in two places.
LEMMA AuthStep ==
  ASSUME IInv, [Next]_vars
  PROVE  \/ UNCHANGED auth
         \/ Forget
         \/ Keep /\ auth[base] = None
<1>1. CASE UNCHANGED vars  BY <1>1 DEF vars, files
<1>2. CASE Next
  <2>1. CASE BeginAny         BY <2>1 DEF BeginAny, Begin, files
  <2>2. CASE Call
    BY <2>2 DEF Call, Unpend, Resolve, ReadDeviceId, WriteDeviceId, Resume, StartFlow, OpenPending,
       WritePending, Show, Granted, NotGranted, Exchange, Keep, files, IInv, UnpairedInv, LoggingIn
  <2>3. CASE SlowDown \/ Refused \/ Unreachable \/ Kill \/ Expire
    BY <2>3 DEF SlowDown, Refused, Unreachable, Kill, Expire, files
  <2>4. CASE User
    BY <2>4 DEF User, Deny, Authorise
  <2>5. QED BY <1>2, <2>1, <2>2, <2>3, <2>4 DEF Next
<1>3. QED BY <1>1, <1>2

\* A stored token is only ever given up by --switch for its own base.
THEOREM TokensAreKept == Spec => TokenKept
<1>1. IInv /\ [Next]_vars =>
        [\A b \in Bases : (auth[b] # None /\ auth'[b] # auth[b]) => op = "switch" /\ base = b]_vars
  <2> SUFFICES ASSUME IInv, [Next]_vars, NEW b \in Bases, auth[b] # None, auth'[b] # auth[b]
               PROVE  op = "switch" /\ base = b
    OBVIOUS
  <2>1. CASE Forget
    BY <2>1 DEF Forget, IInv, DropInv, TypeOK
  <2>2. CASE Keep /\ auth[base] = None
    BY <2>2 DEF Keep, IInv, TypeOK
  <2>3. QED BY <2>1, <2>2, AuthStep
<1>2. QED BY Invariance, <1>1, PTL DEF Spec, TokenKept

\* A code the user can still use is not thrown away by a call that could resume it.
THEOREM CodesAreResumed == Spec => SameCodeResumed
<1>1. IInv /\ [Next]_vars =>
        [(Usable /\ pending' = None) => op = "switch" \/ base # pending.base]_vars
  <2> SUFFICES ASSUME IInv, [Next]_vars, Usable, pending' = None, pending # None
               PROVE  op = "switch" \/ base # pending.base
    BY DEF Usable
  <2> USE LoginAssumption
  <2>1. CASE UNCHANGED vars  BY <2>1 DEF vars, files
  <2>2. CASE BeginAny        BY <2>2 DEF BeginAny, Begin, files
  <2>3. CASE Unpend          BY <2>3 DEF Unpend, IInv, DropInv
  <2>4. CASE OpenPending     BY <2>4 DEF OpenPending, IInv, DropInv, Usable, Resumable
  <2>5. CASE Refused         BY <2>5 DEF Refused, IInv, PendingInv, Usable
  <2>6. CASE WritePending
    <3>1. pending' \in PendingLogin
      BY <2>6 DEF WritePending, IInv, TypeOK, PendingLogin
    <3>2. QED BY <3>1
  <2>7. CASE Show \/ Granted \/ NotGranted \/ SlowDown \/ User \/ Expire
    <3>1. pending \in PendingLogin
      BY DEF IInv, TypeOK
    <3>2. pending' \in PendingLogin
      BY <2>7, <3>1
         DEF Show, Shown, Granted, NotGranted, SlowDown, User, Authorise, Deny, Expire, PendingLogin
    <3>3. QED BY <3>2
  <2>8. CASE \/ Forget \/ Resolve \/ ReadDeviceId \/ WriteDeviceId \/ Resume \/ StartFlow
             \/ Exchange \/ Keep \/ Unreachable \/ Kill
    BY <2>8 DEF Forget, Resolve, ReadDeviceId, WriteDeviceId, Resume, StartFlow, Exchange, Keep,
       Unreachable, Kill, files
  <2>9. QED
    BY <2>1, <2>2, <2>3, <2>4, <2>5, <2>6, <2>7, <2>8 DEF Next, Call
<1>2. QED BY Invariance, <1>1, PTL DEF Spec, SameCodeResumed

-----------------------------------------------------------------------------
(* Login implements PairedAccounts.                                         *)

LEMMA PairedInit == Init => Paired!Init
BY DEF Init, paired, Paired!Init

LEMMA PairedStep == IInv /\ [Next]_vars => [Paired!Next]_paired
<1> SUFFICES ASSUME IInv, [Next]_vars PROVE Paired!Next \/ UNCHANGED paired
  OBVIOUS
<1> USE LoginAssumption
<1>1. CASE UNCHANGED auth
  BY <1>1 DEF paired
<1>2. CASE Forget
  <2>1. base \in Bases /\ auth' = [auth EXCEPT ![base] = None] /\ auth \in [Bases -> Token \cup {None}]
    BY <1>2 DEF Forget, IInv, TypeOK
  <2>2. paired' = [paired EXCEPT ![base] = None]
    BY <2>1 DEF paired
  <2>3. CASE auth[base] = None
    BY <2>1, <2>3 DEF paired
  <2>4. CASE auth[base] # None
    <3>1. paired[base] # None
      BY <2>1, <2>4 DEF paired, Token
    <3>2. Paired!Forget(base)
      BY <2>2, <3>1 DEF Paired!Forget, paired
    <3>3. QED BY <2>1, <3>2 DEF Paired!Next
  <2>5. QED BY <2>3, <2>4
<1>3. CASE Keep /\ auth[base] = None
  <2> DEFINE entry == [base |-> pending.base, by |-> pending.by, device |-> device]
  <2>1. base \in Bases /\ auth \in [Bases -> Token \cup {None}] /\ pending.by \in Accounts
    BY <1>3 DEF Keep, IInv, TypeOK, PendingInv
  <2>2. auth' = [auth EXCEPT ![base] = entry] /\ entry.by = pending.by
    BY <1>3 DEF Keep
  <2>3. entry \in Token
    BY <1>3, StoreStep, <2>1, <2>2 DEF IInv, TypeOK, Keep, PendingInv, PendingLogin, Token, DeviceInv, LoggingIn
  <2>4. paired' = [paired EXCEPT ![base] = pending.by]
    BY <2>1, <2>2, <2>3 DEF paired
  <2>5. paired[base] = None
    BY <1>3, <2>1 DEF paired
  <2>6. Paired!Pair(base, pending.by)
    BY <2>4, <2>5 DEF Paired!Pair, paired
  <2>7. QED BY <2>1, <2>6 DEF Paired!Next
<1>4. QED BY <1>1, <1>2, <1>3, AuthStep

\* Whatever happens to calls and codes, other programs see each base paired and
\* forgotten in single steps, and by nothing but a finished login or --switch.
THEOREM LoginPairs == Spec => PairsAndForgets
BY Invariance, PairedInit, PairedStep, PTL DEF Spec, PairsAndForgets, Paired!Spec
=============================================================================
