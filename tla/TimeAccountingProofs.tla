-------------------------- MODULE TimeAccountingProofs --------------------------
(***************************************************************************)
(* What is computed from a session's turns is right for every session and  *)
(* all its subagents. The invariant is SessionInv: that of Turns, which a  *)
(* subagent's line leaves alone, and Stamped: turns begin and end at       *)
(* events, so within the window. From it:                                  *)
(*   - the turns of the main thread are Ordered, also where queued prompts *)
(*     are undone, and the calls cut into Proper pieces;                   *)
(*   - the neighbours among a set of bounds cover what lies between them   *)
(*     (NeighboursCover), so each turn is covered by Parts, and so is the  *)
(*     window: WindowPartitioned;                                          *)
(*   - StreakInv holds of the fold over the turns: StreaksRight;           *)
(*   - the groups of calls that poll are RunOf's, each shares out the      *)
(*     grace in order (Shares): GraceOnce.                                 *)
(*   - a loop in the order of time keeps what its rounds keep of the       *)
(*     beginnings of its set (InOrderKeeps). For the sweep over the        *)
(*     agents' intervals that is SweepInv; with the rows of the grid,      *)
(*     three disjoint parts of the partition, it gives GridAddsUp;         *)
(*   - for the loop over the stretches of activity it is RunInv, with the  *)
(*     earliest instant from which a run reaches the last one: RunLongest. *)
(***************************************************************************)
EXTENDS TimeAccounting, TurnsProofs, DataLemmas

Times(E) == {e.ts : e \in E}

\* A turn begins and ends at an event.
Stamped ==
  /\ start # None => start \in Times(Read)
  /\ \A i \in DOMAIN turns : turns[i].start \in Times(Read) /\ turns[i].end \in Times(Read)

SessionInv == WorkInv /\ Stamped /\ sub \in [Agents -> Seq(Event)]

\* A turn that is added at the event that ends it, or none.
LEMMA StampedTurns ==
  ASSUME IInv, Stamped, NEW e \in Event, NEW reason, Read \subseteq Read', e \in Read',
         turns' = turns \/ (start # None /\ turns' = Append(turns, Closed(e.ts, reason)))
  PROVE  \A i \in DOMAIN turns' : turns'[i].start \in Times(Read') /\ turns'[i].end \in Times(Read')
<1>1. turns \in Seq(Turn) /\ Len(turns) \in Nat
  BY DEF IInv, TypeOK
<1>2. Times(Read) \subseteq Times(Read') /\ e.ts \in Times(Read')
  BY DEF Times
<1>3. CASE turns' = turns
  BY <1>2, <1>3 DEF Stamped
<1>4. CASE start # None /\ turns' = Append(turns, Closed(e.ts, reason))
  <2> DEFINE t == Closed(e.ts, reason)
  <2>1. t.start = start /\ t.end = e.ts
    BY DEF Closed
  <2> HIDE DEF t
  <2>2. \A i \in DOMAIN turns' : (i \in DOMAIN turns /\ turns'[i] = turns[i]) \/ turns'[i] = t
    BY <1>1, <1>4 DEF t
  <2>3. QED BY <1>2, <1>4, <2>1, <2>2 DEF Stamped
<1>5. QED BY <1>3, <1>4

LEMMA StampedStep ==
  ASSUME IInv, Stamped, Next
  PROVE  Stamped'
<1>1. PICK e \in Event : Now <= e.ts /\ Round(e)
  BY NextIsRound DEF IInv
<1>2. Read' = Read \cup {e}
  BY <1>1, EventsAfter DEF IInv
<1>3. Times(Read) \subseteq Times(Read') /\ e.ts \in Times(Read')
  BY <1>2 DEF Times
<1>4. start' # None => start' \in Times(Read')
  BY <1>1, <1>3 DEF Round, Open, Close, Pass, Stamped
<1>5. PICK reason : turns' = turns \/ (start # None /\ turns' = Append(turns, Closed(e.ts, reason)))
  BY <1>1 DEF Round, Open, Close, Pass, Kept
<1>6. QED BY <1>2, <1>4, <1>5, StampedTurns DEF Stamped

LEMMA ExtendStep ==
  ASSUME sub \in [Agents -> Seq(Event)], IInv, NEW a \in Agents, Extend(a)
  PROVE  sub' \in [Agents -> Seq(Event)] /\ UNCHANGED vars
<1> DEFINE own == ToSet(sub[a])
<1>1. PICK m \in AgentMenu : \E id \in MayCarry(own, m) : \E ts \in Time :
                               sub' = [sub EXCEPT ![a] = Append(@, NewEvent(m, id, ts))]
  BY DEF Extend
<1>2. PICK id \in MayCarry(own, m), ts \in Time : sub' = [sub EXCEPT ![a] = Append(@, NewEvent(m, id, ts))]
  BY <1>1
<1>3. own \subseteq Event
  BY DEF ToSet
<1>4. id \in {None} \cup Ids
  <2>1. Called(own) \subseteq {None} \cup Ids /\ IdsOf(own, "shell") \subseteq {None} \cup Ids
    BY <1>3 DEF Called, IdsOf, Event
  <2> HIDE DEF own
  <2>2. QED BY <2>1 DEF MayCarry
<1>5. m \in Template
  BY TimeAccountingAssumption
<1>6. NewEvent(m, id, ts) \in Event
  BY <1>4, <1>5 DEF NewEvent, Event, Template, Tools
<1>7. QED BY <1>2, <1>6 DEF Extend

LEMMA SessionStart == SessionInit => SessionInv
<1> SUFFICES ASSUME SessionInit PROVE SessionInv
  OBVIOUS
<1>1. Stamped
  BY DEF SessionInit, Init, Stamped
<1>2. sub \in [Agents -> Seq(Event)]
  BY DEF SessionInit
<1>3. QED BY <1>1, <1>2, WorkInit DEF SessionInv, SessionInit

LEMMA SessionStep ==
  ASSUME SessionInv, [SessionNext]_<<vars, sub>>
  PROVE  SessionInv' /\ [Next]_vars
<1>1. CASE Next /\ UNCHANGED sub
  BY <1>1, WorkStep, StampedStep DEF SessionInv, WorkInv
<1>2. CASE (\E a \in Agents : Extend(a)) \/ UNCHANGED <<vars, sub>>
  <2>1. sub' \in [Agents -> Seq(Event)] /\ UNCHANGED vars
    BY <1>2, ExtendStep DEF SessionInv, WorkInv
  <2>2. Stamped'
    BY <2>1 DEF SessionInv, Stamped, Read, vars
  <2>3. QED BY <2>1, <2>2, WorkStutter DEF SessionInv
<1>3. QED BY <1>1, <1>2 DEF SessionNext

LEMMA SessionInductive == SessionSpec => [](SessionInv /\ IInv /\ NoWorkLost /\ TurnsApart)
<1>1. SessionInv /\ [SessionNext]_<<vars, sub>> => SessionInv'
  BY SessionStep
<1>2. SessionInv => IInv /\ NoWorkLost
  BY WorkCovers DEF SessionInv, WorkInv
<1>3. IInv => TurnsApart
  BY InvApart
<1>4. QED BY <1>1, <1>2, <1>3, SessionStart, PTL DEF SessionSpec

\* A session's turns have their types, stay in order and apart, and lose no work,
\* also where subagents write transcripts beside the main thread's.
THEOREM SessionKeepsTurns == SessionSpec => [](TypeOK /\ TurnsApart /\ NoWorkLost)
<1>1. IInv => TypeOK
  BY DEF IInv
<1>2. QED BY <1>1, SessionInductive, PTL

-----------------------------------------------------------------------------
(* Folds.                                                                    *)

\* r is what at takes from the first k elements of s, in their order.
Selected(r, at, s, S, k) ==
  /\ at \in [1 .. Len(r) -> 1 .. k]
  /\ \A i \in 1 .. Len(r) : r[i] = s[at[i]] /\ r[i] \in S
  /\ \A i, j \in 1 .. Len(r) : i < j => at[i] < at[j]

LEMMA SelectedNext ==
  ASSUME NEW X, NEW s \in Seq(X), NEW S, NEW k \in 1 .. Len(s),
         NEW r \in Seq(X), NEW at, Selected(r, at, s, S, k - 1),
         NEW more, more = IF s[k] \in S THEN Append(r, s[k]) ELSE r
  PROVE  more \in Seq(X) /\ \E next : Selected(more, next, s, S, k)
<1> DEFINE m == Len(r)
<1>1. m \in Nat /\ s[k] \in X
  OBVIOUS
<1>2. CASE s[k] \notin S
  <2>1. Selected(r, at, s, S, k)
    BY DEF Selected
  <2>2. QED BY <1>2, <2>1
<1>3. CASE s[k] \in S
  <2> DEFINE next == [i \in 1 .. m + 1 |-> IF i = m + 1 THEN k ELSE at[i]]
  <2>1. /\ more \in Seq(X) /\ Len(more) = m + 1 /\ more[m + 1] = s[k]
        /\ \A i \in 1 .. m : more[i] = r[i]
    BY <1>1, <1>3
  <2>2. \A i \in 1 .. m : at[i] \in 1 .. k /\ at[i] < k
    BY <1>1 DEF Selected
  <2>3. /\ next \in [1 .. m + 1 -> 1 .. k] /\ next[m + 1] = k
        /\ \A i \in 1 .. m : next[i] = at[i]
    BY <1>1, <2>2
  <2>4. \A i \in 1 .. m + 1 : i = m + 1 \/ i \in 1 .. m
    BY <1>1
  <2> HIDE DEF next, m
  <2>5. \A i \in 1 .. m + 1 : more[i] = s[next[i]] /\ more[i] \in S
    BY <1>3, <2>1, <2>3, <2>4 DEF Selected, m
  <2>6. ASSUME NEW i \in 1 .. m + 1, NEW j \in 1 .. m + 1, i < j PROVE next[i] < next[j]
    <3>1. i \in 1 .. m
      BY <1>1, <2>4, <2>6
    <3>2. CASE j = m + 1
      BY <2>2, <2>3, <3>1, <3>2
    <3>3. CASE j \in 1 .. m
      BY <2>3, <2>6, <3>1, <3>3 DEF Selected, m
    <3>4. QED BY <2>4, <3>2, <3>3
  <2>7. Selected(more, next, s, S, k)
    BY <2>1, <2>3, <2>5, <2>6 DEF Selected
  <2>8. QED BY <2>1, <2>7
<1>4. QED BY <1>2, <1>3

\* Only(s, S) takes elements of s that are in S, in their order.
LEMMA OnlySelects ==
  ASSUME NEW X, NEW s \in Seq(X), NEW S
  PROVE  Only(s, S) \in Seq(X) /\ \E at : Selected(Only(s, S), at, s, S, Len(s))
<1> DEFINE n == Len(s)
           A == Seq(X)
           op(out, x) == IF x \in S THEN Append(out, x) ELSE out
           Body(g) == [t \in SUBSET DOMAIN s |-> IF t = {} THEN <<>> ELSE op(g[t \ {Max(t)}], s[Max(t)])]
           iter == CHOOSE g : g = Body(g)
           F == [p \in (1 .. n) \X A |-> op(p[2], s[p[1]])]
<1>1. Only(s, S) = iter[DOMAIN s]
  BY DEF Only, FoldLeft, MapThenFoldSet
<1>2. n \in Nat /\ DOMAIN s = 1 .. n
  OBVIOUS
<1>3. \A k \in 1 .. n : \A a \in A : F[<<k, a>>] = op(a, s[k]) /\ F[<<k, a>>] \in A
  OBVIOUS
<1>4. FoldStep(n, A, <<>>, F)
  BY <1>2, <1>3 DEF FoldStep
<1> HIDE DEF n, A, F, op
<1>5. PICK g : FoldBy(g, n, A, <<>>, F)
  BY <1>4, FoldExists
<1>6. g = Body(g)
  BY <1>2, <1>3, <1>5 DEF FoldBy
<1>7. iter = Body(iter)
  BY <1>6
<1> HIDE DEF iter
<1>8. iter[{}] = <<>>
  BY <1>2, <1>7
<1>9. ASSUME NEW k \in 1 .. n PROVE iter[1 .. k] = op(iter[1 .. k - 1], s[k])
  <2>1. 1 .. k \in SUBSET (1 .. n) /\ 1 .. k # {} /\ Max(1 .. k) = k /\ (1 .. k) \ {k} = 1 .. k - 1
    BY <1>2, LastTaken
  <2>2. QED BY <1>2, <1>7, <2>1
<1> DEFINE K == {k \in 0 .. n : iter[1 .. k] \in Seq(X) /\ \E at : Selected(iter[1 .. k], at, s, S, k)}
<1>10. 0 \in K
  <2> DEFINE at == [i \in {} |-> 0]
  <2>1. Selected(<<>>, at, s, S, 0)
    BY DEF Selected
  <2>2. 1 .. 0 = {} /\ 0 \in 0 .. n /\ <<>> \in Seq(X)
    BY <1>2
  <2>3. QED BY <1>8, <2>1, <2>2
<1>11. ASSUME NEW k \in 1 .. n, k - 1 \in K PROVE k \in K
  <2>1. PICK at : Selected(iter[1 .. k - 1], at, s, S, k - 1)
    BY <1>11
  <2>2. iter[1 .. k - 1] \in Seq(X) /\ k \in 1 .. Len(s)
    BY <1>11 DEF n
  <2>3. iter[1 .. k] = IF s[k] \in S THEN Append(iter[1 .. k - 1], s[k]) ELSE iter[1 .. k - 1]
    BY <1>9 DEF op
  <2>4. iter[1 .. k] \in Seq(X) /\ \E next : Selected(iter[1 .. k], next, s, S, k)
    BY <2>1, <2>2, <2>3, SelectedNext
  <2>5. QED BY <1>2, <2>4
<1>12. n \in K
  <2> HIDE DEF K
  <2>1. \A k \in 0 .. n : k \in K
    BY <1>2, <1>10, <1>11, UpTo
  <2>2. QED BY <1>2, <2>1
<1>13. QED BY <1>1, <1>2, <1>12 DEF n

-----------------------------------------------------------------------------
(* The turns of the main thread.                                             *)

\* Turns in order and apart.
Ordered(T) ==
  /\ T \in Seq(Turn)
  /\ \A i \in DOMAIN T : T[i].start <= T[i].end
  /\ \A i, j \in DOMAIN T : i < j => T[i].end <= T[j].start

\* Every turn of T begins where one of the first k turns of S does, and ends so.
Among(T, S, k) ==
  \A i \in DOMAIN T : \E j, l \in 1 .. k : T[i].start = S[j].start /\ T[i].end = S[l].end

LEMMA TurnFields ==
  ASSUME NEW T \in Seq(Turn), NEW i \in DOMAIN T
  PROVE  T[i] \in Turn /\ T[i].start \in Int /\ T[i].end \in Int
<1>1. T[i] \in Turn
  OBVIOUS
<1>2. T[i].start \in Time /\ T[i].end \in Time
  BY <1>1 DEF Turn
<1>3. QED BY <1>1, <1>2, TurnsAssumption DEF Time

\* A turn that is later than those of T, or rejoins the last of them.
LEMMA OrderedAppend ==
  ASSUME NEW T, Ordered(T), NEW t \in Turn, t.start <= t.end,
         \A i \in DOMAIN T : T[i].end <= t.start
  PROVE  Ordered(Append(T, t))
<1> DEFINE m == Len(T)  more == Append(T, t)
<1>1. T \in Seq(Turn) /\ m \in Nat /\ DOMAIN T = 1 .. m
  BY DEF Ordered
<1>2. /\ more \in Seq(Turn) /\ DOMAIN more = 1 .. m + 1 /\ more[m + 1] = t
      /\ \A i \in 1 .. m : more[i] = T[i]
  BY <1>1
<1>3. \A i \in 1 .. m + 1 : i = m + 1 \/ i \in 1 .. m
  BY <1>1
<1> HIDE DEF m, more
<1>4. \A i \in DOMAIN more : more[i].start <= more[i].end
  BY <1>1, <1>2, <1>3 DEF Ordered
<1>5. ASSUME NEW i \in 1 .. m + 1, NEW j \in 1 .. m + 1, i < j PROVE more[i].end <= more[j].start
  <2>1. i \in 1 .. m
    BY <1>1, <1>5
  <2>2. CASE j = m + 1
    BY <1>1, <1>2, <2>1, <2>2
  <2>3. CASE j \in 1 .. m
    BY <1>1, <1>2, <1>5, <2>1, <2>3 DEF Ordered
  <2>4. QED BY <1>3, <2>2, <2>3
<1>6. QED BY <1>2, <1>4, <1>5 DEF Ordered, more

LEMMA OrderedFront ==
  ASSUME NEW T, Ordered(T), T # <<>>
  PROVE  /\ Ordered(Front(T)) /\ Len(Front(T)) = Len(T) - 1
         /\ DOMAIN T = 1 .. Len(T) /\ DOMAIN Front(T) = 1 .. Len(T) - 1
         /\ \A i \in 1 .. Len(T) - 1 : Front(T)[i] = T[i] /\ T[i].end <= Last(T).start
         /\ Last(T) = T[Len(T)] /\ Last(T) \in Turn /\ Last(T).start <= Last(T).end
<1> DEFINE m == Len(T)
<1>1. T \in Seq(Turn) /\ m \in Nat /\ m > 0 /\ DOMAIN T = 1 .. m
  BY DEF Ordered
<1>2. Front(T) \in Seq(Turn) /\ Len(Front(T)) = m - 1 /\ DOMAIN Front(T) = 1 .. m - 1
      /\ \A i \in 1 .. m - 1 : Front(T)[i] = T[i]
  BY <1>1 DEF Front
<1>3. Last(T) = T[m] /\ m \in DOMAIN T /\ T[m] \in Turn
  BY <1>1 DEF Last
<1>4. \A i \in 1 .. m - 1 : i \in DOMAIN T
  BY <1>1
<1> HIDE DEF m
<1>5. \A i \in 1 .. m - 1 : T[i].end <= T[m].start
  BY <1>1, <1>3, <1>4 DEF Ordered
<1>6. Ordered(Front(T))
  BY <1>2, <1>4 DEF Ordered
<1>7. QED BY <1>1, <1>2, <1>3, <1>5, <1>6 DEF Ordered, m

LEMMA RejoinedStep ==
  ASSUME NEW S, Ordered(S), NEW k \in 1 .. Len(S), NEW T, Ordered(T), Among(T, S, k - 1)
  PROVE  Ordered(Rejoined(T, S[k])) /\ Among(Rejoined(T, S[k]), S, k)
<1> DEFINE t == S[k]
<1>1. S \in Seq(Turn) /\ k \in DOMAIN S /\ Len(S) \in Nat /\ t \in Turn /\ t.start <= t.end
  BY DEF Ordered
<1>2. t.start \in Int /\ t.end \in Int
  BY <1>1, TurnFields
<1>3. T \in Seq(Turn)
  BY DEF Ordered
<1>4. \A i \in DOMAIN T : T[i].end <= t.start
  <2> SUFFICES ASSUME NEW i \in DOMAIN T PROVE T[i].end <= t.start
    OBVIOUS
  <2>1. PICK l \in 1 .. k - 1 : T[i].end = S[l].end
    BY DEF Among
  <2>2. l \in DOMAIN S /\ l < k
    BY <1>1
  <2>3. QED BY <1>1, <2>1, <2>2 DEF Ordered
<1>5. Among(T, S, k)
  BY DEF Among
<1> DEFINE joined == [t EXCEPT !.start = Last(T).start, !.scripted = Last(T).scripted]
<1>6. CASE Rejoined(T, t) = Append(T, t)
  <2>1. Ordered(Append(T, t))
    BY <1>1, <1>4, OrderedAppend
  <2>2. \A i \in DOMAIN Append(T, t) : (i \in DOMAIN T /\ Append(T, t)[i] = T[i]) \/ Append(T, t)[i] = t
    BY <1>1, <1>3
  <2>3. k \in 1 .. k
    OBVIOUS
  <2>4. Among(Append(T, t), S, k)
    BY <1>5, <2>2, <2>3 DEF Among
  <2>5. QED BY <1>6, <2>1, <2>4
<1>7. CASE T # <<>> /\ Last(T).end = t.start /\ Rejoined(T, t) = Append(Front(T), joined)
  <2>1. /\ Ordered(Front(T)) /\ DOMAIN T = 1 .. Len(T) /\ DOMAIN Front(T) = 1 .. Len(T) - 1
        /\ \A i \in 1 .. Len(T) - 1 : Front(T)[i] = T[i] /\ T[i].end <= Last(T).start
        /\ Last(T) = T[Len(T)] /\ Last(T) \in Turn /\ Last(T).start <= Last(T).end
    BY <1>7, OrderedFront
  <2>2. Len(T) \in DOMAIN T /\ Front(T) \in Seq(Turn)
    BY <1>3, <1>7, <2>1 DEF Ordered
  <2>3. joined.start = Last(T).start /\ joined.end = t.end /\ joined \in Turn
    <3>1. Last(T).start \in Time /\ Last(T).scripted \in BOOLEAN
      BY <2>1 DEF Turn
    <3>2. t \in [start : Time, end : Time, reason : Reasons, scripted : BOOLEAN]
      BY <1>1 DEF Turn
    <3> HIDE DEF t
    <3>3. joined.start = Last(T).start /\ joined.end = t.end
      BY <3>2
    <3>4. joined \in Turn
      BY <3>1, <3>2, Zenon DEF Turn
    <3>5. QED BY <3>3, <3>4
  <2>4. Last(T).start \in Int /\ Last(T).end \in Int
    BY <1>3, <2>1, <2>2, TurnFields
  <2>5. joined.start <= joined.end
    BY <1>1, <1>2, <1>7, <2>1, <2>3, <2>4
  <2> HIDE DEF joined
  <2>6. Ordered(Append(Front(T), joined))
    BY <2>1, <2>3, <2>5, OrderedAppend
  <2>7. \A i \in DOMAIN Append(Front(T), joined) :
          \/ i \in DOMAIN T /\ Append(Front(T), joined)[i] = T[i]
          \/ Append(Front(T), joined)[i] = joined
    BY <2>1, <2>2, <2>3
  <2>8. PICK j \in 1 .. k : Last(T).start = S[j].start
    BY <1>5, <2>1, <2>2 DEF Among
  <2>9. k \in 1 .. k
    OBVIOUS
  <2>10. Among(Append(Front(T), joined), S, k)
    BY <1>5, <2>3, <2>7, <2>8, <2>9 DEF Among
  <2>11. QED BY <1>7, <2>6, <2>10
<1>8. QED BY <1>6, <1>7 DEF Rejoined

LEMMA RejoinedType ==
  ASSUME NEW T \in Seq(Turn), NEW t \in Turn
  PROVE  Rejoined(T, t) \in Seq(Turn)
<1> DEFINE joined == [t EXCEPT !.start = Last(T).start, !.scripted = Last(T).scripted]
<1>1. CASE Rejoined(T, t) = Append(T, t)
  BY <1>1
<1>2. CASE T # <<>> /\ Rejoined(T, t) = Append(Front(T), joined)
  <2>1. Front(T) \in Seq(Turn) /\ Last(T) \in Turn
    BY <1>2 DEF Front, Last
  <2>2. Last(T).start \in Time /\ Last(T).scripted \in BOOLEAN
    BY <2>1 DEF Turn
  <2>3. t \in [start : Time, end : Time, reason : Reasons, scripted : BOOLEAN]
    BY DEF Turn
  <2>4. joined \in Turn
    BY <2>2, <2>3, Zenon DEF Turn
  <2> HIDE DEF joined
  <2>5. QED BY <1>2, <2>1, <2>4
<1>3. QED BY <1>1, <1>2 DEF Rejoined

\* Undoing the splits of queued prompts keeps the turns in order and apart.
LEMMA JoinedOrdered ==
  ASSUME NEW S, Ordered(S)
  PROVE  /\ Ordered(FoldLeft(Rejoined, <<>>, S))
         /\ Among(FoldLeft(Rejoined, <<>>, S), S, Len(S))
<1> DEFINE n == Len(S)
           A == Seq(Turn)
           Body(g) == [t \in SUBSET DOMAIN S |-> IF t = {} THEN <<>> ELSE Rejoined(g[t \ {Max(t)}], S[Max(t)])]
           iter == CHOOSE g : g = Body(g)
           F == [p \in (1 .. n) \X A |-> Rejoined(p[2], S[p[1]])]
<1>1. FoldLeft(Rejoined, <<>>, S) = iter[DOMAIN S]
  BY DEF FoldLeft, MapThenFoldSet
<1>2. S \in A /\ n \in Nat /\ DOMAIN S = 1 .. n
  BY DEF Ordered
<1>3. \A k \in 1 .. n : \A a \in A : F[<<k, a>>] = Rejoined(a, S[k]) /\ F[<<k, a>>] \in A
  <2>1. \A k \in 1 .. n : S[k] \in Turn
    BY <1>2
  <2>2. QED BY <2>1, RejoinedType
<1> <<>> \in A
  OBVIOUS
<1> HIDE DEF n, A, F
<1>4. FoldStep(n, A, <<>>, F)
  BY <1>2, <1>3 DEF FoldStep
<1>5. PICK g : FoldBy(g, n, A, <<>>, F)
  BY <1>4, FoldExists
<1>6. g = Body(g)
  BY <1>2, <1>3, <1>5 DEF FoldBy
<1>7. iter = Body(iter)
  BY <1>6
<1> HIDE DEF iter
<1>8. iter[{}] = <<>>
  BY <1>2, <1>7
<1>9. ASSUME NEW k \in 1 .. n PROVE iter[1 .. k] = Rejoined(iter[1 .. k - 1], S[k])
  <2>1. 1 .. k \in SUBSET (1 .. n) /\ 1 .. k # {} /\ Max(1 .. k) = k /\ (1 .. k) \ {k} = 1 .. k - 1
    BY <1>2, LastTaken
  <2>2. QED BY <1>2, <1>7, <2>1
<1> DEFINE K == {k \in 0 .. n : Ordered(iter[1 .. k]) /\ Among(iter[1 .. k], S, k)}
<1>10. 0 \in K
  <2>1. Ordered(<<>>) /\ Among(<<>>, S, 0)
    BY DEF Ordered, Among
  <2>2. 1 .. 0 = {} /\ 0 \in 0 .. n
    BY <1>2
  <2>3. QED BY <1>8, <2>1, <2>2
<1>11. ASSUME NEW k \in 1 .. n, k - 1 \in K PROVE k \in K
  <2>1. Ordered(iter[1 .. k - 1]) /\ Among(iter[1 .. k - 1], S, k - 1) /\ k \in 1 .. Len(S)
    BY <1>11 DEF n
  <2>2. Ordered(iter[1 .. k]) /\ Among(iter[1 .. k], S, k)
    BY <1>9, <2>1, RejoinedStep
  <2>3. QED BY <1>2, <2>2
<1>12. n \in K
  <2> HIDE DEF K
  <2>1. \A k \in 0 .. n : k \in K
    BY <1>2, <1>10, <1>11, UpTo
  <2>2. QED BY <1>2, <2>1
<1>13. QED BY <1>1, <1>2, <1>12 DEF n

\* Where AllTurns begin and end.
LEMMA AllTurnsOrdered ==
  ASSUME SessionInv
  PROVE  /\ Ordered(AllTurns)
         /\ \A i \in DOMAIN AllTurns : AllTurns[i].start \in Times(Read) /\ AllTurns[i].end \in Times(Read)
<1>1. IInv /\ turns \in Seq(Turn) /\ Now \in Time
  BY NowIsTime DEF SessionInv, WorkInv, IInv, TypeOK
<1>2. TurnsApart
  BY <1>1, InvApart
<1>3. CASE start # None /\ Now > start
  <2> DEFINE t == Closed(Now, "session_end")
  <2>1. t \in Turn /\ t.start = start /\ t.end = Now
    BY <1>1, <1>3, ClosedIsTurn DEF IInv, Reasons
  <2> HIDE DEF t
  <2>2. AllTurns = Append(turns, t)
    BY <1>3 DEF AllTurns, t
  <2>3. \A i \in DOMAIN AllTurns : (i \in DOMAIN turns /\ AllTurns[i] = turns[i]) \/ AllTurns[i] = t
    BY <1>1, <2>1, <2>2
  <2>4. AllTurns \in Seq(Turn)
    BY <1>1, <2>1, <2>2
  <2>5. Now \in Times(Read)
    <3>1. events # <<>>
      <4>1. start \in Times(Read)
        BY <1>3 DEF SessionInv, Stamped
      <4>2. QED BY <4>1 DEF Times, Read
    <3>2. Len(events) \in DOMAIN events
      BY <1>1, <3>1 DEF IInv, TypeOK
    <3>3. QED BY <3>1, <3>2 DEF Now, Times, Read
  <2>6. QED BY <1>2, <1>3, <2>1, <2>3, <2>4, <2>5 DEF Ordered, TurnsApart, SessionInv, Stamped
<1>4. CASE ~ (start # None /\ Now > start)
  <2>1. AllTurns = turns
    BY <1>4 DEF AllTurns
  <2>2. QED BY <1>1, <1>2, <2>1 DEF Ordered, TurnsApart, SessionInv, Stamped
<1>5. QED BY <1>3, <1>4

\* A choice of turns, in their order, is in order.
LEMMA SelectedOrdered ==
  ASSUME NEW S, Ordered(S), NEW r \in Seq(Turn), NEW at, NEW K, Selected(r, at, S, K, Len(S))
  PROVE  Ordered(r) /\ \A i \in DOMAIN r : \E j \in DOMAIN S : r[i] = S[j]
<1>1. S \in Seq(Turn) /\ DOMAIN S = 1 .. Len(S) /\ DOMAIN r = 1 .. Len(r)
  BY DEF Ordered
<1>2. \A i \in DOMAIN r : r[i] = S[at[i]] /\ at[i] \in DOMAIN S
  BY <1>1 DEF Selected
<1>3. \A i \in DOMAIN r : r[i].start <= r[i].end
  BY <1>2 DEF Ordered
<1>4. \A i, j \in DOMAIN r : i < j => r[i].end <= r[j].start
  BY <1>1, <1>2 DEF Ordered, Selected
<1>5. QED BY <1>2, <1>3, <1>4 DEF Ordered

LEMMA MainTurnsOrdered ==
  ASSUME SessionInv
  PROVE  /\ Ordered(MainTurns)
         /\ \A i \in DOMAIN MainTurns : MainTurns[i].start \in Times(Read) /\ MainTurns[i].end \in Times(Read)
<1> DEFINE S == AllTurns
           J == FoldLeft(Rejoined, <<>>, S)
           K == {t \in Turn : \/ t.reason # "session_end"
                              \/ \E e \in Read : e.kind \in {"text", "tool"} /\ t.start < e.ts /\ e.ts <= t.end}
<1>1. Ordered(S) /\ \A i \in DOMAIN S : S[i].start \in Times(Read) /\ S[i].end \in Times(Read)
  BY AllTurnsOrdered
<1> HIDE DEF S
<1>2. Ordered(J) /\ Among(J, S, Len(S))
  BY <1>1, JoinedOrdered
<1>3. MainTurns = Only(J, K)
  BY DEF MainTurns, S
<1> HIDE DEF J, K
<1>4. J \in Seq(Turn)
  BY <1>2 DEF Ordered
<1>5. PICK at : MainTurns \in Seq(Turn) /\ Selected(MainTurns, at, J, K, Len(J))
  BY <1>3, <1>4, OnlySelects
<1>6. Ordered(MainTurns) /\ \A i \in DOMAIN MainTurns : \E j \in DOMAIN J : MainTurns[i] = J[j]
  BY <1>2, <1>5, SelectedOrdered
<1>7. DOMAIN S = 1 .. Len(S)
  BY <1>1 DEF Ordered
<1>8. \A j \in DOMAIN J : J[j].start \in Times(Read) /\ J[j].end \in Times(Read)
  BY <1>1, <1>2, <1>7 DEF Among
<1>9. QED BY <1>6, <1>8

-----------------------------------------------------------------------------
(* The pieces of tool calls.                                                 *)

\* Calls in a sequence, each from its start to its end.
Intervals(D) ==
  /\ \E n \in Nat : DOMAIN D = 1 .. n
  /\ \A i \in DOMAIN D : D[i].start \in Int /\ D[i].end \in Int /\ D[i].start <= D[i].end

LEMMA FiniteTimes ==
  ASSUME NEW S \in SUBSET Time
  PROVE  IsFiniteSet(S) /\ S \in SUBSET Int
<1>1. Time \subseteq Int /\ IsFiniteSet(Time)
  BY FS_Interval, TurnsAssumption DEF Time
<1>2. QED BY <1>1, FS_Subset

LEMMA EventIsTimed ==
  ASSUME NEW e \in Event
  PROVE  e.ts \in Time
BY DEF Event

LEMMA TimedIntervals ==
  ASSUME NEW evs \in Seq(Event), NEW scopeEnd \in Int
  PROVE  Intervals(Timed(evs, scopeEnd))
<1> DEFINE C == Calls(evs)
           K == {e \in ToSet(evs) : e.kind = "tool"}
           ends(c) == IF Result(evs, c.id) = {} THEN {scopeEnd} ELSE {e.ts : e \in Result(evs, c.id)}
           D == Timed(evs, scopeEnd)
<1>1. C \in Seq(Event)
  <2>1. C = Only(evs, K)
    BY DEF Calls
  <2> HIDE DEF C, K
  <2>2. QED BY <2>1, OnlySelects
<1>2. /\ DOMAIN D = DOMAIN C
      /\ \A i \in DOMAIN C : D[i].start = C[i].ts /\ D[i].end = Max({C[i].ts} \cup ends(C[i]))
  BY DEF Timed
<1>3. ToSet(evs) \subseteq Event
  BY DEF ToSet
<1> HIDE DEF C, D
<1>4. ASSUME NEW i \in DOMAIN C
      PROVE  D[i].start \in Int /\ D[i].end \in Int /\ D[i].start <= D[i].end
  <2> DEFINE S == {C[i].ts} \cup ends(C[i])
  <2>1. C[i].ts \in Time
    BY <1>1, EventIsTimed
  <2>2. ends(C[i]) = {scopeEnd} \/ ends(C[i]) \in SUBSET Time
    <3>1. {e.ts : e \in Result(evs, C[i].id)} \subseteq Time
      BY <1>3, EventIsTimed DEF Result
    <3>2. QED BY <3>1
  <2>3. S \subseteq Time \cup {scopeEnd}
    BY <2>1, <2>2
  <2>4. IsFiniteSet(Time \cup {scopeEnd}) /\ Time \cup {scopeEnd} \subseteq Int
    BY FiniteTimes, FS_AddElement
  <2>5. IsFiniteSet(S)
    BY <2>3, <2>4, FS_Subset
  <2>6. S \in SUBSET Int /\ C[i].ts \in S
    BY <2>3, <2>4
  <2> HIDE DEF S
  <2>7. Max(S) \in S /\ \A x \in S : x <= Max(S)
    BY <2>5, <2>6, MaxIsGreatest
  <2>8. D[i].start = C[i].ts /\ D[i].end = Max(S)
    BY <1>2 DEF S
  <2>9. QED BY <2>6, <2>7, <2>8
<1>5. \E n \in Nat : DOMAIN D = 1 .. n
  BY <1>1, <1>2
<1>6. QED BY <1>2, <1>4, <1>5 DEF Intervals, D

\* The k-th shortest interval is one of them.
LEMMA NthIsOne ==
  ASSUME NEW D, NEW S, IsFiniteSet(S), \A i \in S : Interval(D, i) \in Nat,
         NEW k \in 1 .. Cardinality(S)
  PROVE  Nth(D, S, k) \in Nat
<1> DEFINE f == [i \in S |-> Interval(D, i)]
           below(x) == {j \in S : f[j] <= f[x]}
           late == {x \in S : Cardinality(below(x)) >= k}
<1>1. Cardinality(S) \in Nat /\ S # {}
  BY FS_CardinalityType, FS_EmptySet
<1>2. \A i \in S : f[i] \in Nat /\ f[i] = Interval(D, i)
  OBVIOUS
<1>3. late # {}
  <2> DEFINE V == {f[i] : i \in S}
  <2>1. IsFiniteSet(V)
    BY ImageFinite
  <2>2. V \in SUBSET Int /\ V # {}
    BY <1>1, <1>2
  <2>3. Max(V) \in V /\ \A x \in V : x <= Max(V)
    BY <2>1, <2>2, MaxIsGreatest
  <2>4. PICK x \in S : f[x] = Max(V)
    BY <2>3
  <2>5. \A j \in S : f[j] <= f[x]
    BY <2>3, <2>4
  <2>6. below(x) = S
    BY <2>5
  <2>7. Cardinality(S) >= k
    BY <1>1
  <2> HIDE DEF below
  <2>8. x \in late
    BY <2>6, <2>7
  <2>9. QED BY <2>8
<1> HIDE DEF late, f
<1> DEFINE V == {f[i] : i \in late}
<1>4. late \subseteq S
  BY DEF late
<1>5. IsFiniteSet(V)
  <2>1. IsFiniteSet(late)
    BY <1>4, FS_Subset
  <2>2. QED BY <2>1, ImageFinite
<1>6. V \in SUBSET Int /\ V \subseteq Nat /\ V # {}
  BY <1>2, <1>3, <1>4
<1>7. Min(V) \in Nat
  BY <1>5, <1>6, MinIsLeast
<1>8. late = {x \in S : Cardinality({j \in S : Interval(D, j) <= Interval(D, x)}) >= k}
  <2>1. \A x \in S : below(x) = {j \in S : Interval(D, j) <= Interval(D, x)}
    BY <1>2
  <2>2. QED BY <2>1 DEF late
<1>9. V = {Interval(D, i) : i \in late}
  BY <1>2, <1>4
<1>10. QED BY <1>7, <1>8, <1>9 DEF Nth

LEMMA MedianIsNat ==
  ASSUME NEW D, NEW S, IsFiniteSet(S), S # {}, \A i \in S : Interval(D, i) \in Nat
  PROVE  Median(D, S) \in Nat
<1> DEFINE n == Cardinality(S)
<1>1. n \in Nat /\ n # 0
  BY FS_CardinalityType, FS_EmptySet
<1>2. \A k \in 1 .. n : Nth(D, S, k) \in Nat
  BY NthIsOne
<1> HIDE DEF n
<1>3. CASE n % 2 = 1
  <2>1. (n + 1) \div 2 \in 1 .. n
    BY <1>1, <1>3
  <2>2. QED BY <1>2, <1>3, <2>1 DEF Median, n
<1>4. CASE n % 2 # 1
  <2>1. n \div 2 \in 1 .. n /\ (n \div 2) + 1 \in 1 .. n
    BY <1>1, <1>4
  <2>2. \A m \in Nat : Half(m) \in Nat
    BY DEF Half
  <2>3. Nth(D, S, n \div 2) + Nth(D, S, (n \div 2) + 1) \in Nat
    BY <1>2, <2>1
  <2>4. QED BY <1>4, <2>2, <2>3 DEF Median, n
<1>5. QED BY <1>3, <1>4

\* The wait for a permission is part of the call's interval.
LEMMA WaitWithin ==
  ASSUME NEW D, Intervals(D), NEW i \in DOMAIN D
  PROVE  PermissionWait(D, i) \in Nat /\ PermissionWait(D, i) <= Interval(D, i)
<1> DEFINE S == Samples(D, Name(D[i].tool))
           w == PermissionWait(D, i)
           x == Interval(D, i)
<1>1. \A j \in DOMAIN D : Interval(D, j) \in Nat
  BY DEF Intervals, Interval
<1>2. IsFiniteSet(S) /\ S \subseteq DOMAIN D
  <2>1. IsFiniteSet(DOMAIN D)
    BY FS_Interval DEF Intervals
  <2>2. S \subseteq DOMAIN D
    BY DEF Samples
  <2>3. QED BY <2>1, <2>2, FS_Subset
<1>3. S # {} => Median(D, S) \in Nat
  BY <1>1, <1>2, MedianIsNat
<1>4. x \in Nat
  BY <1>1
<1>5. w \in {x, 0} \/ (S # {} /\ w = Max({0, x - Median(D, S)}))
  BY DEF PermissionWait
<1> HIDE DEF w, x, S
<1>6. CASE w \in {x, 0}
  BY <1>4, <1>6 DEF w, x
<1>7. CASE S # {} /\ w = Max({0, x - Median(D, S)})
  <2> DEFINE m == Median(D, S)
  <2>1. m \in Nat
    BY <1>3, <1>7
  <2> HIDE DEF m
  <2>2. 0 \in Int /\ x - m \in Int
    BY <1>4, <2>1
  <2>3. w = IF 0 <= x - m THEN x - m ELSE 0
    BY <1>7, <2>2, OfTwo DEF m
  <2>4. w \in Nat /\ w <= x
    BY <1>4, <2>1, <2>3
  <2>5. QED BY <2>4 DEF w, x
<1>8. QED BY <1>5, <1>6, <1>7

LEMMA RuntimeWithin ==
  ASSUME NEW D, Intervals(D), NEW i \in DOMAIN D
  PROVE  /\ Runtime(D, i) \in Nat /\ Interval(D, i) \in Nat
         /\ PermissionWait(D, i) + Runtime(D, i) = Interval(D, i)
<1>1. Interval(D, i) \in Nat
  BY DEF Intervals, Interval
<1>2. PermissionWait(D, i) \in Nat /\ PermissionWait(D, i) <= Interval(D, i)
  BY WaitWithin
<1>3. QED BY <1>1, <1>2 DEF Runtime

\* The runtime of the calls of a group before D[i].
Before(D, group, i) == SumFunction([j \in {k \in group : k < i} |-> Runtime(D, j)])

LEMMA BeforeIsInt ==
  ASSUME NEW D, Intervals(D), NEW group \in SUBSET DOMAIN D, NEW i \in DOMAIN D
  PROVE  Before(D, group, i) \in Int
<1> DEFINE R == {k \in group : k < i}
           f == [j \in R |-> Runtime(D, j)]
<1>1. IsFiniteSet(DOMAIN D)
  BY FS_Interval DEF Intervals
<1>2. R \subseteq DOMAIN D
  OBVIOUS
<1>3. IsFiniteSet(R)
  BY <1>1, <1>2, FS_Subset
<1>4. \A j \in R : f[j] \in Int
  BY <1>2, RuntimeWithin
<1>5. DOMAIN f = R /\ Before(D, group, i) = SumFunctionOnSet(f, DOMAIN f)
  BY DEF Before, SumFunction
<1> HIDE DEF f, R
<1>6. QED BY <1>3, <1>4, <1>5, SumFacts

LEMMA LimitIsNat ==
  ASSUME NEW D, Intervals(D), NEW group \in SUBSET DOMAIN D, NEW i \in DOMAIN D
  PROVE  Limit(D, group, i) \in Nat
<1>1. KGrace \in Nat /\ KCap \in Nat /\ KInterrupted \in Nat
  BY TimeAccountingAssumption
<1>2. Before(D, group, i) \in Int
  BY BeforeIsInt
<1>3. CASE D[i].tool # "task" /\ group # {}
  <2> DEFINE r == KGrace - Before(D, group, i)
  <2>1. Limit(D, group, i) = Max({0, r})
    BY <1>3 DEF Limit, Before
  <2>2. r \in Int /\ 0 \in Int
    BY <1>1, <1>2
  <2> HIDE DEF r
  <2>3. Max({0, r}) = IF 0 <= r THEN r ELSE 0
    BY <2>2, OfTwo
  <2>4. QED BY <2>1, <2>2, <2>3
<1>4. CASE ~ (D[i].tool # "task" /\ group # {})
  BY <1>1, <1>4 DEF Limit
<1>5. QED BY <1>3, <1>4

LEMMA GroupOfCalls ==
  ASSUME NEW D, NEW starts, NEW i \in DOMAIN D
  PROVE  Group(D, starts, i) \in SUBSET DOMAIN D
BY DEF Group

\* The instants at which the span of D[i] is cut.
Ran(D, i) == D[i].start + PermissionWait(D, i)
CreditedFor(D, starts, i) == Min({Runtime(D, i), Limit(D, Group(D, starts, i), i)})

LEMMA SpanCuts ==
  ASSUME NEW D, Intervals(D), NEW starts, NEW i \in DOMAIN D
  PROVE  LET c == CreditedFor(D, starts, i) IN
         /\ D[i].start \in Int /\ Ran(D, i) \in Int /\ c \in Nat /\ D[i].end \in Int
         /\ D[i].start <= Ran(D, i) /\ Ran(D, i) + c <= D[i].end
         /\ c = IF Runtime(D, i) <= Limit(D, Group(D, starts, i), i) THEN Runtime(D, i)
                ELSE Limit(D, Group(D, starts, i), i)
<1> DEFINE r == Runtime(D, i)
           l == Limit(D, Group(D, starts, i), i)
           w == PermissionWait(D, i)
<1>1. D[i].start \in Int /\ D[i].end \in Int
  BY DEF Intervals
<1>2. w \in Nat /\ r \in Nat /\ l \in Nat
  BY WaitWithin, RuntimeWithin, LimitIsNat, GroupOfCalls
<1>3. w + r = D[i].end - D[i].start
  BY RuntimeWithin DEF Interval
<1>4. CreditedFor(D, starts, i) = Min({r, l})
  BY DEF CreditedFor
<1> HIDE DEF r, l, w
<1>5. Min({r, l}) = IF r <= l THEN r ELSE l
  BY <1>2, OfTwo
<1>6. QED BY <1>1, <1>2, <1>3, <1>4, <1>5 DEF Ran, r, l, w

\* Pieces that begin before they end, at integers.
Proper(pieces) == \A p \in pieces : p[1] \in Int /\ p[2] \in Int /\ p[1] < p[2]

LEMMA SpanPieces ==
  ASSUME NEW D, Intervals(D), NEW starts, NEW i \in DOMAIN D
  PROVE  /\ Proper(Span(D, starts, i).pieces)
         /\ \A p \in Span(D, starts, i).pieces : D[i].start <= p[1] /\ p[2] <= D[i].end
<1> DEFINE ran == Ran(D, i)
           credited == ran + CreditedFor(D, starts, i)
           rest == Rest(D, Group(D, starts, i), i)
<1>1. /\ D[i].start \in Int /\ ran \in Int /\ credited \in Int /\ D[i].end \in Int
      /\ D[i].start <= ran /\ ran <= credited /\ credited <= D[i].end
  BY SpanCuts
<1>2. Span(D, starts, i).pieces =
        {p \in {<<D[i].start, ran, "permission_wait">>, <<ran, credited, "tool">>,
                <<credited, D[i].end, rest>>} : p[1] < p[2]}
  BY DEF Span, Ran, CreditedFor
<1> HIDE DEF ran, credited, rest
<1>3. QED BY <1>1, <1>2 DEF Proper

LEMMA ToolSpansProper ==
  ASSUME NEW evs \in Seq(Event), NEW scopeEnd \in Int, NEW starts
  PROVE  \A x \in ToolSpans(evs, scopeEnd, starts) : x.start \in Int /\ Proper(x.pieces)
<1> DEFINE D == Timed(evs, scopeEnd)
<1>1. Intervals(D)
  BY TimedIntervals
<1>2. \A x \in ToolSpans(evs, scopeEnd, starts) : \E i \in DOMAIN D : x = Span(D, starts, i)
  BY DEF ToolSpans, Spans
<1> HIDE DEF D
<1>3. \A i \in DOMAIN D : Span(D, starts, i).start = D[i].start
  BY DEF Span
<1>4. \A i \in DOMAIN D : D[i].start \in Int
  BY <1>1 DEF Intervals
<1>5. QED BY <1>1, <1>2, <1>3, <1>4, SpanPieces

-----------------------------------------------------------------------------
(* Neighbouring bounds.                                                      *)

LEMMA UnionProper ==
  ASSUME NEW pieces, Proper(pieces)
  PROVE  Proper(UnionOf(pieces))
<1> DEFINE S == UNION {{p[1], p[2]} : p \in pieces}
<1>1. S \subseteq Int
  BY DEF Proper
<1> DEFINE kinds(b) == {p[3] : p \in {q \in pieces : q[1] <= b[1] /\ b[2] <= q[2]}}
           first(b) == Priority[Min({k \in DOMAIN Priority : Priority[k] \in kinds(b)})]
<1>2. UnionOf(pieces) = {<<b[1], b[2], first(b)>> : b \in {c \in Neighbours(S) : kinds(c) # {}}}
  BY DEF UnionOf
<1> HIDE DEF S, kinds, first
<1>3. \A b \in Neighbours(S) : b[1] \in Int /\ b[2] \in Int /\ b[1] < b[2]
  BY <1>1 DEF Neighbours
<1>4. \A q \in UnionOf(pieces) : \E b \in Neighbours(S) : q[1] = b[1] /\ q[2] = b[2]
  BY <1>2
<1>5. QED BY <1>3, <1>4 DEF Proper

\* Every instant between the first and the last of a set of instants lies between
\* one pair of neighbours.
LEMMA NeighboursCover ==
  ASSUME NEW S \in SUBSET Int, IsFiniteSet(S), NEW lo \in S, NEW hi \in S, NEW i \in Int, lo <= i, i < hi
  PROVE  /\ \E b \in Neighbours(S) : b[1] <= i /\ i < b[2]
         /\ \A b, c \in Neighbours(S) : b[1] <= i /\ i < b[2] /\ c[1] <= i /\ i < c[2] => b = c
<1> DEFINE L == {x \in S : x <= i}
           U == {x \in S : i < x}
<1>1. L \in SUBSET Int /\ IsFiniteSet(L) /\ L # {}
  BY FS_Subset
<1>2. U \in SUBSET Int /\ IsFiniteSet(U) /\ U # {}
  BY FS_Subset
<1>3. Max(L) \in L /\ \A x \in L : x <= Max(L)
  BY <1>1, MaxIsGreatest
<1>4. Min(U) \in U /\ \A x \in U : Min(U) <= x
  BY <1>2, MinIsLeast
<1> DEFINE a == Max(L)  d == Min(U)
<1>5. /\ a \in S /\ a \in Int /\ a <= i /\ \A x \in S : x <= i => x <= a
      /\ d \in S /\ d \in Int /\ i < d /\ \A x \in S : i < x => d <= x
  BY <1>3, <1>4
<1> HIDE DEF a, d
<1>6. \A x \in S : x <= a \/ d <= x
  BY <1>5
<1>7. <<a, d>> \in Neighbours(S)
  BY <1>5, <1>6 DEF Neighbours
<1>8. ASSUME NEW b \in Neighbours(S), b[1] <= i, i < b[2] PROVE b = <<a, d>>
  <2>1. b \in S \X S /\ \A x \in S : x <= b[1] \/ b[2] <= x
    BY DEF Neighbours
  <2>2. b[1] \in S /\ b[2] \in S /\ b = <<b[1], b[2]>> /\ b[1] \in Int /\ b[2] \in Int
    <3>1. b \in S \X S
      BY <2>1
    <3>2. b[1] \in S /\ b[2] \in S /\ b = <<b[1], b[2]>>
      BY <3>1
    <3>3. QED BY <3>2
  <2>3. b[1] <= a /\ d <= b[2]
    BY <1>5, <1>8, <2>2
  <2>4. a <= b[1] /\ b[2] <= d
    BY <1>5, <1>8, <2>1, <2>2
  <2>5. b[1] = a /\ b[2] = d
    BY <1>5, <2>2, <2>3, <2>4
  <2>6. QED BY <2>2, <2>5
<1>9. QED BY <1>5, <1>7, <1>8

\* P lies between lo and hi and covers each instant once. (q[1] and q[2] are where a
\* piece begins and ends.)
Tiles(P, lo, hi) ==
  /\ \A p \in P : p[1] \in Int /\ p[2] \in Int /\ lo <= p[1] /\ p[1] < p[2] /\ p[2] <= hi
  /\ \A i \in Int : lo <= i /\ i < hi =>
       /\ \E p \in P : p[1] <= i /\ i < p[2]
       /\ \A p, q \in P : p[1] <= i /\ i < p[2] /\ q[1] <= i /\ i < q[2] => p = q

\* The pieces of a turn cover it.
LEMMA ThreadTiles ==
  ASSUME NEW lo \in Int, NEW hi \in Int, lo <= hi, NEW stamps \in SUBSET Int,
         NEW pieces, Proper(pieces)
  PROVE  Tiles(ThreadPieces(lo, hi, stamps, pieces), lo, hi)
<1> DEFINE clipped == {q \in {<<Max({p[1], lo}), Min({p[2], hi}), p[3]>> : p \in pieces} : q[1] < q[2]}
           points == {lo, hi} \cup {ts \in stamps : lo < ts /\ ts < hi} \cup UNION {{p[1], p[2]} : p \in clipped}
           kind(b) == LET over == {p \in clipped : p[1] <= b[1] /\ b[1] < p[2]} IN
                      IF over # {} THEN (CHOOSE p \in over : TRUE)[3]
                      ELSE IF b[2] - b[1] <= KBridge THEN "model" ELSE "no_activity"
           P == {<<b[1], b[2], kind(b)>> : b \in Neighbours(points)}
<1>1. ThreadPieces(lo, hi, stamps, pieces) = P
  BY DEF ThreadPieces
<1>2. \A q \in clipped : q[1] \in lo .. hi /\ q[2] \in lo .. hi
  <2> DEFINE from(p) == Max({p[1], lo})
             to(p) == Min({p[2], hi})
  <2>0. \A q \in clipped : \E p \in pieces : q[1] = from(p) /\ q[2] = to(p) /\ from(p) < to(p)
    <3> HIDE DEF from, to
    <3>1. clipped = {q \in {<<from(p), to(p), p[3]>> : p \in pieces} : q[1] < q[2]}
      BY DEF from, to
    <3> HIDE DEF clipped
    <3>2. QED BY <3>1
  <2> SUFFICES ASSUME NEW p \in pieces, from(p) < to(p)
               PROVE  from(p) \in lo .. hi /\ to(p) \in lo .. hi
    BY <2>0
  <2>1. p[1] \in Int /\ p[2] \in Int
    BY DEF Proper
  <2>2. /\ Max({p[1], lo}) = IF p[1] <= lo THEN lo ELSE p[1]
        /\ Min({p[2], hi}) = IF p[2] <= hi THEN p[2] ELSE hi
    BY <2>1, OfTwo
  <2>3. QED BY <2>1, <2>2
<1> HIDE DEF clipped
<1>3. points \subseteq lo .. hi /\ lo \in points /\ hi \in points
  <2>1. UNION {{p[1], p[2]} : p \in clipped} \subseteq lo .. hi
    BY <1>2
  <2>2. lo \in lo .. hi /\ hi \in lo .. hi
    OBVIOUS
  <2>3. \A ts \in stamps : lo < ts /\ ts < hi => ts \in lo .. hi
    OBVIOUS
  <2>4. QED BY <2>1, <2>2, <2>3
<1>4. IsFiniteSet(points)
  <2>1. IsFiniteSet(lo .. hi)
    BY FS_Interval
  <2> HIDE DEF points
  <2>2. QED BY <1>3, <2>1, FS_Subset
<1> HIDE DEF points, kind
<1>5. ASSUME NEW p \in P
      PROVE  \E b \in Neighbours(points) : p = <<b[1], b[2], kind(b)>> /\ p[1] = b[1] /\ p[2] = b[2]
  OBVIOUS
<1>6. ASSUME NEW b \in Neighbours(points)
      PROVE  b[1] \in lo .. hi /\ b[2] \in lo .. hi /\ b[1] < b[2]
  BY <1>3 DEF Neighbours
<1>7. \A p \in P : p[1] \in Int /\ p[2] \in Int /\ lo <= p[1] /\ p[1] < p[2] /\ p[2] <= hi
  BY <1>5, <1>6
<1>8. ASSUME NEW i \in Int, lo <= i, i < hi
      PROVE  /\ \E p \in P : p[1] <= i /\ i < p[2]
             /\ \A p, q \in P : p[1] <= i /\ i < p[2] /\ q[1] <= i /\ i < q[2] => p = q
  <2>1. points \in SUBSET Int
    BY <1>3
  <2>2. /\ \E b \in Neighbours(points) : b[1] <= i /\ i < b[2]
        /\ \A b, c \in Neighbours(points) : b[1] <= i /\ i < b[2] /\ c[1] <= i /\ i < c[2] => b = c
    BY <1>3, <1>4, <1>8, <2>1, NeighboursCover
  <2>3. PICK b \in Neighbours(points) : b[1] <= i /\ i < b[2]
    BY <2>2
  <2>4. <<b[1], b[2], kind(b)>> \in P
    OBVIOUS
  <2>5. \A p, q \in P : p[1] <= i /\ i < p[2] /\ q[1] <= i /\ i < q[2] => p = q
    <3> SUFFICES ASSUME NEW p \in P, NEW q \in P, p[1] <= i, i < p[2], q[1] <= i, i < q[2]
                 PROVE  p = q
      OBVIOUS
    <3>1. PICK c \in Neighbours(points) : p = <<c[1], c[2], kind(c)>> /\ p[1] = c[1] /\ p[2] = c[2]
      BY <1>5
    <3>2. PICK d \in Neighbours(points) : q = <<d[1], d[2], kind(d)>> /\ q[1] = d[1] /\ q[2] = d[2]
      BY <1>5
    <3>3. c = d
      BY <2>2, <3>1, <3>2
    <3>4. QED BY <3>1, <3>2, <3>3
  <2> HIDE DEF P
  <2>6. <<b[1], b[2], kind(b)>>[1] = b[1] /\ <<b[1], b[2], kind(b)>>[2] = b[2]
    OBVIOUS
  <2>7. QED BY <2>3, <2>4, <2>5, <2>6
<1> HIDE DEF P
<1>9. QED BY <1>1, <1>7, <1>8 DEF Tiles

-----------------------------------------------------------------------------
(* The partition of the window.                                              *)

\* The segments of P lie between lo and hi and cover each instant once.
Parts(P, lo, hi) ==
  /\ \A s \in P : s.lo \in Int /\ s.hi \in Int /\ lo <= s.lo /\ s.lo < s.hi /\ s.hi <= hi
  /\ \A i \in Int : lo <= i /\ i < hi =>
       /\ \E s \in P : s.lo <= i /\ i < s.hi
       /\ \A s, r \in P : s.lo <= i /\ i < s.hi /\ r.lo <= i /\ i < r.hi => s = r

LEMMA PartsJoin ==
  ASSUME NEW a \in Int, NEW b \in Int, NEW c \in Int, a <= b, b <= c,
         NEW P, NEW Q, Parts(P, a, b), Parts(Q, b, c)
  PROVE  Parts(P \cup Q, a, c)
<1>1. \A s \in P : s.lo \in Int /\ s.hi \in Int /\ a <= s.lo /\ s.lo < s.hi /\ s.hi <= b
  BY DEF Parts
<1>2. \A s \in Q : s.lo \in Int /\ s.hi \in Int /\ b <= s.lo /\ s.lo < s.hi /\ s.hi <= c
  BY DEF Parts
<1>3. \A s \in P \cup Q : s.lo \in Int /\ s.hi \in Int /\ a <= s.lo /\ s.lo < s.hi /\ s.hi <= c
  BY <1>1, <1>2
<1>4. ASSUME NEW i \in Int, a <= i, i < c
      PROVE  /\ \E s \in P \cup Q : s.lo <= i /\ i < s.hi
             /\ \A s, r \in P \cup Q : s.lo <= i /\ i < s.hi /\ r.lo <= i /\ i < r.hi => s = r
  <2>1. CASE i < b
    <3>1. \A s \in P \cup Q : s.lo <= i /\ i < s.hi => s \in P
      BY <1>2, <2>1
    <3>2. /\ \E s \in P : s.lo <= i /\ i < s.hi
          /\ \A s, r \in P : s.lo <= i /\ i < s.hi /\ r.lo <= i /\ i < r.hi => s = r
      BY <1>4, <2>1 DEF Parts
    <3>3. QED BY <3>1, <3>2
  <2>2. CASE b <= i
    <3>1. \A s \in P \cup Q : s.lo <= i /\ i < s.hi => s \in Q
      BY <1>1, <2>2
    <3>2. /\ \E s \in Q : s.lo <= i /\ i < s.hi
          /\ \A s, r \in Q : s.lo <= i /\ i < s.hi /\ r.lo <= i /\ i < r.hi => s = r
      BY <1>4, <2>2 DEF Parts
    <3>3. QED BY <3>1, <3>2
  <2>3. QED BY <2>1, <2>2
<1>5. QED BY <1>3, <1>4 DEF Parts

\* One segment, or none if it were empty.
LEMMA OnePart ==
  ASSUME NEW lo \in Int, NEW hi \in Int, lo <= hi, NEW s, s.lo = lo, s.hi = hi
  PROVE  /\ lo < hi => Parts({s}, lo, hi)
         /\ lo = hi => Parts({}, lo, hi)
BY DEF Parts

LEMMA IdleParts ==
  ASSUME NEW lo \in Int, NEW hi \in Int, lo <= hi
  PROVE  Parts(Idle(lo, hi), lo, hi)
<1> DEFINE p == <<lo, hi, "no_activity">>
           s == Segment(p, "between", 0)
<1>1. s.lo = lo /\ s.hi = hi
  BY DEF Segment
<1>2. Idle(lo, hi) = IF lo < hi THEN {s} ELSE {}
  BY DEF Idle
<1> HIDE DEF s
<1>3. QED BY <1>1, <1>2, OnePart

LEMMA CreditParts ==
  ASSUME NEW lo \in Int, NEW c \in Nat, NEW n
  PROVE  Parts({Segment(<<lo - c, lo, "read_write">>, "interactive", n) : x \in {c} \ {0}}, lo - c, lo)
<1> DEFINE s == Segment(<<lo - c, lo, "read_write">>, "interactive", n)
<1>1. s.lo = lo - c /\ s.hi = lo
  BY DEF Segment
<1> HIDE DEF s
<1>2. CASE c = 0
  <2>1. {s : x \in {c} \ {0}} = {}
    BY <1>2
  <2>2. Parts({}, lo - c, lo)
    BY <1>2 DEF Parts
  <2>3. QED BY <2>1, <2>2 DEF s
<1>3. CASE c # 0
  <2>1. {s : x \in {c} \ {0}} = {s}
    BY <1>3
  <2>2. Parts({s}, lo - c, lo)
    BY <1>1, <1>3, OnePart
  <2>3. QED BY <2>1, <2>2 DEF s
<1>4. QED BY <1>2, <1>3

LEMMA PieceParts ==
  ASSUME NEW lo, NEW hi, NEW R, Tiles(R, lo, hi), NEW owner, NEW n
  PROVE  Parts({Segment(p, owner, n) : p \in R}, lo, hi)
<1> DEFINE P == {Segment(p, owner, n) : p \in R}
<1>1. \A p \in R : Segment(p, owner, n).lo = p[1] /\ Segment(p, owner, n).hi = p[2]
  BY DEF Segment
<1>2. \A s \in P : \E p \in R : s = Segment(p, owner, n) /\ s.lo = p[1] /\ s.hi = p[2]
  BY <1>1
<1>3. \A p \in R : Segment(p, owner, n) \in P
  OBVIOUS
<1> HIDE DEF P
<1>4. \A s \in P : s.lo \in Int /\ s.hi \in Int /\ lo <= s.lo /\ s.lo < s.hi /\ s.hi <= hi
  BY <1>2 DEF Tiles
<1>5. ASSUME NEW i \in Int, lo <= i, i < hi
      PROVE  /\ \E s \in P : s.lo <= i /\ i < s.hi
             /\ \A s, r \in P : s.lo <= i /\ i < s.hi /\ r.lo <= i /\ i < r.hi => s = r
  <2>1. PICK p \in R : p[1] <= i /\ i < p[2]
    BY <1>5 DEF Tiles
  <2>2. \A q, r \in R : q[1] <= i /\ i < q[2] /\ r[1] <= i /\ i < r[2] => q = r
    BY <1>5 DEF Tiles
  <2>3. QED BY <1>1, <1>2, <1>3, <2>1, <2>2
<1>6. QED BY <1>4, <1>5 DEF Parts, P

\* Where the time of turn n begins: at the end of the turn before.
From(T, n) == IF n = 1 THEN WindowStart ELSE T[n - 1].end

\* The turn n and the time before it are covered by its segments.
LEMMA TurnParts ==
  ASSUME NEW T, Ordered(T), NEW n \in DOMAIN T, NEW spans, \A x \in spans : Proper(x.pieces),
         events \in Seq(Event), From(T, n) \in Int, From(T, n) <= T[n].start
  PROVE  Parts(TurnSegments(T, spans, n), From(T, n), T[n].end)
<1> DEFINE from == From(T, n)
           lo == T[n].start
           hi == T[n].end
           credit == Credit(T, n, from)
           stamps == {e.ts : e \in Read}
           pieces == ThreadPieces(lo, hi, stamps, UnionOf(PiecesOf(T, spans, n)))
           active == TotalLength({p \in pieces : p[3] \in AgentActive})
           owner == IF T[n].scripted \/ active > KTurn THEN "background" ELSE "interactive"
           C == {Segment(<<lo - credit, lo, "read_write">>, "interactive", n) : c \in {credit} \ {0}}
           R == {Segment(p, owner, n) : p \in pieces}
<1>1. TurnSegments(T, spans, n) = (Idle(from, lo - credit) \cup C) \cup R
  BY DEF TurnSegments, From
<1>2. lo \in Int /\ hi \in Int /\ lo <= hi /\ from \in Int /\ from <= lo
  BY TurnFields DEF Ordered
<1>3. credit \in Nat /\ from <= lo - credit
  <2>1. KPrompt \in Nat
    BY TimeAccountingAssumption
  <2> DEFINE gap == lo - from
  <2>2. credit = 0 \/ credit = Min({gap, KPrompt})
    BY DEF Credit
  <2>3. gap \in Nat /\ gap \in Int /\ KPrompt \in Int
    BY <1>2, <2>1
  <2> HIDE DEF gap, credit, from, lo
  <2>4. Min({gap, KPrompt}) = IF gap <= KPrompt THEN gap ELSE KPrompt
    BY <2>1, <2>3, OfTwo
  <2>5. credit \in Nat /\ credit <= gap
    BY <2>1, <2>2, <2>3, <2>4
  <2>6. QED BY <1>2, <2>5 DEF gap
<1>4. Tiles(pieces, lo, hi)
  <2>1. stamps \subseteq Int
    <3>1. \A e \in Read : e \in Event
      BY DEF Read
    <3>2. QED BY <3>1, EventIsTimed, TurnsAssumption DEF Time
  <2>2. Proper(PiecesOf(T, spans, n))
    BY DEF PiecesOf, Proper
  <2>3. Proper(UnionOf(PiecesOf(T, spans, n)))
    BY <2>2, UnionProper
  <2> HIDE DEF stamps, lo, hi
  <2>4. QED BY <1>2, <2>1, <2>3, ThreadTiles
<1> HIDE DEF from, lo, hi, credit, pieces, owner
<1>5. Parts(Idle(from, lo - credit), from, lo - credit)
  BY <1>2, <1>3, IdleParts
<1>6. Parts(C, lo - credit, lo)
  BY <1>2, <1>3, CreditParts
<1>7. Parts(R, lo, hi)
  BY <1>4, PieceParts
<1> HIDE DEF C, R
<1>8. lo - credit \in Int /\ lo - credit <= lo
  BY <1>2, <1>3
<1>9. Parts(Idle(from, lo - credit) \cup C, from, lo)
  BY <1>2, <1>3, <1>5, <1>6, <1>8, PartsJoin
<1>10. Parts((Idle(from, lo - credit) \cup C) \cup R, from, hi)
  BY <1>2, <1>7, <1>9, PartsJoin
<1>11. QED BY <1>1, <1>10 DEF from, hi

\* The turns and the time before each are covered, from the window's start on.
LEMMA TurnsParts ==
  ASSUME NEW T, Ordered(T), NEW spans, \A x \in spans : Proper(x.pieces), events \in Seq(Event),
         WindowStart \in Int, T # <<>>, WindowStart <= T[1].start
  PROVE  Parts(UNION {TurnSegments(T, spans, n) : n \in DOMAIN T}, WindowStart, T[Len(T)].end)
<1> DEFINE m == Len(T)
           Up(k) == UNION {TurnSegments(T, spans, n) : n \in 1 .. k}
           K == {k \in 0 .. m : k > 0 => Parts(Up(k), WindowStart, T[k].end)}
<1>1. T \in Seq(Turn) /\ m \in Nat /\ m > 0 /\ DOMAIN T = 1 .. m
  BY DEF Ordered
<1>2. \A n \in 1 .. m : T[n].start \in Int /\ T[n].end \in Int /\ T[n].start <= T[n].end
  BY <1>1, TurnFields DEF Ordered
<1> HIDE DEF m
<1>3. ASSUME NEW n \in 1 .. m, n > 1
      PROVE  n - 1 \in 1 .. m /\ T[n - 1].end <= T[n].start
  <2>1. n - 1 \in 1 .. m /\ n - 1 < n
    BY <1>1, <1>3
  <2>2. QED BY <1>1, <2>1 DEF Ordered
<1>4. ASSUME NEW k \in 1 .. m, k - 1 \in K PROVE k \in K
  <2>1. From(T, k) \in Int /\ From(T, k) <= T[k].start
    BY <1>2, <1>3 DEF From
  <2>2. Parts(TurnSegments(T, spans, k), From(T, k), T[k].end)
    BY <1>1, <2>1, TurnParts
  <2>3. CASE k = 1
    <3>1. 1 .. k = {k}
      BY <2>3
    <3>2. Up(k) = TurnSegments(T, spans, k)
      BY <3>1
    <3> HIDE DEF Up
    <3>3. QED BY <1>1, <2>2, <2>3, <3>2 DEF From
  <2>4. CASE k > 1
    <3>1. 1 .. k = (1 .. k - 1) \cup {k} /\ k - 1 > 0
      BY <2>4
    <3>2. Up(k) = Up(k - 1) \cup TurnSegments(T, spans, k)
      BY <3>1
    <3>3. Parts(Up(k - 1), WindowStart, T[k - 1].end)
      BY <1>4, <3>1
    <3> HIDE DEF Up
    <3>4. Parts(TurnSegments(T, spans, k), T[k - 1].end, T[k].end)
      BY <2>2, <2>4 DEF From
    <3>5. k - 1 \in 1 .. m /\ T[k - 1].end \in Int /\ T[k].end \in Int /\ T[k - 1].end <= T[k].end
      <4>1. k - 1 \in 1 .. m /\ T[k - 1].end <= T[k].start
        BY <1>3, <2>4
      <4>2. T[k - 1].end \in Int /\ T[k].end \in Int /\ T[k].start \in Int /\ T[k].start <= T[k].end
        BY <1>2, <4>1
      <4>3. QED BY <4>1, <4>2
    <3>6. WindowStart <= T[k - 1].end
      <4>1. T[1].start \in Int /\ T[1].end \in Int /\ T[1].start <= T[1].end /\ 1 \in 1 .. m
        BY <1>1, <1>2
      <4>2. CASE k - 1 = 1
        BY <4>1, <4>2
      <4>3. CASE k - 1 > 1
        <5>1. T[1].end <= T[k - 1].start
          BY <1>1, <3>5, <4>1, <4>3 DEF Ordered
        <5>2. T[k - 1].start \in Int /\ T[k - 1].start <= T[k - 1].end
          BY <1>2, <3>5
        <5>3. QED BY <3>5, <4>1, <5>1, <5>2
      <4>4. QED BY <3>5, <4>2, <4>3
    <3>7. Parts(Up(k), WindowStart, T[k].end)
      BY <3>2, <3>3, <3>4, <3>5, <3>6, PartsJoin
    <3>8. QED BY <1>1, <3>7
  <2>5. QED BY <2>3, <2>4
<1>5. 0 \in K
  BY <1>1
<1>6. m \in K
  <2> HIDE DEF K
  <2>1. \A k \in 0 .. m : k \in K
    BY <1>1, <1>4, <1>5, UpTo
  <2>2. QED BY <1>1, <2>1
<1>7. Up(m) = UNION {TurnSegments(T, spans, n) : n \in DOMAIN T}
  BY <1>1
<1>8. QED BY <1>1, <1>6, <1>7 DEF m

LEMMA WindowBounds ==
  ASSUME SessionInv, Stamps # {}
  PROVE  /\ WindowStart \in Time /\ WindowEnd \in Time /\ WindowStart <= WindowEnd
         /\ \A x \in Times(Read) : x \in Time /\ WindowStart <= x /\ x <= WindowEnd
<1>1. Stamps \in SUBSET Time
  <2>1. \A e \in Read : e \in Event
    BY DEF Read, SessionInv, WorkInv, IInv, TypeOK
  <2>2. \A a \in Agents : \A e \in ToSet(sub[a]) : e \in Event
    BY DEF SessionInv, ToSet
  <2>3. QED BY <2>1, <2>2, EventIsTimed DEF Stamps, Usage
<1>2. Times(Read) \subseteq Stamps
  BY DEF Times, Stamps
<1>3. Stamps \in SUBSET Int /\ IsFiniteSet(Stamps)
  BY <1>1, FiniteTimes
<1>4. WindowStart \in Stamps /\ \A x \in Stamps : WindowStart <= x
  BY <1>3, MinIsLeast DEF WindowStart
<1>5. WindowEnd \in Stamps /\ \A x \in Stamps : x <= WindowEnd
  BY <1>3, MaxIsGreatest DEF WindowEnd
<1>6. QED BY <1>1, <1>2, <1>4, <1>5

LEMMA PartitionParts ==
  ASSUME SessionInv, Stamps # {}
  PROVE  Parts(Partition, WindowStart, WindowEnd)
<1> DEFINE T == MainTurns
           spans == ToolSpans(events, WindowEnd, PromptsOf(T))
           last == IF T = <<>> THEN WindowStart ELSE Last(T).end
           S == UNION {TurnSegments(T, spans, n) : n \in DOMAIN T}
<1>1. Partition = S \cup Idle(last, WindowEnd)
  BY DEF Partition, PartitionOf
<1>2. /\ WindowStart \in Int /\ WindowEnd \in Int /\ WindowStart <= WindowEnd
      /\ \A x \in Times(Read) : x \in Int /\ WindowStart <= x /\ x <= WindowEnd
  BY WindowBounds, TurnsAssumption DEF Time
<1>3. Ordered(T) /\ \A i \in DOMAIN T : T[i].start \in Times(Read) /\ T[i].end \in Times(Read)
  BY MainTurnsOrdered
<1>4. events \in Seq(Event)
  BY DEF SessionInv, WorkInv, IInv, TypeOK
<1>5. \A x \in spans : Proper(x.pieces)
  BY <1>2, <1>4, ToolSpansProper
<1> HIDE DEF T, spans
<1>6. CASE T = <<>>
  <2>1. S = {} /\ last = WindowStart
    BY <1>6
  <2>2. Parts(Idle(WindowStart, WindowEnd), WindowStart, WindowEnd)
    BY <1>2, IdleParts
  <2> HIDE DEF S, last
  <2>3. QED BY <1>1, <2>1, <2>2
<1>7. CASE T # <<>>
  <2>1. T \in Seq(Turn) /\ 1 \in DOMAIN T /\ Len(T) \in DOMAIN T
    BY <1>3, <1>7 DEF Ordered
  <2>2. last = T[Len(T)].end
    BY <1>7 DEF Last
  <2>3. WindowStart <= T[1].start /\ last \in Int /\ WindowStart <= last /\ last <= WindowEnd
    BY <1>2, <1>3, <2>1, <2>2
  <2>4. Parts(S, WindowStart, last)
    BY <1>2, <1>3, <1>4, <1>5, <1>7, <2>2, <2>3, TurnsParts
  <2>5. Parts(Idle(last, WindowEnd), last, WindowEnd)
    BY <1>2, <2>3, IdleParts
  <2> HIDE DEF S, last
  <2>6. QED BY <1>1, <1>2, <2>3, <2>4, <2>5, PartsJoin
<1>8. QED BY <1>6, <1>7

LEMMA PartsExact ==
  ASSUME NEW P, WindowStart \in Int, WindowEnd \in Int, Parts(P, WindowStart, WindowEnd)
  PROVE  Exact(P)
<1>1. \A s \in P : /\ s.lo \in Int /\ s.hi \in Int /\ s.lo < s.hi
                   /\ WindowStart <= s.lo /\ s.hi <= WindowEnd
  BY DEF Parts
<1>2. ASSUME NEW i \in WindowStart .. WindowEnd - 1
      PROVE  Cardinality({s \in P : s.lo <= i /\ i < s.hi}) = 1
  <2>1. i \in Int /\ WindowStart <= i /\ i < WindowEnd
    OBVIOUS
  <2>2. PICK s \in P : s.lo <= i /\ i < s.hi
    BY <2>1 DEF Parts
  <2>3. \A r \in P : r.lo <= i /\ i < r.hi => r = s
    BY <2>1, <2>2 DEF Parts
  <2>4. {r \in P : r.lo <= i /\ i < r.hi} = {s}
    BY <2>2, <2>3
  <2>5. Cardinality({s}) = 1
    BY FS_Singleton
  <2>6. QED BY <2>4, <2>5
<1>3. Covered(P) \subseteq WindowStart .. WindowEnd - 1
  BY <1>1 DEF Covered
<1>4. QED BY <1>1, <1>2, <1>3 DEF Exact

\* Whatever the events of a session and its subagents, every instant of its window is
\* in exactly one segment of the partition, and no segment goes beyond the window.
THEOREM WindowPartitioned == SessionSpec => []PartitionExact
<1>1. SessionInv => PartitionExact
  <2> SUFFICES ASSUME SessionInv, Stamps # {} PROVE Exact(Partition)
    BY DEF PartitionExact
  <2>1. WindowStart \in Int /\ WindowEnd \in Int
    BY WindowBounds, TurnsAssumption DEF Time
  <2>2. QED BY <2>1, PartitionParts, PartsExact
<1>2. QED BY <1>1, SessionInductive, PTL

-----------------------------------------------------------------------------
(* Streaks.                                                                  *)

RunOfTurns == [first : Nat, last : Nat, active : Nat]
Accumulated == [out : Seq(RunOfTurns), cur : {None} \cup RunOfTurns]

ActiveIn(T, a, b) == UNION {ActiveInstants(T[j]) : j \in a .. b}

\* The active instants of a turn are its own.
LEMMA ActiveWithin ==
  ASSUME events \in Seq(Event), NEW T, Ordered(T), NEW i \in DOMAIN T
  PROVE  /\ \A x \in ActiveInstants(T[i]) : x \in Int /\ T[i].start <= x /\ x < T[i].end
         /\ IsFiniteSet(ActiveInstants(T[i])) /\ ActiveTime(T[i]) \in Nat
<1> DEFINE t == T[i]
<1>1. t.start \in Int /\ t.end \in Int /\ t.start <= t.end
  BY TurnFields DEF Ordered
<1>2. \A g \in Gaps(Read, t) : t.start <= g[1] /\ g[2] <= t.end
  BY <1>1 DEF Gaps, Neighbours
<1>3. \A g \in Gaps(Read, t) : g[1] \in Int /\ g[2] \in Int
  <2>1. \A e \in Read : e.ts \in Time
    BY EventIsTimed DEF Read
  <2>2. {t.start, t.end} \cup {ts \in {e.ts : e \in Read} : t.start <= ts /\ ts <= t.end} \subseteq Int
    BY <1>1, <2>1, TurnsAssumption DEF Time
  <2> HIDE DEF t
  <2>3. QED BY <2>2 DEF Gaps, Neighbours
<1> HIDE DEF t
<1>4. \A G \in SUBSET Gaps(Read, t) : \A x \in Instants(G) : x \in Int /\ t.start <= x /\ x < t.end
  BY <1>1, <1>2, <1>3 DEF Instants
<1>5. \A x \in ActiveInstants(t) : x \in Int /\ t.start <= x /\ x < t.end
  <2>1. ToolInstants(t) = Instants({g \in Gaps(Read, t) : Within(g, Runtimes(Read, t, Tools))})
    BY DEF ToolInstants
  <2>2. QED BY <1>4, <2>1 DEF ActiveInstants
<1>6. IsFiniteSet(t.start .. t.end)
  BY <1>1, FS_Interval
<1>7. ActiveInstants(t) \in SUBSET (t.start .. t.end)
  BY <1>1, <1>5
<1>8. IsFiniteSet(ActiveInstants(t))
  BY <1>6, <1>7, FS_Subset
<1>9. QED BY <1>5, <1>8, FS_CardinalityType DEF t, ActiveTime

\* Turns do not share active instants: each adds its own.
LEMMA ActiveAdds ==
  ASSUME events \in Seq(Event), NEW T, Ordered(T), NEW k \in DOMAIN T, NEW a \in 1 .. k,
         IsFiniteSet(ActiveIn(T, a, k - 1))
  PROVE  /\ IsFiniteSet(ActiveIn(T, a, k))
         /\ Cardinality(ActiveIn(T, a, k)) = Cardinality(ActiveIn(T, a, k - 1)) + ActiveTime(T[k])
<1> DEFINE U == ActiveIn(T, a, k - 1)  V == ActiveInstants(T[k])
<1>1. DOMAIN T = 1 .. Len(T) /\ Len(T) \in Nat
  BY DEF Ordered
<1>2. a .. k = (a .. k - 1) \cup {k} /\ \A j \in a .. k - 1 : j \in DOMAIN T /\ j < k
  BY <1>1
<1>3. ActiveIn(T, a, k) = U \cup V
  BY <1>2 DEF ActiveIn
<1>4. IsFiniteSet(V) /\ Cardinality(V) = ActiveTime(T[k])
  BY ActiveWithin DEF ActiveTime
<1>5. U \cap V = {}
  <2> SUFFICES ASSUME NEW x \in U, x \in V PROVE FALSE
    OBVIOUS
  <2>1. PICK j \in a .. k - 1 : x \in ActiveInstants(T[j])
    BY DEF ActiveIn
  <2>2. j \in DOMAIN T /\ j < k
    BY <1>2
  <2>3. x \in Int /\ x < T[j].end
    BY <2>1, <2>2, ActiveWithin
  <2>4. T[k].start <= x
    BY ActiveWithin
  <2>5. T[j].end <= T[k].start /\ T[j].end \in Int /\ T[k].start \in Int
    BY <2>2, TurnFields DEF Ordered
  <2>6. QED BY <2>3, <2>4, <2>5
<1> HIDE DEF U, V
<1>6. IsFiniteSet(U)
  BY DEF U
<1>7. Cardinality(U \cap V) = 0
  BY <1>5, FS_EmptySet
<1>8. IsFiniteSet(U \cup V) /\ Cardinality(U \cup V) = Cardinality(U) + Cardinality(V) - Cardinality(U \cap V)
  BY <1>4, <1>6, FS_Union
<1>9. Cardinality(U) \in Nat /\ Cardinality(V) \in Nat
  BY <1>4, <1>6, FS_CardinalityType
<1>10. Cardinality(U \cup V) = Cardinality(U) + Cardinality(V)
  BY <1>7, <1>8, <1>9
<1>11. QED BY <1>3, <1>4, <1>8, <1>10 DEF U

\* r is a streak of T's first k turns.
IsStreak(T, r, k) ==
  /\ 1 <= r.first /\ r.first <= r.last /\ r.last <= k
  /\ \A j \in r.first .. r.last :
       Label(T[j]) = "AFK" /\ (j > r.first => T[j].start - T[j - 1].end <= KBridge)
  /\ IsFiniteSet(ActiveIn(T, r.first, r.last))
  /\ r.active = Cardinality(ActiveIn(T, r.first, r.last))

\* The streak after p could not have gone on from it.
Separate(T, p, q) ==
  p.last + 1 = q.first => T[q.first].start - T[p.last].end > KBridge

\* S are the streaks of T's first k turns.
StreaksOf(T, S, k) ==
  /\ S \in Seq(RunOfTurns)
  /\ \A i \in DOMAIN S : IsStreak(T, S[i], k)
  /\ \A i, j \in DOMAIN S : i < j => S[i].last < S[j].first
  /\ \A i \in DOMAIN S : i > 1 => Separate(T, S[i - 1], S[i])
  /\ \A j \in 1 .. k : Label(T[j]) = "AFK" => \E i \in DOMAIN S : S[i].first <= j /\ j <= S[i].last

StreakInv(T, acc, k) ==
  /\ acc \in Accumulated
  /\ StreaksOf(T, Flushed(acc), k)
  /\ acc.cur # None <=> (k >= 1 /\ Label(T[k]) = "AFK")
  /\ acc.cur # None => acc.cur.last = k

\* A streak that begins with the turn T[k], when none goes on.
LEMMA StreakBegins ==
  ASSUME events \in Seq(Event), NEW T, Ordered(T), NEW k \in DOMAIN T, NEW S, StreaksOf(T, S, k - 1),
         Label(T[k]) = "AFK", k > 1 /\ Label(T[k - 1]) = "AFK" => T[k].start - T[k - 1].end > KBridge,
         NEW r, r = [first |-> k, last |-> k, active |-> ActiveTime(T[k])]
  PROVE  r \in RunOfTurns /\ StreaksOf(T, Append(S, r), k)
<1> DEFINE m == Len(S)  more == Append(S, r)
<1>1. DOMAIN T = 1 .. Len(T) /\ Len(T) \in Nat /\ k \in Nat
  BY DEF Ordered
<1>2. r \in RunOfTurns /\ r.first = k /\ r.last = k
  BY <1>1, ActiveWithin DEF RunOfTurns
<1>3. IsStreak(T, r, k)
  <2>1. ActiveIn(T, k, k - 1) = {}
    BY <1>1 DEF ActiveIn
  <2>2. IsFiniteSet({}) /\ Cardinality({}) = 0 /\ k \in 1 .. k
    BY <1>1, FS_EmptySet
  <2>3. /\ IsFiniteSet(ActiveIn(T, k, k))
        /\ Cardinality(ActiveIn(T, k, k)) = Cardinality(ActiveIn(T, k, k - 1)) + ActiveTime(T[k])
    BY <2>1, <2>2, ActiveAdds
  <2>4. ActiveTime(T[k]) \in Nat
    BY ActiveWithin
  <2>5. Cardinality(ActiveIn(T, k, k)) = r.active
    <3>1. Cardinality(ActiveIn(T, k, k - 1)) = 0
      BY <2>1, <2>2
    <3>2. r.active = ActiveTime(T[k])
      OBVIOUS
    <3>3. QED BY <2>3, <2>4, <3>1, <3>2
  <2>6. \A j \in k .. k : j = k
    BY <1>1
  <2>7. QED BY <1>1, <1>2, <2>3, <2>5, <2>6 DEF IsStreak
<1>4. /\ S \in Seq(RunOfTurns) /\ m \in Nat /\ DOMAIN S = 1 .. m
      /\ \A i \in DOMAIN S : S[i] \in RunOfTurns
  BY DEF StreaksOf
<1>5. /\ more \in Seq(RunOfTurns) /\ DOMAIN more = 1 .. m + 1 /\ more[m + 1] = r
      /\ \A i \in 1 .. m : more[i] = S[i]
  BY <1>2, <1>4
<1>6. \A i \in 1 .. m + 1 : i = m + 1 \/ i \in 1 .. m
  BY <1>4
<1> HIDE DEF m, more
<1>7. \A i \in 1 .. m : IsStreak(T, S[i], k - 1) /\ S[i].last <= k - 1 /\ S[i].last \in Nat
  BY <1>4 DEF StreaksOf, IsStreak, RunOfTurns
<1>8. \A i \in 1 .. m : IsStreak(T, S[i], k)
  BY <1>1, <1>7 DEF IsStreak
<1>9. \A i \in DOMAIN more : IsStreak(T, more[i], k)
  BY <1>3, <1>5, <1>6, <1>8
<1>10. ASSUME NEW i \in DOMAIN more, NEW j \in DOMAIN more, i < j PROVE more[i].last < more[j].first
  <2>1. i \in 1 .. m
    BY <1>4, <1>5, <1>6, <1>10
  <2>2. CASE j = m + 1
    BY <1>1, <1>2, <1>5, <1>7, <2>1, <2>2
  <2>3. CASE j \in 1 .. m
    BY <1>4, <1>5, <1>10, <2>1, <2>3 DEF StreaksOf
  <2>4. QED BY <1>5, <1>6, <2>2, <2>3
<1>11. ASSUME NEW i \in DOMAIN more, i > 1 PROVE Separate(T, more[i - 1], more[i])
  <2>1. i - 1 \in 1 .. m
    BY <1>4, <1>5, <1>11
  <2>2. CASE i \in 1 .. m
    BY <1>4, <1>5, <1>11, <2>1, <2>2 DEF StreaksOf
  <2>3. CASE i = m + 1
    <3>1. more[i] = r /\ more[i - 1] = S[m] /\ m \in 1 .. m
      BY <1>4, <1>5, <1>11, <2>1, <2>3
    <3>2. ASSUME S[m].last + 1 = k PROVE T[k].start - T[S[m].last].end > KBridge
      <4>1. IsStreak(T, S[m], k - 1) /\ S[m] \in RunOfTurns
        BY <1>4, <1>7, <3>1
      <4>2. S[m].last \in S[m].first .. S[m].last /\ S[m].last = k - 1 /\ k > 1
        BY <1>1, <3>2, <4>1 DEF IsStreak, RunOfTurns
      <4>3. Label(T[k - 1]) = "AFK"
        BY <4>1, <4>2 DEF IsStreak
      <4>4. QED BY <4>2, <4>3
    <3>3. QED BY <1>2, <3>1, <3>2 DEF Separate
  <2>4. QED BY <1>5, <1>6, <2>2, <2>3
<1>12. ASSUME NEW j \in 1 .. k, Label(T[j]) = "AFK"
       PROVE  \E i \in DOMAIN more : more[i].first <= j /\ j <= more[i].last
  <2>1. CASE j = k
    <3>1. m + 1 \in DOMAIN more
      BY <1>4, <1>5
    <3>2. QED BY <1>1, <1>2, <1>5, <2>1, <3>1
  <2>2. CASE j \in 1 .. k - 1
    <3>1. PICK i \in 1 .. m : S[i].first <= j /\ j <= S[i].last
      BY <1>4, <1>12, <2>2 DEF StreaksOf
    <3>2. i \in DOMAIN more
      BY <1>4, <1>5, <3>1
    <3>3. QED BY <1>5, <3>1, <3>2
  <2>3. QED BY <1>1, <2>1, <2>2
<1>13. StreaksOf(T, more, k)
  BY <1>5, <1>9, <1>10, <1>11, <1>12 DEF StreaksOf
<1>14. QED BY <1>2, <1>13 DEF more

\* The streak that ends with the turn T[k - 1] goes on with the turn T[k].
LEMMA StreakGoesOn ==
  ASSUME events \in Seq(Event), NEW T, Ordered(T), NEW k \in DOMAIN T, k > 1,
         NEW out \in Seq(RunOfTurns), NEW r \in RunOfTurns, r.last = k - 1,
         StreaksOf(T, Append(out, r), k - 1), Label(T[k]) = "AFK",
         T[k].start - T[k - 1].end <= KBridge,
         NEW q, q = [first |-> r.first, last |-> k, active |-> r.active + ActiveTime(T[k])]
  PROVE  q \in RunOfTurns /\ StreaksOf(T, Append(out, q), k)
<1> DEFINE m == Len(out)  S == Append(out, r)  more == Append(out, q)
<1>1. DOMAIN T = 1 .. Len(T) /\ Len(T) \in Nat /\ k \in Nat
  BY DEF Ordered
<1>2. r.first \in Nat /\ r.active \in Nat /\ ActiveTime(T[k]) \in Nat
  BY ActiveWithin DEF RunOfTurns
<1>3. q \in RunOfTurns /\ q.first = r.first /\ q.last = k /\ q.active = r.active + ActiveTime(T[k])
  BY <1>1, <1>2 DEF RunOfTurns
<1>4. /\ m \in Nat /\ DOMAIN S = 1 .. m + 1 /\ DOMAIN more = 1 .. m + 1 /\ more \in Seq(RunOfTurns)
      /\ S[m + 1] = r /\ more[m + 1] = q
      /\ \A i \in 1 .. m : S[i] = out[i] /\ more[i] = S[i] /\ S[i] \in RunOfTurns
  BY <1>3
<1>5. \A i \in 1 .. m + 1 : i = m + 1 \/ i \in 1 .. m
  BY <1>4
<1>6. \A i \in 1 .. m + 1 : IsStreak(T, S[i], k - 1)
  BY <1>4 DEF StreaksOf
<1> HIDE DEF m, S, more
<1>7. IsStreak(T, q, k)
  <2>1. IsStreak(T, r, k - 1)
    BY <1>4, <1>6
  <2>2. /\ IsFiniteSet(ActiveIn(T, r.first, k - 1)) /\ r.first \in 1 .. k
        /\ r.active = Cardinality(ActiveIn(T, r.first, k - 1))
    BY <1>1, <1>2, <2>1 DEF IsStreak
  <2>3. /\ IsFiniteSet(ActiveIn(T, r.first, k))
        /\ Cardinality(ActiveIn(T, r.first, k)) = Cardinality(ActiveIn(T, r.first, k - 1)) + ActiveTime(T[k])
    BY <2>2, ActiveAdds
  <2>4. \A j \in r.first .. k : j = k \/ j \in r.first .. r.last
    BY <1>1, <1>2
  <2>5. \A j \in r.first .. k :
          Label(T[j]) = "AFK" /\ (j > r.first => T[j].start - T[j - 1].end <= KBridge)
    BY <2>1, <2>4 DEF IsStreak
  <2>6. 1 <= r.first /\ r.first <= k /\ k <= k
    BY <1>1, <2>2
  <2>7. QED BY <1>3, <2>2, <2>3, <2>5, <2>6 DEF IsStreak
<1>8. \A i \in 1 .. m : IsStreak(T, more[i], k)
  <2>1. \A i \in 1 .. m : IsStreak(T, more[i], k - 1) /\ more[i].last \in Nat
    BY <1>4, <1>6 DEF RunOfTurns
  <2>2. QED BY <1>1, <2>1 DEF IsStreak
<1>9. \A i \in DOMAIN more : IsStreak(T, more[i], k)
  BY <1>4, <1>5, <1>7, <1>8
<1>10. \A i \in DOMAIN more : more[i].first = S[i].first /\ (i \in 1 .. m => more[i].last = S[i].last)
  BY <1>3, <1>4, <1>5
<1>11. \A i, j \in DOMAIN more : i < j => more[i].last < more[j].first
  <2>1. \A i, j \in DOMAIN more : i < j => i \in 1 .. m
    BY <1>4
  <2>2. \A i, j \in DOMAIN S : i < j => S[i].last < S[j].first
    BY DEF S, StreaksOf
  <2>3. QED BY <1>4, <1>10, <2>1, <2>2
<1>12. \A i \in DOMAIN more : i > 1 => Separate(T, more[i - 1], more[i])
  <2>1. \A i \in DOMAIN more : i > 1 => i - 1 \in 1 .. m
    BY <1>4
  <2>2. \A i \in DOMAIN S : i > 1 => Separate(T, S[i - 1], S[i])
    BY DEF S, StreaksOf
  <2>3. QED BY <1>4, <1>10, <2>1, <2>2 DEF Separate
<1>13. ASSUME NEW j \in 1 .. k, Label(T[j]) = "AFK"
       PROVE  \E i \in DOMAIN more : more[i].first <= j /\ j <= more[i].last
  <2>1. m + 1 \in DOMAIN more
    BY <1>4
  <2>2. CASE j = k
    <3>1. q.first <= k
      BY <1>7 DEF IsStreak
    <3>2. QED BY <1>1, <1>3, <1>4, <2>1, <2>2, <3>1
  <2>3. CASE j \in 1 .. k - 1
    <3>1. PICK i \in DOMAIN S : S[i].first <= j /\ j <= S[i].last
      BY <1>13, <2>3 DEF S, StreaksOf
    <3>2. CASE i \in 1 .. m
      BY <1>4, <3>1, <3>2
    <3>3. CASE i = m + 1
      <4>1. more[i].first <= j /\ more[i].last = k
        BY <1>3, <1>4, <3>1, <3>3
      <4>2. QED BY <1>1, <2>1, <2>3, <3>3, <4>1
    <3>4. QED BY <1>4, <1>5, <3>1, <3>2, <3>3
  <2>4. QED BY <1>1, <2>2, <2>3
<1>14. StreaksOf(T, more, k)
  BY <1>4, <1>9, <1>11, <1>12, <1>13 DEF StreaksOf
<1>15. QED BY <1>3, <1>14 DEF more

\* None of T's turns was attended before, and is now: what was a streak stays one.
LEMMA StreaksStay ==
  ASSUME NEW T, Ordered(T), NEW k \in DOMAIN T, NEW S, StreaksOf(T, S, k - 1), Label(T[k]) # "AFK"
  PROVE  StreaksOf(T, S, k)
<1>1. k \in Nat /\ k >= 1
  BY DEF Ordered
<1>2. \A i \in DOMAIN S : IsStreak(T, S[i], k - 1) /\ S[i].last \in Nat
  <2>1. \A i \in DOMAIN S : S[i] \in RunOfTurns
    BY DEF StreaksOf
  <2>2. \A x \in RunOfTurns : x.last \in Nat
    BY DEF RunOfTurns
  <2>3. QED BY <2>1, <2>2 DEF StreaksOf
<1>3. \A i \in DOMAIN S : IsStreak(T, S[i], k)
  BY <1>1, <1>2 DEF IsStreak
<1>4. \A j \in 1 .. k : Label(T[j]) = "AFK" => j \in 1 .. k - 1
  BY <1>1
<1>5. QED BY <1>3, <1>4 DEF StreaksOf

\* A round keeps the accumulator's type, whatever the turns before.
LEMMA StreakType ==
  ASSUME events \in Seq(Event), NEW T, Ordered(T), NEW k \in DOMAIN T, NEW acc \in Accumulated
  PROVE  /\ Streak(T, acc, k) \in Accumulated
         /\ Flushed(acc) \in Seq(RunOfTurns)
         /\ Label(T[k]) # "AFK" => Streak(T, acc, k) = [out |-> Flushed(acc), cur |-> None]
         /\ Label(T[k]) = "AFK" /\ ~ (acc.cur # None /\ Bridged(T, k)) =>
              Streak(T, acc, k) =
                [out |-> Flushed(acc), cur |-> [first |-> k, last |-> k, active |-> ActiveTime(T[k])]]
         /\ Label(T[k]) = "AFK" /\ acc.cur # None /\ Bridged(T, k) =>
              Streak(T, acc, k) =
                [out |-> acc.out,
                 cur |-> [first |-> acc.cur.first, last |-> k, active |-> acc.cur.active + ActiveTime(T[k])]]
<1>1. k \in Nat /\ ActiveTime(T[k]) \in Nat
  BY ActiveWithin DEF Ordered
<1>2. acc.out \in Seq(RunOfTurns) /\ acc.cur \in {None} \cup RunOfTurns
  BY DEF Accumulated
<1>3. Flushed(acc) \in Seq(RunOfTurns)
  BY <1>2 DEF Flushed
<1>4. [first |-> k, last |-> k, active |-> ActiveTime(T[k])] \in RunOfTurns
  BY <1>1 DEF RunOfTurns
<1>5. CASE Label(T[k]) # "AFK"
  <2>1. Streak(T, acc, k) = [out |-> Flushed(acc), cur |-> None]
    BY <1>5 DEF Streak
  <2>2. QED BY <1>3, <1>5, <2>1 DEF Accumulated
<1>6. CASE Label(T[k]) = "AFK" /\ ~ (acc.cur # None /\ Bridged(T, k))
  <2>1. Streak(T, acc, k) = [out |-> Flushed(acc), cur |-> [first |-> k, last |-> k, active |-> ActiveTime(T[k])]]
    BY <1>6 DEF Streak
  <2>2. QED BY <1>3, <1>4, <1>6, <2>1 DEF Accumulated
<1>7. CASE Label(T[k]) = "AFK" /\ acc.cur # None /\ Bridged(T, k)
  <2> DEFINE q == [first |-> acc.cur.first, last |-> k, active |-> acc.cur.active + ActiveTime(T[k])]
  <2>1. acc.cur \in RunOfTurns
    BY <1>2, <1>7
  <2>2. q \in RunOfTurns
    BY <1>1, <2>1 DEF RunOfTurns
  <2>3. Streak(T, acc, k) = [out |-> acc.out, cur |-> q]
    BY <1>7 DEF Streak
  <2>4. QED BY <1>2, <1>3, <1>7, <2>2, <2>3 DEF Accumulated
<1>8. QED BY <1>5, <1>6, <1>7

LEMMA StreakStep ==
  ASSUME events \in Seq(Event), NEW T, Ordered(T), NEW k \in DOMAIN T,
         NEW acc, StreakInv(T, acc, k - 1)
  PROVE  StreakInv(T, Streak(T, acc, k), k)
<1> DEFINE next == Streak(T, acc, k)
           S == Flushed(acc)
<1>1. k \in Nat /\ k >= 1 /\ acc \in Accumulated /\ StreaksOf(T, S, k - 1)
  BY DEF Ordered, StreakInv
<1>2. next \in Accumulated
  BY <1>1, StreakType
<1>3. CASE Label(T[k]) # "AFK"
  <2>1. next = [out |-> S, cur |-> None]
    BY <1>1, <1>3, StreakType
  <2>2. Flushed(next) = S /\ next.cur = None
    BY <2>1 DEF Flushed
  <2>3. StreaksOf(T, S, k)
    BY <1>1, <1>3, StreaksStay
  <2> HIDE DEF next, S
  <2>4. QED BY <1>2, <1>3, <2>2, <2>3 DEF StreakInv, next
<1>4. CASE Label(T[k]) = "AFK" /\ ~ (acc.cur # None /\ Bridged(T, k))
  <2> DEFINE r == [first |-> k, last |-> k, active |-> ActiveTime(T[k])]
  <2>1. next = [out |-> S, cur |-> r]
    BY <1>1, <1>4, StreakType
  <2>2. k > 1 /\ Label(T[k - 1]) = "AFK" => T[k].start - T[k - 1].end > KBridge
    <3> SUFFICES ASSUME k > 1, Label(T[k - 1]) = "AFK" PROVE T[k].start - T[k - 1].end > KBridge
      OBVIOUS
    <3>1. acc.cur # None
      BY <1>1 DEF StreakInv
    <3>2. ~ (T[k].start - T[k - 1].end <= KBridge)
      BY <1>4, <3>1 DEF Bridged
    <3>3. T[k].start \in Int /\ T[k - 1].end \in Int /\ KBridge \in Nat
      <4>1. k - 1 \in DOMAIN T /\ T \in Seq(Turn)
        BY <1>1 DEF Ordered
      <4>2. QED BY <4>1, TurnFields, TurnsAssumption
    <3>4. QED BY <3>2, <3>3
  <2>3. r \in RunOfTurns /\ StreaksOf(T, Append(S, r), k)
    <3> HIDE DEF S
    <3>1. QED BY <1>1, <1>4, <2>2, StreakBegins
  <2>4. r # None /\ r.last = k
    BY <2>3, TimeAccountingAssumption DEF RunOfTurns
  <2>5. Flushed(next) = Append(S, r) /\ next.cur = r
    BY <2>1, <2>4 DEF Flushed
  <2> HIDE DEF next, S, r
  <2>6. QED BY <1>1, <1>2, <1>4, <2>3, <2>4, <2>5 DEF StreakInv, next
<1>5. CASE Label(T[k]) = "AFK" /\ acc.cur # None /\ Bridged(T, k)
  <2> DEFINE q == [first |-> acc.cur.first, last |-> k, active |-> acc.cur.active + ActiveTime(T[k])]
  <2>1. next = [out |-> acc.out, cur |-> q]
    BY <1>1, <1>5, StreakType
  <2>2. /\ acc.out \in Seq(RunOfTurns) /\ acc.cur \in RunOfTurns /\ acc.cur.last = k - 1
        /\ S = Append(acc.out, acc.cur) /\ k > 1
    BY <1>1, <1>5 DEF Accumulated, StreakInv, Flushed, Bridged
  <2>3. q \in RunOfTurns /\ StreaksOf(T, Append(acc.out, q), k)
    <3> HIDE DEF S
    <3>1. StreaksOf(T, Append(acc.out, acc.cur), k - 1)
      BY <1>1, <2>2
    <3>2. T[k].start - T[k - 1].end <= KBridge
      BY <1>5 DEF Bridged
    <3>3. QED BY <1>5, <2>2, <3>1, <3>2, StreakGoesOn
  <2>4. q # None /\ q.last = k
    BY <2>3, TimeAccountingAssumption DEF RunOfTurns
  <2>5. Flushed(next) = Append(acc.out, q) /\ next.cur = q
    BY <2>1, <2>4 DEF Flushed
  <2> HIDE DEF next, S, q
  <2>6. QED BY <1>1, <1>2, <1>5, <2>3, <2>4, <2>5 DEF StreakInv, next
<1>6. QED BY <1>3, <1>4, <1>5

\* The fold of Streak over the turns.
LEMMA StreaksFound ==
  ASSUME events \in Seq(Event), NEW T, Ordered(T)
  PROVE  StreaksOf(T, Streaks(T), Len(T))
<1> DEFINE n == Len(T)
           A == Accumulated
           Index == [i \in DOMAIN T |-> i]
           Body(g) == [t \in SUBSET DOMAIN Index |->
                         IF t = {} THEN NoStreaks ELSE Streak(T, g[t \ {Max(t)}], Index[Max(t)])]
           iter == CHOOSE g : g = Body(g)
           F == [p \in (1 .. n) \X A |-> Streak(T, p[2], p[1])]
<1>1. Streaks(T) = Flushed(iter[DOMAIN Index])
  BY DEF Streaks, FoldLeftDomain, FoldLeft, MapThenFoldSet
<1>2. n \in Nat /\ DOMAIN T = 1 .. n /\ DOMAIN Index = 1 .. n /\ \A k \in 1 .. n : Index[k] = k
  BY DEF Ordered
<1>3. \A k \in 1 .. n : \A a \in A : F[<<k, a>>] = Streak(T, a, k) /\ F[<<k, a>>] \in A
  BY <1>2, StreakType
<1>4. NoStreaks \in A
  BY DEF NoStreaks, Accumulated
<1> HIDE DEF n, A, F, Index
<1>5. FoldStep(n, A, NoStreaks, F)
  BY <1>2, <1>3, <1>4 DEF FoldStep
<1>6. PICK g : FoldBy(g, n, A, NoStreaks, F)
  BY <1>5, FoldExists
<1>7. g = Body(g)
  <2>1. ASSUME NEW t \in SUBSET (1 .. n), t # {} PROVE g[t] = Streak(T, g[t \ {Max(t)}], Index[Max(t)])
    <3>1. Max(t) \in 1 .. n /\ g[t \ {Max(t)}] \in A /\ g[t] = F[<<Max(t), g[t \ {Max(t)}]>>]
      BY <1>6, <2>1 DEF FoldBy
    <3>2. QED BY <1>2, <1>3, <3>1
  <2>2. \A t \in SUBSET DOMAIN Index : g[t] = Body(g)[t]
    BY <1>2, <1>6, <2>1 DEF FoldBy
  <2>3. QED BY <1>2, <1>6, <2>2 DEF FoldBy
<1>8. iter = Body(iter)
  BY <1>7
<1> HIDE DEF iter
<1>9. iter[{}] = NoStreaks
  BY <1>2, <1>8
<1>10. ASSUME NEW k \in 1 .. n PROVE iter[1 .. k] = Streak(T, iter[1 .. k - 1], k)
  <2>1. 1 .. k \in SUBSET (1 .. n) /\ 1 .. k # {} /\ Max(1 .. k) = k /\ (1 .. k) \ {k} = 1 .. k - 1
    BY <1>2, LastTaken
  <2>2. Body(iter)[1 .. k] = Streak(T, iter[1 .. k - 1], k)
    <3> HIDE DEF NoStreaks
    <3>1. QED BY <1>2, <2>1
  <2>3. QED BY <1>8, <2>2
<1> DEFINE K == {k \in 0 .. n : StreakInv(T, iter[1 .. k], k)}
<1>11. 0 \in K
  <2>1. Flushed(NoStreaks) = <<>> /\ NoStreaks.cur = None
    BY DEF Flushed, NoStreaks
  <2>2. StreaksOf(T, <<>>, 0)
    BY DEF StreaksOf
  <2>3. StreakInv(T, NoStreaks, 0)
    BY <1>4, <2>1, <2>2 DEF StreakInv, A
  <2>4. 1 .. 0 = {} /\ 0 \in 0 .. n
    BY <1>2
  <2>5. QED BY <1>9, <2>3, <2>4
<1>12. ASSUME NEW k \in 1 .. n, k - 1 \in K PROVE k \in K
  <2>1. StreakInv(T, iter[1 .. k - 1], k - 1) /\ k \in DOMAIN T
    BY <1>2, <1>12
  <2>2. StreakInv(T, iter[1 .. k], k)
    BY <1>10, <2>1, StreakStep
  <2>3. QED BY <1>2, <2>2
<1>13. n \in K
  <2> HIDE DEF K
  <2>1. \A k \in 0 .. n : k \in K
    BY <1>2, <1>11, <1>12, UpTo
  <2>2. QED BY <1>2, <2>1
<1>14. QED BY <1>1, <1>2, <1>13 DEF n, StreakInv

\* Whatever the events, each unattended turn is in one streak, no streak could be
\* longer, and the active time of a streak is that of its turns.
THEOREM StreaksRight == SessionSpec => []StreaksAddUp
<1>1. SessionInv => StreaksAddUp
  <2> SUFFICES ASSUME SessionInv PROVE StreaksAddUp
    OBVIOUS
  <2> DEFINE T == AllTurns  S == Streaks(T)
  <2>1. Ordered(T) /\ events \in Seq(Event)
    BY AllTurnsOrdered DEF SessionInv, WorkInv, IInv, TypeOK
  <2> HIDE DEF T
  <2>2. StreaksOf(T, S, Len(T)) /\ DOMAIN T = 1 .. Len(T) /\ Len(T) \in Nat
    BY <2>1, StreaksFound DEF Ordered
  <2> HIDE DEF S
  <2>3. /\ S \in Seq(RunOfTurns) /\ DOMAIN S = 1 .. Len(S) /\ Len(S) \in Nat
        /\ \A i \in DOMAIN S : IsStreak(T, S[i], Len(T)) /\ S[i].first \in Nat /\ S[i].last \in Nat
    <3>1. S \in Seq(RunOfTurns) /\ \A i \in DOMAIN S : IsStreak(T, S[i], Len(T))
      BY <2>2 DEF StreaksOf
    <3>2. \A x \in RunOfTurns : x.first \in Nat /\ x.last \in Nat
      BY DEF RunOfTurns
    <3>3. QED BY <3>1, <3>2
  <2>4. ASSUME NEW k \in DOMAIN T, Label(T[k]) = "AFK"
        PROVE  Cardinality({i \in DOMAIN S : S[i].first <= k /\ k <= S[i].last}) = 1
    <3>1. k \in Nat
      BY <2>2
    <3>2. PICK i \in DOMAIN S : S[i].first <= k /\ k <= S[i].last
      BY <2>2, <2>4 DEF StreaksOf
    <3>3. \A j \in DOMAIN S : S[j].first <= k /\ k <= S[j].last => j = i
      <4> SUFFICES ASSUME NEW j \in DOMAIN S, S[j].first <= k, k <= S[j].last, j # i PROVE FALSE
        OBVIOUS
      <4>1. CASE i < j
        <5>1. S[i].last < S[j].first
          BY <2>2, <4>1 DEF StreaksOf
        <5>2. QED BY <2>3, <3>1, <3>2, <5>1
      <4>2. CASE j < i
        <5>1. S[j].last < S[i].first
          BY <2>2, <4>2 DEF StreaksOf
        <5>2. QED BY <2>3, <3>1, <3>2, <5>1
      <4>3. QED BY <2>3, <4>1, <4>2
    <3>4. {j \in DOMAIN S : S[j].first <= k /\ k <= S[j].last} = {i}
      BY <3>2, <3>3
    <3>5. Cardinality({i}) = 1
      BY FS_Singleton
    <3>6. QED BY <3>4, <3>5
  <2>5. \A i \in DOMAIN S :
          /\ \A k \in S[i].first .. S[i].last :
               Label(T[k]) = "AFK" /\ (k > S[i].first => T[k].start - T[k - 1].end <= KBridge)
          /\ S[i].active = Cardinality(UNION {ActiveInstants(T[k]) : k \in S[i].first .. S[i].last})
    BY <2>3 DEF IsStreak, ActiveIn
  <2>6. ASSUME NEW i \in DOMAIN S, i > 1
        PROVE  /\ S[i - 1].last < S[i].first
               /\ S[i - 1].last + 1 = S[i].first => T[S[i].first].start - T[S[i - 1].last].end > KBridge
    <3>1. i - 1 \in DOMAIN S /\ i - 1 < i
      BY <2>3, <2>6
    <3>2. QED BY <2>2, <2>6, <3>1 DEF StreaksOf, Separate
  <2>7. QED BY <2>4, <2>5, <2>6 DEF StreaksAddUp, S, T
<1>2. QED BY <1>1, SessionInductive, PTL

-----------------------------------------------------------------------------
(* The grace.                                                                *)

\* The sum of f over the numbers in G below m.
Below(f, G, m) == SumFunctionOnSet(f, {k \in G : k < m})

LEMMA BelowNext ==
  ASSUME NEW n \in Nat, NEW G \in SUBSET (1 .. n), NEW f, \A x \in G : f[x] \in Int, NEW k \in 1 .. n
  PROVE  /\ Below(f, G, 1) = 0 /\ Below(f, G, k) \in Int
         /\ Below(f, G, k + 1) = IF k \in G THEN Below(f, G, k) + f[k] ELSE Below(f, G, k)
<1>1. IsFiniteSet(1 .. n)
  BY FS_Interval
<1>2. \A S \in SUBSET G : IsFiniteSet(S) /\ \A x \in S : f[x] \in Int
  BY <1>1, FS_Subset
<1>3. \A S \in SUBSET G : SumFunctionOnSet(f, S) \in Int /\ SumFunctionOnSet(f, {}) = 0
  BY <1>2, SumFacts
<1>0. \A x \in G : x \in Nat /\ x >= 1
  OBVIOUS
<1>4. {x \in G : x < 1} = {} /\ {x \in G : x < k} \in SUBSET G
  <2>1. \A x \in G : ~ (x < 1)
    BY <1>0
  <2>2. QED BY <2>1
<1>5. Below(f, G, 1) = 0 /\ Below(f, G, k) \in Int
  BY <1>3, <1>4 DEF Below
<1>6. CASE k \notin G
  <2>1. {x \in G : x < k + 1} = {x \in G : x < k}
    <3>1. \A x \in G : x < k + 1 <=> x < k
      BY <1>0, <1>6
    <3>2. QED BY <3>1
  <2>2. QED BY <1>5, <1>6, <2>1 DEF Below
<1>7. CASE k \in G
  <2> DEFINE S == {x \in G : x < k + 1}
  <2>1. S \in SUBSET G /\ k \in S /\ S \ {k} = {x \in G : x < k}
    <3>1. \A x \in G : x < k + 1 <=> x = k \/ x < k
      BY <1>0
    <3>2. ~ (k < k) /\ k < k + 1
      OBVIOUS
    <3>3. QED BY <1>7, <3>1, <3>2
  <2> HIDE DEF S
  <2>2. SumFunctionOnSet(f, S) = f[k] + SumFunctionOnSet(f, S \ {k})
    BY <1>2, <2>1, SumFacts
  <2>3. Below(f, G, k + 1) = f[k] + Below(f, G, k) /\ f[k] \in Int
    BY <1>7, <2>1, <2>2 DEF Below, S
  <2>4. QED BY <1>5, <1>7, <2>3
<1>8. QED BY <1>5, <1>6, <1>7

Least(a, b) == IF a <= b THEN a ELSE b
Left(K, a) == IF 0 <= K - a THEN K - a ELSE 0

\* What is shared out in order, each taking no more than it needs and than is left.
SharedOut(R, C, G, K) ==
  \A j \in G : R[j] \in Nat /\ Below(R, G, j) \in Int /\ C[j] = Least(R[j], Left(K, Below(R, G, j)))

LEMMA Shares ==
  ASSUME NEW n \in Nat, NEW G \in SUBSET (1 .. n), NEW K \in Nat, NEW R, NEW C, SharedOut(R, C, G, K)
  PROVE  /\ Below(R, G, n + 1) \in Nat
         /\ Below(C, G, n + 1) = Least(Below(R, G, n + 1), K)
         /\ \A j \in G : Below(R, G, j) + R[j] <= Below(R, G, n + 1)
<1>1. \A j \in G : R[j] \in Nat /\ C[j] \in Nat /\ Below(R, G, j) \in Int
  BY DEF SharedOut, Least, Left
<1>2. \A k \in 1 .. n : /\ Below(R, G, k + 1) = IF k \in G THEN Below(R, G, k) + R[k] ELSE Below(R, G, k)
                        /\ Below(C, G, k + 1) = IF k \in G THEN Below(C, G, k) + C[k] ELSE Below(C, G, k)
  BY <1>1, BelowNext
<1> DEFINE P(k) == /\ Below(R, G, k + 1) \in Nat
                   /\ Below(C, G, k + 1) = Least(Below(R, G, k + 1), K)
                   /\ \A j \in G : j < k + 1 => Below(R, G, j) + R[j] <= Below(R, G, k + 1)
           S == {k \in 0 .. n : P(k)}
<1>3. 0 \in S
  <2>1. {x \in G : x < 1} = {} /\ IsFiniteSet({})
    <3>1. \A x \in G : x \in Nat /\ x >= 1
      OBVIOUS
    <3>2. \A x \in G : ~ (x < 1)
      BY <3>1
    <3>3. QED BY <3>2, FS_EmptySet
  <2>2. SumFunctionOnSet(R, {}) = 0 /\ SumFunctionOnSet(C, {}) = 0
    <3>1. \A x \in {} : R[x] \in Int /\ C[x] \in Int
      OBVIOUS
    <3>2. QED BY <2>1, <3>1, SumFacts
  <2>3. Below(R, G, 0 + 1) = 0 /\ Below(C, G, 0 + 1) = 0
    BY <2>1, <2>2 DEF Below
  <2>4. \A j \in G : ~ (j < 0 + 1)
    OBVIOUS
  <2>5. QED BY <2>3, <2>4 DEF Least
<1>4. ASSUME NEW k \in 1 .. n, k - 1 \in S PROVE k \in S
  <2> DEFINE a == Below(R, G, k)  b == Below(C, G, k)
  <2>1. (k - 1) + 1 = k
    OBVIOUS
  <2>2. /\ a \in Nat /\ b = Least(a, K)
        /\ \A j \in G : j < k => Below(R, G, j) + R[j] <= a
    BY <1>4, <2>1
  <2>3. CASE k \notin G
    <3>1. Below(R, G, k + 1) = a /\ Below(C, G, k + 1) = b
      BY <1>2, <2>3
    <3>2. \A j \in G : j < k + 1 => j < k
      BY <2>3
    <3> HIDE DEF a, b
    <3>3. QED BY <2>2, <3>1, <3>2
  <2>4. CASE k \in G
    <3>1. Below(R, G, k + 1) = a + R[k] /\ Below(C, G, k + 1) = b + C[k]
      BY <1>2, <2>4
    <3>2. R[k] \in Nat /\ C[k] = Least(R[k], Left(K, a))
      BY <2>4 DEF SharedOut
    <3>3. \A j \in G : j < k + 1 => j = k \/ j < k
      OBVIOUS
    <3>4. \A j \in G : j < k + 1 => Below(R, G, j) + R[j] <= a + R[k]
      <4> SUFFICES ASSUME NEW j \in G, j < k + 1 PROVE Below(R, G, j) + R[j] <= a + R[k]
        OBVIOUS
      <4>1. CASE j = k
        BY <2>2, <3>2, <4>1
      <4>2. CASE j < k
        <5>1. Below(R, G, j) + R[j] <= a /\ Below(R, G, j) \in Int /\ R[j] \in Nat
          BY <1>1, <2>2, <4>2
        <5> HIDE DEF a
        <5>2. QED BY <2>2, <3>2, <5>1
      <4>3. QED BY <3>3, <4>1, <4>2
    <3> HIDE DEF a, b
    <3>5. b + C[k] = Least(a + R[k], K) /\ a + R[k] \in Nat
      BY <2>2, <3>2 DEF Least, Left
    <3>6. QED BY <3>1, <3>4, <3>5
  <2>5. QED BY <2>3, <2>4
<1>5. P(n)
  <2>1. \A k \in 0 .. n : k \in S
    <3> HIDE DEF S
    <3>1. QED BY <1>3, <1>4, UpTo
  <2>2. QED BY <2>1
<1>6. QED BY <1>5

\* The calls of a thread are in order.
LEMMA TimedSorted ==
  ASSUME SessionInv, NEW scopeEnd, NEW D, D = Timed(events, scopeEnd)
  PROVE  \A i, j \in DOMAIN D : i <= j => D[i].start <= D[j].start
<1> DEFINE C == Calls(events)
           K == {e \in ToSet(events) : e.kind = "tool"}
<1>1. events \in Seq(Event)
  BY DEF SessionInv, WorkInv, IInv, TypeOK
<1>2. C = Only(events, K)
  BY DEF Calls
<1> HIDE DEF C, K
<1>3. PICK at : C \in Seq(Event) /\ Selected(C, at, events, K, Len(events))
  BY <1>1, <1>2, OnlySelects
<1>4. DOMAIN D = 1 .. Len(C) /\ Len(C) \in Nat /\ \A i \in DOMAIN D : D[i].start = C[i].ts
  BY <1>3 DEF Timed, C
<1>5. \A i \in DOMAIN D : C[i] = events[at[i]] /\ at[i] \in DOMAIN events
  BY <1>1, <1>3, <1>4 DEF Selected
<1>6. \A i, j \in DOMAIN D : i <= j => at[i] <= at[j]
  <2>1. \A i, j \in DOMAIN D : i < j => at[i] < at[j]
    BY <1>3, <1>4 DEF Selected
  <2>2. \A i, j \in DOMAIN D : i <= j => i = j \/ i < j
    BY <1>4
  <2>3. \A i \in DOMAIN D : at[i] \in Int
    BY <1>1, <1>5
  <2>4. QED BY <2>1, <2>2, <2>3
<1>7. \A k, l \in DOMAIN events : k <= l => events[k].ts <= events[l].ts
  BY DEF SessionInv, WorkInv, EventsInv
<1>8. QED BY <1>4, <1>5, <1>6, <1>7

-----------------------------------------------------------------------------
(* Runs of calls that poll.                                                  *)

\* D[i] and D[j] are of one run.
Together(D, starts, i, j) ==
  \A k \in DOMAIN D : (i <= k /\ k < j) \/ (j <= k /\ k < i) => Linked(D, starts, k)
RunOf(D, starts, i) == {j \in DOMAIN D : Together(D, starts, i, j)}

LEMMA GroupIsRun ==
  ASSUME NEW D, Intervals(D), NEW starts, NEW i \in DOMAIN D, D[i].tool \in {"poll", "wait"},
         Cardinality(RunOf(D, starts, i)) >= PollRunMin
  PROVE  Group(D, starts, i) = RunOf(D, starts, i)
<1> DEFINE run == {j \in DOMAIN D : \A k \in Min({i, j}) .. Max({i, j}) - 1 : Linked(D, starts, k)}
<1>1. PICK n \in Nat : DOMAIN D = 1 .. n
  BY DEF Intervals
<1>2. ASSUME NEW j \in DOMAIN D
      PROVE  (\A k \in Min({i, j}) .. Max({i, j}) - 1 : Linked(D, starts, k)) <=> Together(D, starts, i, j)
  <2>1. i \in Int /\ j \in Int
    BY <1>1
  <2>2. /\ Max({i, j}) = IF i <= j THEN j ELSE i
        /\ Min({i, j}) = IF i <= j THEN i ELSE j
    BY <2>1, OfTwo
  <2>3. Max({i, j}) \in 1 .. n /\ Min({i, j}) \in 1 .. n
    BY <1>1, <2>2
  <2>4. \A k \in Min({i, j}) .. Max({i, j}) - 1 : k \in DOMAIN D /\ ((i <= k /\ k < j) \/ (j <= k /\ k < i))
    BY <1>1, <2>1, <2>2, <2>3
  <2>5. \A k \in DOMAIN D : (i <= k /\ k < j) \/ (j <= k /\ k < i) => k \in Min({i, j}) .. Max({i, j}) - 1
    BY <1>1, <2>1, <2>2, <2>3
  <2>6. QED BY <2>4, <2>5 DEF Together
<1>3. run = RunOf(D, starts, i)
  BY <1>2 DEF RunOf
<1>4. Group(D, starts, i) =
        IF D[i].tool \in {"poll", "wait"} /\ Cardinality(run) >= PollRunMin THEN run
        ELSE IF D[i].tool = "wait" THEN {i} ELSE {}
  BY DEF Group
<1> HIDE DEF run
<1>5. QED BY <1>3, <1>4

LEMMA SameRun ==
  ASSUME NEW D, Intervals(D), NEW starts, NEW i \in DOMAIN D, NEW j \in RunOf(D, starts, i)
  PROVE  RunOf(D, starts, j) = RunOf(D, starts, i)
<1>1. PICK n \in Nat : DOMAIN D = 1 .. n
  BY DEF Intervals
<1>2. j \in DOMAIN D /\ Together(D, starts, i, j)
  BY DEF RunOf
<1>3. ASSUME NEW m \in DOMAIN D
      PROVE  Together(D, starts, i, m) <=> Together(D, starts, j, m)
  <2>1. i \in Int /\ j \in Int /\ m \in Int /\ \A k \in DOMAIN D : k \in Int
    BY <1>1, <1>2
  <2>2. \A k \in DOMAIN D : (j <= k /\ k < m) \/ (m <= k /\ k < j) =>
          \/ (i <= k /\ k < m) \/ (m <= k /\ k < i)
          \/ (i <= k /\ k < j) \/ (j <= k /\ k < i)
    BY <2>1
  <2>3. \A k \in DOMAIN D : (i <= k /\ k < m) \/ (m <= k /\ k < i) =>
          \/ (j <= k /\ k < m) \/ (m <= k /\ k < j)
          \/ (i <= k /\ k < j) \/ (j <= k /\ k < i)
    BY <2>1
  <2>4. QED BY <1>2, <2>2, <2>3 DEF Together
<1>4. QED BY <1>3 DEF RunOf

\* Along linked calls the tool is the same, and no prompt was written in between.
LEMMA AlongRun ==
  ASSUME NEW D, Intervals(D), NEW starts \in SUBSET Int, NEW a \in DOMAIN D, NEW b \in DOMAIN D, a <= b,
         \A k \in a .. b - 1 : Linked(D, starts, k)
  PROVE  \A k \in a .. b : /\ D[k].tool = D[a].tool
                           /\ \A s \in starts : ~ (D[a].start < s /\ s <= D[k].start)
<1>1. PICK n \in Nat : DOMAIN D = 1 .. n
  BY DEF Intervals
<1>2. \A k \in DOMAIN D : D[k].start \in Int
  BY DEF Intervals
<1> DEFINE m == b - a
           Good(k) == /\ D[k].tool = D[a].tool
                      /\ \A s \in starts : ~ (D[a].start < s /\ s <= D[k].start)
           S == {k \in 0 .. m : Good(a + k)}
<1>3. m \in Nat /\ a \in Int /\ b \in Int
  BY <1>1
<1>4. 0 \in S
  <2>1. Good(a)
    BY <1>2
  <2>2. a + 0 = a /\ 0 \in 0 .. m
    BY <1>3
  <2> HIDE DEF Good, m
  <2>3. QED BY <2>1, <2>2
<1>5. ASSUME NEW k \in 1 .. m, k - 1 \in S PROVE k \in S
  <2> DEFINE p == a + (k - 1)
  <2>1. p \in a .. b - 1 /\ p + 1 = a + k /\ p \in DOMAIN D /\ p + 1 \in DOMAIN D
    BY <1>1, <1>3
  <2>2. Good(p) /\ Linked(D, starts, p)
    BY <1>5, <2>1
  <2> HIDE DEF p
  <2>3. D[p + 1].tool = D[a].tool
    BY <2>2 DEF Linked
  <2>4. ASSUME NEW s \in starts, D[a].start < s, s <= D[p + 1].start PROVE FALSE
    <3>1. s <= D[p].start \/ D[p + 1].start < s
      BY <2>2 DEF Linked
    <3>2. ~ (s <= D[p].start)
      BY <2>2, <2>4
    <3>3. D[p + 1].start \in Int /\ s \in Int
      BY <1>2, <2>1
    <3>4. QED BY <2>4, <3>1, <3>2, <3>3
  <2>5. Good(p + 1)
    BY <2>3, <2>4
  <2> HIDE DEF Good
  <2>6. QED BY <2>1, <2>5
<1>6. ASSUME NEW k \in a .. b PROVE Good(k)
  <2>1. \A x \in 0 .. m : x \in S
    <3> HIDE DEF S, m
    <3>1. QED BY <1>3, <1>4, <1>5, UpTo
  <2>2. k - a \in 0 .. m /\ a + (k - a) = k
    BY <1>3
  <2> HIDE DEF Good, m
  <2>3. QED BY <2>1, <2>2
<1>7. QED BY <1>6

\* PollRun finds the runs that the code's groups are made of.
LEMMA PollRunIsRun ==
  ASSUME SessionInv, WindowEnd \in Int, NEW T, Ordered(T),
         NEW D, D = Timed(events, WindowEnd), NEW all, all = Spans(events, WindowEnd, PromptsOf(T)),
         NEW i \in DOMAIN D, D[i].tool \in {"poll", "wait"}
  PROVE  PollRun(T, all, i) = RunOf(D, PromptsOf(T), i)
<1> DEFINE starts == PromptsOf(T)
           Quietly(j) == LET between == Min({i, j}) .. Max({i, j}) IN \A k \in between :
                           /\ all[k].tool = all[i].tool /\ all[k].tool \in {"poll", "wait"}
                           /\ ~ \E n \in DOMAIN T : all[Min({i, j})].start < T[n].start /\ T[n].start <= all[k].start
<1>1. events \in Seq(Event)
  BY DEF SessionInv, WorkInv, IInv, TypeOK
<1>2. Intervals(D)
  BY <1>1, TimedIntervals
<1>3. PICK n \in Nat : DOMAIN D = 1 .. n
  BY <1>2 DEF Intervals
<1>4. DOMAIN all = DOMAIN D /\ \A k \in DOMAIN D : all[k].tool = D[k].tool /\ all[k].start = D[k].start
  BY DEF Spans, Span
<1>5. starts \in SUBSET Int
  BY TurnFields DEF PromptsOf, Ordered
<1>6. \A k, l \in DOMAIN D : k <= l => D[k].start <= D[l].start
  BY TimedSorted
<1>7. \A k \in DOMAIN D : D[k].start \in Int
  BY <1>2 DEF Intervals
<1>8. ASSUME NEW j \in DOMAIN D
      PROVE  Quietly(j) <=> Together(D, starts, i, j)
  <2> DEFINE lo == Min({i, j})  hi == Max({i, j})
  <2>1. i \in Int /\ j \in Int
    BY <1>3
  <2>2. lo = (IF i <= j THEN i ELSE j) /\ hi = IF i <= j THEN j ELSE i
    BY <2>1, OfTwo
  <2>3. /\ lo \in DOMAIN D /\ hi \in DOMAIN D /\ lo <= hi /\ i \in lo .. hi /\ j \in lo .. hi
        /\ \A k \in lo .. hi : k \in DOMAIN D
    <3>1. lo \in DOMAIN D /\ hi \in DOMAIN D
      BY <2>2
    <3>2. lo \in Int /\ hi \in Int /\ lo <= hi /\ lo <= i /\ i <= hi /\ lo <= j /\ j <= hi
      BY <2>1, <2>2
    <3> HIDE DEF lo, hi
    <3>3. QED BY <1>3, <2>1, <3>1, <3>2
  <2>4. Together(D, starts, i, j) <=> \A k \in lo .. hi - 1 : Linked(D, starts, k)
    <3>1. \A k \in lo .. hi - 1 : k \in DOMAIN D /\ ((i <= k /\ k < j) \/ (j <= k /\ k < i))
      BY <1>3, <2>1, <2>2, <2>3
    <3>2. \A k \in DOMAIN D : (i <= k /\ k < j) \/ (j <= k /\ k < i) => k \in lo .. hi - 1
      BY <1>3, <2>1, <2>2, <2>3
    <3> HIDE DEF lo, hi
    <3>3. QED BY <3>1, <3>2 DEF Together
  <2>5. Quietly(j) <=> \A k \in lo .. hi : /\ D[k].tool = D[i].tool /\ D[k].tool \in {"poll", "wait"}
                                          /\ \A s \in starts : ~ (D[lo].start < s /\ s <= D[k].start)
    <3>1. Quietly(j) <=> \A k \in lo .. hi :
                           /\ all[k].tool = all[i].tool /\ all[k].tool \in {"poll", "wait"}
                           /\ ~ \E m \in DOMAIN T : all[lo].start < T[m].start /\ T[m].start <= all[k].start
      OBVIOUS
    <3> HIDE DEF lo, hi, Quietly
    <3>2. \A x, y : (~ \E m \in DOMAIN T : x < T[m].start /\ T[m].start <= y) <=>
                     (\A s \in starts : ~ (x < s /\ s <= y))
      BY DEF PromptsOf
    <3> HIDE DEF starts
    <3>3. QED BY <1>4, <2>3, <3>1, <3>2
  <2> HIDE DEF lo, hi, starts, Quietly
  <2>6. ASSUME Quietly(j) PROVE Together(D, starts, i, j)
    <3>1. ASSUME NEW k \in lo .. hi - 1 PROVE Linked(D, starts, k)
      <4>1. k \in lo .. hi /\ k + 1 \in lo .. hi /\ k \in DOMAIN D /\ k + 1 \in DOMAIN D /\ lo <= k
        BY <1>3, <2>3
      <4>2. D[k].tool \in {"poll", "wait"} /\ D[k + 1].tool = D[k].tool
        BY <2>5, <2>6, <4>1
      <4>3. ASSUME NEW s \in starts PROVE s <= D[k].start \/ D[k + 1].start < s
        <5>1. D[lo].start <= D[k].start
          BY <1>6, <2>3, <4>1
        <5>2. ~ (D[lo].start < s /\ s <= D[k + 1].start)
          BY <2>5, <2>6, <4>1
        <5>3. s \in Int /\ D[lo].start \in Int /\ D[k].start \in Int /\ D[k + 1].start \in Int
          BY <1>5, <1>7, <2>3, <4>1
        <5>4. QED BY <5>1, <5>2, <5>3
      <4>4. QED BY <4>2, <4>3 DEF Linked
    <3>2. QED BY <2>4, <3>1
  <2>7. ASSUME Together(D, starts, i, j) PROVE Quietly(j)
    <3>1. \A k \in lo .. hi : /\ D[k].tool = D[lo].tool
                             /\ \A s \in starts : ~ (D[lo].start < s /\ s <= D[k].start)
      BY <1>2, <1>5, <2>3, <2>4, <2>7, AlongRun
    <3>2. D[i].tool = D[lo].tool
      BY <2>3, <3>1
    <3>3. QED BY <2>5, <3>1, <3>2
  <2>8. QED BY <2>6, <2>7
<1>9. PollRun(T, all, i) = {j \in DOMAIN all : Quietly(j)}
  BY DEF PollRun
<1> HIDE DEF Quietly, starts
<1>10. QED BY <1>4, <1>8, <1>9 DEF RunOf, starts

-----------------------------------------------------------------------------
(* What a call is credited.                                                  *)

LEMMA ToolLength ==
  ASSUME NEW D, Intervals(D), NEW starts, NEW i \in DOMAIN D
  PROVE  TotalLength({p \in Span(D, starts, i).pieces : p[3] = "tool"}) = CreditedFor(D, starts, i)
<1> DEFINE ran == Ran(D, i)
           c == CreditedFor(D, starts, i)
           rest == Rest(D, Group(D, starts, i), i)
           P == {p \in Span(D, starts, i).pieces : p[3] = "tool"}
           tool == <<ran, ran + c, "tool">>
<1>1. ran \in Int /\ c \in Nat
  BY SpanCuts
<1>2. Span(D, starts, i).pieces =
        {p \in {<<D[i].start, ran, "permission_wait">>, <<ran, ran + c, "tool">>,
                <<ran + c, D[i].end, rest>>} : p[1] < p[2]}
  BY DEF Span, Ran, CreditedFor
<1>3. rest # "tool"
  BY DEF Rest
<1> HIDE DEF ran, c, rest
<1>4. P = {p \in {tool} : ran < ran + c}
  BY <1>2, <1>3
<1> DEFINE f == [p \in P |-> Length(p)]
<1>5. TotalLength(P) = SumFunctionOnSet(f, P)
  BY DEF TotalLength, SumFunction
<1>6. IsFiniteSet({}) /\ IsFiniteSet({tool})
  BY FS_EmptySet, FS_Singleton
<1>7. CASE c = 0
  <2>1. P = {}
    BY <1>1, <1>4, <1>7
  <2> HIDE DEF P, f
  <2>2. \A x \in {} : f[x] \in Int
    OBVIOUS
  <2>3. SumFunctionOnSet(f, {}) = 0
    BY <1>6, <2>2, SumFacts
  <2>4. QED BY <1>5, <1>7, <2>1, <2>3 DEF P, c
<1>8. CASE c # 0
  <2>1. P = {tool}
    BY <1>1, <1>4, <1>8
  <2>2. f[tool] = c /\ c \in Int
    <3>1. tool \in P
      BY <2>1
    <3>2. f[tool] = Length(tool)
      BY <3>1
    <3>3. Length(tool) = (ran + c) - ran
      BY DEF Length
    <3> HIDE DEF f, tool, P
    <3>4. QED BY <1>1, <3>2, <3>3
  <2> HIDE DEF P, f, tool
  <2>3. \A x \in {tool} : f[x] \in Int
    BY <2>2
  <2>4. /\ SumFunctionOnSet(f, {tool}) = f[tool] + SumFunctionOnSet(f, {tool} \ {tool})
        /\ SumFunctionOnSet(f, {}) = 0
    BY <1>6, <2>3, SumFacts
  <2>5. {tool} \ {tool} = {}
    OBVIOUS
  <2>6. SumFunctionOnSet(f, P) = c
    BY <2>1, <2>2, <2>4, <2>5
  <2>7. QED BY <1>5, <2>6 DEF P, c
<1>9. QED BY <1>7, <1>8

\* A call's span has idle polling only where its runtime goes beyond its credit.
LEMMA PollingBeyond ==
  ASSUME NEW D, Intervals(D), NEW starts, NEW i \in DOMAIN D,
         \E p \in Span(D, starts, i).pieces : p[3] = "polling"
  PROVE  Group(D, starts, i) # {} /\ CreditedFor(D, starts, i) < Runtime(D, i)
<1> DEFINE ran == Ran(D, i)
           c == CreditedFor(D, starts, i)
           rest == Rest(D, Group(D, starts, i), i)
<1>1. ran \in Int /\ c \in Nat /\ D[i].start \in Int /\ D[i].end \in Int
  BY SpanCuts
<1>2. Span(D, starts, i).pieces =
        {p \in {<<D[i].start, ran, "permission_wait">>, <<ran, ran + c, "tool">>,
                <<ran + c, D[i].end, rest>>} : p[1] < p[2]}
  BY DEF Span, Ran, CreditedFor
<1> HIDE DEF ran, c, rest
<1>3. rest = "polling" /\ ran + c < D[i].end
  BY <1>2
<1>4. Group(D, starts, i) # {}
  BY <1>3 DEF Rest, rest
<1>5. Runtime(D, i) \in Nat /\ ran + Runtime(D, i) = D[i].end
  <2>1. /\ Runtime(D, i) \in Nat /\ PermissionWait(D, i) \in Nat
        /\ PermissionWait(D, i) + Runtime(D, i) = D[i].end - D[i].start
    BY RuntimeWithin, WaitWithin DEF Interval
  <2>2. QED BY <1>1, <2>1 DEF Ran, ran
<1>6. QED BY <1>1, <1>3, <1>4, <1>5 DEF c

LEMMA BelowRuns ==
  ASSUME NEW D, Intervals(D), NEW G \in SUBSET DOMAIN D, NEW i \in DOMAIN D,
         NEW R, \A j \in DOMAIN D : R[j] = Runtime(D, j)
  PROVE  Before(D, G, i) = Below(R, G, i)
<1> DEFINE S == {k \in G : k < i}
           f == [j \in S |-> Runtime(D, j)]
<1>1. IsFiniteSet(DOMAIN D)
  BY FS_Interval DEF Intervals
<1>2. S \in SUBSET DOMAIN D
  OBVIOUS
<1>3. IsFiniteSet(S)
  BY <1>1, <1>2, FS_Subset
<1>4. \A j \in S : f[j] = R[j] /\ f[j] \in Int
  BY <1>2, RuntimeWithin
<1>5. Before(D, G, i) = SumFunctionOnSet(f, S)
  BY DEF Before, SumFunction
<1>6. Below(R, G, i) = SumFunctionOnSet(R, S)
  BY DEF Below
<1> HIDE DEF f, S
<1>7. Agree(f, R, S)
  BY <1>4 DEF Agree
<1>8. QED BY <1>3, <1>5, <1>6, <1>7, SumAgrees

\* The calls of a group share out the grace.
LEMMA GroupShares ==
  ASSUME NEW D, Intervals(D), NEW starts, NEW G \in SUBSET DOMAIN D,
         \A j \in G : Group(D, starts, j) = G /\ D[j].tool # "task",
         NEW R, \A j \in DOMAIN D : R[j] = Runtime(D, j),
         NEW C, \A j \in G : C[j] = CreditedFor(D, starts, j)
  PROVE  SharedOut(R, C, G, KGrace)
<1> SUFFICES ASSUME NEW j \in G
             PROVE  R[j] \in Nat /\ Below(R, G, j) \in Int /\ C[j] = Least(R[j], Left(KGrace, Below(R, G, j)))
  BY DEF SharedOut
<1> DEFINE a == Below(R, G, j)  l == Limit(D, G, j)
<1>1. j \in DOMAIN D /\ R[j] = Runtime(D, j) /\ R[j] \in Nat
  BY RuntimeWithin
<1>2. a = Before(D, G, j) /\ a \in Int
  BY <1>1, BelowRuns, BeforeIsInt
<1>3. l = Max({0, KGrace - Before(D, G, j)})
  BY DEF Limit, Before
<1> HIDE DEF a, l
<1>4. KGrace \in Nat
  BY TimeAccountingAssumption
<1>5. l = Left(KGrace, a)
  <2> DEFINE r == KGrace - a
  <2>1. r \in Int /\ 0 \in Int
    BY <1>2, <1>4
  <2>2. l = Max({0, r})
    BY <1>2, <1>3
  <2> HIDE DEF r
  <2>3. l = IF 0 <= r THEN r ELSE 0
    BY <2>1, <2>2, OfTwo
  <2>4. QED BY <2>3 DEF r, Left
<1>6. C[j] = IF Runtime(D, j) <= l THEN Runtime(D, j) ELSE l
  <2>1. Group(D, starts, j) = G
    OBVIOUS
  <2>2. C[j] = IF Runtime(D, j) <= Limit(D, Group(D, starts, j), j) THEN Runtime(D, j)
               ELSE Limit(D, Group(D, starts, j), j)
    BY <1>1, SpanCuts
  <2>3. QED BY <2>1, <2>2 DEF l
<1>7. QED BY <1>1, <1>2, <1>5, <1>6 DEF a, Least

LEMMA GraceInRun ==
  ASSUME NEW D, Intervals(D), NEW starts, NEW i \in DOMAIN D, D[i].tool \in {"poll", "wait"},
         NEW G, G = RunOf(D, starts, i), Cardinality(G) >= PollRunMin,
         \A j \in G : D[j].tool = D[i].tool,
         NEW C, \A j \in G : C[j] = CreditedFor(D, starts, j)
  PROVE  /\ SumFunctionOnSet(C, G) <= KGrace
         /\ CreditedFor(D, starts, i) < Runtime(D, i) => SumFunctionOnSet(C, G) = KGrace
<1> DEFINE R == [j \in DOMAIN D |-> Runtime(D, j)]
<1>1. PICK n \in Nat : DOMAIN D = 1 .. n
  BY DEF Intervals
<1>2. KGrace \in Nat
  BY TimeAccountingAssumption
<1>3. G \in SUBSET (1 .. n) /\ i \in G
  <2>1. Together(D, starts, i, i)
    BY <1>1 DEF Together
  <2>2. QED BY <1>1, <2>1 DEF RunOf
<1>4. \A j \in G : Group(D, starts, j) = G /\ D[j].tool # "task"
  <2> SUFFICES ASSUME NEW j \in G PROVE Group(D, starts, j) = G /\ D[j].tool # "task"
    OBVIOUS
  <2>1. j \in DOMAIN D /\ D[j].tool \in {"poll", "wait"}
    BY <1>1, <1>3
  <2>2. RunOf(D, starts, j) = G
    BY SameRun
  <2>3. Group(D, starts, j) = RunOf(D, starts, j)
    BY <2>1, <2>2, GroupIsRun
  <2>4. QED BY <2>1, <2>2, <2>3
<1>5. \A j \in DOMAIN D : R[j] = Runtime(D, j)
  OBVIOUS
<1> HIDE DEF R
<1>6. SharedOut(R, C, G, KGrace)
  BY <1>1, <1>3, <1>4, <1>5, GroupShares
<1>7. /\ Below(R, G, n + 1) \in Nat
      /\ Below(C, G, n + 1) = Least(Below(R, G, n + 1), KGrace)
      /\ Below(R, G, i) + R[i] <= Below(R, G, n + 1)
  BY <1>2, <1>3, <1>6, Shares
<1>8. Below(C, G, n + 1) = SumFunctionOnSet(C, G)
  <2>1. \A x \in G : x < n + 1
    <3>1. \A x \in G : x \in Nat /\ x <= n
      BY <1>3
    <3>2. QED BY <3>1
  <2>2. {x \in G : x < n + 1} = G
    BY <2>1
  <2>3. QED BY <2>2 DEF Below
<1>9. R[i] \in Nat /\ Below(R, G, i) \in Int /\ C[i] = Least(R[i], Left(KGrace, Below(R, G, i)))
  BY <1>3, <1>6 DEF SharedOut
<1>10. C[i] = CreditedFor(D, starts, i) /\ R[i] = Runtime(D, i)
  BY <1>3, <1>5
<1>11. ASSUME C[i] < R[i] PROVE Below(C, G, n + 1) = KGrace
  BY <1>2, <1>7, <1>9, <1>11 DEF Least, Left
<1>12. Below(C, G, n + 1) <= KGrace
  BY <1>2, <1>7 DEF Least
<1>13. QED BY <1>8, <1>10, <1>11, <1>12

LEMMA BothBetween ==
  ASSUME NEW n \in Nat, NEW i \in 1 .. n, NEW j \in 1 .. n
  PROVE  i \in Min({i, j}) .. Max({i, j}) /\ j \in Min({i, j}) .. Max({i, j})
<1>1. i \in Int /\ j \in Int
  OBVIOUS
<1>2. /\ Max({i, j}) = IF i <= j THEN j ELSE i
      /\ Min({i, j}) = IF i <= j THEN i ELSE j
  BY <1>1, OfTwo
<1>3. QED BY <1>1, <1>2

\* However calls follow each other, those of a run that polls are credited the grace
\* once between them, and wholly before one of them is idle.
THEOREM GraceOnce == SessionSpec => []GraceShared
<1>1. SessionInv => GraceShared
  <2> SUFFICES ASSUME SessionInv, Stamps # {}
               PROVE  GraceSharedIn(MainTurns, Spans(events, WindowEnd, PromptsOf(MainTurns)))
    BY DEF GraceShared
  <2> DEFINE T == MainTurns
             starts == PromptsOf(T)
             D == Timed(events, WindowEnd)
             all == Spans(events, WindowEnd, starts)
             credit(i) ==
               SumFunction([j \in PollRun(T, all, i) |-> TotalLength({p \in all[j].pieces : p[3] = "tool"})])
  <2>1. WindowEnd \in Int /\ events \in Seq(Event) /\ Ordered(T)
    BY WindowBounds, MainTurnsOrdered, TurnsAssumption DEF Time, SessionInv, WorkInv, IInv, TypeOK
  <2>2. Intervals(D)
    BY <2>1, TimedIntervals
  <2>3. DOMAIN all = DOMAIN D /\ \A k \in DOMAIN D : all[k] = Span(D, starts, k)
    BY DEF Spans
  <2>4. \A k \in DOMAIN D : Span(D, starts, k).tool = D[k].tool
    BY DEF Span
  <2>5. \A i \in DOMAIN D : D[i].tool \in {"poll", "wait"} => PollRun(T, all, i) = RunOf(D, starts, i)
    BY <2>1, PollRunIsRun
  <2>6. KGrace \in Nat
    BY TimeAccountingAssumption
  <2> HIDE DEF T, D
  <2>7. ASSUME NEW i \in DOMAIN all, Cardinality(PollRun(T, all, i)) >= PollRunMin
        PROVE  /\ credit(i) <= KGrace
               /\ (\E p \in all[i].pieces : p[3] = "polling") => credit(i) = KGrace
    <3> DEFINE G == PollRun(T, all, i)
               C == [j \in G |-> TotalLength({p \in all[j].pieces : p[3] = "tool"})]
    <3>1. credit(i) = SumFunctionOnSet(C, G)
      BY DEF SumFunction
    <3>2. i \in DOMAIN D
      BY <2>3
    <3>3. CASE D[i].tool \in {"poll", "wait"}
      <4>1. G = RunOf(D, starts, i) /\ G \subseteq DOMAIN D
        BY <2>5, <3>2, <3>3 DEF RunOf
      <4>2. \A j \in G : C[j] = CreditedFor(D, starts, j)
        BY <2>2, <2>3, <4>1, ToolLength
      <4>3. \A j \in G : D[j].tool = D[i].tool
        <5>1. PICK n \in Nat : DOMAIN D = 1 .. n
          BY <2>2 DEF Intervals
        <5>2. \A j \in DOMAIN D : j \in Min({i, j}) .. Max({i, j})
          BY <3>2, <5>1, BothBetween
        <5>3. \A j \in G : all[j].tool = all[i].tool
          <6> HIDE DEF all
          <6>1. QED BY <4>1, <5>2 DEF PollRun
        <5>4. QED BY <2>3, <2>4, <3>2, <4>1, <5>3
      <4>4. (\E p \in all[i].pieces : p[3] = "polling") => CreditedFor(D, starts, i) < Runtime(D, i)
        BY <2>2, <2>3, <3>2, PollingBeyond
      <4> HIDE DEF G, C, starts, all
      <4>5. /\ SumFunctionOnSet(C, G) <= KGrace
            /\ CreditedFor(D, starts, i) < Runtime(D, i) => SumFunctionOnSet(C, G) = KGrace
        BY <2>2, <2>7, <3>2, <3>3, <4>1, <4>2, <4>3, GraceInRun DEF G
      <4>6. QED BY <3>1, <4>4, <4>5
    <3>4. CASE D[i].tool \notin {"poll", "wait"}
      <4>1. G = {}
        <5>1. PICK n \in Nat : DOMAIN D = 1 .. n
          BY <2>2 DEF Intervals
        <5>2. \A j \in DOMAIN D : i \in Min({i, j}) .. Max({i, j})
          BY <3>2, <5>1, BothBetween
        <5>3. all[i].tool \notin {"poll", "wait"}
          BY <2>3, <2>4, <3>2, <3>4
        <5>4. QED BY <2>3, <5>2, <5>3 DEF PollRun
      <4>2. ~ \E p \in all[i].pieces : p[3] = "polling"
        <5>1. Group(D, starts, i) = {}
          BY <3>4 DEF Group
        <5>2. QED BY <2>2, <2>3, <3>2, <5>1, PollingBeyond
      <4> HIDE DEF G, C, starts, all
      <4>3. SumFunctionOnSet(C, {}) = 0
        <5>1. IsFiniteSet({}) /\ \A x \in {} : C[x] \in Int
          BY FS_EmptySet
        <5>2. QED BY <5>1, SumFacts
      <4>4. QED BY <2>6, <3>1, <4>1, <4>2, <4>3
    <3>5. QED BY <3>3, <3>4
  <2>8. QED BY <2>7 DEF GraceSharedIn, T
<1>2. QED BY <1>1, SessionInductive, PTL

-----------------------------------------------------------------------------
(* Loops over a set, from the earliest element on.                           *)

Dated(S) == \A p \in S : p[1] \in Int /\ p[2] \in Int

\* A finite set of dated elements has a latest.
LEMMA LatestIsLast ==
  ASSUME NEW S, IsFiniteSet(S), S # {}, Dated(S)
  PROVE  Latest(S) \in S /\ \A q \in S : ~ Earlier(Latest(S), q)
<1> DEFINE first == [p \in S |-> p[1]]
           F == {first[p] : p \in S}
<1>1. F \in SUBSET Int /\ IsFiniteSet(F) /\ F # {}
  <2>1. \A p \in S : first[p] \in Int
    BY DEF Dated
  <2> HIDE DEF first
  <2>2. F \in SUBSET Int /\ F # {}
    BY <2>1
  <2>3. QED BY <2>2, ImageFinite
<1>2. Max(F) \in F /\ \A x \in F : x <= Max(F)
  BY <1>1, MaxIsGreatest
<1> DEFINE m == Max(F)
           L == {p \in S : p[1] = m}
           second == [p \in L |-> p[2]]
           G == {second[p] : p \in L}
<1>3. m \in Int /\ L # {} /\ \A p \in S : p[1] <= m
  BY <1>1, <1>2
<1> HIDE DEF m
<1>4. G \in SUBSET Int /\ IsFiniteSet(G) /\ G # {}
  <2>1. \A p \in L : second[p] \in Int
    BY DEF Dated
  <2>2. IsFiniteSet(L)
    BY FS_Subset
  <2> HIDE DEF second, L
  <2>3. G \in SUBSET Int /\ G # {}
    BY <1>3, <2>1
  <2>4. QED BY <2>2, <2>3, ImageFinite
<1>5. Max(G) \in G /\ \A x \in G : x <= Max(G)
  BY <1>4, MaxIsGreatest
<1>6. PICK p \in L : p[2] = Max(G)
  BY <1>5
<1>7. \A q \in L : q[2] <= p[2]
  BY <1>5, <1>6
<1>8. p \in S /\ \A q \in S : ~ Earlier(p, q)
  <2>1. ASSUME NEW q \in S, Earlier(p, q) PROVE FALSE
    <3>1. p[1] = m /\ q[1] <= m /\ q[1] \in Int /\ q[2] \in Int /\ p[2] \in Int
      BY <1>3, <1>6 DEF Dated
    <3>2. q[1] = m /\ p[2] < q[2]
      BY <1>3, <2>1, <3>1 DEF Earlier
    <3>3. q[2] <= p[2]
      BY <1>7, <3>2
    <3>4. QED BY <3>1, <3>2, <3>3
  <2>2. QED BY <1>6, <2>1
<1>9. QED BY <1>8 DEF Latest

\* Earlier is a strict order.
LEMMA EarlierOrders ==
  ASSUME NEW S, Dated(S), NEW p \in S, NEW q \in S, NEW r \in S
  PROVE  /\ ~ Earlier(p, p)
         /\ Earlier(p, q) /\ Earlier(q, r) => Earlier(p, r)
BY DEF Earlier, Dated

\* s are the first elements of S.
Begins(s, S) == s \in SUBSET S /\ \A p \in s : \A q \in S : Earlier(q, p) => q \in s

\* A loop keeps what its first rounds keep. K is a set of beginnings of S.
LEMMA InOrderKeeps ==
  ASSUME NEW S, IsFiniteSet(S), Dated(S), NEW K, {} \in K,
         \A s \in SUBSET S : s # {} /\ Begins(s, S) /\ Begins(s \ {Latest(s)}, S) /\ s \ {Latest(s)} \in K => s \in K
  PROVE  S \in K
<1> DEFINE pick == [s \in SUBSET S |-> Latest(s)]
           g == [s \in SUBSET S |-> s]
           A == {s \in SUBSET S : Begins(s, S) => s \in K}
<1>1. ASSUME NEW s \in SUBSET S, s # {}
      PROVE  Latest(s) \in s /\ \A q \in s : ~ Earlier(Latest(s), q)
  <2>1. IsFiniteSet(s) /\ Dated(s)
    BY FS_Subset DEF Dated
  <2>2. QED BY <1>1, <2>1, LatestIsLast
<1>2. ASSUME NEW s \in SUBSET S, s # {}, Begins(s, S)
      PROVE  Begins(s \ {Latest(s)}, S)
  BY <1>1, <1>2 DEF Begins
<1>3. g[{}] \in A
  OBVIOUS
<1>4. \A s \in SUBSET S : s # {} => pick[s] \in s
  BY <1>1
<1>5. ASSUME NEW s \in SUBSET S, s # {}, g[s \ {pick[s]}] \in A PROVE g[s] \in A
  <2>1. s \ {Latest(s)} \in A
    BY <1>5
  <2>2. QED BY <1>2, <1>5, <2>1
<1>6. \A s \in SUBSET S : g[s] \in A
  <2> HIDE DEF pick, g, A
  <2>1. QED BY <1>3, <1>4, <1>5, RecursionKeeps
<1>7. Begins(S, S)
  BY DEF Begins
<1>8. QED BY <1>6, <1>7

-----------------------------------------------------------------------------
(* The sweep over the ends of the agents' intervals.                         *)

Started(a, i) == <<i[1], 1, a>>
Ended(a, i) == <<i[2], -1, a>>

\* The agents' intervals, each agent's apart.
Agenda(W) ==
  /\ IsFiniteSet(W)
  /\ \A a \in W : \A i \in a.intervals : i[1] \in Time /\ i[2] \in Time /\ i[1] < i[2]
  /\ \A a \in W : \A i, j \in a.intervals : i = j \/ i[2] <= j[1] \/ j[2] <= i[1]

\* The points are the beginnings and the ends of the intervals.
LEMMA PointsAre ==
  ASSUME NEW W
  PROVE  /\ \A a \in W : \A i \in a.intervals : Started(a, i) \in Points(W) /\ Ended(a, i) \in Points(W)
         /\ \A p \in Points(W) : \E a \in W : \E i \in a.intervals : p = Started(a, i) \/ p = Ended(a, i)
BY DEF Points, Started, Ended

\* The points are finitely many, and lie in Time.
LEMMA PointsDated ==
  ASSUME NEW W, Agenda(W)
  PROVE  /\ IsFiniteSet(Points(W)) /\ Dated(Points(W))
         /\ \A p \in Points(W) : p[1] \in Time /\ p[1] \in Int
<1>1. Time \subseteq Int /\ IsFiniteSet(Time)
  BY FS_Interval, TurnsAssumption DEF Time
<1>2. \A p \in Points(W) : /\ p[1] \in Time /\ p[2] \in {1, -1}
                           /\ p \in Time \X {1, -1} \X W
  <2> SUFFICES ASSUME NEW p \in Points(W)
               PROVE  p[1] \in Time /\ p[2] \in {1, -1} /\ p \in Time \X {1, -1} \X W
    OBVIOUS
  <2>1. PICK a \in W : \E i \in a.intervals : p = Started(a, i) \/ p = Ended(a, i)
    BY PointsAre
  <2>2. PICK i \in a.intervals : p = Started(a, i) \/ p = Ended(a, i)
    BY <2>1
  <2>3. i[1] \in Time /\ i[2] \in Time
    BY DEF Agenda
  <2>4. QED BY <2>2, <2>3 DEF Started, Ended
<1>3. IsFiniteSet(Points(W))
  <2> DEFINE D == Time \X ({1, -1} \X W)
             T == Time \X {1, -1} \X W
             f == [d \in D |-> <<d[1], d[2][1], d[2][2]>>]
  <2>1. IsFiniteSet({1, -1})
    <3>1. {1, -1} = {1} \cup {-1}
      OBVIOUS
    <3>2. IsFiniteSet({1}) /\ IsFiniteSet({-1})
      BY FS_Singleton
    <3>3. QED BY <3>1, <3>2, FS_Union
  <2>2. IsFiniteSet({1, -1} \X W)
    BY <2>1, FS_Product DEF Agenda
  <2>3. IsFiniteSet(D)
    BY <1>1, <2>2, FS_Product
  <2>4. \A t \in T : f[<<t[1], <<t[2], t[3]>>>>] = t /\ <<t[1], <<t[2], t[3]>>>> \in D
    OBVIOUS
  <2>5. \A d \in D : f[d] \in T
    OBVIOUS
  <2>6. f \in [D -> T] /\ \A t \in T : \E d \in D : f[d] = t
    BY <2>4, <2>5
  <2> HIDE DEF D, f
  <2>7. IsFiniteSet(T)
    BY <2>3, <2>6, FS_Surjection DEF Surjection
  <2>8. Points(W) \subseteq T
    BY <1>2
  <2>9. QED BY <2>7, <2>8, FS_Subset
<1>4. Dated(Points(W))
  <2>1. \A x \in {1, -1} : x \in Int
    OBVIOUS
  <2>2. \A p \in Points(W) : p[1] \in Int /\ p[2] \in Int
    BY <1>1, <1>2, <2>1
  <2>3. QED BY <2>2 DEF Dated
<1>5. QED BY <1>1, <1>2, <1>3, <1>4

\* The agents whose interval has begun and has not ended after the points in s.
Ongoing(W, s) == {a \in W : \E i \in a.intervals : Started(a, i) \in s /\ Ended(a, i) \notin s}
\* The agents that work at the instant x.
AtWork(W, x) == {a \in W : \E i \in a.intervals : i[1] <= x /\ x < i[2]}

\* l is the point after those of t.
NextPoint(W, t, l) ==
  /\ t \in SUBSET Points(W) /\ l \in Points(W) /\ l \notin t
  /\ \A p \in t : ~ Earlier(l, p)
  /\ \A p \in t \cup {l} : \A q \in Points(W) : Earlier(q, p) => q \in t \cup {l}

\* From the last point of t to the next nobody starts or ends.
LEMMA BetweenPoints ==
  ASSUME NEW W, Agenda(W), NEW t, NEW l, NextPoint(W, t, l),
         NEW at \in Int, \A p \in t : p[1] <= at, NEW x \in Int, at <= x, x < l[1]
  PROVE  AtWork(W, x) = Ongoing(W, t)
<1> \A p \in Points(W) : p[1] \in Int
  BY PointsDated
<1>1. ASSUME NEW a \in W, NEW i \in a.intervals
      PROVE  i[1] <= x /\ x < i[2] <=> Started(a, i) \in t /\ Ended(a, i) \notin t
  <2>1. /\ Started(a, i) \in Points(W) /\ Started(a, i)[1] = i[1] /\ i[1] \in Int
        /\ Ended(a, i) \in Points(W) /\ Ended(a, i)[1] = i[2] /\ i[2] \in Int /\ i[1] < i[2]
    BY PointsAre, TurnsAssumption DEF Started, Ended, Agenda, Time
  <2>2. \A p \in Points(W) : p[1] <= x <=> p \in t
    <3>1. ASSUME NEW p \in Points(W), p[1] <= x PROVE p \in t
      <4>1. Earlier(p, l) /\ p # l
        BY <3>1 DEF Earlier, NextPoint
      <4>2. QED BY <4>1 DEF NextPoint
    <3>2. QED BY <3>1 DEF NextPoint
  <2>3. QED BY <2>1, <2>2
<1>2. QED BY <1>1 DEF AtWork, Ongoing

\* At the beginning of an interval its agent joins those that work.
LEMMA AgentStarts ==
  ASSUME NEW W, Agenda(W), NEW t, NEW a \in W, NEW i \in a.intervals, NextPoint(W, t, Started(a, i))
  PROVE  /\ a \notin Ongoing(W, t)
         /\ Ongoing(W, t \cup {Started(a, i)}) = Ongoing(W, t) \cup {a}
         /\ Ongoing(W, t \cup {Started(a, i)}) \subseteq AtWork(W, i[1])
<1> DEFINE l == Started(a, i)
           s == t \cup {l}
<1>1. ASSUME NEW b \in W, NEW j \in b.intervals
      PROVE  /\ Started(b, j) \in Points(W) /\ Ended(b, j) \in Points(W) /\ j[1] \in Int /\ j[2] \in Int /\ j[1] < j[2]
             /\ Ended(b, j) # l
             /\ Started(b, j) = l => b = a /\ j[1] = i[1]
             /\ j[2] <= i[1] => Ended(b, j) \in t
             /\ Started(b, j) \in t => j[1] <= i[1]
  <2>1. Started(b, j) \in Points(W) /\ Ended(b, j) \in Points(W)
    BY PointsAre
  <2>2. j[1] \in Int /\ j[2] \in Int /\ j[1] < j[2] /\ i[1] \in Int
    BY TurnsAssumption DEF Agenda, Time
  <2>3. Ended(b, j) # l /\ (Started(b, j) = l => b = a /\ j[1] = i[1])
    BY DEF Started, Ended
  <2>4. j[2] <= i[1] => Earlier(Ended(b, j), l)
    BY <2>2 DEF Earlier, Started, Ended
  <2>5. j[2] <= i[1] => Ended(b, j) \in t
    BY <2>1, <2>3, <2>4 DEF NextPoint
  <2>6. Started(b, j) \in t => ~ (i[1] < j[1])
    BY <2>2 DEF NextPoint, Earlier, Started
  <2>7. QED BY <2>1, <2>2, <2>3, <2>5, <2>6
<1>2. i[1] \in Int /\ i[2] \in Int /\ i[1] < i[2] /\ l \notin t
  BY <1>1 DEF NextPoint
<1> HIDE DEF l
<1>3. ASSUME NEW j \in a.intervals, Started(a, j) \in t, Ended(a, j) \notin t PROVE FALSE
  <2>1. j[1] <= i[1] /\ ~ (j[2] <= i[1])
    BY <1>1, <1>3
  <2>2. j # i
    BY <1>2, <1>3 DEF l
  <2>3. j[2] <= i[1] \/ i[2] <= j[1]
    BY <2>2 DEF Agenda
  <2>4. QED BY <1>1, <1>2, <2>1, <2>3
<1>4. a \notin Ongoing(W, t)
  BY <1>3 DEF Ongoing
<1>5. ASSUME NEW b \in W, NEW j \in b.intervals
      PROVE  Ended(b, j) \in s <=> Ended(b, j) \in t
  BY <1>1
<1>6. a \in Ongoing(W, s)
  <2>1. Ended(a, i) \notin t
    <3>1. ~ Earlier(l, Ended(a, i)) => FALSE
      BY <1>2 DEF l, Earlier, Started, Ended
    <3>2. QED BY <3>1 DEF NextPoint, l
  <2>2. QED BY <1>5, <2>1 DEF Ongoing, l
<1>7. Ongoing(W, s) = Ongoing(W, t) \cup {a}
  <2>1. ASSUME NEW b \in Ongoing(W, t) PROVE b \in Ongoing(W, s)
    BY <1>5 DEF Ongoing
  <2>2. ASSUME NEW b \in Ongoing(W, s), b # a PROVE b \in Ongoing(W, t)
    <3>1. PICK j \in b.intervals : Started(b, j) \in s /\ Ended(b, j) \notin s
      BY DEF Ongoing
    <3>2. Started(b, j) \in t
      BY <1>1, <2>2, <3>1 DEF Ongoing
    <3>3. QED BY <3>1, <3>2 DEF Ongoing
  <2>3. Ongoing(W, s) \subseteq W
    BY DEF Ongoing
  <2>4. QED BY <1>6, <2>1, <2>2
<1>8. ASSUME NEW b \in Ongoing(W, s) PROVE b \in AtWork(W, i[1])
  <2>1. PICK j \in b.intervals : Started(b, j) \in s /\ Ended(b, j) \notin s
    BY DEF Ongoing
  <2>2. b \in W
    BY DEF Ongoing
  <2>3. j[1] <= i[1] /\ j[1] \in Int /\ j[2] \in Int
    BY <1>1, <1>2, <2>1, <2>2
  <2>4. ~ (j[2] <= i[1])
    BY <1>1, <2>1, <2>2
  <2>5. QED BY <1>2, <2>2, <2>3, <2>4 DEF AtWork
<1>9. QED BY <1>4, <1>7, <1>8 DEF l

\* At the end of an interval its agent leaves them.
LEMMA AgentEnds ==
  ASSUME NEW W, Agenda(W), NEW t, NEW a \in W, NEW i \in a.intervals, NextPoint(W, t, Ended(a, i))
  PROVE  /\ a \in Ongoing(W, t)
         /\ Ongoing(W, t \cup {Ended(a, i)}) = Ongoing(W, t) \ {a}
<1> DEFINE l == Ended(a, i)
           s == t \cup {l}
<1>1. ASSUME NEW b \in W, NEW j \in b.intervals
      PROVE  /\ Started(b, j) \in Points(W) /\ Ended(b, j) \in Points(W) /\ j[1] \in Int /\ j[2] \in Int /\ j[1] < j[2]
             /\ Started(b, j) # l
             /\ Ended(b, j) = l => b = a /\ j[2] = i[2]
             /\ j[2] < i[2] => Ended(b, j) \in t
             /\ j[1] < i[2] => Started(b, j) \in t
             /\ Started(b, j) \in t => j[1] < i[2]
  <2>1. Started(b, j) \in Points(W) /\ Ended(b, j) \in Points(W)
    BY PointsAre
  <2>2. j[1] \in Int /\ j[2] \in Int /\ j[1] < j[2] /\ i[2] \in Int
    BY TurnsAssumption DEF Agenda, Time
  <2>3. Started(b, j) # l /\ (Ended(b, j) = l => b = a /\ j[2] = i[2])
    BY DEF Started, Ended
  <2>4. /\ j[2] < i[2] => Earlier(Ended(b, j), l) /\ Ended(b, j) # l
        /\ j[1] < i[2] => Earlier(Started(b, j), l)
        /\ ~ (j[1] < i[2]) => Earlier(l, Started(b, j))
    BY <2>2 DEF Earlier, Started, Ended
  <2>5. QED BY <2>1, <2>2, <2>3, <2>4 DEF NextPoint
<1>2. i[1] \in Int /\ i[2] \in Int /\ i[1] < i[2] /\ l \notin t
  BY <1>1 DEF NextPoint
<1> HIDE DEF l
<1>3. a \in Ongoing(W, t)
  <2>1. Started(a, i) \in t /\ Ended(a, i) \notin t
    BY <1>1, <1>2 DEF l
  <2>2. QED BY <2>1 DEF Ongoing
<1>4. ASSUME NEW j \in a.intervals, Started(a, j) \in s, Ended(a, j) \notin s PROVE FALSE
  <2>1. Started(a, j) \in t /\ j # i
    BY <1>1, <1>4 DEF l
  <2>2. j[1] < i[2] /\ ~ (j[2] < i[2])
    BY <1>1, <1>4, <2>1
  <2>3. j[2] <= i[1] \/ i[2] <= j[1]
    BY <2>1 DEF Agenda
  <2>4. QED BY <1>1, <1>2, <2>2, <2>3
<1>5. a \notin Ongoing(W, s)
  BY <1>4 DEF Ongoing
<1>6. Ongoing(W, s) = Ongoing(W, t) \ {a}
  <2>1. ASSUME NEW b \in Ongoing(W, t), b # a PROVE b \in Ongoing(W, s)
    <3>1. PICK j \in b.intervals : Started(b, j) \in t /\ Ended(b, j) \notin t
      BY DEF Ongoing
    <3>2. Ended(b, j) # l
      BY <1>1, <2>1 DEF Ongoing
    <3>3. QED BY <3>1, <3>2 DEF Ongoing
  <2>2. ASSUME NEW b \in Ongoing(W, s) PROVE b \in Ongoing(W, t)
    <3>1. PICK j \in b.intervals : Started(b, j) \in s /\ Ended(b, j) \notin s
      BY DEF Ongoing
    <3>2. Started(b, j) \in t
      BY <1>1, <3>1 DEF Ongoing
    <3>3. QED BY <3>1, <3>2 DEF Ongoing
  <2>3. QED BY <1>5, <2>1, <2>2
<1>7. QED BY <1>3, <1>6 DEF l

Sweeps == [union : Int, depth : Int, peak : Int, at : Int]
NoSweep == [union |-> 0, depth |-> 0, peak |-> 0, at |-> 0]

\* One round of the sweep, field by field.
LEMMA SweptIs ==
  ASSUME NEW acc \in Sweeps, NEW p, p[1] \in Int, p[2] \in Int
  PROVE  /\ Swept(acc, p) \in Sweeps
         /\ Swept(acc, p).at = p[1] /\ Swept(acc, p).depth = acc.depth + p[2]
         /\ Swept(acc, p).union = IF acc.depth > 0 THEN acc.union + p[1] - acc.at ELSE acc.union
         /\ Swept(acc, p).peak = IF acc.peak <= acc.depth + p[2] THEN acc.depth + p[2] ELSE acc.peak
<1>1. acc.union \in Int /\ acc.depth \in Int /\ acc.peak \in Int /\ acc.at \in Int
  BY DEF Sweeps
<1> DEFINE d == acc.depth + p[2]
<1>2. d \in Int
  BY <1>1
<1> HIDE DEF d
<1>3. Max({acc.peak, d}) = IF acc.peak <= d THEN d ELSE acc.peak
  BY <1>1, <1>2, OfTwo
<1>4. Swept(acc, p) = [union |-> IF acc.depth > 0 THEN acc.union + p[1] - acc.at ELSE acc.union,
                       depth |-> d, peak |-> IF acc.peak <= d THEN d ELSE acc.peak, at |-> p[1]]
  BY <1>3 DEF Swept, d
<1>5. QED BY <1>1, <1>2, <1>4 DEF Sweeps, d

\* The sweep is a recursion on the sets of points, taking the latest first.
LEMMA SweepRecursion ==
  ASSUME NEW W, Agenda(W)
  PROVE  \E g : /\ g[Points(W)] = UnionAndPeak(W)
                /\ g[{}] = NoSweep
                /\ \A s \in SUBSET Points(W) : s # {} => g[s] = Swept(g[s \ {Latest(s)}], Latest(s))
<1> DEFINE S == Points(W)
           Body(g) == [s \in SUBSET S |-> IF s = {} THEN NoSweep ELSE Swept(g[s \ {Latest(s)}], Latest(s))]
           iter == CHOOSE g : g = Body(g)
           pick == [s \in SUBSET S |-> Latest(s)]
           F == [p \in S \X Sweeps |-> Swept(p[2], p[1])]
<1>1. UnionAndPeak(W) = iter[S]
  BY DEF UnionAndPeak, InOrder, MapThenFoldSet, NoSweep
<1>2. IsFiniteSet(S) /\ Dated(S)
  BY PointsDated
<1> HIDE DEF S
<1>3. \A s \in SUBSET S : s # {} => pick[s] \in s
  <2>1. \A s \in SUBSET S : IsFiniteSet(s) /\ Dated(s)
    BY <1>2, FS_Subset DEF Dated
  <2>2. QED BY <2>1, LatestIsLast
<1>4. \A x \in S : \A a \in Sweeps : F[<<x, a>>] = Swept(a, x) /\ Swept(a, x) \in Sweeps
  <2>1. \A x \in S : \A a \in Sweeps : Swept(a, x) \in Sweeps
    BY <1>2, SweptIs DEF Dated
  <2>2. QED BY <2>1
<1>5. \E g : g = Body(g)
  <2>1. NoSweep \in Sweeps
    BY DEF NoSweep, Sweeps
  <2> HIDE DEF pick, F
  <2>2. Recursion(S, Sweeps, NoSweep, pick, F)
    BY <1>2, <1>3, <1>4, <2>1 DEF Recursion
  <2>3. PICK g : Solution(g, S, Sweeps, NoSweep, pick, F)
    BY <2>2, RecursionOnSubsets
  <2>4. \A s \in SUBSET S : s # {} => F[<<pick[s], g[s \ {pick[s]}]>>] = Swept(g[s \ {pick[s]}], pick[s])
    BY <1>3, <1>4, <2>3 DEF Solution
  <2>5. \A s \in SUBSET S : g[s] = Body(g)[s]
    BY <2>3, <2>4 DEF pick, Solution
  <2>6. QED BY <2>3, <2>5 DEF Solution
<1>6. iter = Body(iter)
  BY <1>5
<1> HIDE DEF iter
<1>7. iter[{}] = NoSweep /\ \A s \in SUBSET S : s # {} => iter[s] = Swept(iter[s \ {Latest(s)}], Latest(s))
  BY <1>6
<1>8. QED BY <1>1, <1>7 DEF S

\* The instants before x at which some agent works.
BusyBefore(W, x) == {i \in AgentInstants(W) : i < x}

\* What is known after the points in s.
SweepInv(W, s, acc) ==
  /\ acc \in Sweeps
  /\ acc.at >= 0 /\ \A p \in s : p[1] <= acc.at
  /\ acc.at = 0 \/ \E p \in s : p[1] = acc.at
  /\ IsFiniteSet(Ongoing(W, s)) /\ acc.depth = Cardinality(Ongoing(W, s)) /\ acc.depth <= acc.peak
  /\ acc.union = Cardinality(BusyBefore(W, acc.at))
  /\ \A x \in Int : x < acc.at => Cardinality(AtWork(W, x)) <= acc.peak
  /\ acc.peak = 0 \/ \E x \in Time : acc.peak <= Cardinality(AtWork(W, x))

\* At an instant of the union, and at no other, some agent works.
LEMMA AtWorkFinite ==
  ASSUME NEW W, Agenda(W), NEW x \in Int
  PROVE  /\ IsFiniteSet(AtWork(W, x)) /\ Cardinality(AtWork(W, x)) \in Nat
         /\ x \in AgentInstants(W) <=> AtWork(W, x) # {}
<1>1. IsFiniteSet(AtWork(W, x))
  <2>1. AtWork(W, x) \subseteq W
    BY DEF AtWork
  <2>2. QED BY <2>1, FS_Subset DEF Agenda
<1>2. \A a \in W : x \in Instants(a.intervals) <=> \E i \in a.intervals : i[1] <= x /\ x < i[2]
  <2>1. \A a \in W : \A i \in a.intervals : i[1] \in Int /\ i[2] \in Int
    BY TurnsAssumption DEF Agenda, Time
  <2>2. QED BY <2>1 DEF Instants
<1>3. x \in AgentInstants(W) <=> AtWork(W, x) # {}
  BY <1>2 DEF AgentInstants, AtWork
<1>4. QED BY <1>1, <1>3, FS_CardinalityType

\* The union is finite.
LEMMA InstantsInTime ==
  ASSUME NEW W, Agenda(W)
  PROVE  AgentInstants(W) \in SUBSET Time /\ IsFiniteSet(AgentInstants(W)) /\ AgentInstants(W) \in SUBSET Int
<1>1. \A a \in W : \A i \in a.intervals : i[1] .. i[2] - 1 \subseteq Time
  BY TurnsAssumption DEF Agenda, Time
<1>2. AgentInstants(W) \in SUBSET Time
  BY <1>1 DEF AgentInstants, Instants
<1>3. QED BY <1>2, FiniteTimes

\* From one point to the next the union grows if somebody works.
LEMMA UnionGrows ==
  ASSUME NEW W, Agenda(W), NEW from \in Int, NEW to \in Int, from <= to, NEW O,
         \A x \in Int : from <= x /\ x < to => AtWork(W, x) = O
  PROVE  Cardinality(BusyBefore(W, to)) = Cardinality(BusyBefore(W, from)) + (IF O # {} THEN to - from ELSE 0)
<1>1. AgentInstants(W) \in SUBSET Int /\ IsFiniteSet(AgentInstants(W))
  BY InstantsInTime
<1>2. \A x \in Int : x \in AgentInstants(W) <=> AtWork(W, x) # {}
  BY AtWorkFinite
<1>3. IsFiniteSet(BusyBefore(W, from)) /\ Cardinality(BusyBefore(W, from)) \in Nat
  <2>1. IsFiniteSet(BusyBefore(W, from))
    BY <1>1, FS_Subset DEF BusyBefore
  <2>2. QED BY <2>1, FS_CardinalityType
<1>4. CASE O = {}
  <2>1. BusyBefore(W, to) = BusyBefore(W, from)
    <3>1. \A x \in Int : from <= x /\ x < to => x \notin AgentInstants(W)
      BY <1>2, <1>4
    <3>2. QED BY <1>1, <3>1 DEF BusyBefore
  <2>2. QED BY <1>3, <1>4, <2>1
<1>5. CASE O # {}
  <2> DEFINE G == from .. to - 1
  <2>1. \A x \in G : x \in AgentInstants(W) /\ x < to /\ ~ (x < from)
    BY <1>2, <1>5
  <2>2. BusyBefore(W, to) = BusyBefore(W, from) \cup G
    <3>1. \A x \in BusyBefore(W, to) : x \in BusyBefore(W, from) \cup G
      BY <1>1 DEF BusyBefore
    <3>2. \A x \in BusyBefore(W, from) : x \in BusyBefore(W, to)
      BY <1>1 DEF BusyBefore
    <3>3. \A x \in G : x \in BusyBefore(W, to)
      BY <2>1 DEF BusyBefore
    <3> HIDE DEF G
    <3>4. QED BY <3>1, <3>2, <3>3
  <2>3. BusyBefore(W, from) \cap G = {}
    BY <2>1 DEF BusyBefore
  <2>4. IsFiniteSet(G) /\ Cardinality(G) = to - from
    <3>1. from <= to - 1 \/ from > to - 1
      OBVIOUS
    <3>2. to - 1 \in Int
      OBVIOUS
    <3>3. IsFiniteSet(G) /\ Cardinality(G) = IF from > to - 1 THEN 0 ELSE (to - 1) - from + 1
      BY <3>2, FS_Interval
    <3> HIDE DEF G
    <3>4. QED BY <3>3
  <2> HIDE DEF G
  <2>5. Cardinality(BusyBefore(W, from) \cap G) = 0
    BY <2>3, FS_EmptySet
  <2>6. Cardinality(BusyBefore(W, to)) = Cardinality(BusyBefore(W, from)) + Cardinality(G) - 0
    BY <1>3, <2>2, <2>4, <2>5, FS_Union
  <2>7. QED BY <1>3, <1>5, <2>4, <2>6
<1>6. QED BY <1>4, <1>5

\* One point more.
LEMMA SweepStep ==
  ASSUME NEW W, Agenda(W), NEW t, NEW l, NextPoint(W, t, l), NEW acc, SweepInv(W, t, acc)
  PROVE  SweepInv(W, t \cup {l}, Swept(acc, l))
<1> DEFINE new == Swept(acc, l)
           s == t \cup {l}
<1>1. /\ acc \in Sweeps /\ acc.at \in Int /\ acc.depth \in Int /\ acc.peak \in Int /\ acc.union \in Int
      /\ l[1] \in Int /\ l[1] \in Time /\ l[2] \in Int
      /\ l[1] >= 0
  BY PointsDated, TurnsAssumption DEF SweepInv, Sweeps, NextPoint, Dated, Time
<1>2. /\ new \in Sweeps /\ new.at = l[1] /\ new.depth = acc.depth + l[2]
      /\ new.union = IF acc.depth > 0 THEN acc.union + l[1] - acc.at ELSE acc.union
      /\ new.peak = IF acc.peak <= acc.depth + l[2] THEN acc.depth + l[2] ELSE acc.peak
  BY <1>1, SweptIs
<1> HIDE DEF new
<1>3. acc.at <= l[1]
  <2>1. CASE acc.at = 0
    BY <1>1, <2>1
  <2>2. CASE acc.at # 0
    <3>1. PICK p \in t : p[1] = acc.at
      BY <2>2 DEF SweepInv
    <3>2. ~ (l[1] < p[1])
      BY DEF NextPoint, Earlier
    <3>3. QED BY <1>1, <3>1, <3>2
  <2>3. QED BY <2>1, <2>2
<1>4. \A x \in Int : acc.at <= x /\ x < l[1] => AtWork(W, x) = Ongoing(W, t)
  BY <1>1, BetweenPoints DEF SweepInv
<1>5. \A p \in s : p[1] <= l[1]
  <2>1. \A p \in t : p[1] \in Int /\ p[1] <= acc.at
    BY PointsDated DEF SweepInv, NextPoint
  <2>2. QED BY <1>1, <1>3, <2>1
<1>6. /\ IsFiniteSet(Ongoing(W, t)) /\ Cardinality(Ongoing(W, t)) = acc.depth
      /\ acc.depth \in Nat /\ acc.depth <= acc.peak
  BY FS_CardinalityType DEF SweepInv
<1>7. new.union = Cardinality(BusyBefore(W, l[1]))
  <2>1. Ongoing(W, t) # {} <=> acc.depth > 0
    BY <1>6, FS_EmptySet
  <2> DEFINE O == Ongoing(W, t)
  <2>2. \A x \in Int : acc.at <= x /\ x < l[1] => AtWork(W, x) = O
    BY <1>4
  <2> HIDE DEF O
  <2>3. Cardinality(BusyBefore(W, l[1])) = Cardinality(BusyBefore(W, acc.at)) + (IF O # {} THEN l[1] - acc.at ELSE 0)
    BY <1>1, <1>3, <2>2, UnionGrows
  <2>4. Cardinality(BusyBefore(W, acc.at)) = acc.union
    BY DEF SweepInv
  <2>5. CASE acc.depth > 0
    BY <1>1, <1>2, <2>1, <2>3, <2>4, <2>5 DEF O
  <2>6. CASE ~ (acc.depth > 0)
    BY <1>1, <1>2, <2>1, <2>3, <2>4, <2>6 DEF O
  <2>7. QED BY <2>5, <2>6
<1>8. \A x \in Int : x < l[1] => Cardinality(AtWork(W, x)) <= acc.peak
  <2>1. ASSUME NEW x \in Int, x < l[1] PROVE Cardinality(AtWork(W, x)) <= acc.peak
    <3>1. CASE x < acc.at
      BY <3>1 DEF SweepInv
    <3>2. CASE ~ (x < acc.at)
      BY <1>1, <1>4, <1>6, <2>1, <3>2
    <3>3. QED BY <3>1, <3>2
  <2>2. QED BY <2>1
<1>9. \A x \in Int : Cardinality(AtWork(W, x)) \in Nat
  BY AtWorkFinite
<1>10. new.peak \in Int /\ acc.peak <= new.peak /\ new.depth <= new.peak /\ new.depth \in Int
  BY <1>1, <1>2
<1>11. \A x \in Int : x < l[1] => Cardinality(AtWork(W, x)) <= new.peak
  BY <1>1, <1>8, <1>9, <1>10
<1>12. /\ IsFiniteSet(Ongoing(W, s)) /\ new.depth = Cardinality(Ongoing(W, s))
       /\ new.peak = 0 \/ \E x \in Time : new.peak <= Cardinality(AtWork(W, x))
  <2>1. PICK a \in W : \E i \in a.intervals : l = Started(a, i) \/ l = Ended(a, i)
    BY PointsAre DEF NextPoint
  <2>2. PICK i \in a.intervals : l = Started(a, i) \/ l = Ended(a, i)
    BY <2>1
  <2>3. CASE l = Started(a, i)
    <3>1. NextPoint(W, t, Started(a, i))
      BY <2>3
    <3>2. a \notin Ongoing(W, t) /\ Ongoing(W, s) = Ongoing(W, t) \cup {a} /\ Ongoing(W, s) \subseteq AtWork(W, i[1])
      BY <2>3, <3>1, AgentStarts
    <3>3. IsFiniteSet(Ongoing(W, s)) /\ Cardinality(Ongoing(W, s)) = Cardinality(Ongoing(W, t)) + 1
      <4>1. \A O : IsFiniteSet(O) /\ a \notin O =>
              IsFiniteSet(O \cup {a}) /\ Cardinality(O \cup {a}) = Cardinality(O) + 1
        BY FS_AddElement
      <4>2. QED BY <1>6, <3>2, <4>1
    <3>4. l[1] = i[1] /\ l[2] = 1
      BY <2>3 DEF Started
    <3>5. new.depth = Cardinality(Ongoing(W, s))
      BY <1>2, <1>6, <3>3, <3>4
    <3>6. i[1] \in Time /\ i[1] \in Int
      BY <1>1, <3>4
    <3>7. Cardinality(Ongoing(W, s)) <= Cardinality(AtWork(W, i[1]))
      BY <3>2, <3>6, AtWorkFinite, FS_Subset
    <3>8. CASE acc.peak <= new.depth
      <4>1. new.peak = new.depth
        BY <1>2, <3>8
      <4>2. new.peak <= Cardinality(AtWork(W, i[1]))
        BY <3>5, <3>7, <4>1
      <4>3. QED BY <3>3, <3>5, <3>6, <4>2
    <3>9. CASE ~ (acc.peak <= new.depth)
      <4>1. new.peak = acc.peak
        BY <1>2, <3>9
      <4>2. QED BY <4>1, <3>3, <3>5 DEF SweepInv
    <3>10. QED BY <3>3, <3>5, <3>8, <3>9
  <2>4. CASE l = Ended(a, i)
    <3>1. NextPoint(W, t, Ended(a, i))
      BY <2>4
    <3>2. a \in Ongoing(W, t) /\ Ongoing(W, s) = Ongoing(W, t) \ {a}
      <4>1. a \in Ongoing(W, t) /\ Ongoing(W, t \cup {Ended(a, i)}) = Ongoing(W, t) \ {a}
        BY <3>1, AgentEnds
      <4>2. QED BY <2>4, <4>1
    <3>3. IsFiniteSet(Ongoing(W, s)) /\ Cardinality(Ongoing(W, s)) = Cardinality(Ongoing(W, t)) - 1
      BY <1>6, <3>2, FS_RemoveElement
    <3>4. l[2] = -1
      BY <2>4 DEF Ended
    <3>5. new.depth = Cardinality(Ongoing(W, s))
      BY <1>2, <1>6, <3>3, <3>4
    <3>6. new.peak = acc.peak
      BY <1>1, <1>2, <1>6, <3>4
    <3>7. QED BY <3>3, <3>5, <3>6 DEF SweepInv
  <2>5. QED BY <2>2, <2>3, <2>4
<1>13. l \in s
  OBVIOUS
<1> HIDE DEF s
<1>14. SweepInv(W, s, new)
  BY <1>1, <1>2, <1>5, <1>7, <1>10, <1>11, <1>12, <1>13 DEF SweepInv
<1>15. QED BY <1>14 DEF s, new

\* The union is the time some agent works, the peak the most at one instant.
LEMMA SweepRight ==
  ASSUME NEW W, Agenda(W)
  PROVE  /\ UnionAndPeak(W).union = Cardinality(AgentInstants(W))
         /\ UnionAndPeak(W).peak = Max({0} \cup {Cardinality(AtWork(W, x)) : x \in Time})
<1> DEFINE S == Points(W)
<1>1. PICK g : /\ g[S] = UnionAndPeak(W)
               /\ g[{}] = NoSweep
               /\ \A s \in SUBSET S : s # {} => g[s] = Swept(g[s \ {Latest(s)}], Latest(s))
  BY SweepRecursion
<1>2. IsFiniteSet(S) /\ Dated(S)
  BY PointsDated
<1> DEFINE K == {s \in SUBSET S : SweepInv(W, s, g[s])}
<1>3. {} \in K
  <2>1. Ongoing(W, {}) = {} /\ BusyBefore(W, 0) = {}
    <3>1. \A x \in AgentInstants(W) : x \in Int /\ ~ (x < 0)
      BY InstantsInTime, TurnsAssumption DEF Time
    <3>2. QED BY <3>1 DEF Ongoing, BusyBefore
  <2>2. \A x \in Int : x < 0 => Cardinality(AtWork(W, x)) <= 0
    <3>1. \A x \in Int : x < 0 => AtWork(W, x) = {}
      BY TurnsAssumption DEF AtWork, Agenda, Time
    <3>2. QED BY <3>1, FS_EmptySet
  <2>3. NoSweep \in Sweeps /\ NoSweep.at = 0 /\ NoSweep.depth = 0 /\ NoSweep.peak = 0 /\ NoSweep.union = 0
    BY DEF NoSweep, Sweeps
  <2>4. SweepInv(W, {}, NoSweep)
    BY <2>1, <2>2, <2>3, FS_EmptySet DEF SweepInv
  <2>5. QED BY <1>1, <2>4
<1>4. ASSUME NEW s \in SUBSET S, s # {}, Begins(s, S), Begins(s \ {Latest(s)}, S), s \ {Latest(s)} \in K
      PROVE  s \in K
  <2> DEFINE l == Latest(s)
             t == s \ {l}
  <2>1. l \in s /\ \A q \in s : ~ Earlier(l, q)
    <3>1. IsFiniteSet(s) /\ Dated(s)
      BY <1>2, FS_Subset DEF Dated
    <3>2. QED BY <1>4, <3>1, LatestIsLast
  <2>2. t \cup {l} = s
    BY <2>1
  <2>3. NextPoint(W, t, l)
    <3>1. t \in SUBSET S /\ l \in S /\ l \notin t /\ \A p \in t : ~ Earlier(l, p)
      BY <2>1
    <3>2. \A p \in s : \A q \in S : Earlier(q, p) => q \in s
      BY <1>4 DEF Begins
    <3>3. \A p \in t \cup {l} : \A q \in S : Earlier(q, p) => q \in t \cup {l}
      BY <2>2, <3>2
    <3> HIDE DEF t, l
    <3>4. QED BY <3>1, <3>3 DEF NextPoint
  <2>4. SweepInv(W, t, g[t]) /\ g[s] = Swept(g[t], l)
    BY <1>1, <1>4
  <2> HIDE DEF t, l
  <2>5. SweepInv(W, t \cup {l}, Swept(g[t], l))
    BY <2>3, <2>4, SweepStep
  <2>6. QED BY <2>2, <2>4, <2>5
<1>5. S \in K
  <2> HIDE DEF S, K
  <2>1. QED BY <1>2, <1>3, <1>4, InOrderKeeps
<1> DEFINE u == UnionAndPeak(W)
<1>6. SweepInv(W, S, u)
  BY <1>1, <1>5
<1> HIDE DEF u, K
<1>7. u.union \in Int /\ u.peak \in Int /\ u.at \in Int /\ u.depth \in Int
  BY <1>6 DEF SweepInv, Sweeps
<1>8. \A a \in W : \A i \in a.intervals : i[1] \in Int /\ i[2] \in Int /\ i[2] <= u.at
  <2>1. ASSUME NEW a \in W, NEW i \in a.intervals
        PROVE  i[1] \in Int /\ i[2] \in Int /\ i[2] <= u.at
    <3>1. Ended(a, i) \in S
      BY PointsAre
    <3>2. Ended(a, i)[1] = i[2]
      BY DEF Ended
    <3>3. Ended(a, i)[1] <= u.at
      BY <1>6, <3>1 DEF SweepInv
    <3>4. i[1] \in Int /\ i[2] \in Int
      BY TurnsAssumption DEF Agenda, Time
    <3>5. QED BY <3>2, <3>3, <3>4
  <2>2. QED BY <2>1
<1>9. \A x \in Int : ~ (x < u.at) => AtWork(W, x) = {}
  BY <1>7, <1>8 DEF AtWork
<1>10. u.union = Cardinality(AgentInstants(W))
  <2>1. \A x \in AgentInstants(W) : x \in Int /\ x < u.at
    <3>1. \A x \in AgentInstants(W) : x \in Int /\ AtWork(W, x) # {}
      BY InstantsInTime, AtWorkFinite
    <3>2. QED BY <1>9, <3>1
  <2>2. BusyBefore(W, u.at) = AgentInstants(W)
    BY <2>1 DEF BusyBefore
  <2>3. QED BY <1>6, <2>2 DEF SweepInv
<1>11. u.peak = Max({0} \cup {Cardinality(AtWork(W, x)) : x \in Time})
  <2> DEFINE count == [x \in Time |-> Cardinality(AtWork(W, x))]
             C == {count[x] : x \in Time}
             M == {0} \cup C
  <2>1. Time \in SUBSET Int /\ IsFiniteSet(Time)
    BY FS_Interval, TurnsAssumption DEF Time
  <2>2. \A x \in Time : count[x] = Cardinality(AtWork(W, x)) /\ count[x] \in Nat
    BY <2>1, AtWorkFinite
  <2>3. C = {Cardinality(AtWork(W, x)) : x \in Time}
    BY <2>2
  <2> HIDE DEF count
  <2>4. IsFiniteSet(C) /\ C \in SUBSET Nat
    BY <2>1, <2>2, ImageFinite
  <2>5. \A x \in Int : Cardinality(AtWork(W, x)) <= u.peak
    <3>1. \A x \in Int : x < u.at => Cardinality(AtWork(W, x)) <= u.peak
      BY <1>6 DEF SweepInv
    <3>2. \A x \in Int : ~ (x < u.at) => Cardinality(AtWork(W, x)) = 0
      BY <1>9, FS_EmptySet
    <3>3. u.peak >= 0
      <4>1. u.depth = Cardinality(Ongoing(W, S)) /\ IsFiniteSet(Ongoing(W, S)) /\ u.depth <= u.peak
        BY <1>6 DEF SweepInv
      <4>2. u.depth \in Nat
        BY <4>1, FS_CardinalityType
      <4>3. QED BY <1>7, <4>1, <4>2
    <3>4. QED BY <1>7, <3>1, <3>2, <3>3
  <2>6. \A c \in M : c \in Int /\ c <= u.peak
    <3>1. u.peak >= 0
      <4>1. 0 \in Int /\ 0 \in Time
        BY TurnsAssumption DEF Time
      <4>2. Cardinality(AtWork(W, 0)) \in Nat /\ Cardinality(AtWork(W, 0)) <= u.peak
        BY <2>5, <4>1, AtWorkFinite
      <4>3. QED BY <1>7, <4>2
    <3>2. \A x \in Time : count[x] <= u.peak
      BY <2>1, <2>2, <2>5
    <3>3. QED BY <1>7, <2>4, <3>1, <3>2
  <2>7. IsFiniteSet(M) /\ M \in SUBSET Int /\ M # {}
    <3>1. IsFiniteSet({0})
      BY FS_Singleton
    <3>2. QED BY <2>4, <2>6, <3>1, FS_Union
  <2>8. Max(M) \in M /\ \A c \in M : c <= Max(M)
    BY <2>7, MaxIsGreatest
  <2>9. u.peak <= Max(M)
    <3>1. CASE u.peak = 0
      BY <2>8, <3>1
    <3>2. CASE u.peak # 0
      <4>1. PICK x \in Time : u.peak <= Cardinality(AtWork(W, x))
        BY <1>6, <3>2 DEF SweepInv
      <4>2. count[x] \in M /\ count[x] = Cardinality(AtWork(W, x)) /\ count[x] \in Nat
        BY <2>2
      <4>3. count[x] <= Max(M)
        BY <2>8, <4>2
      <4>4. Max(M) \in Int
        BY <2>6, <2>8
      <4>5. QED BY <1>7, <4>1, <4>2, <4>3, <4>4
    <3>3. QED BY <3>1, <3>2
  <2>10. Max(M) <= u.peak /\ Max(M) \in Int
    BY <2>6, <2>8
  <2> HIDE DEF M
  <2>11. u.peak = Max(M)
    BY <1>7, <2>9, <2>10
  <2>12. QED BY <2>3, <2>11 DEF M
<1>12. QED BY <1>10, <1>11 DEF u

-----------------------------------------------------------------------------
(* The parallel agents.                                                      *)

\* Stretches of a set are apart, and in it.
LEMMA StretchesApart ==
  ASSUME NEW S \in SUBSET Int
  PROVE  /\ \A p \in Stretches(S) : /\ p[1] \in S /\ p[2] - 1 \in S /\ p[1] \in Int /\ p[2] \in Int /\ p[1] < p[2]
                                    /\ p[1] .. p[2] - 1 \subseteq S /\ p = <<p[1], p[2]>>
         /\ \A p, q \in Stretches(S) : p = q \/ p[2] <= q[1] \/ q[2] <= p[1]
<1>1. ASSUME NEW p \in Stretches(S)
      PROVE  /\ p[1] \in S /\ p[2] - 1 \in S /\ p[1] \in Int /\ p[2] \in Int /\ p[1] < p[2]
             /\ p[1] - 1 \notin S /\ p[2] \notin S /\ p[1] .. p[2] - 1 \subseteq S /\ p = <<p[1], p[2]>>
  <2>1. p \in S \X {i + 1 : i \in S} /\ p[1] < p[2] /\ p[1] - 1 \notin S /\ p[2] \notin S
        /\ p[1] .. p[2] - 1 \subseteq S
    BY DEF Stretches
  <2>2. p[1] \in S /\ p[2] \in {i + 1 : i \in S} /\ p = <<p[1], p[2]>>
    BY <2>1
  <2>3. PICK i \in S : p[2] = i + 1
    BY <2>2
  <2>4. p[1] \in Int /\ i \in Int
    BY <2>2
  <2>5. p[2] - 1 = i
    BY <2>3, <2>4
  <2>6. QED BY <2>1, <2>2, <2>3, <2>4, <2>5
<1>2. ASSUME NEW p \in Stretches(S), NEW q \in Stretches(S), p[1] < q[2], q[1] < p[2], p[1] < q[1] PROVE FALSE
  <2>1. p[1] \in Int /\ p[2] \in Int /\ q[1] \in Int /\ q[2] \in Int
    BY <1>1
  <2>2. q[1] - 1 \in p[1] .. p[2] - 1
    BY <1>2, <2>1
  <2>3. QED BY <1>1, <2>2
<1>3. ASSUME NEW p \in Stretches(S), NEW q \in Stretches(S), p[1] < q[2], q[1] < p[2], p[2] < q[2] PROVE FALSE
  <2>1. p[1] \in Int /\ p[2] \in Int /\ q[1] \in Int /\ q[2] \in Int
    BY <1>1
  <2>2. p[2] \in q[1] .. q[2] - 1
    BY <1>3, <2>1
  <2>3. QED BY <1>1, <2>2
<1>4. ASSUME NEW p \in Stretches(S), NEW q \in Stretches(S), p[1] < q[2], q[1] < p[2] PROVE p = q
  <2>1. p[1] \in Int /\ p[2] \in Int /\ q[1] \in Int /\ q[2] \in Int /\ p = <<p[1], p[2]>> /\ q = <<q[1], q[2]>>
    BY <1>1
  <2>2. ~ (p[1] < q[1]) /\ ~ (q[1] < p[1])
    BY <1>2, <1>4
  <2>3. ~ (p[2] < q[2]) /\ ~ (q[2] < p[2])
    BY <1>3, <1>4
  <2>4. p[1] = q[1] /\ p[2] = q[2]
    BY <2>1, <2>2, <2>3
  <2>5. QED BY <2>1, <2>4
<1>5. \A p, q \in Stretches(S) : p = q \/ p[2] <= q[1] \/ q[2] <= p[1]
  <2>1. ASSUME NEW p \in Stretches(S), NEW q \in Stretches(S)
        PROVE  p = q \/ p[2] <= q[1] \/ q[2] <= p[1]
    <3>1. p[1] \in Int /\ p[2] \in Int /\ q[1] \in Int /\ q[2] \in Int
      BY <1>1
    <3>2. QED BY <1>4, <3>1
  <2>2. QED BY <2>1
<1>6. QED BY <1>1, <1>5

\* Every element of a finite set of instants is in one of its stretches.
LEMMA StretchOf ==
  ASSUME NEW S \in SUBSET Int, IsFiniteSet(S), NEW x \in S
  PROVE  \E p \in Stretches(S) : p[1] <= x /\ x < p[2]
<1>1. PICK m \in Int : \A y \in S : m < y
  <2>1. Min(S) \in S /\ \A y \in S : Min(S) <= y
    BY MinIsLeast
  <2> DEFINE l == Min(S)
  <2>2. l \in Int /\ \A y \in S : l <= y /\ y \in Int
    BY <2>1
  <2> HIDE DEF l
  <2>3. l - 1 \in Int /\ \A y \in S : l - 1 < y
    BY <2>2
  <2>4. QED BY <2>3
<1>2. PICK n \in Int : \A y \in S : y < n
  <2>1. Max(S) \in S /\ \A y \in S : y <= Max(S)
    BY MaxIsGreatest
  <2> DEFINE l == Max(S)
  <2>2. l \in Int /\ \A y \in S : y <= l /\ y \in Int
    BY <2>1
  <2> HIDE DEF l
  <2>3. l + 1 \in Int /\ \A y \in S : y < l + 1
    BY <2>2
  <2>4. QED BY <2>3
<1>3. x \in Int /\ m < x /\ x < n
  BY <1>1, <1>2
<1> DEFINE L == (m .. x) \ S
           U == (x .. n) \ S
<1>4. m \in L /\ n \in U /\ L \in SUBSET Int /\ U \in SUBSET Int
  BY <1>1, <1>2, <1>3
<1>5. IsFiniteSet(L) /\ IsFiniteSet(U)
  <2>1. IsFiniteSet(m .. x) /\ IsFiniteSet(x .. n)
    BY <1>3, FS_Interval
  <2>2. L \in SUBSET (m .. x) /\ U \in SUBSET (x .. n)
    OBVIOUS
  <2> HIDE DEF L, U
  <2>3. QED BY <2>1, <2>2, FS_Subset
<1>6. PICK a \in L : \A y \in L : y <= a
  <2> HIDE DEF L
  <2>1. QED BY <1>4, <1>5, MaxIsGreatest
<1>7. PICK b \in U : \A y \in U : b <= y
  <2> HIDE DEF U
  <2>1. QED BY <1>4, <1>5, MinIsLeast
<1>8. a \in Int /\ b \in Int /\ a < x /\ x < b /\ a \notin S /\ b \notin S /\ m <= a /\ b <= n
  BY <1>3, <1>6, <1>7
<1>9. \A y \in Int : a < y /\ y < b => y \in S
  <2>1. ASSUME NEW y \in Int, a < y, y < b, y \notin S PROVE FALSE
    <3>1. CASE y <= x
      BY <1>3, <1>6, <1>8, <2>1, <3>1
    <3>2. CASE x <= y
      BY <1>3, <1>7, <1>8, <2>1, <3>2
    <3>3. QED BY <1>3, <3>1, <3>2
  <2>2. QED BY <2>1
<1> HIDE DEF L, U
<1> DEFINE p == <<a + 1, b>>
<1>10. p[1] = a + 1 /\ p[2] = b
  OBVIOUS
<1>11. p \in S \X {i + 1 : i \in S}
  <2>1. a + 1 \in S
    BY <1>3, <1>8, <1>9
  <2>2. b - 1 \in S /\ b = (b - 1) + 1
    BY <1>3, <1>8, <1>9
  <2>3. b \in {i + 1 : i \in S}
    BY <2>2
  <2>4. QED BY <2>1, <2>3
<1> HIDE DEF p
<1>12. p[1] <= x /\ x < p[2] /\ p[1] < p[2] /\ p[1] - 1 \notin S /\ p[2] \notin S
  BY <1>3, <1>8, <1>10
<1>13. p[1] .. p[2] - 1 \subseteq S
  BY <1>8, <1>9, <1>10
<1>14. QED BY <1>11, <1>12, <1>13 DEF Stretches

\* A finite set has finitely many stretches.
LEMMA StretchesFinite ==
  ASSUME NEW S \in SUBSET Int, IsFiniteSet(S)
  PROVE  IsFiniteSet(Stretches(S)) /\ Dated(Stretches(S))
<1>1. \A p \in Stretches(S) : p[1] \in Int /\ p[2] \in Int
  BY StretchesApart
<1> DEFINE f == [i \in S |-> i + 1]
           E == {f[i] : i \in S}
<1>2. E = {i + 1 : i \in S}
  OBVIOUS
<1>3. IsFiniteSet(E)
  <2> HIDE DEF f
  <2>1. QED BY ImageFinite
<1> HIDE DEF E
<1>4. IsFiniteSet(S \X E)
  BY <1>3, FS_Product
<1>5. Stretches(S) \in SUBSET (S \X E)
  BY <1>2 DEF Stretches
<1>6. QED BY <1>1, <1>4, <1>5, FS_Subset DEF Dated

\* The union of finite sets is no larger than their sizes together.
LEMMA UnionBounded ==
  ASSUME NEW D, IsFiniteSet(D), NEW f, NEW e,
         \A x \in D : IsFiniteSet(f[x]) /\ e[x] \in Int /\ Cardinality(f[x]) <= e[x]
  PROVE  /\ IsFiniteSet(UNION {f[x] : x \in D})
         /\ Cardinality(UNION {f[x] : x \in D}) <= SumFunctionOnSet(e, D)
<1> DEFINE U(s) == UNION {f[x] : x \in s}
           K == {s \in SUBSET D : IsFiniteSet(U(s)) /\ Cardinality(U(s)) <= SumFunctionOnSet(e, s)}
           pick == [s \in SUBSET D |-> CHOOSE x \in s : TRUE]
           g == [s \in SUBSET D |-> s]
<1>1. g[{}] \in K
  <2>1. U({}) = {}
    OBVIOUS
  <2>2. SumFunctionOnSet(e, {}) = 0
    BY SumFacts
  <2> HIDE DEF U
  <2>3. IsFiniteSet(U({})) /\ Cardinality(U({})) <= SumFunctionOnSet(e, {})
    BY <2>1, <2>2, FS_EmptySet
  <2>4. QED BY <2>3
<1>2. \A s \in SUBSET D : s # {} => pick[s] \in s
  OBVIOUS
<1>3. ASSUME NEW s \in SUBSET D, s # {}, g[s \ {pick[s]}] \in K PROVE g[s] \in K
  <2> DEFINE x == pick[s]
             t == s \ {x}
  <2>1. x \in s /\ x \in D
    BY <1>2, <1>3
  <2> HIDE DEF x
  <2>2. t \in SUBSET D /\ IsFiniteSet(U(t)) /\ Cardinality(U(t)) <= SumFunctionOnSet(e, t)
    BY <1>3 DEF x
  <2>3. U(s) = U(t) \cup f[x]
    BY <2>1
  <2> HIDE DEF U
  <2>4. IsFiniteSet(s) /\ \A y \in s : e[y] \in Int
    BY FS_Subset
  <2>5. SumFunctionOnSet(e, s) = e[x] + SumFunctionOnSet(e, t)
    BY <2>1, <2>4, SumFacts
  <2>6. SumFunctionOnSet(e, t) \in Int
    <3>1. IsFiniteSet(t) /\ \A y \in t : e[y] \in Int
      BY <2>2, FS_Subset
    <3> HIDE DEF t
    <3>2. QED BY <3>1, SumFacts
  <2>7. IsFiniteSet(f[x]) /\ e[x] \in Int /\ Cardinality(f[x]) <= e[x]
    BY <2>1
  <2>8. /\ IsFiniteSet(U(t) \cup f[x])
        /\ Cardinality(U(t) \cup f[x]) = Cardinality(U(t)) + Cardinality(f[x]) - Cardinality(U(t) \cap f[x])
    BY <2>2, <2>7, FS_Union
  <2>9. Cardinality(U(t) \cap f[x]) \in Nat
    <3>1. IsFiniteSet(U(t) \cap f[x])
      BY <2>2, FS_Subset
    <3>2. QED BY <3>1, FS_CardinalityType
  <2>10. Cardinality(U(t)) \in Nat /\ Cardinality(f[x]) \in Nat
    BY <2>2, <2>7, FS_CardinalityType
  <2> HIDE DEF t
  <2>11. Cardinality(U(s)) <= SumFunctionOnSet(e, s)
    BY <2>2, <2>3, <2>5, <2>6, <2>7, <2>8, <2>9, <2>10
  <2>12. QED BY <2>3, <2>8, <2>11
<1>4. \A s \in SUBSET D : g[s] \in K
  <2> HIDE DEF K, pick, g
  <2>1. QED BY <1>1, <1>2, <1>3, RecursionKeeps
<1>5. QED BY <1>4

\* Intervals cover no more than their length together.
LEMMA InstantsBounded ==
  ASSUME NEW G, IsFiniteSet(G), \A p \in G : p[1] \in Int /\ p[2] \in Int /\ p[1] < p[2]
  PROVE  IsFiniteSet(Instants(G)) /\ Cardinality(Instants(G)) <= TotalLength(G)
<1> DEFINE f == [p \in G |-> p[1] .. p[2] - 1]
           e == [p \in G |-> Length(p)]
<1>1. ASSUME NEW p \in G PROVE IsFiniteSet(f[p]) /\ e[p] \in Int /\ Cardinality(f[p]) <= e[p]
  <2>1. p[1] \in Int /\ p[2] - 1 \in Int /\ p[1] < p[2] /\ p[2] \in Int
    OBVIOUS
  <2>2. IsFiniteSet(p[1] .. p[2] - 1)
        /\ Cardinality(p[1] .. p[2] - 1) = IF p[1] > p[2] - 1 THEN 0 ELSE (p[2] - 1) - p[1] + 1
    BY <2>1, FS_Interval
  <2>3. Cardinality(p[1] .. p[2] - 1) = p[2] - p[1]
    BY <2>1, <2>2
  <2>4. e[p] = p[2] - p[1] /\ f[p] = p[1] .. p[2] - 1
    BY DEF Length
  <2>5. QED BY <2>1, <2>2, <2>3, <2>4
<1>2. Instants(G) = UNION {f[p] : p \in G}
  BY DEF Instants
<1>3. TotalLength(G) = SumFunctionOnSet(e, G)
  BY DEF TotalLength, SumFunction
<1> HIDE DEF f, e
<1>4. QED BY <1>1, <1>2, <1>3, UnionBounded

\* Intervals that are apart cover their length together.
LEMMA InstantsAdd ==
  ASSUME NEW G, IsFiniteSet(G), \A p \in G : p[1] \in Int /\ p[2] \in Int /\ p[1] < p[2],
         \A p, q \in G : p = q \/ p[2] <= q[1] \/ q[2] <= p[1]
  PROVE  Cardinality(Instants(G)) = TotalLength(G)
<1> DEFINE e == [p \in G |-> Length(p)]
           K == {s \in SUBSET G : IsFiniteSet(Instants(s)) /\ Cardinality(Instants(s)) = SumFunctionOnSet(e, s)}
           pick == [s \in SUBSET G |-> CHOOSE x \in s : TRUE]
           g == [s \in SUBSET G |-> s]
<1>0. \A p \in G : e[p] \in Int /\ e[p] = p[2] - p[1]
  BY DEF Length
<1>1. g[{}] \in K
  <2>1. Instants({}) = {}
    BY DEF Instants
  <2>2. SumFunctionOnSet(e, {}) = 0
    <3> HIDE DEF e
    <3>1. QED BY <1>0, SumFacts
  <2>3. QED BY <2>1, <2>2, FS_EmptySet
<1>2. \A s \in SUBSET G : s # {} => pick[s] \in s
  OBVIOUS
<1>3. ASSUME NEW s \in SUBSET G, s # {}, g[s \ {pick[s]}] \in K PROVE g[s] \in K
  <2> DEFINE x == pick[s]
             t == s \ {x}
             own == x[1] .. x[2] - 1
  <2>1. x \in s /\ x \in G /\ x[1] \in Int /\ x[2] \in Int /\ x[1] < x[2]
    BY <1>2, <1>3
  <2> HIDE DEF x
  <2>2. t \in SUBSET G /\ IsFiniteSet(Instants(t)) /\ Cardinality(Instants(t)) = SumFunctionOnSet(e, t)
    BY <1>3 DEF x
  <2>3. Instants(s) = Instants(t) \cup own
    BY <2>1 DEF Instants
  <2>4. Instants(t) \cap own = {}
    <3>1. ASSUME NEW i \in own, NEW q \in t PROVE i \notin q[1] .. q[2] - 1
      <4>1. q \in G /\ q # x /\ q[1] \in Int /\ q[2] \in Int
        BY <2>2
      <4>2. x[2] <= q[1] \/ q[2] <= x[1]
        BY <2>1, <4>1
      <4>3. QED BY <2>1, <4>1, <4>2
    <3>2. QED BY <3>1 DEF Instants
  <2>5. IsFiniteSet(own) /\ Cardinality(own) = x[2] - x[1]
    <3>1. IsFiniteSet(own) /\ Cardinality(own) = IF x[1] > x[2] - 1 THEN 0 ELSE (x[2] - 1) - x[1] + 1
      BY <2>1, FS_Interval
    <3>2. QED BY <2>1, <3>1
  <2>6. IsFiniteSet(s) /\ \A y \in s : e[y] \in Int
    BY <1>0, FS_Subset
  <2>7. e[x] = x[2] - x[1]
    BY <1>0, <2>1
  <2> HIDE DEF own, e
  <2>8. SumFunctionOnSet(e, s) = e[x] + SumFunctionOnSet(e, t)
    BY <2>1, <2>6, SumFacts
  <2>9. Cardinality(Instants(t) \cap own) = 0
    BY <2>4, FS_EmptySet
  <2>10. /\ IsFiniteSet(Instants(t) \cup own)
         /\ Cardinality(Instants(t) \cup own)
              = Cardinality(Instants(t)) + Cardinality(own) - Cardinality(Instants(t) \cap own)
    BY <2>2, <2>5, FS_Union
  <2>11. Cardinality(Instants(t)) \in Nat /\ Cardinality(own) \in Nat
    BY <2>2, <2>5, FS_CardinalityType
  <2> HIDE DEF t
  <2>12. Cardinality(Instants(s)) = SumFunctionOnSet(e, s)
    BY <2>2, <2>3, <2>5, <2>7, <2>8, <2>9, <2>10, <2>11
  <2>13. QED BY <2>3, <2>10, <2>12
<1>4. \A s \in SUBSET G : g[s] \in K
  <2> HIDE DEF K, pick, g
  <2>1. QED BY <1>1, <1>2, <1>3, RecursionKeeps
<1>5. TotalLength(G) = SumFunctionOnSet(e, G)
  BY DEF TotalLength, SumFunction
<1>6. QED BY <1>4, <1>5

\* What two intervals have in common.
LEMMA CommonIs ==
  ASSUME NEW u, NEW b, u[1] \in Int, u[2] \in Int, b[1] \in Int, b[2] \in Int
  PROVE  LET p == Common(<<u, b>>) IN
         /\ p[1] \in Int /\ p[2] \in Int
         /\ \A i \in Int : (p[1] <= i /\ i < p[2]) <=> (u[1] <= i /\ i < u[2] /\ b[1] <= i /\ i < b[2])
         /\ u[1] <= p[1] /\ b[1] <= p[1] /\ p[2] <= u[2] /\ p[2] <= b[2]
<1>1. Max({u[1], b[1]}) = IF u[1] <= b[1] THEN b[1] ELSE u[1]
  BY OfTwo
<1>2. Min({u[2], b[2]}) = IF u[2] <= b[2] THEN u[2] ELSE b[2]
  BY OfTwo
<1>3. Common(<<u, b>>)[1] = Max({u[1], b[1]}) /\ Common(<<u, b>>)[2] = Min({u[2], b[2]})
  BY DEF Common
<1>4. QED BY <1>1, <1>2, <1>3

\* The loop of _between_with_agents_ms meets every pair of intervals that have an
\* instant in common, so what it adds up is the length of the intersection.
LEMMA OverlapsAddUp ==
  ASSUME NEW X \in SUBSET Int, IsFiniteSet(X), NEW Y \in SUBSET Int, IsFiniteSet(Y)
  PROVE  TotalLength(Overlaps(Stretches(X), Stretches(Y))) = Cardinality(X \cap Y)
<1> DEFINE U == Stretches(X)
           B == Stretches(Y)
           G == Overlaps(U, B)
           f == [m \in Met(U, B) |-> Common(m)]
<1>1. /\ \A u \in U : u[1] \in Int /\ u[2] \in Int /\ u[1] < u[2] /\ u[1] .. u[2] - 1 \subseteq X
      /\ \A u, v \in U : u = v \/ u[2] <= v[1] \/ v[2] <= u[1]
  BY StretchesApart
<1>2. /\ \A b \in B : b[1] \in Int /\ b[2] \in Int /\ b[1] < b[2] /\ b[1] .. b[2] - 1 \subseteq Y
      /\ \A b, c \in B : b = c \/ b[2] <= c[1] \/ c[2] <= b[1]
  BY StretchesApart
<1>3. IsFiniteSet(U) /\ IsFiniteSet(B)
  BY StretchesFinite
<1>4. \A x \in X : \E u \in U : u[1] <= x /\ x < u[2]
  BY StretchOf
<1>5. \A y \in Y : \E b \in B : b[1] <= y /\ y < b[2]
  BY StretchOf
<1> HIDE DEF U, B
<1>6. \A p \in G : \E u \in U, b \in B : p = Common(<<u, b>>) /\ p[1] < p[2]
  <2>1. ASSUME NEW p \in G PROVE \E u \in U, b \in B : p = Common(<<u, b>>) /\ p[1] < p[2]
    <3>1. PICK m \in Met(U, B) : p = Common(m) /\ p[1] < p[2]
      BY DEF Overlaps
    <3>2. PICK u \in U, b \in B : m = <<u, b>>
      BY DEF Met
    <3>3. QED BY <3>1, <3>2
  <2>2. QED BY <2>1
<1>7. IsFiniteSet(G)
  <2>1. IsFiniteSet(U \X B)
    BY <1>3, FS_Product
  <2>2. Met(U, B) \in SUBSET (U \X B)
    BY DEF Met
  <2>3. IsFiniteSet(Met(U, B))
    BY <2>1, <2>2, FS_Subset
  <2>4. G \in SUBSET {f[m] : m \in Met(U, B)}
    BY DEF Overlaps
  <2> HIDE DEF f, G
  <2>5. IsFiniteSet({f[m] : m \in Met(U, B)})
    BY <2>3, ImageFinite
  <2>6. QED BY <2>4, <2>5, FS_Subset
<1> HIDE DEF f
<1>8. \A p \in G : p[1] \in Int /\ p[2] \in Int /\ p[1] < p[2]
  BY <1>1, <1>2, <1>6, CommonIs
<1>9. \A p, q \in G : p = q \/ p[2] <= q[1] \/ q[2] <= p[1]
  <2>1. ASSUME NEW p \in G, NEW q \in G PROVE p = q \/ p[2] <= q[1] \/ q[2] <= p[1]
    <3>1. PICK u \in U, b \in B : p = Common(<<u, b>>)
      BY <1>6
    <3>2. PICK v \in U, c \in B : q = Common(<<v, c>>)
      BY <1>6
    <3>3. CASE u = v /\ b = c
      BY <3>1, <3>2, <3>3
    <3>4. p[1] \in Int /\ p[2] \in Int /\ q[1] \in Int /\ q[2] \in Int
      BY <1>8
    <3>5. u[1] <= p[1] /\ b[1] <= p[1] /\ p[2] <= u[2] /\ p[2] <= b[2]
      BY <1>1, <1>2, <3>1, CommonIs
    <3>6. v[1] <= q[1] /\ c[1] <= q[1] /\ q[2] <= v[2] /\ q[2] <= c[2]
      BY <1>1, <1>2, <3>2, CommonIs
    <3>7. u[1] \in Int /\ u[2] \in Int /\ v[1] \in Int /\ v[2] \in Int
          /\ b[1] \in Int /\ b[2] \in Int /\ c[1] \in Int /\ c[2] \in Int
      BY <1>1, <1>2
    <3>8. CASE u # v
      BY <1>1, <3>4, <3>5, <3>6, <3>7, <3>8
    <3>9. CASE b # c
      BY <1>2, <3>4, <3>5, <3>6, <3>7, <3>9
    <3>10. QED BY <3>3, <3>8, <3>9
  <2>2. QED BY <2>1
<1>10. Instants(G) \subseteq X \cap Y
  <2>1. ASSUME NEW p \in G, NEW i \in p[1] .. p[2] - 1 PROVE i \in X \cap Y
    <3>1. PICK u \in U, b \in B : p = Common(<<u, b>>)
      BY <1>6
    <3>2. i \in Int /\ p[1] <= i /\ i < p[2]
      BY <1>8
    <3>3. u[1] <= i /\ i < u[2] /\ b[1] <= i /\ i < b[2]
      BY <1>1, <1>2, <3>1, <3>2, CommonIs
    <3>4. i \in u[1] .. u[2] - 1 /\ i \in b[1] .. b[2] - 1
      BY <1>1, <1>2, <3>2, <3>3
    <3>5. QED BY <1>1, <1>2, <3>4
  <2>2. QED BY <2>1 DEF Instants
<1>11. X \cap Y \subseteq Instants(G)
  <2>1. ASSUME NEW i \in X \cap Y PROVE i \in Instants(G)
    <3>1. PICK u \in U, b \in B : u[1] <= i /\ i < u[2] /\ b[1] <= i /\ i < b[2]
      BY <1>4, <1>5
    <3>2. i \in Int /\ u[1] \in Int /\ u[2] \in Int /\ b[1] \in Int /\ b[2] \in Int
      BY <1>1, <1>2
    <3>3. <<u, b>> \in Met(U, B) => i \in Instants(G)
      <4> SUFFICES ASSUME <<u, b>> \in Met(U, B) PROVE i \in Instants(G)
        OBVIOUS
      <4> DEFINE p == Common(<<u, b>>)
      <4>1. p[1] \in Int /\ p[2] \in Int /\ p[1] <= i /\ i < p[2]
        BY <3>1, <3>2, CommonIs
      <4>2. p \in G
        BY <4>1, <3>2 DEF Overlaps
      <4> HIDE DEF p, G
      <4>3. i \in p[1] .. p[2] - 1
        BY <3>2, <4>1
      <4>4. QED BY <4>2, <4>3 DEF Instants
    <3>4. <<u, b>> \in Met(U, B)
      <4>1. (u[2] < b[2] /\ \A c \in B : c[2] <= u[2] \/ b[2] <= c[2])
              \/ (b[2] <= u[2] /\ \A v \in U : v[2] < b[2] \/ u[2] <= v[2])
        <5>1. CASE u[2] < b[2]
          <6>1. \A c \in B : c[2] <= u[2] \/ b[2] <= c[2]
            <7>1. ASSUME NEW c \in B PROVE c[2] <= u[2] \/ b[2] <= c[2]
              <8>1. c[1] \in Int /\ c[2] \in Int /\ c[1] < c[2] /\ (b = c \/ b[2] <= c[1] \/ c[2] <= b[1])
                BY <1>2
              <8>2. QED BY <3>1, <3>2, <5>1, <8>1
            <7>2. QED BY <7>1
          <6>2. QED BY <5>1, <6>1
        <5>2. CASE b[2] <= u[2]
          <6>1. \A v \in U : v[2] < b[2] \/ u[2] <= v[2]
            <7>1. ASSUME NEW v \in U PROVE v[2] < b[2] \/ u[2] <= v[2]
              <8>1. v[1] \in Int /\ v[2] \in Int /\ v[1] < v[2] /\ (u = v \/ u[2] <= v[1] \/ v[2] <= u[1])
                BY <1>1
              <8>2. QED BY <3>1, <3>2, <5>2, <8>1
            <7>2. QED BY <7>1
          <6>2. QED BY <5>2, <6>1
        <5>3. QED BY <3>2, <5>1, <5>2
      <4>2. QED BY <4>1 DEF Met
    <3>5. QED BY <3>3, <3>4
  <2>2. QED BY <2>1
<1> HIDE DEF G
<1>12. Instants(G) = X \cap Y
  BY <1>10, <1>11
<1>13. QED BY <1>7, <1>8, <1>9, <1>12, InstantsAdd DEF G, U, B

\* What is known of an agent: when it works, and for how long.
Worker(w) ==
  /\ \A i \in w.intervals : i[1] \in Time /\ i[2] \in Time /\ i[1] < i[2]
  /\ \A i, j \in w.intervals : i = j \/ i[2] <= j[1] \/ j[2] <= i[1]
  /\ IsFiniteSet(Instants(w.intervals)) /\ w.active \in Int /\ Cardinality(Instants(w.intervals)) <= w.active

\* The pieces of a thread are finitely many.
LEMMA TilesFinite ==
  ASSUME NEW lo \in Int, NEW hi \in Int, NEW P, Tiles(P, lo, hi)
  PROVE  IsFiniteSet(P)
<1> DEFINE f == [p \in P |-> p[1]]
<1>1. \A p \in P : f[p] \in lo .. hi
  BY DEF Tiles
<1>2. \A p, q \in P : f[p] = f[q] => p = q
  <2>1. ASSUME NEW p \in P, NEW q \in P, p[1] = q[1] PROVE p = q
    <3>1. p[1] \in Int /\ lo <= p[1] /\ p[1] < p[2] /\ p[2] <= hi /\ p[2] \in Int /\ q[1] < q[2]
      BY DEF Tiles
    <3>2. p[1] < hi
      BY <3>1
    <3>3. QED BY <2>1, <3>1, <3>2 DEF Tiles
  <2>2. QED BY <2>1
<1>3. IsFiniteSet(lo .. hi)
  BY FS_Interval
<1>4. f \in [P -> lo .. hi]
  BY <1>1
<1> HIDE DEF f
<1>5. f \in Injection(P, lo .. hi)
  BY <1>2, <1>4 DEF Injection, IsInjective
<1>6. QED BY <1>3, <1>5, FS_Injection

\* A subagent's intervals are apart, and no longer than its active time.
LEMMA SubagentWorks ==
  ASSUME SessionInv, NEW a \in Agents, sub[a] # <<>>
  PROVE  Worker(Subagent(a))
<1> DEFINE evs == sub[a]
           stamps == {e.ts : e \in ToSet(evs)}
           lo == Min(stamps)
           hi == Max(stamps)
           spans == ToolSpans(evs, hi, {e.ts : e \in {x \in ToSet(evs) : x.kind = "user"}})
           calls == UNION {s.pieces : s \in spans}
           pieces == ThreadPieces(lo, hi, stamps, UnionOf(calls))
           working == {p \in pieces : p[3] \in {"model", "tool"}}
<1>1. Subagent(a) = [id |-> a, active |-> TotalLength(working), intervals |-> Stretches(Instants(working))]
  BY DEF Subagent
<1>2. evs \in Seq(Event) /\ evs # <<>>
  BY DEF SessionInv
<1>3. stamps \in SUBSET Time /\ stamps # {}
  <2>1. 1 \in DOMAIN evs /\ \A e \in ToSet(evs) : e \in Event
    BY <1>2 DEF ToSet
  <2>2. evs[1] \in ToSet(evs)
    BY <2>1 DEF ToSet
  <2> HIDE DEF evs
  <2>3. QED BY <2>1, <2>2, EventIsTimed
<1>4. stamps \in SUBSET Int /\ IsFiniteSet(stamps)
  BY <1>3, FiniteTimes
<1> HIDE DEF evs, stamps
<1>5. lo \in stamps /\ hi \in stamps /\ lo <= hi
  <2>1. lo \in stamps /\ \A x \in stamps : lo <= x
    BY <1>3, <1>4, MinIsLeast
  <2>2. hi \in stamps
    BY <1>3, <1>4, MaxIsGreatest
  <2>3. QED BY <2>1, <2>2
<1>6. lo \in Int /\ hi \in Int /\ lo \in Time /\ hi \in Time
  BY <1>3, <1>4, <1>5
<1> HIDE DEF lo, hi
<1>7. Proper(UnionOf(calls))
  <2>1. \A x \in spans : Proper(x.pieces)
    BY <1>2, <1>6, ToolSpansProper
  <2> HIDE DEF spans
  <2>2. Proper(calls)
    BY <2>1 DEF Proper
  <2> HIDE DEF calls
  <2>3. QED BY <2>2, UnionProper
<1> HIDE DEF calls
<1>8. Tiles(pieces, lo, hi)
  BY <1>4, <1>5, <1>6, <1>7, ThreadTiles
<1> HIDE DEF pieces
<1>9. IsFiniteSet(working) /\ \A p \in working : p[1] \in Int /\ p[2] \in Int /\ p[1] < p[2] /\ lo <= p[1] /\ p[2] <= hi
  <2>1. IsFiniteSet(pieces)
    BY <1>6, <1>8, TilesFinite
  <2>2. QED BY <1>8, <2>1, FS_Subset DEF Tiles
<1> HIDE DEF working
<1> DEFINE S == Instants(working)
<1>10. IsFiniteSet(S) /\ Cardinality(S) <= TotalLength(working)
  BY <1>9, InstantsBounded
<1>11. \A x \in S : x \in Int /\ lo <= x /\ x < hi
  BY <1>6, <1>9 DEF Instants
<1>12. TotalLength(working) \in Int
  <2> DEFINE e == [p \in working |-> Length(p)]
  <2>1. \A p \in working : e[p] \in Int
    BY <1>9 DEF Length
  <2>2. TotalLength(working) = SumFunctionOnSet(e, working)
    BY DEF TotalLength, SumFunction
  <2> HIDE DEF e
  <2>3. QED BY <1>9, <2>1, <2>2, SumFacts
<1> HIDE DEF S
<1> DEFINE G == Stretches(S)
<1>13. S \in SUBSET Int
  BY <1>11
<1>14. /\ \A p \in G : /\ p[1] \in S /\ p[2] - 1 \in S /\ p[1] \in Int /\ p[2] \in Int /\ p[1] < p[2]
                       /\ p[1] .. p[2] - 1 \subseteq S
       /\ \A p, q \in G : p = q \/ p[2] <= q[1] \/ q[2] <= p[1]
  BY <1>13, StretchesApart
<1> HIDE DEF G
<1>15. \A p \in G : p[1] \in Time /\ p[2] \in Time
  BY <1>6, <1>11, <1>14, TurnsAssumption DEF Time
<1>16. Instants(G) \in SUBSET S
  BY <1>14 DEF Instants
<1>17. IsFiniteSet(Instants(G)) /\ Cardinality(Instants(G)) <= Cardinality(S)
  BY <1>10, <1>16, FS_Subset
<1>18. Cardinality(Instants(G)) <= TotalLength(working)
  <2>1. Cardinality(Instants(G)) \in Nat /\ Cardinality(S) \in Nat
    BY <1>10, <1>17, FS_CardinalityType
  <2>2. QED BY <1>10, <1>12, <1>17, <2>1
<1>19. Subagent(a).intervals = G /\ Subagent(a).active = TotalLength(working)
  BY <1>1 DEF G, S
<1>20. QED BY <1>12, <1>14, <1>15, <1>17, <1>18, <1>19 DEF Worker

\* So is that of a background shell.
LEMMA ShellWorks ==
  ASSUME SessionInv, Stamps # {}, NEW c \in Shells
  PROVE  Worker(Shell(c))
<1> DEFINE ends == {e.ts : e \in {x \in Read : x.kind = "user" /\ x.id = c.id /\ c.ts <= x.ts}}
           end == IF ends # {} THEN Min(ends) ELSE WindowEnd
           active == Min({end - c.ts, KCap})
           G == {<<c.ts, c.ts + active>>} \ {<<c.ts, c.ts>>}
<1>1. Shell(c) = [id |-> c, active |-> active, intervals |-> G]
  BY DEF Shell
<1>2. c \in Read
  BY DEF Shells
<1>3. WindowEnd \in Time /\ \A x \in Times(Read) : x \in Time /\ x <= WindowEnd
  BY WindowBounds
<1>4. c.ts \in Time /\ c.ts <= WindowEnd
  BY <1>2, <1>3 DEF Times
<1>5. Time \subseteq Int /\ Time = 0 .. MaxTime /\ MaxTime \in Nat
  BY TurnsAssumption DEF Time
<1>6. ends \in SUBSET Time /\ \A x \in ends : c.ts <= x
  BY <1>3 DEF Times
<1>7. end \in Time /\ c.ts <= end
  <2>1. CASE ends = {}
    BY <1>3, <1>4, <2>1
  <2>2. CASE ends # {}
    <3>1. ends \in SUBSET Int /\ IsFiniteSet(ends)
      BY <1>6, FiniteTimes
    <3> HIDE DEF ends
    <3>2. Min(ends) \in ends
      BY <2>2, <3>1, MinIsLeast
    <3>3. QED BY <1>6, <2>2, <3>2
  <2>3. QED BY <2>1, <2>2
<1> HIDE DEF ends, end
<1>8. active \in Nat /\ active <= end - c.ts
  <2>1. KCap \in Nat
    BY TimeAccountingAssumption
  <2> DEFINE left == end - c.ts
  <2>2. left \in Int /\ left >= 0 /\ KCap \in Int
    BY <1>4, <1>5, <1>7, <2>1
  <2> HIDE DEF left
  <2>3. Min({left, KCap}) = IF left <= KCap THEN left ELSE KCap
    BY <2>2, OfTwo
  <2>4. active = Min({left, KCap})
    BY DEF left
  <2>5. active \in Nat /\ active <= left
    BY <2>1, <2>2, <2>3, <2>4
  <2>6. QED BY <2>5 DEF left
<1> HIDE DEF active
<1> DEFINE lo == c.ts
           hi == c.ts + active
<1>9. lo \in Time /\ hi \in Time /\ lo <= hi /\ lo \in Int /\ hi \in Int /\ active = hi - lo
  BY <1>4, <1>5, <1>7, <1>8
<1>10. G = IF lo = hi THEN {} ELSE {<<lo, hi>>}
  OBVIOUS
<1> HIDE DEF G, lo, hi
<1>11. IsFiniteSet(Instants(G)) /\ Cardinality(Instants(G)) <= active
  <2>1. CASE lo = hi
    <3>1. Instants(G) = {}
      BY <1>10, <2>1 DEF Instants
    <3>2. QED BY <1>8, <3>1, FS_EmptySet
  <2>2. CASE lo # hi
    <3>1. Instants(G) = lo .. hi - 1
      BY <1>10, <2>2 DEF Instants
    <3>2. hi - 1 \in Int
      BY <1>9
    <3>3. IsFiniteSet(lo .. hi - 1) /\ Cardinality(lo .. hi - 1) = IF lo > hi - 1 THEN 0 ELSE (hi - 1) - lo + 1
      BY <1>9, <3>2, FS_Interval
    <3>4. QED BY <1>9, <2>2, <3>1, <3>3
  <2>3. QED BY <2>1, <2>2
<1>12. \A i \in G : i[1] \in Time /\ i[2] \in Time /\ i[1] < i[2] /\ i = <<lo, hi>>
  BY <1>9, <1>10
<1>13. Shell(c).intervals = G /\ Shell(c).active = active
  BY <1>1
<1>14. QED BY <1>8, <1>11, <1>12, <1>13 DEF Worker

\* Finitely many agents have written.
FewAgents == IsFiniteSet({a \in Agents : sub[a] # <<>>})

\* So are those of all parallel agents, which are finitely many.
LEMMA WorkingIs ==
  ASSUME SessionInv, Stamps # {}, FewAgents
  PROVE  IsFiniteSet(Working) /\ \A w \in Working : Worker(w)
<1> DEFINE A == {a \in Agents : sub[a] # <<>>}
           fa == [a \in A |-> Subagent(a)]
           fc == [c \in Shells |-> Shell(c)]
<1>1. Working = {fa[a] : a \in A} \cup {fc[c] : c \in Shells}
  BY DEF Working
<1>2. \A a \in A : Worker(fa[a])
  BY SubagentWorks
<1>3. \A c \in Shells : Worker(fc[c])
  BY ShellWorks
<1> HIDE DEF fa, fc
<1>4. IsFiniteSet(A)
  BY DEF FewAgents
<1>5. IsFiniteSet(Shells)
  <2>1. events \in Seq(Event)
    BY DEF SessionInv, WorkInv, IInv, TypeOK
  <2>2. IsFiniteSet(1 .. Len(events)) /\ DOMAIN events = 1 .. Len(events)
    BY <2>1, FS_Interval
  <2>3. Read = {events[i] : i \in 1 .. Len(events)}
    BY <2>2 DEF Read
  <2>4. IsFiniteSet(Read)
    BY <2>2, <2>3, ImageFinite
  <2>5. QED BY <2>4, FS_Subset DEF Shells
<1>6. IsFiniteSet({fa[a] : a \in A}) /\ IsFiniteSet({fc[c] : c \in Shells})
  <2> HIDE DEF A
  <2>1. QED BY <1>4, <1>5, ImageFinite
<1>7. IsFiniteSet(Working)
  BY <1>1, <1>6, FS_Union
<1>8. QED BY <1>1, <1>2, <1>3, <1>7

-----------------------------------------------------------------------------
(* The rows of the grid.                                                     *)

CallKinds == {"tool", "dispatch_wait", "permission_wait", "polling", "tool_over_cap"}
ThreadKinds == CallKinds \cup {"model", "no_activity"}

\* The pieces of a call have the kinds of calls.
LEMMA SpanKinds ==
  ASSUME NEW evs, NEW scopeEnd, NEW starts, NEW x \in ToolSpans(evs, scopeEnd, starts), NEW p \in x.pieces
  PROVE  p[3] \in CallKinds
<1> DEFINE D == Timed(evs, scopeEnd)
<1>1. PICK i \in DOMAIN D : x = Span(D, starts, i)
  BY DEF ToolSpans, Spans
<1> HIDE DEF D
<1> DEFINE ran == D[i].start + PermissionWait(D, i)
           group == Group(D, starts, i)
           credited == ran + Min({Runtime(D, i), Limit(D, group, i)})
           rest == Rest(D, group, i)
<1>2. p \in {<<D[i].start, ran, "permission_wait">>, <<ran, credited, "tool">>, <<credited, D[i].end, rest>>}
  BY <1>1 DEF Span
<1>3. rest \in CallKinds
  BY DEF Rest, CallKinds
<1> HIDE DEF ran, credited, rest
<1>4. QED BY <1>2, <1>3 DEF CallKinds

\* So have those of the calls of a turn together.
LEMMA UnionKinds ==
  ASSUME NEW pieces, \A p \in pieces : p[3] \in CallKinds
  PROVE  \A q \in UnionOf(pieces) : q[3] \in CallKinds
<1> DEFINE S == UNION {{p[1], p[2]} : p \in pieces}
           kinds(b) == {p[3] : p \in {q \in pieces : q[1] <= b[1] /\ b[2] <= q[2]}}
           ranks(b) == {k \in DOMAIN Priority : Priority[k] \in kinds(b)}
           first(b) == Priority[Min(ranks(b))]
<1>1. UnionOf(pieces) = {<<b[1], b[2], first(b)>> : b \in {c \in Neighbours(S) : kinds(c) # {}}}
  BY DEF UnionOf
<1>2. DOMAIN Priority = 1 .. 5 /\ \A k \in 1 .. 5 : Priority[k] \in CallKinds
  BY DEF Priority, CallKinds
<1>3. \A c \in CallKinds : \E k \in 1 .. 5 : Priority[k] = c
  <2>1. /\ Priority[1] = "tool" /\ Priority[2] = "dispatch_wait" /\ Priority[3] = "permission_wait"
        /\ Priority[4] = "polling" /\ Priority[5] = "tool_over_cap"
    BY DEF Priority
  <2>2. QED BY <2>1 DEF CallKinds
<1>4. \A b : \A c \in kinds(b) : c \in CallKinds
  OBVIOUS
<1> HIDE DEF kinds
<1>5. ASSUME NEW b, kinds(b) # {} PROVE first(b) \in CallKinds
  <2>1. ranks(b) # {}
    BY <1>2, <1>3, <1>4, <1>5
  <2>2. ranks(b) \in SUBSET (1 .. 5) /\ ranks(b) \in SUBSET Int
    BY <1>2
  <2> HIDE DEF ranks
  <2>3. IsFiniteSet(ranks(b))
    <3> DEFINE n == 5
    <3>1. n \in Int /\ ranks(b) \in SUBSET (1 .. n)
      BY <2>2
    <3> HIDE DEF n
    <3>2. IsFiniteSet(1 .. n)
      BY <3>1, FS_Interval
    <3>3. QED BY <3>1, <3>2, FS_Subset
  <2>4. Min(ranks(b)) \in ranks(b)
    BY <2>1, <2>2, <2>3, MinIsLeast
  <2>5. QED BY <1>2, <2>2, <2>4
<1> HIDE DEF first
<1> HIDE DEF S
<1>6. \A q \in UnionOf(pieces) : \E b : kinds(b) # {} /\ q[3] = first(b)
  <2>1. \A q \in UnionOf(pieces) : \E b : kinds(b) # {} /\ q = <<b[1], b[2], first(b)>>
    BY <1>1
  <2>2. QED BY <2>1
<1>7. QED BY <1>5, <1>6

\* The pieces of a thread are of these, or the model's, or idle.
LEMMA PieceKinds ==
  ASSUME NEW lo, NEW hi, NEW stamps, NEW pieces, \A p \in pieces : p[3] \in CallKinds
  PROVE  \A q \in ThreadPieces(lo, hi, stamps, pieces) : q[3] \in ThreadKinds
<1> DEFINE clipped == {q \in {<<Max({p[1], lo}), Min({p[2], hi}), p[3]>> : p \in pieces} : q[1] < q[2]}
           points == {lo, hi} \cup {ts \in stamps : lo < ts /\ ts < hi} \cup UNION {{p[1], p[2]} : p \in clipped}
           over(b) == {p \in clipped : p[1] <= b[1] /\ b[1] < p[2]}
           kind(b) == IF over(b) # {} THEN (CHOOSE p \in over(b) : TRUE)[3]
                      ELSE IF b[2] - b[1] <= KBridge THEN "model" ELSE "no_activity"
<1>1. ThreadPieces(lo, hi, stamps, pieces) = {<<b[1], b[2], kind(b)>> : b \in Neighbours(points)}
  BY DEF ThreadPieces
<1>2. \A p \in clipped : p[3] \in CallKinds
  <2> DEFINE from(p) == Max({p[1], lo})
             to(p) == Min({p[2], hi})
  <2>1. \A q \in clipped : \E p \in pieces : q = <<from(p), to(p), p[3]>>
    OBVIOUS
  <2> HIDE DEF from, to, clipped
  <2>2. \A q \in clipped : \E p \in pieces : q[3] = p[3]
    BY <2>1
  <2>3. QED BY <2>2
<1> HIDE DEF clipped, points
<1>3. \A b : kind(b) \in ThreadKinds
  <2>1. ASSUME NEW b PROVE kind(b) \in ThreadKinds
    <3>1. CASE over(b) # {}
      <4>1. (CHOOSE p \in over(b) : TRUE) \in over(b)
        BY <3>1
      <4>2. (CHOOSE p \in over(b) : TRUE)[3] \in CallKinds
        BY <1>2, <4>1
      <4> HIDE DEF over
      <4>3. QED BY <3>1, <4>2 DEF ThreadKinds
    <3>2. CASE over(b) = {}
      BY <3>2 DEF ThreadKinds
    <3>3. QED BY <3>1, <3>2
  <2>2. QED BY <2>1
<1> HIDE DEF kind
<1>4. \A q \in ThreadPieces(lo, hi, stamps, pieces) : \E b : q[3] = kind(b)
  BY <1>1
<1>5. QED BY <1>3, <1>4

\* The segments of the partition, by owner and kind.
Between(s) == s.owner = "between" /\ s.kind = "no_activity"
Credited(s) == s.owner = "interactive" /\ s.kind = "read_write"
OfTurn(s) == s.owner \in {"interactive", "background"} /\ s.kind \in ThreadKinds

\* A segment, field by field.
LEMMA SegmentIs ==
  ASSUME NEW p, NEW owner, NEW n
  PROVE  LET s == Segment(p, owner, n) IN s.owner = owner /\ s.kind = p[3]
BY DEF Segment

\* The time between turns is idle.
LEMMA IdleKinds ==
  ASSUME NEW lo, NEW hi, NEW s \in Idle(lo, hi)
  PROVE  Between(s)
<1> DEFINE p == <<lo, hi, "no_activity">>
<1>1. s = Segment(p, "between", 0)
  BY DEF Idle
<1>2. p[3] = "no_activity"
  OBVIOUS
<1> HIDE DEF p
<1>3. QED BY <1>1, <1>2, SegmentIs DEF Between

\* The kinds and owners of the segments of a turn.
LEMMA TurnKinds ==
  ASSUME NEW T, NEW spans, \A x \in spans : \A p \in x.pieces : p[3] \in CallKinds, NEW n,
         NEW s \in TurnSegments(T, spans, n)
  PROVE  Between(s) \/ Credited(s) \/ OfTurn(s)
<1> DEFINE from == IF n = 1 THEN WindowStart ELSE T[n - 1].end
           credit == Credit(T, n, from)
           called == UnionOf(PiecesOf(T, spans, n))
           pieces == ThreadPieces(T[n].start, T[n].end, {e.ts : e \in Read}, called)
           active == TotalLength({p \in pieces : p[3] \in AgentActive})
           owner == IF T[n].scripted \/ active > KTurn THEN "background" ELSE "interactive"
           idle == Idle(from, T[n].start - credit)
           rw == <<T[n].start - credit, T[n].start, "read_write">>
           C == {Segment(rw, "interactive", n) : c \in {credit} \ {0}}
           R == {Segment(p, owner, n) : p \in pieces}
<1>1. TurnSegments(T, spans, n) = (idle \cup C) \cup R
  BY DEF TurnSegments
<1>2. \A p \in pieces : p[3] \in ThreadKinds
  <2>1. \A p \in PiecesOf(T, spans, n) : p[3] \in CallKinds
    BY DEF PiecesOf
  <2>2. \A p \in called : p[3] \in CallKinds
    BY <2>1, UnionKinds
  <2> HIDE DEF called
  <2>3. QED BY <2>2, PieceKinds
<1>3. owner \in {"interactive", "background"} /\ rw[3] = "read_write"
  OBVIOUS
<1>4. \A r \in idle : Between(r)
  BY IdleKinds
<1> HIDE DEF idle, pieces, owner, rw, credit
<1>5. \A r \in C : Credited(r)
  BY <1>3, SegmentIs DEF Credited
<1>6. \A r \in R : OfTurn(r)
  BY <1>2, <1>3, SegmentIs DEF OfTurn
<1> HIDE DEF C, R
<1>7. QED BY <1>1, <1>4, <1>5, <1>6

\* Every segment is idle time between turns, a prompt's credit, or a turn's.
LEMMA PartitionKinds ==
  ASSUME SessionInv, Stamps # {}
  PROVE  \A s \in Partition : Between(s) \/ Credited(s) \/ OfTurn(s)
<1> DEFINE T == MainTurns
           spans == ToolSpans(events, WindowEnd, PromptsOf(T))
           last == IF T = <<>> THEN WindowStart ELSE Last(T).end
           idle == Idle(last, WindowEnd)
<1>1. Partition = (UNION {TurnSegments(T, spans, n) : n \in DOMAIN T}) \cup idle
  BY DEF Partition, PartitionOf
<1>2. \A x \in spans : \A p \in x.pieces : p[3] \in CallKinds
  BY SpanKinds
<1>3. \A s \in idle : Between(s)
  BY IdleKinds
<1> HIDE DEF T, spans, idle
<1>4. \A n \in DOMAIN T : \A s \in TurnSegments(T, spans, n) : Between(s) \/ Credited(s) \/ OfTurn(s)
  BY <1>2, TurnKinds
<1>5. QED BY <1>1, <1>3, <1>4

\* What two parts of a partition cover are apart.
LEMMA CoveredApart ==
  ASSUME NEW lo \in Int, NEW hi \in Int, lo <= hi, NEW P, Parts(P, lo, hi),
         NEW A \in SUBSET P, NEW B \in SUBSET P, A \cap B = {}
  PROVE  /\ IsFiniteSet(Covered(A)) /\ IsFiniteSet(Covered(B)) /\ Covered(A) \cap Covered(B) = {}
         /\ IsFiniteSet(Covered(A \cup B))
         /\ Cardinality(Covered(A \cup B)) = Cardinality(Covered(A)) + Cardinality(Covered(B))
<1>1. ASSUME NEW Q \in SUBSET P, NEW x
      PROVE  x \in Covered(Q) <=> x \in Int /\ lo <= x /\ x < hi /\ \E s \in Q : s.lo <= x /\ x < s.hi
  <2>1. \A s \in Q : s.lo \in Int /\ s.hi \in Int /\ lo <= s.lo /\ s.lo < s.hi /\ s.hi <= hi
    BY DEF Parts
  <2>2. QED BY <2>1 DEF Covered
<1>2. ASSUME NEW Q \in SUBSET P PROVE IsFiniteSet(Covered(Q))
  <2>1. Covered(Q) \subseteq lo .. hi
    BY <1>1
  <2>2. QED BY <2>1, FS_Interval, FS_Subset
<1>3. ASSUME NEW x \in Covered(A), x \in Covered(B) PROVE FALSE
  <2>1. PICK s \in A : s.lo <= x /\ x < s.hi
    BY <1>1
  <2>2. PICK r \in B : r.lo <= x /\ x < r.hi
    BY <1>1, <1>3
  <2>3. x \in Int /\ lo <= x /\ x < hi
    BY <1>1
  <2>4. s = r
    BY <2>1, <2>2, <2>3 DEF Parts
  <2>5. QED BY <2>4
<1>4. Covered(A \cup B) = Covered(A) \cup Covered(B)
  BY DEF Covered
<1>5. Covered(A) \cap Covered(B) = {}
  BY <1>3
<1>6. IsFiniteSet(Covered(A)) /\ IsFiniteSet(Covered(B))
  BY <1>2
<1>7. Cardinality(Covered(A) \cap Covered(B)) = 0
  BY <1>5, FS_EmptySet
<1>8. Cardinality(Covered(A)) \in Nat /\ Cardinality(Covered(B)) \in Nat
  BY <1>6, FS_CardinalityType
<1>9. /\ IsFiniteSet(Covered(A) \cup Covered(B))
      /\ Cardinality(Covered(A) \cup Covered(B))
           = Cardinality(Covered(A)) + Cardinality(Covered(B)) - Cardinality(Covered(A) \cap Covered(B))
  BY <1>6, FS_Union
<1>10. Cardinality(Covered(A \cup B)) = Cardinality(Covered(A)) + Cardinality(Covered(B)) - 0
  BY <1>4, <1>7, <1>9
<1>11. IsFiniteSet(Covered(A \cup B))
  BY <1>4, <1>9
<1>12. QED BY <1>5, <1>6, <1>8, <1>10, <1>11

InteractiveKinds == {"read_write", "model", "tool", "permission_wait", "no_activity"}
BackgroundKinds == {"model", "tool", "dispatch_wait", "tool_over_cap", "polling", "no_activity"}

\* A segment is in one row, with a kind of that row.
LEMMA OneRow ==
  ASSUME NEW s, Between(s) \/ Credited(s) \/ OfTurn(s)
  PROVE  /\ Row(s) = "between" <=> s.owner = "between"
         /\ \/ Row(s) = "interactive" /\ s.kind \in InteractiveKinds
            \/ Row(s) = "background" /\ s.kind \in BackgroundKinds
            \/ Row(s) = "between" /\ s.kind \in {"no_activity"}
<1>1. CASE Between(s)
  BY <1>1 DEF Between, Row
<1>2. CASE Credited(s)
  BY <1>2 DEF Credited, Row, InteractiveKinds
<1>3. CASE OfTurn(s)
  BY <1>3 DEF OfTurn, ThreadKinds, CallKinds, Row, InteractiveKinds, BackgroundKinds
<1>4. QED BY <1>1, <1>2, <1>3

\* Every segment is in one row of the grid.
LEMMA RowsAddUp ==
  ASSUME NEW lo \in Int, NEW hi \in Int, lo <= hi, NEW P, Parts(P, lo, hi),
         \A s \in P : Between(s) \/ Credited(s) \/ OfTurn(s)
  PROVE  /\ Cell(P, "interactive", InteractiveKinds) + Cell(P, "background", BackgroundKinds)
              + Cell(P, "between", {"no_activity"}) = hi - lo
         /\ Covered({s \in P : Row(s) = "between" /\ s.kind \in {"no_activity"}})
              = Covered({s \in P : s.owner = "between"})
<1> DEFINE A == {s \in P : Row(s) = "interactive" /\ s.kind \in InteractiveKinds}
           B == {s \in P : Row(s) = "background" /\ s.kind \in BackgroundKinds}
           C == {s \in P : Row(s) = "between" /\ s.kind \in {"no_activity"}}
<1>1. \A s \in P : /\ Row(s) = "between" <=> s.owner = "between"
                   /\ \/ Row(s) = "interactive" /\ s.kind \in InteractiveKinds
                      \/ Row(s) = "background" /\ s.kind \in BackgroundKinds
                      \/ Row(s) = "between" /\ s.kind \in {"no_activity"}
  BY OneRow
<1>2. A \in SUBSET P /\ B \in SUBSET P /\ C \in SUBSET P /\ A \cup B \in SUBSET P
  OBVIOUS
<1>3. A \cap B = {} /\ (A \cup B) \cap C = {} /\ (A \cup B) \cup C = P
  BY <1>1
<1>4. C = {s \in P : s.owner = "between"}
  BY <1>1
<1>5. /\ Cell(P, "interactive", InteractiveKinds) = Cardinality(Covered(A))
      /\ Cell(P, "background", BackgroundKinds) = Cardinality(Covered(B))
      /\ Cell(P, "between", {"no_activity"}) = Cardinality(Covered(C))
  BY DEF Cell
<1> HIDE DEF A, B, C
<1>6. Cardinality(Covered(A \cup B)) = Cardinality(Covered(A)) + Cardinality(Covered(B))
  BY <1>2, <1>3, CoveredApart
<1>7. Cardinality(Covered((A \cup B) \cup C)) = Cardinality(Covered(A \cup B)) + Cardinality(Covered(C))
  BY <1>2, <1>3, CoveredApart
<1>8. Covered(P) = lo .. hi - 1
  <2>1. \A s \in P : s.lo \in Int /\ s.hi \in Int /\ lo <= s.lo /\ s.lo < s.hi /\ s.hi <= hi
    BY DEF Parts
  <2>2. Covered(P) \subseteq lo .. hi - 1
    BY <2>1 DEF Covered
  <2>3. ASSUME NEW x \in lo .. hi - 1 PROVE x \in Covered(P)
    <3>1. x \in Int /\ lo <= x /\ x < hi
      OBVIOUS
    <3>2. PICK s \in P : s.lo <= x /\ x < s.hi
      BY <3>1 DEF Parts
    <3>3. x \in s.lo .. s.hi - 1
      BY <2>1, <3>1, <3>2
    <3>4. QED BY <3>3 DEF Covered
  <2>4. QED BY <2>2, <2>3
<1>9. Cardinality(lo .. hi - 1) = hi - lo
  <2>1. hi - 1 \in Int
    OBVIOUS
  <2>2. Cardinality(lo .. hi - 1) = IF lo > hi - 1 THEN 0 ELSE (hi - 1) - lo + 1
    BY <2>1, FS_Interval
  <2>3. QED BY <2>2
<1>10. Cardinality(Covered(A)) + Cardinality(Covered(B)) + Cardinality(Covered(C)) = hi - lo
  BY <1>3, <1>6, <1>7, <1>8, <1>9
<1>11. QED BY <1>4, <1>5, <1>10 DEF C

\* Only finitely many agents have written.
LEMMA FewAgentsStay == SessionSpec => []FewAgents
<1>1. SessionInit => FewAgents
  <2> SUFFICES ASSUME SessionInit PROVE FewAgents
    OBVIOUS
  <2>1. {a \in Agents : sub[a] # <<>>} = {}
    BY DEF SessionInit
  <2>2. QED BY <2>1, FS_EmptySet DEF FewAgents
<1>2. SessionInv /\ FewAgents /\ [SessionNext]_<<vars, sub>> => FewAgents'
  <2> SUFFICES ASSUME SessionInv, FewAgents, [SessionNext]_<<vars, sub>> PROVE FewAgents'
    OBVIOUS
  <2> DEFINE wrote == {a \in Agents : sub[a] # <<>>}
  <2>1. CASE UNCHANGED sub
    BY <2>1 DEF FewAgents
  <2>2. ASSUME NEW a \in Agents, Extend(a) PROVE FewAgents'
    <3>1. \A b \in Agents \ {a} : sub'[b] = sub[b]
      BY <2>2 DEF Extend, SessionInv
    <3>2. wrote' \subseteq wrote \cup {a}
      BY <3>1
    <3>3. IsFiniteSet(wrote) /\ IsFiniteSet(wrote \cup {a})
      BY FS_AddElement DEF FewAgents
    <3> HIDE DEF wrote
    <3>4. IsFiniteSet(wrote')
      BY <3>2, <3>3, FS_Subset
    <3>5. QED BY <3>4 DEF FewAgents, wrote
  <2>3. QED BY <2>1, <2>2 DEF SessionNext
<1>3. QED BY <1>1, <1>2, SessionInductive, PTL DEF SessionSpec

\* Whatever the events and the agents, the rows of the grid make up the window; the
\* sweep (_union_and_peak) finds the time some agent worked and the most agents at
\* one instant; the union is no more than the agents' active times together, and
\* the loop of _between_with_agents_ms the time between turns with agents.
THEOREM GridAddsUp == SessionSpec => []Identities
<1>1. SessionInv /\ FewAgents => Identities
  <2> SUFFICES ASSUME SessionInv, FewAgents, Stamps # {}
               PROVE  IdentitiesOf(Partition, Working, UnionAndPeak(Working))
    BY DEF Identities
  <2> DEFINE P == Partition
             W == Working
             u == UnionAndPeak(W)
             between == Covered({s \in P : s.owner = "between"})
  <2>1. Parts(P, WindowStart, WindowEnd) /\ \A s \in P : Between(s) \/ Credited(s) \/ OfTurn(s)
    BY PartitionParts, PartitionKinds
  <2>2. WindowStart \in Int /\ WindowEnd \in Int /\ WindowStart <= WindowEnd
    BY WindowBounds, TurnsAssumption DEF Time
  <2>3. IsFiniteSet(W) /\ \A w \in W : Worker(w)
    BY WorkingIs
  <2> HIDE DEF P, W
  <2>4. Agenda(W)
    BY <2>3 DEF Agenda, Worker
  <2>5. u.union = Cardinality(AgentInstants(W)) /\ u.peak = Max({0} \cup {Cardinality(AtWork(W, x)) : x \in Time})
    BY <2>4, SweepRight
  <2>6. /\ Cell(P, "interactive", InteractiveKinds) + Cell(P, "background", BackgroundKinds)
             + Cell(P, "between", {"no_activity"}) = WindowEnd - WindowStart
        /\ Covered({s \in P : Row(s) = "between" /\ s.kind \in {"no_activity"}}) = between
    BY <2>1, <2>2, RowsAddUp
  <2>8. IsFiniteSet(AgentInstants(W)) /\ IsFiniteSet(between)
    <3> DEFINE B == {s \in P : s.owner = "between"}
    <3>1. B \in SUBSET P /\ {} \in SUBSET P /\ B \cap {} = {}
      OBVIOUS
    <3> HIDE DEF B
    <3>2. IsFiniteSet(Covered(B))
      BY <2>1, <2>2, <3>1, CoveredApart
    <3>3. QED BY <2>4, <3>2, InstantsInTime DEF B
  <2>9. u.union <= SumFunction([a \in W |-> a.active])
    <3> DEFINE f == [a \in W |-> Instants(a.intervals)]
               e == [a \in W |-> a.active]
    <3>1. \A a \in W : IsFiniteSet(f[a]) /\ e[a] \in Int /\ Cardinality(f[a]) <= e[a]
      BY <2>3 DEF Worker
    <3>2. AgentInstants(W) = UNION {f[a] : a \in W}
      BY DEF AgentInstants
    <3>3. SumFunction(e) = SumFunctionOnSet(e, W)
      BY DEF SumFunction
    <3> HIDE DEF f
    <3>4. Cardinality(UNION {f[a] : a \in W}) <= SumFunctionOnSet(e, W)
      <4> HIDE DEF e
      <4>1. QED BY <2>3, <3>1, UnionBounded
    <3>5. QED BY <2>5, <3>2, <3>3, <3>4
  <2>10. WithAgents(P, W) = Cardinality(BetweenTurns(P) \cap AgentInstants(W))
    <3> DEFINE X == AgentInstants(W) \cap WindowStart .. WindowEnd - 1
    <3>1. between \in SUBSET (WindowStart .. WindowEnd - 1)
      <4>1. \A s \in P : s.lo \in Int /\ s.hi \in Int /\ WindowStart <= s.lo /\ s.hi <= WindowEnd
        BY <2>1 DEF Parts
      <4>2. \A s \in P : \A i \in s.lo .. s.hi - 1 : i \in WindowStart .. WindowEnd - 1
        BY <2>2, <4>1
      <4>3. QED BY <4>2 DEF Covered
    <3>2. between = BetweenTurns(P)
      BY DEF BetweenTurns
    <3>3. X \cap between = between \cap AgentInstants(W)
      BY <3>1
    <3>4. X \in SUBSET Int /\ IsFiniteSet(X)
      <4>1. AgentInstants(W) \in SUBSET Int /\ X \in SUBSET AgentInstants(W)
        BY <2>4, InstantsInTime
      <4>2. QED BY <2>8, <4>1, FS_Subset
    <3>5. between \in SUBSET Int
      BY <3>1
    <3>6. WithAgents(P, W) = TotalLength(Overlaps(Stretches(X), Stretches(between)))
      BY <3>2 DEF WithAgents
    <3> HIDE DEF X, between
    <3>7. QED BY <2>8, <3>2, <3>3, <3>4, <3>5, <3>6, OverlapsAddUp
  <2> HIDE DEF u
  <2>11. QED BY <2>5, <2>6, <2>9, <2>10 DEF IdentitiesOf, AtWork, InteractiveKinds, BackgroundKinds, u, P, W
<1>2. QED BY <1>1, SessionInductive, FewAgentsStay, PTL

-----------------------------------------------------------------------------
(* The longest run.                                                          *)

\* From a to b no turn of the user's interrupts, and the bridge limit is kept, where A
\* are the active instants.
OneRun(P, A, a, b) ==
  /\ a .. b \cap Interactive(P) = {}
  /\ \A i \in a .. b - KBridge : i .. i + KBridge \cap (A \cup Waiting(P)) # {}

\* No part of a gap, longer than the limit, is without a wait.
WaitedThrough(P, from, to) ==
  /\ from .. to - 1 \cap Interactive(P) = {}
  /\ \A i \in Int : from <= i /\ i + KBridge < to => i .. i + KBridge \cap Waiting(P) # {}

\* What the code asks of a gap, by the windows of the limit's length in it.
LEMMA BridgesWaits ==
  ASSUME NEW P, NEW from \in Int, NEW to \in Int
  PROVE  Bridges(P, from .. to - 1) <=> WaitedThrough(P, from, to)
<1> DEFINE g == from .. to - 1
           S == g \ Waiting(P)
<1>1. KBridge \in Nat
  BY TurnsAssumption
<1>2. to - 1 \in Int
  OBVIOUS
<1>3. IsFiniteSet(g) /\ Cardinality(g) = IF from > to - 1 THEN 0 ELSE (to - 1) - from + 1
  BY <1>2, FS_Interval
<1>4. S \in SUBSET Int /\ IsFiniteSet(S) /\ S \in SUBSET g
  <2>1. S \in SUBSET Int /\ S \in SUBSET g
    OBVIOUS
  <2> HIDE DEF g, S
  <2>2. QED BY <1>3, <2>1, FS_Subset
<1>5. ASSUME Bridges(P, g) PROVE WaitedThrough(P, from, to)
  <2>1. g \cap Interactive(P) = {}
    BY <1>5 DEF Bridges
  <2>2. ASSUME NEW i \in Int, from <= i, i + KBridge < to, i .. i + KBridge \cap Waiting(P) = {} PROVE FALSE
    <3>1. Cardinality(g) > KBridge
      BY <1>1, <1>3, <2>2
    <3>2. \A p \in Stretches(S) : Length(p) <= KBridge
      <4>1. ~ (Cardinality(g) <= KBridge)
        <5>1. Cardinality(g) \in Int
          BY <1>3
        <5>2. QED BY <1>1, <3>1, <5>1
      <4> HIDE DEF g
      <4>2. QED BY <1>5, <4>1 DEF Bridges
    <3>3. \A y \in i .. i + KBridge : y \in S
      BY <1>1, <2>2
    <3>4. i \in S /\ i + KBridge \in S
      BY <1>1, <3>3
    <3> HIDE DEF S
    <3>5. PICK p \in Stretches(S) : p[1] <= i /\ i < p[2]
      BY <1>4, <3>4, StretchOf
    <3>6. p[1] \in Int /\ p[2] \in Int /\ p[2] \notin S
      BY <1>4, StretchesApart DEF Stretches
    <3>7. i + KBridge < p[2]
      BY <1>1, <3>3, <3>5, <3>6
    <3>8. Length(p) > KBridge /\ Length(p) \in Int
      BY <1>1, <3>5, <3>6, <3>7 DEF Length
    <3>9. QED BY <1>1, <3>2, <3>8
  <2>3. QED BY <2>1, <2>2 DEF WaitedThrough
<1>6. ASSUME WaitedThrough(P, from, to) PROVE Bridges(P, g)
  <2>1. g \cap Interactive(P) = {}
    BY <1>6 DEF WaitedThrough
  <2>2. ASSUME NEW p \in Stretches(S), ~ (Length(p) <= KBridge) PROVE FALSE
    <3>1. p[1] \in S /\ p[2] - 1 \in S /\ p[1] \in Int /\ p[2] \in Int /\ p[1] .. p[2] - 1 \subseteq S
      BY <1>4, StretchesApart
    <3>2. p[1] + KBridge < p[2]
      BY <1>1, <2>2, <3>1 DEF Length
    <3>3. from <= p[1] /\ p[2] - 1 <= to - 1
      BY <3>1
    <3>4. p[1] + KBridge < to
      BY <1>1, <3>1, <3>2, <3>3
    <3>5. PICK y \in p[1] .. p[1] + KBridge : y \in Waiting(P)
      BY <1>6, <3>1, <3>3, <3>4 DEF WaitedThrough
    <3>6. y \in S
      BY <1>1, <3>1, <3>2, <3>5
    <3>7. QED BY <3>5, <3>6
  <2> HIDE DEF g
  <2>3. QED BY <2>1, <2>2 DEF Bridges
<1>7. QED BY <1>5, <1>6

\* Part of a run is a run.
LEMMA SubRun ==
  ASSUME NEW P, NEW A, NEW a \in Int, NEW b \in Int, NEW c \in Int, NEW d \in Int, a <= c, d <= b, OneRun(P, A, a, b)
  PROVE  OneRun(P, A, c, d)
<1>1. KBridge \in Nat
  BY TurnsAssumption
<1>2. c .. d \subseteq a .. b /\ c .. d - KBridge \subseteq a .. b - KBridge
  BY <1>1
<1>3. QED BY <1>2 DEF OneRun

\* What lies in a stretch is a run.
LEMMA RunInside ==
  ASSUME NEW P, NEW A \in SUBSET Int, A \cap Interactive(P) = {}, NEW c \in Int, NEW d \in Int, c .. d \subseteq A
  PROVE  OneRun(P, A, c, d)
<1>1. KBridge \in Nat
  BY TurnsAssumption
<1>2. ASSUME NEW i \in c .. d - KBridge PROVE i .. i + KBridge \cap (A \cup Waiting(P)) # {}
  <2>1. i \in A /\ i \in i .. i + KBridge
    BY <1>1
  <2>2. QED BY <2>1
<1>3. QED BY <1>2 DEF OneRun

\* Two stretches with a gap between them.
GapBetween(P, A, at, to, b) ==
  /\ A \in SUBSET Int /\ A \cap Interactive(P) = {}
  /\ at - 1 \in A /\ to \in A /\ at <= to /\ to <= b /\ to .. b \subseteq A
  /\ \A y \in A : ~ (at <= y /\ y < to)

\* A run goes on into the next stretch exactly if the gap before it is bridged.
LEMMA RunsJoin ==
  ASSUME NEW P, NEW A, NEW x \in Int, NEW at \in Int, NEW to \in Int, NEW b \in Int,
         GapBetween(P, A, at, to, b), x <= at - 1
  PROVE  OneRun(P, A, x, b) <=> OneRun(P, A, x, at - 1) /\ Bridges(P, at .. to - 1)
<1>1. KBridge \in Nat
  BY TurnsAssumption
<1>2. A \in SUBSET Int /\ at - 1 \in A /\ to \in A /\ at <= to /\ to <= b /\ to .. b \subseteq A
      /\ A \cap Interactive(P) = {} /\ \A y \in A : ~ (at <= y /\ y < to)
  BY DEF GapBetween
<1>3. ASSUME OneRun(P, A, x, b) PROVE OneRun(P, A, x, at - 1) /\ WaitedThrough(P, at, to)
  <2>1. x <= x /\ at - 1 \in Int /\ at - 1 <= b
    BY <1>2
  <2>2. OneRun(P, A, x, at - 1)
    BY <1>3, <2>1, SubRun
  <2>3. at .. to - 1 \cap Interactive(P) = {}
    <3>1. at .. to - 1 \subseteq x .. b
      BY <1>2
    <3>2. QED BY <1>3, <3>1 DEF OneRun
  <2>4. ASSUME NEW i \in Int, at <= i, i + KBridge < to PROVE i .. i + KBridge \cap Waiting(P) # {}
    <3>1. i \in x .. b - KBridge
      BY <1>1, <1>2, <2>4
    <3>2. PICK y \in i .. i + KBridge : y \in A \cup Waiting(P)
      BY <1>3, <3>1 DEF OneRun
    <3>3. at <= y /\ y < to
      BY <1>1, <2>4
    <3>4. y \notin A
      BY <1>2, <3>3
    <3>5. QED BY <3>2, <3>4
  <2>5. QED BY <2>2, <2>3, <2>4 DEF WaitedThrough
<1>4. ASSUME OneRun(P, A, x, at - 1), WaitedThrough(P, at, to) PROVE OneRun(P, A, x, b)
  <2>1. x .. b \cap Interactive(P) = {}
    <3>1. ASSUME NEW y \in x .. b, y \in Interactive(P) PROVE FALSE
      <4>1. CASE y <= at - 1
        <5>1. y \in x .. at - 1
          BY <4>1
        <5>2. QED BY <1>4, <3>1, <5>1 DEF OneRun
      <4>2. CASE at <= y /\ y < to
        <5>1. y \in at .. to - 1
          BY <4>2
        <5>2. QED BY <1>4, <3>1, <5>1 DEF WaitedThrough
      <4>3. CASE to <= y
        <5>1. y \in to .. b
          BY <4>3
        <5>2. QED BY <1>2, <3>1, <5>1
      <4>4. QED BY <4>1, <4>2, <4>3
    <3>2. QED BY <3>1
  <2>2. ASSUME NEW i \in x .. b - KBridge, i .. i + KBridge \cap (A \cup Waiting(P)) = {} PROVE FALSE
    <3>1. i \in Int /\ x <= i /\ i + KBridge <= b /\ i + KBridge \in Int /\ i <= i + KBridge
      BY <1>1
    <3>2. \A y \in Int : i <= y /\ y <= i + KBridge => y \notin A /\ y \notin Waiting(P)
      BY <2>2, <3>1
    <3>3. CASE i + KBridge <= at - 1
      <4>1. i \in x .. (at - 1) - KBridge
        BY <1>1, <3>1, <3>3
      <4>2. QED BY <1>4, <2>2, <4>1 DEF OneRun
    <3>4. CASE at <= i + KBridge /\ i <= at - 1
      BY <1>2, <3>1, <3>2, <3>4
    <3>5. CASE at <= i /\ i + KBridge < to
      <4>1. i .. i + KBridge \cap Waiting(P) # {}
        BY <1>4, <3>1, <3>5 DEF WaitedThrough
      <4>2. QED BY <2>2, <4>1
    <3>6. CASE at <= i /\ to <= i + KBridge /\ i <= to
      BY <1>2, <3>1, <3>2, <3>6
    <3>7. CASE to <= i
      <4>1. i \in to .. b
        BY <1>1, <3>1, <3>7
      <4>2. QED BY <1>2, <3>1, <3>2, <4>1
    <3>8. QED BY <3>1, <3>3, <3>4, <3>5, <3>6, <3>7
  <2>3. QED BY <2>1, <2>2 DEF OneRun
<1>5. QED BY <1>3, <1>4, BridgesWaits

-----------------------------------------------------------------------------
Counted(A, a, b) == Cardinality(a .. b \cap A)

\* The active instants are counted, and a part has no more of them.
LEMMA CountedIs ==
  ASSUME NEW A \in SUBSET Int, NEW a \in Int, NEW b \in Int
  PROVE  /\ IsFiniteSet(a .. b \cap A) /\ Counted(A, a, b) \in Nat
         /\ \A c, d \in Int : c <= a /\ b <= d => Counted(A, a, b) <= Counted(A, c, d)
<1>1. \A c, d \in Int : IsFiniteSet(c .. d \cap A)
  <2>1. ASSUME NEW c \in Int, NEW d \in Int PROVE IsFiniteSet(c .. d \cap A)
    <3>1. IsFiniteSet(c .. d)
      BY FS_Interval
    <3>2. QED BY <3>1, FS_Subset
  <2>2. QED BY <2>1
<1>2. ASSUME NEW c \in Int, NEW d \in Int, c <= a, b <= d PROVE Counted(A, a, b) <= Counted(A, c, d)
  <2>1. a .. b \cap A \subseteq c .. d \cap A
    BY <1>2
  <2>2. QED BY <1>1, <2>1, FS_Subset DEF Counted
<1>3. QED BY <1>1, <1>2, FS_CardinalityType DEF Counted

\* A stretch counts whole, and nothing in the gap before it.
LEMMA CountedJoins ==
  ASSUME NEW P, NEW A, NEW x \in Int, NEW at \in Int, NEW to \in Int, NEW b \in Int,
         GapBetween(P, A, at, to, b), x <= at - 1
  PROVE  Counted(A, x, b) = Counted(A, x, at - 1) + (b - to + 1)
<1>1. A \in SUBSET Int /\ at <= to /\ to <= b /\ to .. b \subseteq A /\ \A y \in A : ~ (at <= y /\ y < to)
  BY DEF GapBetween
<1> DEFINE C == x .. at - 1 \cap A
           D == to .. b
<1>2. x .. b \cap A = C \cup D
  <2>1. ASSUME NEW y \in x .. b \cap A PROVE y \in C \cup D
    <3>1. y \in Int /\ y \in A /\ x <= y /\ y <= b /\ ~ (at <= y /\ y < to)
      BY <1>1, <2>1
    <3>2. CASE y <= at - 1
      BY <3>1, <3>2
    <3>3. CASE to <= y
      BY <3>1, <3>3
    <3>4. QED BY <3>1, <3>2, <3>3
  <2>2. C \subseteq x .. b \cap A
    BY <1>1
  <2>3. D \subseteq x .. b \cap A
    BY <1>1
  <2> HIDE DEF C, D
  <2>4. QED BY <2>1, <2>2, <2>3
<1>3. C \cap D = {}
  BY <1>1
<1>4. IsFiniteSet(D) /\ Cardinality(D) = b - to + 1
  BY <1>1, FS_Interval
<1>5. at - 1 \in Int
  OBVIOUS
<1>6. IsFiniteSet(C) /\ Cardinality(C) \in Nat /\ Counted(A, x, at - 1) = Cardinality(C)
  <2>1. IsFiniteSet(C)
    BY <1>1, <1>5, CountedIs
  <2>2. QED BY <2>1, FS_CardinalityType DEF Counted
<1>7. Counted(A, x, b) = Cardinality(C \cup D)
  BY <1>2 DEF Counted
<1> HIDE DEF C, D
<1>8. Cardinality(C \cup D) = Cardinality(C) + Cardinality(D) - 0
  <2>1. Cardinality(C \cap D) = 0
    BY <1>3, FS_EmptySet
  <2>2. QED BY <1>4, <1>6, <2>1, FS_Union
<1>9. QED BY <1>4, <1>6, <1>7, <1>8

\* Of a stretch, every instant counts.
LEMMA CountedWhole ==
  ASSUME NEW A, NEW to \in Int, NEW b \in Int, to <= b, to .. b \subseteq A
  PROVE  Counted(A, to, b) = b - to + 1
<1>1. to .. b \cap A = to .. b
  OBVIOUS
<1>2. Cardinality(to .. b) = b - to + 1
  BY FS_Interval
<1>3. QED BY <1>1, <1>2 DEF Counted

Runs == [best : Int, cur : Int, at : {None} \cup Int]
NoRun == [best |-> 0, cur |-> 0, at |-> None]

\* One round of the loop, field by field.
LEMMA RunOnIs ==
  ASSUME NEW P, NEW acc \in Runs, NEW p, p[1] \in Int, p[2] \in Int
  PROVE  /\ RunOn(P, acc, p) \in Runs /\ RunOn(P, acc, p).at = p[2]
         /\ acc.at # None /\ Bridges(P, acc.at .. p[1] - 1) =>
              RunOn(P, acc, p).best = acc.best /\ RunOn(P, acc, p).cur = acc.cur + (p[2] - p[1])
         /\ ~ (acc.at # None /\ Bridges(P, acc.at .. p[1] - 1)) =>
              /\ RunOn(P, acc, p).best = IF acc.best <= acc.cur THEN acc.cur ELSE acc.best
              /\ RunOn(P, acc, p).cur = p[2] - p[1]
<1>1. acc.best \in Int /\ acc.cur \in Int
  BY DEF Runs
<1>2. Max({acc.best, acc.cur}) = IF acc.best <= acc.cur THEN acc.cur ELSE acc.best
  BY <1>1, OfTwo
<1>3. Length(p) = p[2] - p[1]
  BY DEF Length
<1>4. CASE acc.at # None /\ Bridges(P, acc.at .. p[1] - 1)
  <2>1. RunOn(P, acc, p) = [best |-> acc.best, cur |-> acc.cur + (p[2] - p[1]), at |-> p[2]]
    BY <1>3, <1>4 DEF RunOn
  <2>2. QED BY <1>1, <1>4, <2>1 DEF Runs
<1>5. CASE ~ (acc.at # None /\ Bridges(P, acc.at .. p[1] - 1))
  <2>1. RunOn(P, acc, p) = [best |-> IF acc.best <= acc.cur THEN acc.cur ELSE acc.best,
                            cur |-> p[2] - p[1], at |-> p[2]]
    BY <1>2, <1>3, <1>5 DEF RunOn
  <2>2. QED BY <1>1, <1>5, <2>1 DEF Runs
<1>6. QED BY <1>4, <1>5

\* The loop of longest_run_seconds over the stretches in S.
RunLoop(P, S) == InOrder(LAMBDA acc, p : RunOn(P, acc, p), NoRun, S)

Loops(g, P, S) ==
  /\ g[S] = RunLoop(P, S) /\ g[{}] = NoRun
  /\ \A s \in SUBSET S : s # {} => g[s] = RunOn(P, g[s \ {Latest(s)}], Latest(s))

\* The loop is a recursion on the sets of stretches, taking the latest first.
LEMMA RunRecursion ==
  ASSUME NEW P, NEW S, IsFiniteSet(S), Dated(S)
  PROVE  \E g : Loops(g, P, S)
<1> DEFINE Body(g) == [s \in SUBSET S |-> IF s = {} THEN NoRun ELSE RunOn(P, g[s \ {Latest(s)}], Latest(s))]
           iter == CHOOSE g : g = Body(g)
           pick == [s \in SUBSET S |-> Latest(s)]
           F == [p \in S \X Runs |-> RunOn(P, p[2], p[1])]
<1>1. RunLoop(P, S) = iter[S]
  BY DEF RunLoop, InOrder, MapThenFoldSet
<1>2. \A s \in SUBSET S : s # {} => pick[s] \in s
  <2>1. \A s \in SUBSET S : IsFiniteSet(s) /\ Dated(s)
    BY FS_Subset DEF Dated
  <2>2. QED BY <2>1, LatestIsLast
<1>3. \A x \in S : \A a \in Runs : F[<<x, a>>] = RunOn(P, a, x) /\ RunOn(P, a, x) \in Runs
  <2>1. \A x \in S : \A a \in Runs : RunOn(P, a, x) \in Runs
    BY RunOnIs DEF Dated
  <2>2. QED BY <2>1
<1>4. \E g : g = Body(g)
  <2>1. NoRun \in Runs
    BY DEF NoRun, Runs
  <2> HIDE DEF pick, F
  <2>2. Recursion(S, Runs, NoRun, pick, F)
    BY <1>2, <1>3, <2>1 DEF Recursion
  <2>3. PICK g : Solution(g, S, Runs, NoRun, pick, F)
    BY <2>2, RecursionOnSubsets
  <2>4. \A s \in SUBSET S : s # {} => F[<<pick[s], g[s \ {pick[s]}]>>] = RunOn(P, g[s \ {pick[s]}], pick[s])
    BY <1>2, <1>3, <2>3 DEF Solution
  <2>5. \A s \in SUBSET S : g[s] = Body(g)[s]
    BY <2>3, <2>4 DEF pick, Solution
  <2>6. QED BY <2>3, <2>5 DEF Solution
<1>5. iter = Body(iter)
  BY <1>4
<1> HIDE DEF iter
<1>6. iter[{}] = NoRun /\ \A s \in SUBSET S : s # {} => iter[s] = RunOn(P, iter[s \ {Latest(s)}], Latest(s))
  BY <1>5
<1>7. QED BY <1>1, <1>6 DEF Loops

-----------------------------------------------------------------------------
\* p is the stretch of A after those of t.
NextStretch(A, t, p) ==
  /\ t \in SUBSET Stretches(A) /\ p \in Stretches(A)
  /\ \A q \in t : q[2] <= p[1]
  /\ \A q \in Stretches(A) : q \in t \cup {p} \/ p[2] <= q[1]

\* The latest of the first stretches comes after the others.
LEMMA StretchNext ==
  ASSUME NEW A \in SUBSET Int, NEW s \in SUBSET Stretches(A), s # {}, IsFiniteSet(Stretches(A)), Begins(s, Stretches(A))
  PROVE  NextStretch(A, s \ {Latest(s)}, Latest(s))
<1> DEFINE p == Latest(s)
<1>1. \A q \in Stretches(A) : q[1] \in Int /\ q[2] \in Int /\ q[1] < q[2]
  BY StretchesApart
<1>2. IsFiniteSet(s) /\ Dated(s)
  BY <1>1, FS_Subset DEF Dated
<1>3. p \in s /\ \A q \in s : ~ Earlier(p, q)
  BY <1>2, LatestIsLast
<1> HIDE DEF p
<1>4. ASSUME NEW q \in Stretches(A), q # p PROVE q[2] <= p[1] \/ p[2] <= q[1]
  BY <1>3, <1>4, StretchesApart
<1>5. ASSUME NEW q \in s \ {p} PROVE q[2] <= p[1]
  <2>1. ~ (p[2] <= q[1])
    BY <1>1, <1>3 DEF Earlier
  <2>2. QED BY <1>4, <2>1
<1>6. ASSUME NEW q \in Stretches(A), q \notin s PROVE p[2] <= q[1]
  <2>1. ~ Earlier(q, p) /\ q # p
    BY <1>3, <1>6 DEF Begins
  <2>2. ~ (q[2] <= p[1])
    BY <1>1, <1>3, <2>1 DEF Earlier
  <2>3. QED BY <1>4, <2>1, <2>2
<1>7. QED BY <1>3, <1>5, <1>6 DEF NextStretch, p

\* The longest of the runs that end with b begins with a.
LastRun(P, A, a, b) ==
  /\ a <= b /\ OneRun(P, A, a, b)
  /\ \A x \in A : x <= b /\ OneRun(P, A, x, b) => a <= x

SomeRun(P, A, n) == \E a, b \in A : a <= b /\ OneRun(P, A, a, b) /\ n = Counted(A, a, b)

\* What is known after the stretches in s.
RunInv(P, A, s, acc) ==
  /\ acc \in Runs /\ acc.best >= 0 /\ acc.cur >= 0
  /\ acc.best = 0 \/ SomeRun(P, A, acc.best)
  /\ s = {} => acc = NoRun
  /\ s # {} =>
       /\ acc.at \in Int /\ acc.at - 1 \in A
       /\ \A q \in s : q[2] <= acc.at
       /\ \E q \in s : q[2] = acc.at
       /\ \E a \in A : LastRun(P, A, a, acc.at - 1) /\ acc.cur = Counted(A, a, acc.at - 1)
       /\ \A a, b \in A : a <= b /\ b < acc.at /\ OneRun(P, A, a, b) =>
            Counted(A, a, b) <= acc.best \/ Counted(A, a, b) <= acc.cur

ActiveApart(P, A) == A \in SUBSET Int /\ IsFiniteSet(A) /\ A \cap Interactive(P) = {}

\* There is no activity between the stretches before and the next.
LEMMA BeforeStretch ==
  ASSUME NEW P, NEW A, ActiveApart(P, A), NEW t, NEW p, NextStretch(A, t, p), NEW acc, RunInv(P, A, t, acc)
  PROVE  /\ t = {} => \A x \in A : p[1] <= x
         /\ t # {} => /\ acc.at <= p[1]
                      /\ \A x \in A : x < p[1] => x <= acc.at - 1
                      /\ \A b \in Int : p[1] <= b /\ b < p[2] => GapBetween(P, A, acc.at, p[1], b)
<1>1. A \in SUBSET Int /\ IsFiniteSet(A) /\ A \cap Interactive(P) = {}
  BY DEF ActiveApart
<1>2. \A q \in Stretches(A) : q[1] \in Int /\ q[2] \in Int /\ q[1] < q[2] /\ q[1] \in A /\ q[1] .. q[2] - 1 \subseteq A
  BY <1>1, StretchesApart
<1>3. p \in Stretches(A) /\ t \subseteq Stretches(A)
  BY DEF NextStretch
<1>4. ASSUME NEW x \in A, x < p[1] PROVE \E q \in t : q[1] <= x /\ x < q[2]
  <2>1. PICK q \in Stretches(A) : q[1] <= x /\ x < q[2]
    BY <1>1, StretchOf
  <2>2. q # p /\ ~ (p[2] <= q[1])
    BY <1>1, <1>2, <1>3, <1>4, <2>1
  <2>3. QED BY <2>1, <2>2 DEF NextStretch
<1>5. CASE t = {}
  <2>1. \A x \in A : ~ (x < p[1])
    BY <1>4, <1>5
  <2>2. QED BY <1>1, <1>2, <1>3, <1>5, <2>1
<1>6. CASE t # {}
  <2>1. acc.at \in Int /\ acc.at - 1 \in A /\ (\A q \in t : q[2] <= acc.at) /\ \E q \in t : q[2] = acc.at
    BY <1>6 DEF RunInv
  <2>2. acc.at <= p[1]
    BY <2>1 DEF NextStretch
  <2>3. ASSUME NEW x \in A, x < p[1] PROVE x <= acc.at - 1
    <3>1. PICK q \in t : q[1] <= x /\ x < q[2]
      BY <1>4, <2>3
    <3>2. q[2] <= acc.at /\ q[2] \in Int /\ x \in Int
      BY <1>1, <1>2, <1>3, <2>1
    <3>3. QED BY <2>1, <3>1, <3>2
  <2>4. ASSUME NEW b \in Int, p[1] <= b, b < p[2] PROVE GapBetween(P, A, acc.at, p[1], b)
    <3>1. p[1] .. b \subseteq A /\ p[1] \in A /\ p[1] \in Int
      BY <1>2, <1>3, <2>4
    <3>2. \A y \in A : ~ (acc.at <= y /\ y < p[1])
      BY <1>1, <2>1, <2>3
    <3>3. QED BY <1>1, <2>1, <2>2, <2>4, <3>1, <3>2 DEF GapBetween
  <2>5. QED BY <1>6, <2>2, <2>3, <2>4
<1>7. QED BY <1>5, <1>6

\* What both cases of a round keep.
LEMMA RoundKeeps ==
  ASSUME NEW P, NEW A, ActiveApart(P, A), NEW t, NEW p, NextStretch(A, t, p), NEW acc, RunInv(P, A, t, acc)
  PROVE  LET new == RunOn(P, acc, p) IN
         /\ new \in Runs /\ new.at = p[2] /\ p[1] \in A /\ p[2] - 1 \in A
         /\ p[1] \in Int /\ p[2] \in Int /\ p[1] < p[2]
         /\ p[1] .. p[2] - 1 \subseteq A
         /\ \A q \in t \cup {p} : q[2] <= p[2]
<1>1. A \in SUBSET Int
  BY DEF ActiveApart
<1>2. \A q \in Stretches(A) : /\ q[1] \in Int /\ q[2] \in Int /\ q[1] < q[2] /\ q[1] \in A /\ q[2] - 1 \in A
                              /\ q[1] .. q[2] - 1 \subseteq A
  BY <1>1, StretchesApart
<1>3. p \in Stretches(A) /\ t \subseteq Stretches(A) /\ acc \in Runs
  BY DEF NextStretch, RunInv
<1>4. RunOn(P, acc, p) \in Runs /\ RunOn(P, acc, p).at = p[2]
  BY <1>2, <1>3, RunOnIs
<1>5. \A q \in t : q[2] <= p[2]
  <2>1. \A q \in t : q[2] <= p[1] /\ q[2] \in Int
    BY <1>2, <1>3 DEF NextStretch
  <2>2. QED BY <1>2, <1>3, <2>1
<1>6. QED BY <1>2, <1>3, <1>4, <1>5

\* A stretch that does not join the run before begins one.
LEMMA RunBegins ==
  ASSUME NEW P, NEW A, ActiveApart(P, A), NEW t, NEW p, NextStretch(A, t, p), NEW acc, RunInv(P, A, t, acc),
         ~ (acc.at # None /\ Bridges(P, acc.at .. p[1] - 1))
  PROVE  RunInv(P, A, t \cup {p}, RunOn(P, acc, p))
<1> DEFINE new == RunOn(P, acc, p)
           to == p[1]
           last == p[2] - 1
<1>1. /\ new \in Runs /\ new.at = p[2] /\ to \in A /\ last \in A /\ to .. last \subseteq A
      /\ to \in Int /\ p[2] \in Int /\ to < p[2]
      /\ \A q \in t \cup {p} : q[2] <= p[2]
  BY RoundKeeps
<1>2. A \in SUBSET Int /\ A \cap Interactive(P) = {}
  BY DEF ActiveApart
<1>3. to \in Int /\ last \in Int /\ to <= last /\ last < p[2] /\ p[2] = last + 1
  BY <1>1
<1>4. acc.best \in Int /\ acc.cur \in Int /\ acc.best >= 0 /\ acc.cur >= 0 /\ acc \in Runs
  BY DEF RunInv, Runs
<1>5. new.best = (IF acc.best <= acc.cur THEN acc.cur ELSE acc.best) /\ new.cur = p[2] - to
  BY <1>1, <1>3, <1>4, RunOnIs
<1> HIDE DEF new, to, last
<1>6. ASSUME NEW x \in A, NEW b \in A, to <= b, b < p[2], OneRun(P, A, x, b) PROVE to <= x
  <2>1. CASE t = {}
    BY <2>1, BeforeStretch DEF to
  <2>2. CASE t # {} /\ x < to
    <3>1. GapBetween(P, A, acc.at, to, b) /\ x <= acc.at - 1
      BY <1>2, <1>6, <2>2, BeforeStretch DEF to
    <3>2. acc.at \in Int
      BY <2>2 DEF RunInv
    <3>3. Bridges(P, acc.at .. to - 1)
      BY <1>2, <1>3, <1>6, <3>1, <3>2, RunsJoin
    <3>4. acc.at # None
      BY <3>2, TurnsAssumption
    <3>5. QED BY <3>3, <3>4 DEF to
  <2>3. QED BY <1>2, <1>3, <2>1, <2>2
<1>7. new.cur = Counted(A, to, last)
  <2>1. Counted(A, to, last) = last - to + 1
    BY <1>1, <1>3, CountedWhole
  <2>2. QED BY <1>3, <1>5, <2>1
<1>8. LastRun(P, A, to, last)
  <2>1. OneRun(P, A, to, last)
    BY <1>1, <1>2, <1>3, RunInside
  <2>2. QED BY <1>1, <1>3, <1>6, <2>1 DEF LastRun
<1>9. new.best \in Int /\ new.cur \in Int /\ new.best >= 0 /\ new.cur >= 0 /\ acc.best <= new.best /\ acc.cur <= new.best
  BY <1>3, <1>4, <1>5
<1>10. new.best = 0 \/ SomeRun(P, A, new.best)
  <2>1. CASE new.best = acc.best
    BY <2>1 DEF RunInv
  <2>2. CASE new.best = acc.cur
    <3>1. CASE t = {}
      BY <2>2, <3>1 DEF RunInv, NoRun
    <3>2. CASE t # {}
      <4>1. acc.at - 1 \in A /\ \E a \in A : LastRun(P, A, a, acc.at - 1) /\ acc.cur = Counted(A, a, acc.at - 1)
        BY <3>2 DEF RunInv
      <4>2. QED BY <2>2, <4>1 DEF SomeRun, LastRun
    <3>3. QED BY <3>1, <3>2
  <2>3. QED BY <1>5, <2>1, <2>2
<1>11. ASSUME NEW a \in A, NEW b \in A, a <= b, b < p[2], OneRun(P, A, a, b)
       PROVE  Counted(A, a, b) <= new.best \/ Counted(A, a, b) <= new.cur
  <2>1. a \in Int /\ b \in Int
    BY <1>2
  <2>2. CASE to <= b
    <3>1. to <= a /\ b <= last
      BY <1>3, <1>6, <1>11, <2>1, <2>2
    <3>2. Counted(A, a, b) <= Counted(A, to, last)
      BY <1>2, <1>3, <2>1, <3>1, CountedIs
    <3>3. QED BY <1>7, <3>2
  <2>3. CASE b < to
    <3>1. t # {}
      BY <1>2, <1>3, <2>1, <2>3, BeforeStretch DEF to
    <3>2. b <= acc.at - 1 /\ acc.at \in Int
      BY <2>3, <3>1, BeforeStretch DEF to, RunInv
    <3>3. b < acc.at
      BY <2>1, <3>2
    <3>4. Counted(A, a, b) <= acc.best \/ Counted(A, a, b) <= acc.cur
      BY <1>11, <3>1, <3>3 DEF RunInv
    <3>5. Counted(A, a, b) \in Nat
      BY <1>2, <2>1, CountedIs
    <3>6. QED BY <1>4, <1>9, <3>4, <3>5
  <2>4. QED BY <1>3, <2>1, <2>2, <2>3
<1>12. new.at - 1 \in A /\ new.at - 1 = last /\ new.at \in Int
  BY <1>1, <1>3
<1>13. QED
  <2>1. \E q \in t \cup {p} : q[2] = new.at
    BY <1>1
  <2>2. \E a \in A : LastRun(P, A, a, new.at - 1) /\ new.cur = Counted(A, a, new.at - 1)
    BY <1>1, <1>7, <1>8, <1>12
  <2>3. t \cup {p} # {}
    OBVIOUS
  <2>4. RunInv(P, A, t \cup {p}, new)
    BY <1>1, <1>9, <1>10, <1>11, <1>12, <2>1, <2>2, <2>3 DEF RunInv
  <2>5. QED BY <2>4 DEF new

\* A stretch that joins the run before prolongs it.
LEMMA RunGoesOn ==
  ASSUME NEW P, NEW A, ActiveApart(P, A), NEW t, NEW p, NextStretch(A, t, p), NEW acc, RunInv(P, A, t, acc),
         acc.at # None, Bridges(P, acc.at .. p[1] - 1)
  PROVE  RunInv(P, A, t \cup {p}, RunOn(P, acc, p))
<1> DEFINE new == RunOn(P, acc, p)
           to == p[1]
           last == p[2] - 1
           from == acc.at - 1
<1>1. /\ new \in Runs /\ new.at = p[2] /\ to \in A /\ last \in A /\ to .. last \subseteq A
      /\ to \in Int /\ p[2] \in Int /\ to < p[2]
      /\ \A q \in t \cup {p} : q[2] <= p[2]
  BY RoundKeeps
<1>2. A \in SUBSET Int /\ A \cap Interactive(P) = {}
  BY DEF ActiveApart
<1>3. to \in Int /\ last \in Int /\ to <= last /\ last < p[2] /\ p[2] = last + 1
  BY <1>1
<1>4. acc.best \in Int /\ acc.cur \in Int /\ acc.best >= 0 /\ acc.cur >= 0 /\ acc \in Runs
  BY DEF RunInv, Runs
<1>5. new.best = acc.best /\ new.cur = acc.cur + (p[2] - to)
  BY <1>1, <1>3, <1>4, RunOnIs
<1>6. t # {}
  BY DEF RunInv, NoRun
<1>7. acc.at \in Int /\ from \in A /\ from \in Int /\ acc.at <= to /\ from < to /\ from < acc.at
  <2>1. acc.at \in Int /\ from \in A
    BY <1>6 DEF RunInv
  <2>2. acc.at <= to
    BY <1>6, BeforeStretch
  <2> HIDE DEF to
  <2>3. QED BY <1>3, <2>1, <2>2
<1> HIDE DEF new, to, last, from
<1>8. ASSUME NEW b \in Int, to <= b, b < p[2] PROVE GapBetween(P, A, acc.at, to, b)
  BY <1>6, <1>8, BeforeStretch DEF to
<1>9. ASSUME NEW x \in A, x < to PROVE x <= from
  BY <1>6, <1>9, BeforeStretch DEF to, from
<1>10. ASSUME NEW x \in A, x <= from, NEW b \in Int, to <= b, b < p[2]
       PROVE  OneRun(P, A, x, b) <=> OneRun(P, A, x, from)
  <2>1. OneRun(P, A, x, b) <=> OneRun(P, A, x, acc.at - 1) /\ Bridges(P, acc.at .. to - 1)
    <3>1. GapBetween(P, A, acc.at, to, b) /\ x <= acc.at - 1 /\ x \in Int
      BY <1>2, <1>8, <1>10 DEF from
    <3>2. QED BY <1>3, <1>7, <3>1, RunsJoin
  <2>2. QED BY <2>1 DEF from, to
<1>11. PICK a \in A : LastRun(P, A, a, from) /\ acc.cur = Counted(A, a, from)
  BY <1>6 DEF RunInv, from
<1>12. a \in Int /\ a <= from /\ OneRun(P, A, a, from) /\ \A x \in A : x <= from /\ OneRun(P, A, x, from) => a <= x
  BY <1>2, <1>11 DEF LastRun
<1>13. new.cur = Counted(A, a, last)
  <2>1. GapBetween(P, A, acc.at, to, last)
    BY <1>3, <1>8
  <2>2. Counted(A, a, last) = Counted(A, a, acc.at - 1) + (last - to + 1)
    BY <1>3, <1>7, <1>12, <2>1, CountedJoins DEF from
  <2>3. QED BY <1>3, <1>4, <1>5, <1>11, <2>2 DEF from
<1>14. LastRun(P, A, a, last)
  <2>1. OneRun(P, A, a, last)
    BY <1>3, <1>10, <1>12
  <2>2. ASSUME NEW x \in A, x <= last, OneRun(P, A, x, last) PROVE a <= x
    <3>1. x \in Int
      BY <1>2
    <3>2. CASE x < to
      <4>1. x <= from
        BY <1>9, <3>2
      <4>2. OneRun(P, A, x, from)
        BY <1>3, <1>10, <2>2, <4>1
      <4>3. QED BY <1>12, <4>1, <4>2
    <3>3. CASE ~ (x < to)
      BY <1>3, <1>7, <1>12, <3>1, <3>3
    <3>4. QED BY <3>2, <3>3
  <2>3. a <= last
    BY <1>3, <1>7, <1>12
  <2>4. QED BY <2>1, <2>2, <2>3 DEF LastRun
<1>15. ASSUME NEW c \in A, NEW d \in A, c <= d, d < p[2], OneRun(P, A, c, d)
       PROVE  Counted(A, c, d) <= new.best \/ Counted(A, c, d) <= new.cur
  <2>1. c \in Int /\ d \in Int /\ Counted(A, c, d) \in Nat
    BY <1>2, CountedIs
  <2>2. CASE d < to
    <3>1. d <= from
      BY <1>9, <2>2
    <3>2. d < acc.at
      BY <1>7, <2>1, <3>1
    <3>3. Counted(A, c, d) <= acc.best \/ Counted(A, c, d) <= acc.cur
      BY <1>6, <1>15, <3>2 DEF RunInv
    <3>4. QED BY <1>3, <1>4, <1>5, <2>1, <3>3
  <2>3. CASE to <= d
    <3>1. a <= c
      <4>1. CASE c < to
        <5>1. c <= from
          BY <1>9, <4>1
        <5>2. OneRun(P, A, c, from)
          BY <1>10, <1>15, <2>1, <2>3, <5>1
        <5>3. QED BY <1>12, <5>1, <5>2
      <4>2. CASE ~ (c < to)
        BY <1>3, <1>7, <1>12, <2>1, <4>2
      <4>3. QED BY <4>1, <4>2
    <3>2. d <= last
      BY <1>3, <1>15, <2>1
    <3>3. Counted(A, c, d) <= Counted(A, a, last)
      BY <1>2, <1>3, <1>12, <2>1, <3>1, <3>2, CountedIs
    <3>4. QED BY <1>13, <3>3
  <2>4. QED BY <1>3, <2>1, <2>2, <2>3
<1>16. new.at - 1 \in A /\ new.at - 1 = last /\ new.at \in Int
  BY <1>1, <1>3
<1>17. new.best \in Int /\ new.cur \in Int /\ new.best >= 0 /\ new.cur >= 0
  BY <1>3, <1>4, <1>5
<1>18. QED
  <2>1. \E q \in t \cup {p} : q[2] = new.at
    BY <1>1
  <2>2. \E x \in A : LastRun(P, A, x, new.at - 1) /\ new.cur = Counted(A, x, new.at - 1)
    BY <1>13, <1>14, <1>16
  <2>3. t \cup {p} # {}
    OBVIOUS
  <2>4. new.best = 0 \/ SomeRun(P, A, new.best)
    BY <1>5 DEF RunInv
  <2>5. RunInv(P, A, t \cup {p}, new)
    BY <1>1, <1>15, <1>16, <1>17, <2>1, <2>2, <2>3, <2>4 DEF RunInv
  <2>6. QED BY <2>5 DEF new

\* The loop of longest_run_seconds finds the longest run.
LEMMA LoopLongest ==
  ASSUME NEW P, NEW W, ActiveApart(P, Activity(P, W))
  PROVE  \E runs : /\ RunInv(P, Activity(P, W), Stretches(Activity(P, W)), runs)
                   /\ LongestRun(P, W) = Max({runs.best, runs.cur})
<1> DEFINE A == Activity(P, W)
           S == Stretches(A)
           runs == RunLoop(P, S)
<1>1. LongestRun(P, W) = Max({runs.best, runs.cur})
  BY DEF LongestRun, RunLoop, NoRun
<1> HIDE DEF A
<1>2. ActiveApart(P, A) /\ A \in SUBSET Int /\ IsFiniteSet(A)
  BY DEF A, ActiveApart
<1>3. IsFiniteSet(S) /\ Dated(S)
  BY <1>2, StretchesFinite
<1> HIDE DEF S
<1>4. PICK g : Loops(g, P, S)
  BY <1>3, RunRecursion
<1>5. /\ g[S] = runs /\ g[{}] = NoRun
      /\ \A s \in SUBSET S : s # {} => g[s] = RunOn(P, g[s \ {Latest(s)}], Latest(s))
  BY <1>4 DEF Loops
<1> HIDE DEF runs
<1> DEFINE K == {s \in SUBSET S : RunInv(P, A, s, g[s])}
<1>6. {} \in K
  <2>1. NoRun \in Runs /\ NoRun.best = 0 /\ NoRun.cur = 0
    BY DEF NoRun, Runs
  <2>2. RunInv(P, A, {}, NoRun)
    BY <2>1 DEF RunInv
  <2>3. QED BY <1>5, <2>2
<1>7. ASSUME NEW s \in SUBSET S, s # {}, Begins(s, S), Begins(s \ {Latest(s)}, S), s \ {Latest(s)} \in K
      PROVE  s \in K
  <2> DEFINE t == s \ {Latest(s)}
             p == Latest(s)
             acc == g[t]
  <2>1. NextStretch(A, t, p)
    BY <1>2, <1>3, <1>7, StretchNext DEF S
  <2>2. RunInv(P, A, t, acc) /\ g[s] = RunOn(P, acc, p)
    BY <1>5, <1>7
  <2>3. s = t \cup {p}
    <3>1. IsFiniteSet(s) /\ Dated(s)
      BY <1>3, FS_Subset DEF Dated
    <3>2. p \in s
      BY <1>7, <3>1, LatestIsLast
    <3>3. QED BY <3>2
  <2> HIDE DEF t, p, acc
  <2>4. RunInv(P, A, t \cup {p}, RunOn(P, acc, p))
    BY <1>2, <2>1, <2>2, RunBegins, RunGoesOn
  <2>5. QED BY <2>2, <2>3, <2>4
<1>8. S \in K
  <2> HIDE DEF K
  <2>1. QED BY <1>3, <1>6, <1>7, InOrderKeeps
<1>9. RunInv(P, A, S, runs)
  BY <1>5, <1>8
<1>10. QED BY <1>1, <1>9 DEF A, S

\* What the loop returns is the longest run's.
LEMMA LoopRight ==
  ASSUME NEW P, NEW W, ActiveApart(P, Activity(P, W))
  PROVE  RunIsLongest(P, W, Activity(P, W))
<1> DEFINE A == Activity(P, W)
           Q == {q \in A \X A : q[1] <= q[2] /\ OneRun(P, A, q[1], q[2])}
           count == [q \in Q |-> Counted(A, q[1], q[2])]
           C == {count[q] : q \in Q}
           M == {0} \cup C
<1>1. PICK runs : RunInv(P, A, Stretches(A), runs) /\ LongestRun(P, W) = Max({runs.best, runs.cur})
  BY LoopLongest
<1>2. C = {Cardinality(p[1] .. p[2] \cap A) : p \in Q}
  BY DEF Counted
<1>3. (LongestRun(P, W) = Max(M)) => RunIsLongest(P, W, A)
  BY <1>2 DEF RunIsLongest, OneRun
<1> HIDE DEF A
<1>4. ActiveApart(P, A) /\ A \in SUBSET Int /\ IsFiniteSet(A)
  BY DEF A, ActiveApart
<1>5. \A q \in Q : count[q] = Counted(A, q[1], q[2]) /\ count[q] \in Nat
  BY <1>4, CountedIs
<1>6. \A q \in Q : q[1] \in A /\ q[2] \in A /\ q[1] <= q[2] /\ OneRun(P, A, q[1], q[2])
  OBVIOUS
<1>7. ASSUME NEW n, SomeRun(P, A, n) PROVE n \in C
  <2>1. PICK a \in A, b \in A : a <= b /\ OneRun(P, A, a, b) /\ n = Counted(A, a, b)
    BY <1>7 DEF SomeRun
  <2>2. <<a, b>> \in Q /\ count[<<a, b>>] = n
    BY <2>1
  <2> HIDE DEF Q, count
  <2>3. QED BY <2>2
<1>8. IsFiniteSet(Q)
  <2>1. IsFiniteSet(A \X A)
    BY <1>4, FS_Product
  <2>2. QED BY <2>1, FS_Subset
<1> HIDE DEF Q, count
<1>9. IsFiniteSet(M) /\ M \in SUBSET Int /\ M # {}
  <2>1. IsFiniteSet(C)
    BY <1>8, ImageFinite
  <2>2. IsFiniteSet({0})
    BY FS_Singleton
  <2> HIDE DEF C
  <2>3. C \in SUBSET Nat
    BY <1>5 DEF C
  <2>4. IsFiniteSet(M)
    BY <2>1, <2>2, FS_Union
  <2>5. QED BY <2>3, <2>4
<1>10. Max(M) \in M /\ \A c \in M : c <= Max(M)
  <2> HIDE DEF M
  <2>1. QED BY <1>9, MaxIsGreatest
<1>11. Max(M) \in Int /\ 0 <= Max(M)
  BY <1>9, <1>10
<1> DEFINE best == runs.best
           cur == runs.cur
           r == IF best <= cur THEN cur ELSE best
<1>12. best \in Int /\ cur \in Int /\ best >= 0 /\ cur >= 0
  BY <1>1 DEF RunInv, Runs
<1>13. best \in M /\ cur \in M
  <2>1. best = 0 \/ SomeRun(P, A, best)
    BY <1>1 DEF RunInv
  <2>2. cur = 0 \/ SomeRun(P, A, cur)
    <3>1. CASE Stretches(A) = {}
      BY <1>1, <3>1 DEF RunInv, NoRun
    <3>2. CASE Stretches(A) # {}
      <4>1. runs.at - 1 \in A /\ \E a \in A : LastRun(P, A, a, runs.at - 1) /\ cur = Counted(A, a, runs.at - 1)
        BY <1>1, <3>2 DEF RunInv
      <4>2. QED BY <4>1 DEF SomeRun, LastRun
    <3>3. QED BY <3>1, <3>2
  <2> HIDE DEF C
  <2>3. QED BY <1>7, <2>1, <2>2
<1>14. \A c \in C : c \in Int /\ (c <= best \/ c <= cur)
  <2>1. ASSUME NEW q \in Q PROVE count[q] \in Int /\ (count[q] <= best \/ count[q] <= cur)
    <3>1. PICK p \in Stretches(A) : p[1] <= q[2] /\ q[2] < p[2]
      BY <1>4, <1>6, StretchOf
    <3>2. Stretches(A) # {}
      BY <3>1
    <3>3. p[2] <= runs.at /\ runs.at \in Int /\ p[2] \in Int /\ q[2] \in Int
      BY <1>1, <1>4, <1>6, <3>2, StretchesApart DEF RunInv
    <3>4. q[2] < runs.at
      BY <3>1, <3>3
    <3>5. QED BY <1>1, <1>5, <1>6, <3>2, <3>4 DEF RunInv
  <2>2. QED BY <2>1
<1> HIDE DEF best, cur, C
<1>15. \A c \in M : c <= r
  BY <1>12, <1>14
<1>16. LongestRun(P, W) = r
  BY <1>1, <1>12, OfTwo DEF best, cur
<1>17. Max(M) <= r /\ r <= Max(M) /\ r \in Int
  BY <1>10, <1>12, <1>13, <1>15
<1> HIDE DEF M, r
<1>18. LongestRun(P, W) = Max(M)
  BY <1>11, <1>16, <1>17
<1>19. QED BY <1>3, <1>18 DEF A, M, C

\* Whatever the events and the agents, the loop over the stretches of activity
\* (longest_run_seconds) reports the most active instants between any two that no
\* instant of an interactive turn separates and no longer gap than the bridge limit
\* without activity or a wait of the agent's own.
THEOREM RunLongest == SessionSpec => []LongestRunIsLongest
<1>1. SessionInv /\ FewAgents => LongestRunIsLongest
  <2> SUFFICES ASSUME SessionInv, FewAgents, Stamps # {}
               PROVE  RunIsLongest(Partition, Working, Activity(Partition, Working))
    BY DEF LongestRunIsLongest
  <2> DEFINE P == Partition
             W == Working
             B == {s \in P : s.owner = "background" /\ s.kind \in {"model", "tool"}}
  <2>1. Parts(P, WindowStart, WindowEnd)
    BY PartitionParts
  <2>2. WindowStart \in Int /\ WindowEnd \in Int /\ WindowStart <= WindowEnd
    BY WindowBounds, TurnsAssumption DEF Time
  <2>3. IsFiniteSet(W) /\ \A w \in W : Worker(w)
    BY WorkingIs
  <2> HIDE DEF P, W
  <2>4. AgentInstants(W) \in SUBSET Int /\ IsFiniteSet(AgentInstants(W))
    <3>1. Agenda(W)
      BY <2>3 DEF Agenda, Worker
    <3>2. QED BY <3>1, InstantsInTime
  <2>5. IsFiniteSet(Covered(B)) /\ Covered(B) \in SUBSET Int
    <3>1. B \in SUBSET P /\ {} \in SUBSET P /\ B \cap {} = {}
      OBVIOUS
    <3> HIDE DEF B
    <3>2. IsFiniteSet(Covered(B))
      BY <2>1, <2>2, <3>1, CoveredApart
    <3>3. \A s \in B : s.lo \in Int /\ s.hi \in Int
      BY <2>1, <3>1 DEF Parts
    <3>4. Covered(B) \in SUBSET Int
      BY <3>3 DEF Covered
    <3>5. QED BY <3>2, <3>4
  <2>6. ActiveApart(P, Activity(P, W))
    <3> DEFINE all == Covered(B) \cup AgentInstants(W)
    <3>1. Activity(P, W) = all \ Interactive(P)
      BY DEF Activity
    <3>2. IsFiniteSet(all) /\ all \in SUBSET Int
      <4> HIDE DEF B
      <4>1. QED BY <2>4, <2>5, FS_Union
    <3> HIDE DEF all
    <3>3. IsFiniteSet(all \ Interactive(P))
      BY <3>2, FS_Subset
    <3>4. QED BY <3>1, <3>2, <3>3 DEF ActiveApart
  <2>7. RunIsLongest(P, W, Activity(P, W))
    BY <2>6, LoopRight
  <2>8. QED BY <2>7 DEF P, W
<1>2. QED BY <1>1, SessionInductive, FewAgentsStay, PTL
=============================================================================
