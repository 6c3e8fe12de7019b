---------------------------- MODULE PermissionProofs ----------------------------
(***************************************************************************)
(* Proofs about Permission, for any number of calls, of permissions asked  *)
(* at once, and of steps.                                                  *)
(***************************************************************************)
EXTENDS Permission, FiniteSetTheorems, SequenceTheorems, WellFoundedInduction, TLAPS

\* The inductive invariant: the slot holds no one's future or that of a call, and
\* that call is waiting.
SlotInv ==
    /\ st \in [Calls -> {"none", "asking", "running", "ended", "denied", "cancelled", "raised"}]
    /\ waited \in SUBSET Calls
    /\ slot \in Calls \cup {None}
    /\ SlotIsWaiting

\* None is not a call.
LEMMA NoneIsNoCall == None \notin Calls
  BY DEF None, Calls

\* The last of a set of calls is one of them: the sets of calls are finite, and
\* their distances from the last call have a least one.
LEMMA LastIsOneOfThem ==
    ASSUME NEW S \in SUBSET Calls, S # {}
    PROVE  SlotOf(S) \in S /\ \A j \in S : j <= SlotOf(S)
  <1> DEFINE D == {MaxCalls - i : i \in S}
             R == OpToRel(<, Nat)
  <1>1. S \subseteq Int /\ MaxCalls \in Nat /\ \A i \in S : MaxCalls - i \in Nat
    BY PermissionAssumption DEF Calls
  <1>2. D \subseteq Nat /\ D # {}
    BY <1>1
  <1>3. \E x \in D : \A y \in D : ~ (<<y, x>> \in R)
    <2>1. IsWellFoundedOn(R, Nat)
      BY NatLessThanWellFounded
    <2> HIDE DEF D, R
    <2> QED BY <1>2, <2>1, WFMin
  <1>4. PICK d \in D : \A e \in D : ~ (e < d)
    BY <1>2, <1>3 DEF OpToRel
  <1>5. PICK i \in S : d = MaxCalls - i
    OBVIOUS
  <1>6. \A j \in S : j <= i
    <2> TAKE j \in S
    <2>1. ~ (MaxCalls - j < MaxCalls - i)
      BY <1>4, <1>5
    <2> QED BY <1>1, <2>1
  <1> QED BY <1>6 DEF SlotOf

\* At first nobody asks and the slot is empty.
LEMMA InitSlot == Init => SlotInv
  BY NoneIsNoCall DEF Init, SlotInv, SlotIsWaiting

\* A response starts its calls: none of them is the one whose future is in the slot.
LEMMA StartCallsSlot ==
    ASSUME SlotInv, NEW C \in SUBSET Calls, NEW D \in SUBSET C, StartCalls(C, D)
    PROVE  SlotInv'
  <1> DEFINE asking == IF require THEN D ELSE {}
  <1>1. asking \in SUBSET C /\ asking \in SUBSET Calls
    OBVIOUS
  <1>2. /\ st' = [i \in Calls |-> CASE i \in asking -> "asking"
                                    [] i \in C \ asking -> "running"
                                    [] OTHER -> st[i]]
        /\ slot' = IF asking = {} THEN slot ELSE SlotOf(asking)
        /\ waited' = C
        /\ \A i \in C : st[i] \in Ended
    BY DEF StartCalls
  <1> HIDE DEF asking
  <1>3. st' \in [Calls -> {"none", "asking", "running", "ended", "denied", "cancelled", "raised"}]
    BY <1>2 DEF SlotInv
  <1>4. CASE asking = {}
    <2>1. slot # None => slot \in Calls /\ slot \notin C
      BY <1>2 DEF SlotInv, SlotIsWaiting, Ended
    <2>2. slot # None => st'[slot] = st[slot]
      BY <1>2, <1>4, <2>1
    <2> QED BY <1>2, <1>3, <1>4, <2>1, <2>2 DEF SlotInv, SlotIsWaiting
  <1>5. CASE asking # {}
    <2>1. SlotOf(asking) \in asking
      BY <1>1, <1>5, LastIsOneOfThem
    <2>2. slot' \in Calls /\ st'[slot'] = "asking"
      BY <1>1, <1>2, <1>5, <2>1
    <2> QED BY <1>2, <1>3, <2>2 DEF SlotInv, SlotIsWaiting
  <1> QED BY <1>4, <1>5

\* The deadline: either it cancels a waiting call and empties the slot, or the
\* call in the slot is one it does not reach.
LEMMA TurnTimeoutSlot ==
    ASSUME SlotInv, TurnTimeout PROVE SlotInv'
  <1>1. st' \in [Calls -> {"none", "asking", "running", "ended", "denied", "cancelled", "raised"}]
        /\ waited' = {}
    BY DEF TurnTimeout, SlotInv
  <1>2. CASE \E i \in waited : st[i] = "asking"
    BY <1>1, <1>2 DEF TurnTimeout, EmptySlot, SlotInv, SlotIsWaiting
  <1>3. CASE ~ \E i \in waited : st[i] = "asking"
    <2>1. slot' = slot /\ (slot # None => slot \in Calls /\ slot \notin waited)
      BY <1>3 DEF TurnTimeout, SlotInv, SlotIsWaiting
    <2>2. slot # None => st'[slot] = st[slot]
      BY <2>1 DEF TurnTimeout
    <2> QED BY <1>1, <2>1, <2>2 DEF SlotInv, SlotIsWaiting
  <1> QED BY <1>2, <1>3

\* Every step keeps the invariant: who stops waiting empties the slot.
LEMMA StepSlot == SlotInv /\ [Next]_vars => SlotInv'
  <1> SUFFICES ASSUME SlotInv, [Next]_vars PROVE SlotInv'
    OBVIOUS
  <1> USE DEF SlotInv, SlotIsWaiting
  <1>1. CASE \E C \in SUBSET Calls : \E D \in SUBSET C : StartCalls(C, D)
    BY <1>1, StartCallsSlot
  <1>2. CASE \E answer \in {"y", "n", "a", "failed"} : AskUser(answer)
    BY <1>2 DEF AskUser
  <1>3. CASE StopListening
    BY <1>3 DEF StopListening
  <1>4. CASE \E i \in Calls : Answered(i) \/ PermissionTimeout(i)
    BY <1>4 DEF Answered, PermissionTimeout, EmptySlot
  <1>5. CASE \E i \in Calls : EndCall(i) \/ CallRaises(i)
    BY <1>5 DEF EndCall, CallRaises
  <1>6. CASE TurnTimeout
    BY <1>6, TurnTimeoutSlot
  <1>7. CASE NextTurn
    BY <1>7 DEF NextTurn
  <1>8. CASE UNCHANGED vars
    BY <1>8 DEF vars
  <1>9. CASE Finished
    BY <1>9 DEF Finished, vars
  <1> QED BY <1>1, <1>2, <1>3, <1>4, <1>5, <1>6, <1>7, <1>8, <1>9 DEF Next

\* The slot of the interface never holds the future of a call that is no longer
\* waiting (_permission_callback), however many calls ask and in whatever turn.
THEOREM SlotTheorem == Spec => []SlotIsWaiting
  <1>1. SlotInv => SlotIsWaiting
    BY DEF SlotInv
  <1> QED BY <1>1, InitSlot, StepSlot, PTL DEF Spec

-----------------------------------------------------------------------------
(***************************************************************************)
(* The order in which the requests of a response are put on the queue      *)
(***************************************************************************)

\* q is the list of the n calls of S, ascending.
Lists(q, S, n) == q \in [1..n -> S] /\ \A a, b \in 1..n : a < b => q[a] < q[b]

\* A set of calls is finite.
LEMMA CallsAreFinite ==
    \A S \in SUBSET Calls : IsFiniteSet(S) /\ Cardinality(S) \in Nat
  <1>1. MaxCalls \in Int /\ 1 \in Int
    BY PermissionAssumption
  <1>2. IsFiniteSet(Calls)
    BY <1>1, FS_Interval DEF Calls
  <1> QED BY <1>2, FS_Subset, FS_CardinalityType

\* Calls without the last of them, in order, and then the last.
LEMMA OneMoreInOrder ==
    ASSUME NEW S \in SUBSET Calls, S # {}, NEW n \in Nat, Cardinality(S) = n + 1,
           NEW q, Lists(q, S \ {SlotOf(S)}, n)
    PROVE  Lists([k \in 1..(n + 1) |-> IF k = n + 1 THEN SlotOf(S) ELSE q[k]], S, n + 1)
  <1> DEFINE last == SlotOf(S)
             r == [k \in 1..(n + 1) |-> IF k = n + 1 THEN last ELSE q[k]]
  <1>1. last \in S /\ S \subseteq Int
    BY LastIsOneOfThem DEF Calls
  <1>2. \A j \in S : j <= last
    BY LastIsOneOfThem
  <1> HIDE DEF last
  <1>3. r \in [1..(n + 1) -> S]
    BY <1>1 DEF Lists, last
  <1>4. \A a, b \in 1..(n + 1) : a < b => r[a] < r[b]
    <2> TAKE a, b \in 1..(n + 1)
    <2> HAVE a < b
    <2>1. a \in 1..n /\ r[a] = q[a]
      OBVIOUS
    <2> HIDE DEF r
    <2>4. q[a] \in S \ {last}
      BY <2>1 DEF Lists, last
    <2> USE DEF r
    <2>2. CASE b = n + 1
      <3>1. r[b] = last
        BY <2>2
      <3>2. q[a] < last
        <4>1. q[a] \in S /\ q[a] # last
          BY <2>4
        <4>2. q[a] <= last
          BY <1>2, <4>1
        <4>3. q[a] \in Int /\ last \in Int
          BY <1>1, <4>1
        <4> QED BY <4>1, <4>2, <4>3
      <3> QED BY <2>1, <3>1, <3>2
    <2>3. CASE b # n + 1
      <3>1. b \in 1..n /\ r[b] = q[b]
        BY <2>3
      <3> QED BY <2>1, <3>1 DEF Lists
    <2> QED BY <2>2, <2>3
  <1> QED BY <1>3, <1>4 DEF Lists, last

\* Every set of calls can be listed in order: a smallest set that cannot would,
\* without its last call, be a smaller one.
LEMMA CanBeListed ==
    ASSUME NEW S \in SUBSET Calls PROVE \E q : Lists(q, S, Cardinality(S))
  <1> DEFINE Bad == {n \in Nat : \E T \in SUBSET Calls :
                       Cardinality(T) = n /\ ~ \E q : Lists(q, T, n)}
             R == OpToRel(<, Nat)
  <1> SUFFICES ASSUME Bad # {} PROVE FALSE
    BY CallsAreFinite
  <1>1. \E x \in Bad : \A y \in Bad : ~ (<<y, x>> \in R)
    <2>1. IsWellFoundedOn(R, Nat) /\ Bad \subseteq Nat
      BY NatLessThanWellFounded
    <2> HIDE DEF Bad, R
    <2> QED BY <2>1, WFMin
  <1>2. PICK m \in Bad : \A e \in Bad : ~ (e < m)
    BY <1>1 DEF OpToRel
  <1>3. PICK T \in SUBSET Calls : Cardinality(T) = m /\ ~ \E q : Lists(q, T, m)
    OBVIOUS
  <1>4. m \in Nat
    OBVIOUS
  <1>5. CASE T = {}
    <2>1. m = 0
      BY <1>3, <1>5, FS_EmptySet
    <2>2. Lists([k \in 1..0 |-> 0], T, 0)
      BY DEF Lists
    <2> QED BY <1>3, <2>1, <2>2
  <1>6. CASE T # {}
    <2>1. SlotOf(T) \in T
      BY <1>6, LastIsOneOfThem
    <2>2. IsFiniteSet(T)
      BY CallsAreFinite
    <2>3. Cardinality(T \ {SlotOf(T)}) = m - 1
      BY <1>3, <2>1, <2>2, FS_RemoveElement
    <2>4. m - 1 \in Nat /\ T \ {SlotOf(T)} \in SUBSET Calls
      BY <2>3, CallsAreFinite
    <2>5. m - 1 \notin Bad
      BY <1>2, <1>4, <2>4
    <2>6. PICK q : Lists(q, T \ {SlotOf(T)}, m - 1)
      <3>1. \E q : Lists(q, T \ {SlotOf(T)}, m - 1)
        BY <2>3, <2>4, <2>5
      <3> QED BY <3>1
    <2>7. \E r : Lists(r, T, (m - 1) + 1)
      <3>1. Cardinality(T) = (m - 1) + 1
        BY <1>3, <1>4
      <3> DEFINE k == m - 1
      <3>2. k \in Nat /\ Cardinality(T) = k + 1 /\ Lists(q, T \ {SlotOf(T)}, k)
        BY <2>4, <2>6, <3>1
      <3> HIDE DEF k
      <3>3. \E r : Lists(r, T, k + 1)
        BY <1>6, <3>2, OneMoreInOrder
      <3> QED BY <3>3 DEF k
    <2> QED BY <1>3, <1>4, <2>7
  <1> QED BY <1>5, <1>6

\* What InOrder returns is such a list; in particular it holds calls of S only.
LEMMA InOrderLists ==
    ASSUME NEW S \in SUBSET Calls
    PROVE  Lists(InOrder(S), S, Cardinality(S)) /\ InOrder(S) \in Seq(Calls)
  <1>1. Lists(InOrder(S), S, Cardinality(S))
    BY CanBeListed DEF Lists, InOrder
  <1>2. Cardinality(S) \in Nat /\ InOrder(S) \in [1..Cardinality(S) -> Calls]
    BY <1>1, CallsAreFinite DEF Lists
  <1> QED BY <1>1, <1>2, SeqDef

\* No request, and the request of one call.
LEMMA FewInOrder ==
    /\ InOrder({}) = <<>>
    /\ \A i \in Calls : InOrder({i}) = <<i>>
  <1>1. InOrder({}) = <<>>
    <2>1. Lists(InOrder({}), {}, 0) /\ InOrder({}) \in Seq(Calls)
      BY InOrderLists, FS_EmptySet
    <2> QED BY <2>1 DEF Lists
  <1>2. ASSUME NEW i \in Calls PROVE InOrder({i}) = <<i>>
    <2>0. {i} \in SUBSET Calls /\ Cardinality({i}) = 1
      BY FS_Singleton
    <2>1. Lists(InOrder({i}), {i}, 1) /\ InOrder({i}) \in Seq(Calls)
      BY <2>0, InOrderLists
    <2>2. DOMAIN InOrder({i}) = 1..1 /\ InOrder({i})[1] = i
      BY <2>1 DEF Lists
    <2>3. Len(InOrder({i})) = 1 /\ <<i>> \in Seq(Calls)
      BY <2>1, <2>2
    <2> QED BY <2>1, <2>2, <2>3, SeqEqual
  <1> QED BY <1>1, <1>2

-----------------------------------------------------------------------------
(***************************************************************************)
(* The values of the variables                                             *)
(***************************************************************************)

LEMMA InitTypes == Init => TypeOK
  BY PermissionAssumption DEF Init, TypeOK

LEMMA StartCallsTypes ==
    ASSUME TypeOK, NEW C \in SUBSET Calls, NEW D \in SUBSET C, StartCalls(C, D)
    PROVE  TypeOK'
  <1> DEFINE asking == IF require THEN D ELSE {}
  <1>1. asking \in SUBSET C /\ asking \in SUBSET Calls
    OBVIOUS
  <1>2. /\ st' = [i \in Calls |-> CASE i \in asking -> "asking"
                                    [] i \in C \ asking -> "running"
                                    [] OTHER -> st[i]]
        /\ queue' = queue \o InOrder(asking)
        /\ slot' = IF asking = {} THEN slot ELSE SlotOf(asking)
        /\ alone' \in BOOLEAN
    BY DEF StartCalls
  <1> HIDE DEF asking
  <1>3. st' \in [Calls -> {"none", "asking", "running", "ended", "denied", "cancelled", "raised"}]
    BY <1>2 DEF TypeOK
  <1>4. slot' \in Calls \cup {None}
    BY <1>1, <1>2, LastIsOneOfThem DEF TypeOK
  <1>5. queue' \in Seq(Calls)
    BY <1>1, <1>2, InOrderLists DEF TypeOK
  <1>6. /\ result' \in [Calls -> {"open", "yes", "no"}]
        /\ said' \in [Calls -> {"none", "y", "n", "a", "failed"}]
        /\ waited' \in SUBSET Calls
    BY DEF StartCalls, NewFuture, TypeOK
  <1>7. steps' \in 0..MaxSteps
    BY PermissionAssumption DEF StartCalls, TypeOK
  <1>8. /\ require' \in BOOLEAN
        /\ tui' \in {"listening", "prompting", "gone"}
        /\ turn' \in {"open", "over"}
    BY DEF StartCalls, TypeOK
  <1> QED BY <1>2, <1>3, <1>4, <1>5, <1>6, <1>7, <1>8 DEF TypeOK

LEMMA AskUserTypes ==
    ASSUME TypeOK, NEW answer \in {"y", "n", "a", "failed"}, AskUser(answer)
    PROVE  TypeOK'
  <1>1. Head(queue) \in Calls /\ Tail(queue) \in Seq(Calls)
    BY DEF AskUser, TypeOK
  <1>2. said' \in [Calls -> {"none", "y", "n", "a", "failed"}]
    BY <1>1 DEF AskUser, TypeOK
  <1>3. result' \in [Calls -> {"open", "yes", "no"}]
    BY DEF AskUser, Resolve, Allowed, TypeOK
  <1>4. queue' \in Seq(Calls) /\ tui' \in {"listening", "prompting", "gone"}
    BY <1>1 DEF AskUser
  <1>5. require' \in BOOLEAN
    BY DEF AskUser, TypeOK
  <1>6. UNCHANGED <<st, slot, turn, waited, alone, steps>>
    BY DEF AskUser
  <1> QED BY <1>2, <1>3, <1>4, <1>5, <1>6 DEF TypeOK

LEMMA StepTypes == TypeOK /\ [Next]_vars => TypeOK'
  <1> SUFFICES ASSUME TypeOK, [Next]_vars PROVE TypeOK'
    OBVIOUS
  <1>1. CASE \E C \in SUBSET Calls : \E D \in SUBSET C : StartCalls(C, D)
    BY <1>1, StartCallsTypes
  <1>2. CASE \E answer \in {"y", "n", "a", "failed"} : AskUser(answer)
    BY <1>2, AskUserTypes
  <1>3. CASE StopListening
    BY <1>3 DEF StopListening, TypeOK
  <1>4. CASE \E i \in Calls : Answered(i) \/ PermissionTimeout(i)
    BY <1>4 DEF Answered, PermissionTimeout, EmptySlot, TypeOK
  <1>5. CASE \E i \in Calls : EndCall(i)
    BY <1>5 DEF EndCall, TypeOK
  <1>6. CASE \E i \in Calls : CallRaises(i)
    BY <1>6 DEF CallRaises, TypeOK
  <1>7. CASE TurnTimeout
    BY <1>7 DEF TurnTimeout, EmptySlot, TypeOK
  <1>8. CASE NextTurn
    BY <1>8 DEF NextTurn, TypeOK
  <1>9. CASE UNCHANGED vars
    BY <1>9 DEF vars, TypeOK
  <1>10. CASE Finished
    BY <1>10 DEF Finished, vars, TypeOK
  <1> QED BY <1>1, <1>2, <1>3, <1>4, <1>5, <1>6, <1>7, <1>8, <1>9, <1>10 DEF Next

\* The variables keep their types: a call asks, runs or has ended, and the queue
\* holds permission_request events of calls only (_check_permission,
\* _permission_callback), however many calls ask.
THEOREM PermissionTypes == Spec => []TypeOK
  BY InitTypes, StepTypes, PTL DEF Spec

-----------------------------------------------------------------------------
(***************************************************************************)
(* The answer of the user and the call it was asked for                    *)
(***************************************************************************)

\* At most one call waits for a permission,
OneAsks == \A i, j \in Calls : st[i] = "asking" /\ st[j] = "asking" => i = j

\* and its future is the one in the slot.
AskerHasSlot == \A i \in Calls : st[i] = "asking" => slot = i

\* While the interface listens, a request in the queue is the only one: that of
\* the call that waits, or one that a deadline has left behind, and then no call
\* waits before the next turn empties the queue.
QueueInv ==
    tui # "gone" /\ queue # <<>> =>
      \E i \in Calls :
        /\ queue = <<i>>
        /\ \/ st[i] = "asking" /\ result[i] = "open"
           \/ st[i] = "cancelled" /\ turn = "over" /\ \A j \in Calls : st[j] # "asking"

\* What a call's future was resolved with is what the user said for it, and so is
\* what has become of the call.
SaidInv ==
    \A i \in Calls :
      /\ st[i] = "asking" => /\ result[i] = "open" => said[i] = "none"
                             /\ result[i] = "yes" => said[i] # "n"
                             /\ result[i] = "no" => said[i] = "n"
      /\ st[i] \in {"running", "ended"} => said[i] # "n"
      /\ st[i] = "denied" => said[i] # "y"

AloneInv == alone => OneAsks /\ AskerHasSlot /\ QueueInv /\ SaidInv

AnswerInv == TypeOK /\ SlotIsWaiting /\ AloneInv

\* Of a set of calls with at most one element, any two are the same.
LEMMA AtMostOne ==
    ASSUME NEW S \in SUBSET Calls, Cardinality(S) <= 1, NEW i \in S, NEW j \in S
    PROVE  i = j
  <1> SUFFICES ASSUME i # j PROVE FALSE
    OBVIOUS
  <1>1. IsFiniteSet({i}) /\ Cardinality({i}) = 1
    BY FS_Singleton
  <1>2. Cardinality({i} \cup {j}) = 2
    <2>1. j \notin {i}
      OBVIOUS
    <2>2. Cardinality({i} \cup {j}) = IF j \in {i} THEN Cardinality({i}) ELSE Cardinality({i}) + 1
      BY <1>1, FS_AddElement, ZenonT(30)
    <2> QED BY <1>1, <2>1, <2>2
  <1>3. IsFiniteSet(S) /\ Cardinality(S) \in Nat /\ {i} \cup {j} \in SUBSET S
    BY CallsAreFinite
  <1>4. Cardinality({i} \cup {j}) <= Cardinality(S)
    BY <1>3, FS_Subset
  <1> QED BY <1>2, <1>3, <1>4

LEMMA InitAlone == Init => AloneInv
  BY DEF Init, AloneInv, OneAsks, AskerHasSlot, QueueInv, SaidInv

\* A response starts its calls, and at most one call waits after it: if it is one
\* of these, nobody waited before and the queue was empty.
LEMMA StartCallsAlone ==
    ASSUME AnswerInv, NEW C \in SUBSET Calls, NEW D \in SUBSET C, StartCalls(C, D)
    PROVE  AloneInv'
  <1> SUFFICES ASSUME alone' PROVE (OneAsks /\ AskerHasSlot /\ QueueInv /\ SaidInv)'
    BY DEF AloneInv
  <1> DEFINE asking == IF require THEN D ELSE {}
             waiting == {i \in Calls : st'[i] = "asking"}
  <1>1. asking \in SUBSET C /\ asking \in SUBSET Calls
    OBVIOUS
  <1>2. /\ st' = [i \in Calls |-> CASE i \in asking -> "asking"
                                    [] i \in C \ asking -> "running"
                                    [] OTHER -> st[i]]
        /\ queue' = queue \o InOrder(asking)
        /\ slot' = IF asking = {} THEN slot ELSE SlotOf(asking)
        /\ alone' = (alone /\ Cardinality(waiting) <= 1)
    BY DEF StartCalls
  <1>3. /\ \A i \in C : st[i] # "asking" /\ result'[i] = "open" /\ said'[i] = "none"
        /\ \A i \in Calls \ C : result'[i] = result[i] /\ said'[i] = said[i]
    BY DEF StartCalls, Ended, NewFuture, AnswerInv, TypeOK
  <1>4. tui' = tui /\ turn' = turn /\ turn = "open"
    BY DEF StartCalls
  <1> HIDE DEF asking
  <1>5. /\ \A i \in asking : st'[i] = "asking"
        /\ \A i \in C \ asking : st'[i] = "running"
        /\ \A i \in Calls \ C : st'[i] = st[i]
    BY <1>1, <1>2
  <1>6. OneAsks /\ AskerHasSlot /\ QueueInv /\ SaidInv
    BY <1>2 DEF AnswerInv, AloneInv
  <1>7. OneAsks'
    <2>1. Cardinality(waiting) <= 1
      BY <1>2
    <2>2. waiting \in SUBSET Calls
      OBVIOUS
    <2>3. \A i, j \in waiting : i = j
      BY <2>1, <2>2, AtMostOne
    <2> QED BY <2>3 DEF OneAsks
  <1>8. AskerHasSlot'
    <2> SUFFICES ASSUME NEW i \in Calls, st'[i] = "asking" PROVE slot' = i
      BY DEF AskerHasSlot
    <2>1. CASE asking = {}
      BY <1>2, <1>3, <1>5, <1>6, <2>1 DEF AskerHasSlot
    <2>2. CASE asking # {}
      <3>1. SlotOf(asking) \in asking
        BY <1>1, <2>2, LastIsOneOfThem
      <3> QED BY <1>1, <1>2, <1>5, <1>7, <2>2, <3>1 DEF OneAsks
    <2> QED BY <2>1, <2>2
  <1>9. QueueInv'
    <2> SUFFICES ASSUME tui # "gone", queue' # <<>>
                 PROVE  \E i \in Calls : queue' = <<i>> /\ st'[i] = "asking" /\ result'[i] = "open"
      BY <1>4 DEF QueueInv
    <2>1. queue # <<>> =>
            \E i \in Calls : queue = <<i>> /\ st[i] = "asking" /\ result[i] = "open" /\ i \notin C
      BY <1>3, <1>4, <1>6 DEF QueueInv
    <2>2. CASE asking = {}
      <3>1. queue' = queue
        BY <1>2, <2>2, FewInOrder DEF AnswerInv, TypeOK
      <3> QED BY <1>3, <1>5, <2>1, <3>1
    <2>3. CASE asking # {}
      <3>1. PICK i \in asking : TRUE
        BY <2>3
      <3>2. i \in Calls /\ i \in C /\ st'[i] = "asking"
        BY <1>1, <1>5, <3>1
      <3>3. asking = {i}
        BY <1>1, <1>5, <1>7, <3>2 DEF OneAsks
      <3>4. queue = <<>>
        BY <1>5, <1>7, <2>1, <3>2 DEF OneAsks
      <3>5. queue' = <<i>>
        BY <1>2, <3>2, <3>3, <3>4, FewInOrder
      <3> QED BY <1>3, <3>2, <3>5
    <2> QED BY <2>2, <2>3
  <1>10. SaidInv'
    <2> SUFFICES ASSUME NEW i \in Calls
                 PROVE  /\ st'[i] = "asking" => /\ result'[i] = "open" => said'[i] = "none"
                                                /\ result'[i] = "yes" => said'[i] # "n"
                                                /\ result'[i] = "no" => said'[i] = "n"
                        /\ st'[i] \in {"running", "ended"} => said'[i] # "n"
                        /\ st'[i] = "denied" => said'[i] # "y"
      BY DEF SaidInv
    <2>1. CASE i \in C
      BY <1>3, <2>1
    <2>2. CASE i \notin C
      BY <1>3, <1>5, <1>6, <2>2 DEF SaidInv
    <2> QED BY <2>1, <2>2
  <1> QED BY <1>7, <1>8, <1>9, <1>10

\* The interface asks for the request in the queue: the answer goes to the call
\* in the slot, which is the one it was asked for, or to nobody.
LEMMA AskUserAlone ==
    ASSUME AnswerInv, NEW answer \in {"y", "n", "a", "failed"}, AskUser(answer)
    PROVE  AloneInv'
  <1> SUFFICES ASSUME alone PROVE (OneAsks /\ AskerHasSlot /\ QueueInv /\ SaidInv)'
    BY DEF AskUser, AloneInv
  <1>1. OneAsks /\ AskerHasSlot /\ QueueInv /\ SaidInv /\ TypeOK /\ SlotIsWaiting
    BY DEF AnswerInv, AloneInv
  <1>2. st' = st /\ slot' = slot
    BY DEF AskUser
  <1>3. PICK k \in Calls :
          /\ queue = <<k>>
          /\ \/ st[k] = "asking" /\ result[k] = "open"
             \/ st[k] = "cancelled" /\ \A j \in Calls : st[j] # "asking"
    BY <1>1 DEF AskUser, QueueInv
  <1>4. queue' = <<>> /\ said' = [said EXCEPT ![k] = answer]
    BY <1>3 DEF AskUser
  <1>5. result' = IF slot # None /\ result[slot] = "open"
                  THEN [result EXCEPT ![slot] = Allowed(answer)] ELSE result
    BY DEF AskUser, Resolve
  <1>6. SaidInv'
    <2>1. CASE st[k] = "asking" /\ result[k] = "open"
      <3>1. slot = k /\ slot # None
        BY <1>1, <2>1, NoneIsNoCall DEF AskerHasSlot
      <3>2. result' = [result EXCEPT ![k] = Allowed(answer)]
        BY <1>5, <2>1, <3>1
      <3> QED BY <1>1, <1>2, <1>4, <2>1, <3>2 DEF SaidInv, Allowed, TypeOK
    <2>2. CASE st[k] = "cancelled" /\ \A j \in Calls : st[j] # "asking"
      BY <1>1, <1>2, <1>4, <2>2 DEF SaidInv, TypeOK
    <2> QED BY <1>3, <2>1, <2>2
  <1> QED BY <1>1, <1>2, <1>4, <1>6 DEF OneAsks, AskerHasSlot, QueueInv

\* The call that waits is let go, by the answer or after 120 seconds: nobody waits
\* any more, and no request is left for an interface that listens.
LEMMA LetGoAlone ==
    ASSUME AnswerInv, NEW i \in Calls, Answered(i) \/ PermissionTimeout(i)
    PROVE  AloneInv'
  <1> SUFFICES ASSUME alone PROVE (OneAsks /\ AskerHasSlot /\ QueueInv /\ SaidInv)'
    BY DEF Answered, PermissionTimeout, AloneInv
  <1>1. OneAsks /\ AskerHasSlot /\ QueueInv /\ SaidInv /\ TypeOK
    BY DEF AnswerInv, AloneInv
  <1>2. st[i] = "asking" /\ UNCHANGED <<result, queue, tui, said, turn>>
    BY DEF Answered, PermissionTimeout, TimedOut
  <1>3. PICK next \in {"running", "denied"} :
          /\ st' = [st EXCEPT ![i] = next]
          /\ next = "running" => result[i] \in {"open", "yes"}
          /\ next = "denied" => result[i] = "no"
    BY <1>1 DEF Answered, PermissionTimeout, TimedOut, TypeOK
  <1>4. \A j \in Calls : st'[j] # "asking"
    BY <1>1, <1>2, <1>3 DEF OneAsks, TypeOK
  <1>5. tui = "gone" \/ queue = <<>>
    <2>1. CASE Answered(i)
      <3>1. result[i] # "open"
        BY <2>1 DEF Answered
      <3> QED BY <1>1, <1>2, <3>1 DEF OneAsks, QueueInv
    <2>2. CASE PermissionTimeout(i)
      BY <2>2 DEF PermissionTimeout, TimedOut
    <2> QED BY <2>1, <2>2
  <1>6. SaidInv'
    BY <1>1, <1>2, <1>3 DEF SaidInv, TypeOK
  <1> QED BY <1>2, <1>4, <1>5, <1>6 DEF OneAsks, AskerHasSlot, QueueInv

\* A call ends, or raises, which may end the turn: neither was waiting.
LEMMA CallEndsAlone ==
    ASSUME AnswerInv, NEW i \in Calls, EndCall(i) \/ CallRaises(i)
    PROVE  AloneInv'
  <1> SUFFICES ASSUME alone PROVE (OneAsks /\ AskerHasSlot /\ QueueInv /\ SaidInv)'
    BY DEF EndCall, CallRaises, AloneInv
  <1>1. OneAsks /\ AskerHasSlot /\ QueueInv /\ SaidInv /\ TypeOK
    BY DEF AnswerInv, AloneInv
  <1>2. /\ st[i] = "running" /\ UNCHANGED <<slot, result, queue, tui, said>>
        /\ turn = "over" => turn' = "over"
    BY DEF EndCall, CallRaises
  <1>3. PICK next \in {"ended", "raised"} : st' = [st EXCEPT ![i] = next]
    BY DEF EndCall, CallRaises
  <1>4. \A j \in Calls : IF j = i THEN st'[j] = next ELSE st'[j] = st[j]
    BY <1>1, <1>3 DEF TypeOK
  <1>5. OneAsks' /\ AskerHasSlot'
    BY <1>1, <1>2, <1>4 DEF OneAsks, AskerHasSlot
  <1>6. QueueInv'
    BY <1>1, <1>2, <1>4 DEF QueueInv
  <1>7. SaidInv'
    BY <1>1, <1>2, <1>4 DEF SaidInv
  <1> QED BY <1>5, <1>6, <1>7

\* The deadline of the turn: the request of a call it cancels stays in the queue.
LEMMA TurnTimeoutAlone ==
    ASSUME AnswerInv, TurnTimeout PROVE AloneInv'
  <1> SUFFICES ASSUME alone PROVE (OneAsks /\ AskerHasSlot /\ QueueInv /\ SaidInv)'
    BY DEF TurnTimeout, AloneInv
  <1>1. OneAsks /\ AskerHasSlot /\ QueueInv /\ SaidInv /\ TypeOK
    BY DEF AnswerInv, AloneInv
  <1>2. turn' = "over" /\ UNCHANGED <<result, queue, tui, said>>
    BY DEF TurnTimeout
  <1>3. \A j \in Calls : \/ st'[j] = st[j]
                         \/ st'[j] = "cancelled" /\ j \in waited
    BY DEF TurnTimeout
  <1>4. \A j \in Calls : j \in waited => st'[j] # "asking"
    BY DEF TurnTimeout, Ended
  <1>5. OneAsks'
    BY <1>1, <1>3 DEF OneAsks
  <1>6. AskerHasSlot'
    <2> SUFFICES ASSUME NEW j \in Calls, st'[j] = "asking" PROVE slot' = j
      BY DEF AskerHasSlot
    <2>1. st[j] = "asking" /\ j \notin waited
      BY <1>3, <1>4
    <2>2. ~ \E i \in waited : st[i] = "asking"
      BY <1>1, <2>1 DEF OneAsks, TypeOK
    <2> QED BY <1>1, <2>1, <2>2 DEF TurnTimeout, AskerHasSlot
  <1>7. QueueInv'
    <2> SUFFICES ASSUME tui # "gone", queue # <<>> PROVE QueueInv'
      BY <1>2 DEF QueueInv
    <2>1. PICK k \in Calls :
            /\ queue = <<k>>
            /\ \/ st[k] = "asking" /\ result[k] = "open"
               \/ st[k] = "cancelled" /\ \A j \in Calls : st[j] # "asking"
      BY <1>1 DEF QueueInv
    <2>2. st'[k] = "asking" \/ st'[k] = "cancelled"
      BY <1>3, <2>1
    <2>3. CASE st'[k] = "asking"
      BY <1>2, <1>3, <2>1, <2>3 DEF QueueInv
    <2>4. CASE st'[k] = "cancelled"
      <3>1. \A j \in Calls : st'[j] # "asking"
        BY <1>1, <1>3, <2>1, <2>4 DEF OneAsks
      <3> QED BY <1>2, <2>1, <2>4, <3>1 DEF QueueInv
    <2> QED BY <2>2, <2>3, <2>4
  <1>8. SaidInv'
    BY <1>1, <1>2, <1>3 DEF SaidInv
  <1> QED BY <1>5, <1>6, <1>7, <1>8

LEMMA StepAlone == AnswerInv /\ [Next]_vars => AloneInv'
  <1> SUFFICES ASSUME AnswerInv, [Next]_vars PROVE AloneInv'
    OBVIOUS
  <1> USE DEF AnswerInv, AloneInv, OneAsks, AskerHasSlot, QueueInv, SaidInv
  <1>1. CASE \E C \in SUBSET Calls : \E D \in SUBSET C : StartCalls(C, D)
    BY <1>1, StartCallsAlone
  <1>2. CASE \E answer \in {"y", "n", "a", "failed"} : AskUser(answer)
    BY <1>2, AskUserAlone
  <1>3. CASE StopListening
    BY <1>3 DEF StopListening
  <1>4. CASE \E i \in Calls : Answered(i) \/ PermissionTimeout(i)
    BY <1>4, LetGoAlone
  <1>5. CASE \E i \in Calls : EndCall(i) \/ CallRaises(i)
    BY <1>5, CallEndsAlone
  <1>6. CASE TurnTimeout
    BY <1>6, TurnTimeoutAlone
  <1>7. CASE NextTurn
    BY <1>7 DEF NextTurn
  <1>8. CASE UNCHANGED vars
    BY <1>8 DEF vars
  <1>9. CASE Finished
    BY <1>9 DEF Finished, vars
  <1> QED BY <1>1, <1>2, <1>3, <1>4, <1>5, <1>6, <1>7, <1>8, <1>9 DEF Next

\* As long as one call at a time waits for a permission, the user's answer is the
\* fate of the call it was asked for (_permission_callback, _check_permission),
\* over any number of steps and turns, with deadlines, permissions that time out,
\* an interface that stops listening and calls left from an earlier turn.
THEOREM AnswersTheorem == Spec => []AnswersReachTheirCall
  <1>1. Init => AnswerInv
    BY InitTypes, InitSlot, InitAlone DEF AnswerInv, SlotInv
  <1>2. AnswerInv /\ [Next]_vars => AnswerInv'
    <2> SUFFICES ASSUME AnswerInv, [Next]_vars PROVE AnswerInv'
      OBVIOUS
    <2>1. SlotInv
      BY DEF AnswerInv, TypeOK, SlotInv
    <2>2. SlotInv' /\ TypeOK' /\ AloneInv'
      BY <2>1, StepSlot, StepTypes, StepAlone DEF AnswerInv
    <2> QED BY <2>2 DEF AnswerInv, SlotInv
  <1>3. AnswerInv => AnswersReachTheirCall
    BY DEF AnswerInv, AloneInv, SaidInv, AnswersReachTheirCall
  <1> QED BY <1>1, <1>2, <1>3, PTL DEF Spec
=============================================================================
