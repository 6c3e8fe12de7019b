-------------------------- MODULE ConversationProofs --------------------------
(***************************************************************************)
(* Proofs about Conversation, for any limits, costs, sizes, window and     *)
(* number of recent messages, and for conversations of any length.  First  *)
(* the sum and the selection the module is built on, then what appending   *)
(* and compacting do to a list of messages, then one lemma per action.     *)
(***************************************************************************)
EXTENDS Conversation, WellFoundedInduction, TLAPS

\* A set of naturals that is not empty has a least member.
LEMMA LeastOf ==
    ASSUME NEW S \in SUBSET Nat, S # {} PROVE \E m \in S : \A k \in S : m <= k
  <1> DEFINE R == OpToRel(<, Nat)
  <1>1. \E m \in S : \A k \in S : ~ (<<k, m>> \in R)
    <2>1. IsWellFoundedOn(R, Nat)
      BY NatLessThanWellFounded
    <2> HIDE DEF R
    <2> QED BY <2>1, WFMin
  <1>2. PICK m \in S : \A k \in S : ~ (k < m)
    BY <1>1 DEF OpToRel
  <1>3. \A k \in S : m <= k
    BY <1>2
  <1> QED BY <1>3

\* f is a walk of N steps by G from b.
Walk(f, T, b, N, G) == /\ f \in [0..N -> T]
                       /\ \A m \in 0..N : f[m] = IF m = 0 THEN b ELSE G[<<f[m - 1], m>>]

\* A walk along a list by a step function G exists: were there none up to some place,
\* there would be a least such place, which the step before reaches.
LEMMA WalkExists ==
    ASSUME NEW T, NEW b \in T, NEW N \in Nat, NEW G \in [T \X (1..N) -> T]
    PROVE  \E f : Walk(f, T, b, N, G)
  <1> DEFINE S == {n \in 0..N : ~ \E f : Walk(f, T, b, n, G)}
  <1>1. S = {}
    <2> SUFFICES ASSUME S # {} PROVE FALSE
      OBVIOUS
    <2>1. PICK n \in S : \A k \in S : n <= k
      <3>1. S \in SUBSET Nat
        OBVIOUS
      <3> HIDE DEF S
      <3> QED BY <3>1, LeastOf
    <2>2. n # 0
      <3> SUFFICES \E f : Walk(f, T, b, 0, G)
        OBVIOUS
      <3>1. Walk([m \in 0..0 |-> b], T, b, 0, G)
        BY DEF Walk
      <3> QED BY <3>1
    <2>3. n - 1 \in 0..N /\ n - 1 \notin S /\ n \in 1..N
      <3>1. n \in 0..N
        BY <2>1
      <3> HIDE DEF S
      <3> QED BY <3>1, <2>1, <2>2
    <2>4. PICK f : Walk(f, T, b, n - 1, G)
      BY <2>3
    <2>5. /\ f \in [0..(n - 1) -> T] /\ n \in Nat /\ n > 0 /\ n - 1 \in 0..(n - 1)
          /\ \A m \in 0..(n - 1) : f[m] = IF m = 0 THEN b ELSE G[<<f[m - 1], m>>]
      BY <2>3, <2>4 DEF Walk
    <2>8. f[n - 1] \in T /\ G[<<f[n - 1], n>>] \in T
      BY <2>3, <2>5
    <2> HIDE DEF S
    <2> DEFINE g == [m \in 0..n |-> IF m = n THEN G[<<f[n - 1], n>>] ELSE f[m]]
    <2>6. g \in [0..n -> T]
      BY <2>5, <2>8
    <2>7. ASSUME NEW m \in 0..n PROVE g[m] = IF m = 0 THEN b ELSE G[<<g[m - 1], m>>]
      <3>1. CASE m = n
        <4>1. g[n - 1] = f[n - 1] /\ g[m] = G[<<f[n - 1], n>>] /\ m # 0
          BY <3>1, <2>5
        <4> QED BY <4>1, <3>1
      <3>2. CASE m = 0
        <4>1. 0 \in 0..n /\ 0 # n /\ 0 \in 0..(n - 1)
          BY <2>5
        <4>2. f[0] = b
          BY <4>1, <2>5
        <4>3. g[0] = f[0]
          BY <4>1
        <4> QED BY <4>2, <4>3, <3>2
      <3>3. CASE m # n /\ m # 0
        <4>1. m \in 0..(n - 1) /\ m - 1 \in 0..n /\ m - 1 # n
          BY <3>3, <2>5
        <4>2. g[m] = f[m] /\ g[m - 1] = f[m - 1]
          BY <4>1, <3>3
        <4> QED BY <4>1, <4>2, <3>3, <2>5
      <3> QED BY <3>1, <3>2, <3>3
    <2>9. Walk(g, T, b, n, G)
      BY <2>6, <2>7 DEF Walk
    <2> QED BY <2>1, <2>9 DEF S
  <1>2. \E f : Walk(f, T, b, N, G)
    BY <1>1
  <1> QED BY <1>2

\* The estimate of a list of messages is a number.
LEMMA TokensType == ASSUME NEW h \in Seq(Message) PROVE Tokens(h) \in Nat
  <1> DEFINE N == Len(h)
             Sum[n \in 0..Len(h)] == IF n = 0 THEN 0 ELSE Sum[n - 1] + h[n].size
             G == [p \in Nat \X (1..N) |-> p[1] + h[p[2]].size]
  <1>1. N \in Nat /\ \A n \in 1..N : h[n].size \in Nat
    <2>1. \A n \in 1..N : h[n] \in Message
      OBVIOUS
    <2> QED BY <2>1 DEF Message
  <1>2. G \in [Nat \X (1..N) -> Nat]
    <2> SUFFICES ASSUME NEW p \in Nat \X (1..N) PROVE p[1] + h[p[2]].size \in Nat
      BY Zenon
    <2>1. p[1] \in Nat /\ p[2] \in 1..N
      OBVIOUS
    <2>2. h[p[2]].size \in Nat
      BY <2>1, <1>1
    <2> QED BY <2>1, <2>2
  <1>3. PICK f : Walk(f, Nat, 0, N, G)
    <2> HIDE DEF G, N
    <2> QED BY <1>1, <1>2, WalkExists
  <1>31. /\ f \in [0..N -> Nat]
         /\ \A m \in 0..N : f[m] = IF m = 0 THEN 0 ELSE G[<<f[m - 1], m>>]
    BY <1>3 DEF Walk
  <1>4. f = [n \in 0..Len(h) |-> IF n = 0 THEN 0 ELSE f[n - 1] + h[n].size]
    <2>1. ASSUME NEW m \in 0..N
          PROVE  f[m] = IF m = 0 THEN 0 ELSE f[m - 1] + h[m].size
      <3>1. CASE m = 0
        BY <3>1, <1>31
      <3>2. CASE m # 0
        <4>1. m \in 1..N /\ m - 1 \in 0..N
          BY <1>1, <3>2
        <4>2. f[m - 1] \in Nat
          BY <4>1, <1>31
        <4>3. G[<<f[m - 1], m>>] = f[m - 1] + h[m].size
          BY <4>1, <4>2
        <4> HIDE DEF G
        <4> QED BY <4>3, <3>2, <1>31
      <3> QED BY <3>1, <3>2
    <2> HIDE DEF G
    <2>2. f = [n \in 0..N |-> f[n]]
      BY <1>31
    <2> QED BY <2>1, <2>2
  <1>5. Sum = [n \in 0..Len(h) |-> IF n = 0 THEN 0 ELSE Sum[n - 1] + h[n].size]
    BY <1>4
  <1>6. Tokens(h) = Sum[Len(h)]
    BY DEF Tokens
  <1> HIDE DEF Sum
  <1>7. \A m \in 0..N : Sum[m] = IF m = 0 THEN 0 ELSE Sum[m - 1] + h[m].size
    BY <1>5
  <1>8. \A m \in 0..N : Sum[m] \in Nat
    <2> DEFINE S == {m \in 0..N : Sum[m] \notin Nat}
    <2> SUFFICES ASSUME S # {} PROVE FALSE
      OBVIOUS
    <2>1. PICK m \in S : \A k \in S : m <= k
      <3>1. S \in SUBSET Nat
        OBVIOUS
      <3> HIDE DEF S
      <3> QED BY <3>1, LeastOf
    <2>2. m \in 1..N /\ m - 1 \in 0..N /\ m - 1 \notin S
      BY <1>1, <1>7, <2>1
    <2>3. Sum[m - 1] \in Nat /\ Sum[m] = Sum[m - 1] + h[m].size
      BY <2>2, <1>7
    <2> QED BY <2>1, <2>2, <2>3, <1>1
  <1> QED BY <1>1, <1>6, <1>8

\* What goes to the session file are messages, and all of them text.
LEMMA PersistedType ==
    ASSUME NEW h \in Seq(Message)
    PROVE  Persisted(h) \in Seq({m \in Message : IsText(m)})
  <1> DEFINE N == Len(h)
             T == Seq({m \in Message : IsText(m)})
             Kept[n \in 0..Len(h)] == IF n = 0 THEN <<>>
                                      ELSE IF IsText(h[n]) THEN Append(Kept[n - 1], h[n])
                                      ELSE Kept[n - 1]
             G == [p \in T \X (1..N) |-> IF IsText(h[p[2]]) THEN Append(p[1], h[p[2]]) ELSE p[1]]
  <1>1. N \in Nat /\ \A n \in 1..N : h[n] \in Message
    OBVIOUS
  <1>2. ASSUME NEW s \in T, NEW n \in 1..N
        PROVE  (IF IsText(h[n]) THEN Append(s, h[n]) ELSE s) \in T
    BY <1>1
  <1>3. G \in [T \X (1..N) -> T]
    <2> HIDE DEF T, N
    <2> QED BY <1>2
  <1>4. <<>> \in T
    OBVIOUS
  <1>5. PICK f : Walk(f, T, <<>>, N, G)
    <2> HIDE DEF G, N, T
    <2> QED BY <1>1, <1>3, <1>4, WalkExists
  <1>51. /\ f \in [0..N -> T]
         /\ \A m \in 0..N : f[m] = IF m = 0 THEN <<>> ELSE G[<<f[m - 1], m>>]
    BY <1>5 DEF Walk
  <1>6. f = [n \in 0..Len(h) |-> IF n = 0 THEN <<>>
                                 ELSE IF IsText(h[n]) THEN Append(f[n - 1], h[n])
                                 ELSE f[n - 1]]
    <2> HIDE DEF T
    <2>1. ASSUME NEW m \in 0..N
          PROVE  f[m] = IF m = 0 THEN <<>>
                        ELSE IF IsText(h[m]) THEN Append(f[m - 1], h[m]) ELSE f[m - 1]
      <3>1. CASE m = 0
        BY <3>1, <1>51
      <3>2. CASE m # 0
        <4>1. m \in 1..N /\ m - 1 \in 0..N
          BY <1>1, <3>2
        <4>2. f[m - 1] \in T
          BY <4>1, <1>51
        <4>3. G[<<f[m - 1], m>>] = IF IsText(h[m]) THEN Append(f[m - 1], h[m]) ELSE f[m - 1]
          BY <4>1, <4>2
        <4> HIDE DEF G
        <4> QED BY <4>3, <3>2, <1>51
      <3> QED BY <3>1, <3>2
    <2> HIDE DEF G
    <2>2. f = [n \in 0..N |-> f[n]]
      BY <1>51
    <2> QED BY <2>1, <2>2
  <1>7. Kept = [n \in 0..Len(h) |-> IF n = 0 THEN <<>>
                                    ELSE IF IsText(h[n]) THEN Append(Kept[n - 1], h[n])
                                    ELSE Kept[n - 1]]
    <2> HIDE DEF T
    <2> QED BY <1>6
  <1>8. Persisted(h) = Kept[Len(h)]
    BY DEF Persisted
  <1> HIDE DEF Kept
  <1>9. \A m \in 0..N : Kept[m] = IF m = 0 THEN <<>>
                                  ELSE IF IsText(h[m]) THEN Append(Kept[m - 1], h[m])
                                  ELSE Kept[m - 1]
    BY <1>7
  <1>10. \A m \in 0..N : Kept[m] \in T
    <2> DEFINE S == {m \in 0..N : Kept[m] \notin T}
    <2> SUFFICES ASSUME S # {} PROVE FALSE
      OBVIOUS
    <2> HIDE DEF T
    <2>1. PICK m \in S : \A k \in S : m <= k
      <3>1. S \in SUBSET Nat
        OBVIOUS
      <3> HIDE DEF S
      <3> QED BY <3>1, LeastOf
    <2>2. m \in 1..N /\ m - 1 \in 0..N /\ m - 1 \notin S
      BY <1>1, <1>4, <1>9, <2>1
    <2>3. Kept[m - 1] \in T
      BY <2>2
    <2>4. Kept[m] = IF IsText(h[m]) THEN Append(Kept[m - 1], h[m]) ELSE Kept[m - 1]
      BY <2>2, <1>9
    <2> QED BY <2>1, <2>2, <2>3, <2>4, <1>2
  <1> QED BY <1>1, <1>8, <1>10

-----------------------------------------------------------------------------
(***************************************************************************)
(* Lists of messages                                                       *)
(***************************************************************************)

\* CallsThenResults, of a list h in parts.
ResultsFollow(h) ==
    \A i \in 1..Len(h) : h[i].kind = "results" =>
      /\ i > 1
      /\ \/ h[i - 1].kind = "calls" /\ h[i - 1].of = h[i].of
         \/ h[i - 1].kind = "summary"
ResultsOnce(h) ==
    \A i \in 1..Len(h) : \A j \in 1..Len(h) :
      h[i].kind = "results" /\ h[j].kind = "results" /\ h[j].of = h[i].of => i = j
CallsFollowed(h) ==
    \A i \in 1..Len(h) : h[i].kind = "calls" /\ i < Len(h) =>
      \/ h[i + 1].kind = "results" /\ h[i + 1].of = h[i].of
      \/ h[i + 1].kind = "text"
      \/ h[i + 1].kind = "summary" /\ i = 1
\* No results are of a later response than number n.
ResultsUpto(h, n) == \A i \in 1..Len(h) : h[i].kind = "results" => h[i].of <= n

WellFormed(h, n) ==
    /\ h \in Seq(Message)
    /\ ResultsFollow(h)
    /\ ResultsOnce(h)
    /\ CallsFollowed(h)
    /\ ResultsUpto(h, n)

\* The fields of a message.
LEMMA Fields ==
    ASSUME NEW m \in Message PROVE m.kind \in Kinds /\ m.of \in Nat /\ m.size \in Nat
  BY DEF Message

\* The new messages are messages.
LEMMA MsgType ==
    ASSUME NEW k \in Kinds, NEW n \in Nat, NEW z \in Sizes
    PROVE  Msg(k, n, z) \in Message /\ Msg(k, n, z).kind = k /\ Msg(k, n, z).of = n
  BY ConversationAssumption DEF Msg, Message

\* A list with a message behind it: the old ones stay in their places.
LEMMA Appended ==
    ASSUME NEW h \in Seq(Message), NEW m \in Message
    PROVE  /\ Append(h, m) \in Seq(Message)
           /\ Len(h) \in Nat
           /\ Len(Append(h, m)) = Len(h) + 1
           /\ \A i \in 1..Len(h) : Append(h, m)[i] = h[i]
           /\ Append(h, m)[Len(h) + 1] = m
  OBVIOUS

\* A message behind a list keeps it well formed, if it is no results, or the first results
\* of the calls before it, and if the last message is not left without its results.
LEMMA AppendKeeps ==
    ASSUME NEW n \in Nat, NEW h, WellFormed(h, n), NEW m \in Message,
           NEW k \in Nat, n <= k,
           m.kind = "results" =>
             /\ h # <<>>
             /\ h[Len(h)].kind = "calls"
             /\ h[Len(h)].of = m.of
             /\ m.of <= k
             /\ \A i \in 1..Len(h) : h[i].kind = "results" => h[i].of < m.of,
           h # <<>> /\ h[Len(h)].kind = "calls" => m.kind \in {"results", "text"}
    PROVE  WellFormed(Append(h, m), k)
  <1> DEFINE g == Append(h, m)
             L == Len(h)
  <1>1. h \in Seq(Message)
    BY DEF WellFormed
  <1>2. /\ g \in Seq(Message) /\ L \in Nat /\ Len(g) = L + 1
        /\ \A i \in 1..L : g[i] = h[i]
        /\ g[L + 1] = m
    BY <1>1, Appended
  <1>3. L = 0 <=> h = <<>>
    BY <1>1
  <1>4. \A i \in 1..L : h[i].of \in Nat
    <2> SUFFICES ASSUME NEW i \in 1..L PROVE h[i].of \in Nat
      OBVIOUS
    <2>1. h[i] \in Message
      BY <1>1
    <2> QED BY <2>1, Fields
  <1>5. m.of \in Nat
    BY Fields
  <1> HIDE DEF g, L
  <1>6. ResultsFollow(g)
    <2> SUFFICES ASSUME NEW i \in 1..Len(g), g[i].kind = "results"
                 PROVE  /\ i > 1
                        /\ \/ g[i - 1].kind = "calls" /\ g[i - 1].of = g[i].of
                           \/ g[i - 1].kind = "summary"
      BY DEF ResultsFollow
    <2>1. CASE i = L + 1
      <3>1. L > 0 /\ L \in 1..L /\ i - 1 = L
        BY <1>2, <1>3, <2>1 DEF L
      <3>2. g[i - 1] = h[L]
        BY <3>1, <1>2
      <3>3. h[L].kind = "calls" /\ h[L].of = m.of /\ g[i] = m
        BY <2>1, <1>2 DEF L
      <3> QED BY <3>1, <3>2, <3>3
    <2>2. CASE i # L + 1
      <3>1. i \in 1..L /\ g[i] = h[i]
        BY <2>2, <1>2
      <3>2. /\ i > 1
            /\ \/ h[i - 1].kind = "calls" /\ h[i - 1].of = h[i].of
               \/ h[i - 1].kind = "summary"
        BY <3>1 DEF WellFormed, ResultsFollow, L
      <3>3. i - 1 \in 1..L
        BY <3>1, <3>2, <1>2
      <3>4. g[i - 1] = h[i - 1]
        BY <3>3, <1>2
      <3> QED BY <3>1, <3>2, <3>4
    <2> QED BY <2>1, <2>2
  <1>7. ResultsOnce(g)
    <2> SUFFICES ASSUME NEW i \in 1..Len(g), NEW j \in 1..Len(g),
                        g[i].kind = "results", g[j].kind = "results", g[j].of = g[i].of
                 PROVE  i = j
      BY DEF ResultsOnce
    <2>1. CASE i = L + 1 /\ j # L + 1
      <3>1. j \in 1..L /\ g[j] = h[j] /\ g[i] = m
        BY <2>1, <1>2
      <3>2. h[j].of < m.of
        BY <3>1 DEF L
      <3> QED BY <3>1, <3>2, <1>4, <1>5
    <2>2. CASE i # L + 1 /\ j = L + 1
      <3>1. i \in 1..L /\ g[i] = h[i] /\ g[j] = m
        BY <2>2, <1>2
      <3>2. h[i].of < m.of
        BY <3>1 DEF L
      <3> QED BY <3>1, <3>2, <1>4, <1>5
    <2>3. CASE i # L + 1 /\ j # L + 1
      <3>1. i \in 1..L /\ g[i] = h[i] /\ j \in 1..L /\ g[j] = h[j]
        BY <2>3, <1>2
      <3> QED BY <3>1 DEF WellFormed, ResultsOnce, L
    <2> QED BY <2>1, <2>2, <2>3
  <1>8. CallsFollowed(g)
    <2> SUFFICES ASSUME NEW i \in 1..Len(g), g[i].kind = "calls", i < Len(g)
                 PROVE  \/ g[i + 1].kind = "results" /\ g[i + 1].of = g[i].of
                        \/ g[i + 1].kind = "text"
                        \/ g[i + 1].kind = "summary" /\ i = 1
      BY DEF CallsFollowed
    <2>1. i \in 1..L /\ g[i] = h[i]
      BY <1>2
    <2>2. CASE i = L
      <3>1. g[i + 1] = m /\ h # <<>> /\ h[L].kind = "calls"
        BY <2>1, <2>2, <1>2, <1>3
      <3>2. m.kind \in {"results", "text"}
        BY <3>1 DEF L
      <3>3. m.kind = "results" => h[L].of = m.of
        BY DEF L
      <3> QED BY <3>1, <3>2, <3>3, <2>1, <2>2
    <2>3. CASE i # L
      <3>1. i + 1 \in 1..L /\ g[i + 1] = h[i + 1] /\ i < L
        BY <2>1, <2>3, <1>2
      <3> QED BY <3>1, <2>1 DEF WellFormed, CallsFollowed, L
    <2> QED BY <2>2, <2>3
  <1>9. ResultsUpto(g, k)
    <2> SUFFICES ASSUME NEW i \in 1..Len(g), g[i].kind = "results" PROVE g[i].of <= k
      BY DEF ResultsUpto
    <2>1. CASE i = L + 1
      BY <2>1, <1>2
    <2>2. CASE i # L + 1
      <3>1. i \in 1..L /\ g[i] = h[i]
        BY <2>2, <1>2
      <3>2. h[i].of <= n
        BY <3>1 DEF WellFormed, ResultsUpto, L
      <3> QED BY <3>1, <3>2, <1>4
    <2> QED BY <2>1, <2>2
  <1> QED BY <1>2, <1>6, <1>7, <1>8, <1>9 DEF WellFormed, g

\* What a compaction leaves when there is a middle, place by place.
LEMMA Compacted ==
    ASSUME NEW h \in Seq(Message), NEW z \in Sizes, Len(h) > MinRecent + 1
    PROVE  /\ Compact(h, z) \in Seq(Message)
           /\ Len(Compact(h, z)) = MinRecent + 2
           /\ Compact(h, z)[1] = h[1]
           /\ Compact(h, z)[2].kind = "summary"
           /\ \A i \in 3..(MinRecent + 2) :
                Compact(h, z)[i] = h[Len(h) - MinRecent + i - 2]
  <1> DEFINE s == Msg("summary", 0, z)
             r == Recent(h, MinRecent)
             M == MinRecent
  <1>1. M \in Nat /\ M > 0 /\ Len(h) \in Nat
    BY ConversationAssumption
  <1>2. s \in Message /\ s.kind = "summary" /\ h[1] \in Message
    BY <1>1, MsgType DEF Kinds
  <1>3. r \in Seq(Message) /\ Len(r) = M /\ \A i \in 1..M : r[i] = h[Len(h) - M + i]
    BY <1>1 DEF Recent
  <1> HIDE DEF s, r
  <1>4. Compact(h, z) = <<h[1], s>> \o r
    BY <1>1 DEF Compact, s, r
  <1>5. <<h[1], s>> \in Seq(Message) /\ Len(<<h[1], s>>) = 2
    BY <1>2
  <1> DEFINE g == <<h[1], s>> \o r
  <1>6. /\ g \in Seq(Message) /\ Len(g) = M + 2 /\ g[1] = h[1] /\ g[2] = s
        /\ \A i \in 3..(M + 2) : g[i] = r[i - 2]
    BY <1>1, <1>3, <1>5
  <1>7. \A i \in 3..(M + 2) : g[i] = h[Len(h) - M + i - 2]
    <2> SUFFICES ASSUME NEW i \in 3..(M + 2) PROVE r[i - 2] = h[Len(h) - M + i - 2]
      BY <1>6
    <2>1. i - 2 \in 1..M /\ Len(h) - M + (i - 2) = Len(h) - M + i - 2
      BY <1>1
    <2> QED BY <2>1, <1>3
  <1> QED BY <1>2, <1>4, <1>6, <1>7

\* A compaction keeps a list well formed.
LEMMA CompactKeeps ==
    ASSUME NEW n \in Nat, NEW h, WellFormed(h, n), NEW z \in Sizes, Len(h) > MinRecent + 1
    PROVE  WellFormed(Compact(h, z), n)
  <1> DEFINE g == Compact(h, z)
             M == MinRecent
             At(i) == Len(h) - M + i - 2
  <1>1. h \in Seq(Message)
    BY DEF WellFormed
  <1>2. /\ g \in Seq(Message) /\ Len(g) = M + 2 /\ g[1] = h[1] /\ g[2].kind = "summary"
        /\ \A i \in 3..(M + 2) : g[i] = h[At(i)]
    BY <1>1, Compacted
  <1>3. M \in Nat /\ M > 0 /\ Len(h) \in Nat /\ Len(h) > M + 1
    BY <1>1, ConversationAssumption
  <1> HIDE DEF g
  <1>4. \A i \in 3..(M + 2) : At(i) \in 3..Len(h) /\ At(i) \in 1..Len(h)
    BY <1>3
  <1>5. h[1].kind # "results" /\ 1 \in 1..Len(h)
    BY <1>3 DEF WellFormed, ResultsFollow
  <1>6. \A i \in 1..Len(g) : g[i].kind = "results" =>
          i \in 3..(M + 2) /\ g[i] = h[At(i)] /\ At(i) \in 1..Len(h)
    <2> SUFFICES ASSUME NEW i \in 1..Len(g), g[i].kind = "results" PROVE i \in 3..(M + 2)
      BY <1>2, <1>4
    <2>1. i # 1 /\ i # 2
      BY <1>2, <1>5
    <2> QED BY <2>1, <1>2, <1>3
  <1>7. ResultsFollow(g)
    <2> SUFFICES ASSUME NEW i \in 1..Len(g), g[i].kind = "results"
                 PROVE  /\ i > 1
                        /\ \/ g[i - 1].kind = "calls" /\ g[i - 1].of = g[i].of
                           \/ g[i - 1].kind = "summary"
      BY DEF ResultsFollow
    <2>1. i \in 3..(M + 2) /\ g[i] = h[At(i)] /\ At(i) \in 1..Len(h)
      BY <1>6
    <2>2. CASE i = 3
      BY <2>2, <1>2
    <2>3. CASE i # 3
      <3>1. i - 1 \in 3..(M + 2) /\ At(i - 1) = At(i) - 1
        BY <2>1, <2>3, <1>3
      <3>2. g[i - 1] = h[At(i) - 1]
        BY <3>1, <1>2
      <3>3. \/ h[At(i) - 1].kind = "calls" /\ h[At(i) - 1].of = h[At(i)].of
            \/ h[At(i) - 1].kind = "summary"
        <4> HIDE DEF At
        <4> QED BY <2>1 DEF WellFormed, ResultsFollow
      <3> QED BY <2>1, <3>2, <3>3
    <2> QED BY <2>2, <2>3
  <1>8. ResultsOnce(g)
    <2> SUFFICES ASSUME NEW i \in 1..Len(g), NEW j \in 1..Len(g),
                        g[i].kind = "results", g[j].kind = "results", g[j].of = g[i].of
                 PROVE  i = j
      BY DEF ResultsOnce
    <2>1. i \in 3..(M + 2) /\ g[i] = h[At(i)] /\ At(i) \in 1..Len(h)
      BY <1>6
    <2>2. j \in 3..(M + 2) /\ g[j] = h[At(j)] /\ At(j) \in 1..Len(h)
      BY <1>6
    <2>3. At(i) = At(j)
      <3> HIDE DEF At
      <3> QED BY <2>1, <2>2 DEF WellFormed, ResultsOnce
    <2> QED BY <2>1, <2>2, <2>3, <1>3
  <1>9. CallsFollowed(g)
    <2> SUFFICES ASSUME NEW i \in 1..Len(g), g[i].kind = "calls", i < Len(g)
                 PROVE  \/ g[i + 1].kind = "results" /\ g[i + 1].of = g[i].of
                        \/ g[i + 1].kind = "text"
                        \/ g[i + 1].kind = "summary" /\ i = 1
      BY DEF CallsFollowed
    <2>1. CASE i = 1
      BY <2>1, <1>2
    <2>2. CASE i # 1
      <3>1. i # 2
        BY <1>2
      <3>2. /\ i \in 3..(M + 2) /\ i + 1 \in 3..(M + 2)
            /\ At(i + 1) = At(i) + 1 /\ At(i) # 1 /\ At(i) < Len(h)
        BY <1>2, <1>3, <2>2, <3>1
      <3>3. g[i] = h[At(i)] /\ g[i + 1] = h[At(i) + 1] /\ At(i) \in 1..Len(h)
        BY <3>2, <1>2, <1>4
      <3>4. \/ h[At(i) + 1].kind = "results" /\ h[At(i) + 1].of = h[At(i)].of
            \/ h[At(i) + 1].kind = "text"
        <4> HIDE DEF At
        <4> QED BY <3>2, <3>3 DEF WellFormed, CallsFollowed
      <3> QED BY <3>3, <3>4
    <2> QED BY <2>1, <2>2
  <1>10. ResultsUpto(g, n)
    <2> HIDE DEF At
    <2> QED BY <1>6 DEF WellFormed, ResultsUpto
  <1> QED BY <1>2, <1>7, <1>8, <1>9, <1>10 DEF WellFormed, g

\* A list of texts alone is well formed.
LEMMA TextsWellFormed ==
    ASSUME NEW h \in Seq({m \in Message : IsText(m)}), NEW n \in Nat
    PROVE  WellFormed(h, n)
  <1>1. h \in Seq(Message) /\ \A i \in 1..Len(h) : h[i].kind \in {"text", "summary"}
    <2>1. \A i \in 1..Len(h) : h[i] \in Message /\ IsText(h[i])
      OBVIOUS
    <2> QED BY <2>1 DEF IsText
  <1> QED BY <1>1 DEF WellFormed, ResultsFollow, ResultsOnce, CallsFollowed, ResultsUpto

-----------------------------------------------------------------------------
(***************************************************************************)
(* The invariant                                                           *)
(***************************************************************************)

Texts == Seq({m \in Message : IsText(m)})

\* While calls run, the last message is theirs, and no results are as late.
AtTools ==
    phase = "tools" =>
      /\ history # <<>>
      /\ history[Len(history)].kind = "calls"
      /\ history[Len(history)].of = fresh
      /\ \A i \in 1..Len(history) :
           history[i].kind = "results" => history[i].of < fresh

ConvInv ==
    /\ TypeOK
    /\ WellFormed(history, fresh)
    /\ saved \in Texts
    /\ NewestKept
    /\ CallBounded
    /\ AtTools

\* The limit is a number.
LEMMA LimitType == CompactLimit \in Int
  <1>1. ContextWindow * Threshold \in Int
    BY ConversationAssumption
  <1> QED BY <1>1 DEF CompactLimit

LEMMA InitInv == Init => ConvInv
  <1> SUFFICES ASSUME Init PROVE ConvInv
    OBVIOUS
  <1>1. <<>> \in Texts
    BY DEF Texts
  <1>2. WellFormed(<<>>, 0)
    BY <1>1, TextsWellFormed DEF Texts
  <1>3. TypeOK
    <2>1. MaxSteps \in Nat /\ MaxTurns \in Nat /\ MaxRestarts \in Nat
      BY ConversationAssumption
    <2>2. 0 \in 0..MaxSteps /\ 0 \in 0..MaxTurns /\ 0 \in 0..MaxRestarts
      BY <2>1
    <2>3. history \in Seq(Message) /\ saved \in Seq(Message)
      BY DEF Init
    <2> QED BY <2>2, <2>3 DEF Init, TypeOK
  <1> QED BY <1>1, <1>2, <1>3 DEF Init, ConvInv, NewestKept, CallBounded, AtTools

\* Between turns only the two lists matter.
LEMMA RestInv ==
    ASSUME phase' = "prompt", step' = 0, cost' = 0, reply' = 0, compacted' = FALSE,
           fresh' \in Nat, turns' \in 0..MaxTurns, restarts' \in 0..MaxRestarts,
           WellFormed(history', fresh'), saved' \in Texts
    PROVE  ConvInv'
  <1>1. Texts \subseteq Seq(Message)
    BY DEF Texts
  <1>2. history' \in Seq(Message)
    BY DEF WellFormed
  <1>3. TypeOK'
    <2>1. MaxSteps \in Nat
      BY ConversationAssumption
    <2>2. saved' \in Seq(Message) /\ 0 \in 0..MaxSteps
      BY <1>1, <2>1
    <2> QED BY <1>2, <2>2 DEF TypeOK
  <1> QED BY <1>3 DEF ConvInv, NewestKept, CallBounded, AtTools

\* The top of the loop, with a list whose last message is what the model is asked about.
LEMMA NextStepInv ==
    ASSUME NEW h, NEW n \in 0..MaxSteps, NEW c \in Nat, NextStep(h, n, c),
           fresh' \in Nat, turns' \in 0..MaxTurns, restarts' \in 0..MaxRestarts,
           WellFormed(h, fresh'), saved' \in Texts,
           h # <<>>,
           IF n = 0 THEN h[Len(h)].kind = "text" /\ h[Len(h)].of = turns'
           ELSE h[Len(h)].kind = "results" /\ h[Len(h)].of = fresh'
    PROVE  ConvInv'
  <1>1. MaxSteps \in Nat /\ MaxCost \in Int /\ MinRecent \in Nat /\ MinRecent > 0
    BY ConversationAssumption
  <1>2. h \in Seq(Message) /\ Len(h) \in Nat
    BY DEF WellFormed
  <1>3. CASE n >= MaxSteps \/ c >= MaxCost
    <2>1. history' = h /\ EndTurn
      BY <1>3 DEF NextStep
    <2> QED BY <2>1, RestInv DEF EndTurn
  <1>4. CASE ~ (n >= MaxSteps \/ c >= MaxCost)
    <2>1. /\ phase' = "llm" /\ step' = n + 1 /\ cost' = c /\ reply' = 0
          /\ compacted' = TooLong(h)
          /\ IF TooLong(h) THEN \E z \in Sizes : history' = Compact(h, z) ELSE history' = h
      BY <1>4 DEF NextStep
    <2>2. step' \in 0..MaxSteps /\ step' # 0 /\ (step' = 1 <=> n = 0)
      BY <2>1, <1>1, <1>4
    <2>3. compacted' \in BOOLEAN
      BY <2>1 DEF TooLong
    <2>4. ASSUME WellFormed(history', fresh'), NewestKept', CallBounded' PROVE ConvInv'
      <3>1. history' \in Seq(Message) /\ saved' \in Seq(Message)
        BY <2>4 DEF WellFormed, Texts
      <3>2. TypeOK'
        BY <2>1, <2>2, <2>3, <3>1, ConversationAssumption DEF TypeOK
      <3> QED BY <2>1, <2>4, <3>2 DEF ConvInv, AtTools
    <2>5. CASE ~ TooLong(h)
      <3>1. history' = h
        BY <2>1, <2>5
      <3>2. NewestKept'
        BY <3>1, <2>2 DEF NewestKept
      <3>3. Estimate(h) \in Nat
        BY <1>2, TokensType, ConversationAssumption DEF Estimate
      <3>4. Estimate(h) <= CompactLimit \/ Len(h) <= MinRecent + 2
        BY <2>5, <3>3, <1>1, <1>2, LimitType DEF TooLong
      <3>5. CallBounded'
        BY <3>1, <3>4 DEF CallBounded, Estimate, CompactLimit
      <3> QED BY <3>1, <3>2, <3>5, <2>4
    <2>6. CASE TooLong(h)
      <3>1. PICK z \in Sizes : history' = Compact(h, z)
        BY <2>1, <2>6
      <3>2. CASE Len(h) <= MinRecent + 1
        <4>1. history' = <<>>
          BY <3>1, <3>2 DEF Compact
        <4>2. WellFormed(<<>>, fresh')
          <5>1. <<>> \in Seq({m \in Message : IsText(m)})
            OBVIOUS
          <5> QED BY <5>1, TextsWellFormed
        <4>3. Len(history') <= MinRecent + 2
          BY <4>1, <1>1
        <4> QED BY <4>1, <4>2, <4>3, <2>4 DEF NewestKept, CallBounded
      <3>3. CASE ~ (Len(h) <= MinRecent + 1)
        <4>1. Len(h) > MinRecent + 1
          BY <3>3, <1>1, <1>2
        <4>2. WellFormed(history', fresh')
          BY <3>1, <4>1, CompactKeeps
        <4>3. /\ Len(history') = MinRecent + 2
              /\ \A i \in 3..(MinRecent + 2) : history'[i] = h[Len(h) - MinRecent + i - 2]
          BY <3>1, <4>1, <1>2, Compacted
        <4>4. history'[Len(history')] = h[Len(h)]
          <5>1. /\ MinRecent + 2 \in 3..(MinRecent + 2)
                /\ Len(h) - MinRecent + (MinRecent + 2) - 2 = Len(h)
            BY <1>1, <1>2
          <5>2. history'[MinRecent + 2] = h[Len(h) - MinRecent + (MinRecent + 2) - 2]
            BY <5>1, <4>3
          <5> QED BY <5>1, <5>2, <4>3
        <4>5. NewestKept'
          BY <4>4, <2>2 DEF NewestKept
        <4>6. CallBounded'
          BY <4>3, <1>1 DEF CallBounded
        <4> QED BY <4>2, <4>5, <4>6, <2>4
      <3> QED BY <3>2, <3>3
    <2> QED BY <2>5, <2>6
  <1> QED BY <1>3, <1>4

\* The words that open a turn.
LEMMA BeginTurnInv == ASSUME ConvInv, BeginTurn PROVE ConvInv'
  <1>1. TypeOK /\ WellFormed(history, fresh) /\ saved \in Texts
    BY DEF ConvInv
  <1>2. PICK z \in Sizes : NextStep(Append(history, Msg("text", turns + 1, z)), 0, 0)
    BY DEF BeginTurn
  <1> DEFINE m == Msg("text", turns + 1, z)
  <1>3. turns' = turns + 1 /\ turns < MaxTurns /\ UNCHANGED <<saved, fresh, restarts>>
    BY DEF BeginTurn
  <1>4. /\ turns + 1 \in Nat /\ turns' \in 0..MaxTurns /\ fresh' \in Nat /\ restarts' \in 0..MaxRestarts
        /\ 0 \in 0..MaxSteps
    BY <1>1, <1>3, ConversationAssumption DEF TypeOK
  <1>5. m \in Message /\ m.kind = "text" /\ m.of = turns + 1
    BY <1>4, MsgType DEF Kinds
  <1> HIDE DEF m
  <1>6. WellFormed(Append(history, m), fresh)
    BY <1>1, <1>5, AppendKeeps DEF TypeOK
  <1>7. /\ Append(history, m) # <<>>
        /\ Append(history, m)[Len(Append(history, m))] = m
    BY <1>1, <1>5 DEF TypeOK
  <1>8. NextStep(Append(history, m), 0, 0)
    BY <1>2 DEF m
  <1> QED BY <1>1, <1>3, <1>4, <1>5, <1>6, <1>7, <1>8, NextStepInv

\* In the call of the model, the last message is not calls that wait for results.
LEMMA LastAtCall ==
    ASSUME ConvInv, phase = "llm"
    PROVE  ~ (history # <<>> /\ history[Len(history)].kind = "calls")
  BY DEF ConvInv, NewestKept

\* An answer without calls.
LEMMA AnswerInv == ASSUME ConvInv, Answer PROVE ConvInv'
  <1>1. TypeOK /\ WellFormed(history, fresh) /\ saved \in Texts /\ fresh \in Nat
    BY DEF ConvInv, TypeOK
  <1>2. PICK z \in Sizes : history' = Append(history, Msg("answer", fresh + 1, z))
    BY DEF Answer
  <1> DEFINE m == Msg("answer", fresh + 1, z)
  <1>3. m \in Message /\ m.kind = "answer"
    BY <1>1, MsgType DEF Kinds
  <1>4. ~ (history # <<>> /\ history[Len(history)].kind = "calls")
    BY LastAtCall DEF Answer
  <1>5. history' = Append(history, m) /\ fresh + 1 \in Nat /\ fresh <= fresh + 1
    BY <1>1, <1>2
  <1> HIDE DEF m
  <1>6. WellFormed(history', fresh + 1)
    BY <1>1, <1>3, <1>4, <1>5, AppendKeeps
  <1> QED BY <1>1, <1>5, <1>6, RestInv DEF Answer, EndTurn, TypeOK

\* A response with calls.
LEMMA CallToolsInv == ASSUME ConvInv, NEW c \in Costs, CallTools(c) PROVE ConvInv'
  <1>1. TypeOK /\ WellFormed(history, fresh) /\ saved \in Texts /\ fresh \in Nat
        /\ history \in Seq(Message) /\ phase = "llm"
    BY DEF ConvInv, TypeOK, CallTools
  <1>2. PICK z \in Sizes : history' = Append(history, Msg("calls", fresh + 1, z))
    BY DEF CallTools
  <1> DEFINE m == Msg("calls", fresh + 1, z)
  <1>3. m \in Message /\ m.kind = "calls" /\ m.of = fresh + 1
    BY <1>1, MsgType DEF Kinds
  <1>4. ~ (history # <<>> /\ history[Len(history)].kind = "calls")
    BY <1>1, LastAtCall
  <1>5. history' = Append(history, m) /\ fresh + 1 \in Nat /\ fresh <= fresh + 1
    BY <1>1, <1>2
  <1>6. /\ fresh' = fresh + 1 /\ reply' = c /\ phase' = "tools"
        /\ UNCHANGED <<step, cost, saved, compacted, turns, restarts>>
    BY DEF CallTools
  <1> HIDE DEF m
  <1>7. WellFormed(history', fresh')
    BY <1>1, <1>3, <1>4, <1>5, <1>6, AppendKeeps
  <1>8. /\ Len(history) \in Nat /\ Len(history') = Len(history) + 1
        /\ history'[Len(history) + 1] = m
        /\ \A i \in 1..Len(history) : history'[i] = history[i]
    BY <1>1, <1>3, <1>5, Appended
  <1>9. AtTools'
    <2>1. history' # <<>>
      BY <1>1, <1>3, <1>5
    <2>2. ASSUME NEW i \in 1..Len(history'), history'[i].kind = "results"
          PROVE  history'[i].of < fresh'
      <3>1. i \in 1..Len(history) /\ history'[i] = history[i]
        BY <2>2, <1>3, <1>8
      <3>2. history[i].of <= fresh
        BY <2>2, <3>1, <1>1 DEF WellFormed, ResultsUpto
      <3>3. history[i] \in Message
        BY <3>1, <1>1
      <3> QED BY <3>1, <3>2, <3>3, <1>1, <1>6, Fields
    <2> QED BY <2>1, <2>2, <1>3, <1>6, <1>8 DEF AtTools
  <1>10. TypeOK'
    <2>1. history' \in Seq(Message)
      BY <1>7 DEF WellFormed
    <2> QED BY <2>1, <1>1, <1>5, <1>6, ConversationAssumption DEF TypeOK
  <1> QED BY <1>1, <1>6, <1>7, <1>9, <1>10 DEF ConvInv, NewestKept, CallBounded

\* The results of the calls.
LEMMA CollectInv == ASSUME ConvInv, Collect PROVE ConvInv'
  <1>1. /\ TypeOK /\ WellFormed(history, fresh) /\ saved \in Texts /\ fresh \in Nat
        /\ history \in Seq(Message) /\ phase = "tools"
        /\ UNCHANGED <<saved, fresh, turns, restarts>>
    BY DEF ConvInv, TypeOK, Collect
  <1>2. PICK z \in Sizes : NextStep(Append(history, Msg("results", fresh, z)), step, cost + reply)
    BY DEF Collect
  <1> DEFINE m == Msg("results", fresh, z)
  <1>3. m \in Message /\ m.kind = "results" /\ m.of = fresh
    BY <1>1, MsgType DEF Kinds
  <1> HIDE DEF m
  <1>4. /\ history # <<>>
        /\ history[Len(history)].kind = "calls"
        /\ history[Len(history)].of = fresh
        /\ \A i \in 1..Len(history) : history[i].kind = "results" => history[i].of < fresh
    BY <1>1 DEF ConvInv, AtTools
  <1>5. WellFormed(Append(history, m), fresh)
    BY <1>1, <1>3, <1>4, AppendKeeps
  <1>6. /\ step \in 0..MaxSteps /\ step # 0 /\ cost + reply \in Nat
        /\ fresh' \in Nat /\ turns' \in 0..MaxTurns /\ restarts' \in 0..MaxRestarts
    BY <1>1 DEF TypeOK
  <1>7. /\ Append(history, m) # <<>>
        /\ Append(history, m)[Len(Append(history, m))] = m
    BY <1>1, <1>3
  <1>8. NextStep(Append(history, m), step, cost + reply)
    BY <1>2 DEF m
  <1> QED BY <1>1, <1>3, <1>5, <1>6, <1>7, <1>8, NextStepInv

\* The other ways a turn ends, and the session.
LEMMA SessionInv ==
    ASSUME ConvInv, Interrupt \/ Save \/ Clear \/ ExitAndStart \/ CrashAndStart \/ CrashInSave
    PROVE  ConvInv'
  <1>1. /\ TypeOK /\ WellFormed(history, fresh) /\ saved \in Texts /\ fresh \in Nat
        /\ history \in Seq(Message)
        /\ turns \in 0..MaxTurns /\ restarts \in 0..MaxRestarts
    BY DEF ConvInv, TypeOK
  <1>2. Persisted(history) \in Texts /\ <<>> \in Texts
    BY <1>1, PersistedType DEF Texts
  <1>3. WellFormed(<<>>, fresh)
    BY <1>1, <1>2, TextsWellFormed DEF Texts
  <1>4. CASE Interrupt
    BY <1>1, <1>4, RestInv DEF Interrupt, EndTurn
  <1>5. ASSUME phase = "prompt"
        PROVE  step = 0
    BY <1>1, <1>5 DEF TypeOK
  <1>6. CASE Save
    <2>1. TypeOK'
      BY <1>1, <1>2, <1>6 DEF Save, TypeOK, Texts
    <2> QED BY <1>1, <1>2, <1>6, <2>1 DEF Save, ConvInv, NewestKept, CallBounded, AtTools
  <1>7. CASE Clear
    <2>1. TypeOK'
      BY <1>1, <1>2, <1>7 DEF Clear, TypeOK, Texts
    <2>2. phase' = "prompt" /\ history' = <<>> /\ saved' = <<>> /\ fresh' = fresh
      BY <1>7 DEF Clear
    <2> QED BY <1>2, <1>3, <2>1, <2>2 DEF ConvInv, NewestKept, CallBounded, AtTools
  <1>8. ASSUME NEW f \in Texts, Boot(f), saved' \in Texts PROVE ConvInv'
    <2>1. WellFormed(f, fresh)
      BY <1>1, TextsWellFormed DEF Texts
    <2>2. /\ history' = f /\ phase' = "prompt" /\ step' = 0 /\ cost' = 0 /\ reply' = 0
          /\ compacted' = FALSE /\ fresh' = fresh /\ turns' = turns
          /\ restarts' = restarts + 1 /\ restarts < MaxRestarts
      BY <1>8 DEF Boot
    <2>3. restarts' \in 0..MaxRestarts
      BY <2>2, <1>1, ConversationAssumption
    <2> QED BY <1>1, <1>8, <2>1, <2>2, <2>3, RestInv
  <1>9. CASE ExitAndStart
    BY <1>2, <1>8, <1>9 DEF ExitAndStart
  <1>10. CASE CrashAndStart
    BY <1>1, <1>8, <1>10 DEF CrashAndStart
  <1>11. CASE CrashInSave
    BY <1>2, <1>8, <1>11 DEF CrashInSave
  <1> QED BY <1>4, <1>6, <1>7, <1>9, <1>10, <1>11

LEMMA Invariance == Spec => []ConvInv
  <1>1. ConvInv /\ [Next]_vars => ConvInv'
    <2> SUFFICES ASSUME ConvInv, [Next]_vars PROVE ConvInv'
      OBVIOUS
    <2>1. CASE BeginTurn
      BY <2>1, BeginTurnInv
    <2>2. CASE Answer
      BY <2>2, AnswerInv
    <2>3. ASSUME NEW c \in Costs, CallTools(c) PROVE ConvInv'
      BY <2>3, CallToolsInv
    <2>4. CASE Collect
      BY <2>4, CollectInv
    <2>5. CASE Interrupt \/ Save \/ Clear \/ ExitAndStart \/ CrashAndStart \/ CrashInSave
      BY <2>5, SessionInv
    <2>6. CASE UNCHANGED vars
      BY <2>6 DEF vars, ConvInv, TypeOK, NewestKept, CallBounded, AtTools
    <2> QED BY <2>1, <2>2, <2>3, <2>4, <2>5, <2>6 DEF Next
  <1> QED BY InitInv, <1>1, PTL DEF Spec

-----------------------------------------------------------------------------
(***************************************************************************)
(* Theorems                                                                *)
(***************************************************************************)

\* The values of the shared list, of the session file and of the locals of a turn.
THEOREM TypeCorrect == Spec => []TypeOK
  <1>1. ConvInv => TypeOK
    BY DEF ConvInv
  <1> QED BY Invariance, <1>1, PTL

\* However long the conversation, however often it is compacted, interrupted, saved and
\* restored, results stand behind their calls or behind the summary of a compaction
\* (run_conversation_turn, _compact_history).
THEOREM CallsThenResultsTheorem == Spec => []CallsThenResults
  <1>1. ConvInv => CallsThenResults
    <2> SUFFICES ASSUME ConvInv PROVE CallsThenResults
      OBVIOUS
    <2>1. WellFormed(history, fresh) /\ DOMAIN history = 1..Len(history)
      BY DEF ConvInv, WellFormed
    <2>2. ResultsFollow(history) /\ ResultsOnce(history) /\ CallsFollowed(history)
      BY <2>1 DEF WellFormed
    <2>3. ASSUME NEW i \in 1..Len(history), history[i].kind = "results"
          PROVE  /\ i > 1
                 /\ \/ history[i - 1].kind = "calls" /\ history[i - 1].of = history[i].of
                    \/ history[i - 1].kind = "summary"
                 /\ \A j \in 1..Len(history) :
                      history[j].kind = "results" /\ history[j].of = history[i].of => i = j
      BY <2>2, <2>3 DEF ResultsFollow, ResultsOnce
    <2>4. ASSUME NEW i \in 1..Len(history), history[i].kind = "calls", i < Len(history)
          PROVE  \/ history[i + 1].kind = "results" /\ history[i + 1].of = history[i].of
                 \/ history[i + 1].kind = "text"
                 \/ history[i + 1].kind = "summary" /\ i = 1
      BY <2>2, <2>4 DEF CallsFollowed
    <2> QED BY <2>1, <2>3, <2>4 DEF CallsThenResults
  <1> QED BY Invariance, <1>1, PTL

\* Whatever the window, the sizes and the number of recent messages (but none), what the
\* model is asked about is the last message it gets (_compact_history).
THEOREM NewestTheorem == Spec => []NewestKept
  <1>1. ConvInv => NewestKept
    BY DEF ConvInv
  <1> QED BY Invariance, <1>1, PTL

\* At every call of the model the list is under the limit, or cannot be compacted further
\* (the context window guard).
THEOREM BoundedTheorem == Spec => []CallBounded
  <1>1. ConvInv => CallBounded
    BY DEF ConvInv
  <1> QED BY Invariance, <1>1, PTL

\* The opening message stays as long as anything does, but for a session that is
\* restored (first_msg in _compact_history).
THEOREM OpeningTheorem == Spec => OpeningKept
  <1> DEFINE Kept(h, g) == h # <<>> /\ g # <<>> => g[1] = h[1]
  <1>1. ASSUME NEW h \in Seq(Message), NEW m \in Message, NEW n \in Nat, NEW c \in Nat,
               NextStep(Append(h, m), n, c)
        PROVE  Kept(h, history')
    <2> DEFINE g == Append(h, m)
    <2> SUFFICES ASSUME h # <<>>, history' # <<>> PROVE history'[1] = h[1]
      OBVIOUS
    <2>1. g \in Seq(Message) /\ g[1] = h[1]
      OBVIOUS
    <2> HIDE DEF g
    <2>2. history' = g \/ \E z \in Sizes : history' = Compact(g, z)
      <3>1. CASE n >= MaxSteps \/ c >= MaxCost
        BY <1>1, <3>1 DEF NextStep, g
      <3>2. CASE ~ (n >= MaxSteps \/ c >= MaxCost)
        BY <1>1, <3>2 DEF NextStep, g
      <3> QED BY <3>1, <3>2
    <2>3. ASSUME NEW z \in Sizes, history' = Compact(g, z) PROVE history'[1] = h[1]
      <3>1. ~ (Len(g) <= MinRecent + 1)
        BY <2>3 DEF Compact
      <3>2. Len(g) > MinRecent + 1
        BY <3>1, <2>1, ConversationAssumption
      <3> QED BY <2>1, <2>3, <3>2, Compacted
    <2> QED BY <2>1, <2>2, <2>3
  <1>2. ConvInv /\ [Next]_vars
          => [history # <<>> /\ history' # <<>> /\ restarts' = restarts
                => history'[1] = history[1]]_vars
    <2> SUFFICES ASSUME ConvInv, Next, history # <<>>, history' # <<>>, restarts' = restarts
                 PROVE  history'[1] = history[1]
      BY DEF vars
    <2>1. history \in Seq(Message) /\ turns \in Nat /\ fresh \in Nat /\ restarts \in Nat
        /\ step \in Nat /\ cost + reply \in Nat
      BY DEF ConvInv, TypeOK
    <2>2. CASE BeginTurn
      <3>1. PICK z \in Sizes : NextStep(Append(history, Msg("text", turns + 1, z)), 0, 0)
        BY <2>2 DEF BeginTurn
      <3>2. Msg("text", turns + 1, z) \in Message
        BY <2>1, MsgType DEF Kinds
      <3> QED BY <3>1, <3>2, <2>1, <1>1
    <2>3. CASE Collect
      <3>1. PICK z \in Sizes : NextStep(Append(history, Msg("results", fresh, z)), step, cost + reply)
        BY <2>3 DEF Collect
      <3>2. Msg("results", fresh, z) \in Message
        BY <2>1, MsgType DEF Kinds
      <3> QED BY <3>1, <3>2, <2>1, <1>1
    <2>4. ASSUME NEW k \in Kinds, NEW z \in Sizes, history' = Append(history, Msg(k, fresh + 1, z))
          PROVE  history'[1] = history[1]
      <3>1. Msg(k, fresh + 1, z) \in Message
        BY <2>1, MsgType
      <3> QED BY <3>1, <2>1, <2>4
    <2>5. CASE Answer
      BY <2>4, <2>5 DEF Answer, Kinds
    <2>6. ASSUME NEW c \in Costs, CallTools(c) PROVE history'[1] = history[1]
      BY <2>4, <2>6 DEF CallTools, Kinds
    <2>7. CASE Interrupt \/ Save
      BY <2>7 DEF Interrupt, Save
    <2>8. CASE Clear
      BY <2>8 DEF Clear
    <2>9. CASE ExitAndStart \/ CrashAndStart \/ CrashInSave
      BY <2>1, <2>9 DEF ExitAndStart, CrashAndStart, CrashInSave, Boot
    <2> QED BY <2>2, <2>3, <2>5, <2>6, <2>7, <2>8, <2>9 DEF Next
  <1> QED BY Invariance, <1>2, PTL DEF Spec, OpeningKept
===============================================================================
