--------------------------- MODULE FileToolsProofs ---------------------------
(***************************************************************************)
(* Proofs about FileTools: for any number of calls, any requests, texts of *)
(* any length, lists of any number of edits, and any number of retries,    *)
(* faults and changes by others.  First the algorithm of the edits against *)
(* its reference, then one lemma per action for the invariant.             *)
(***************************************************************************)
EXTENDS FileTools, WellFoundedInduction, TLAPS

\* A set of naturals that is not empty has a least member.
LEMMA LeastOf ==
    ASSUME NEW S \in SUBSET Nat, S # {} PROVE \E m \in S : \A k \in S : m <= k
  <1> DEFINE R == OpToRel(<, Nat)
  <1>1. \E m \in S : \A k \in S : ~ (<<k, m>> \in R)
    <2>1. IsWellFoundedOn(R, Nat)
      BY NatLessThanWellFounded
    <2> HIDE DEF R
    <2> QED BY <2>1, WFMin
  <1>2. PICK m \in S : \A k \in S : ~ (k < m)
    BY <1>1 DEF OpToRel
  <1>3. \A k \in S : m <= k
    BY <1>2
  <1> QED BY <1>3

-----------------------------------------------------------------------------
(***************************************************************************)
(* Files in text mode                                                      *)
(***************************************************************************)

\* The concatenation of sequences, unfolded: a recursive function on 1..n exists for
\* every n, or there would be a least n without one.
LEMMA FlattenSteps ==
    ASSUME NEW ps \in Seq(Seq(Nat)), Len(ps) # 0
    PROVE  \E f : /\ f[1] = ps[1]
                  /\ \A m \in 2..Len(ps) : f[m] = f[m - 1] \o ps[m]
                  /\ FlattenSeq(ps) = f[Len(ps)]
  <1> DEFINE IsUpto(f, n) == f = [m \in 1..n |-> IF m = 1 THEN ps[m] ELSE f[m - 1] \o ps[m]]
             flatten[m \in 1..Len(ps)] == IF m = 1 THEN ps[m] ELSE flatten[m - 1] \o ps[m]
  <1>1. \A n \in Nat : \E f : IsUpto(f, n)
    <2> DEFINE S == {n \in Nat : ~ \E f : IsUpto(f, n)}
    <2> SUFFICES ASSUME S # {} PROVE FALSE
      OBVIOUS
    <2>1. PICK n \in S : \A k \in S : n <= k
      <3>1. S \in SUBSET Nat
        OBVIOUS
      <3> HIDE DEF S
      <3> QED BY <3>1, LeastOf
    <2>2. n # 0
      <3> SUFFICES \E f : IsUpto(f, 0)
        OBVIOUS
      <3>1. IsUpto([m \in {} |-> ps], 0)
        OBVIOUS
      <3> QED BY <3>1
    <2>3. n - 1 \in Nat /\ n - 1 \notin S
      <3>1. n \in Nat
        BY <2>1
      <3> HIDE DEF S
      <3> QED BY <3>1, <2>1, <2>2
    <2>4. PICK f : IsUpto(f, n - 1)
      BY <2>3
    <2> DEFINE g == [m \in 1..n |-> IF m = n THEN (IF n = 1 THEN ps[n] ELSE f[n - 1] \o ps[n]) ELSE f[m]]
    <2>5. IsUpto(g, n)
      <3> SUFFICES ASSUME NEW m \in 1..n
                   PROVE  g[m] = IF m = 1 THEN ps[m] ELSE g[m - 1] \o ps[m]
        OBVIOUS
      <3>1. n \in Nat
        BY <2>3
      <3>2. CASE m = n
        <4>1. m # 1 => m - 1 \in 1..n /\ m - 1 # n
          BY <3>1, <3>2
        <4> QED BY <3>2, <4>1
      <3>3. CASE m # n
        <4>1. m \in 1..n - 1 /\ (m # 1 => m - 1 \in 1..n /\ m - 1 # n)
          BY <3>1, <3>3
        <4>2. f[m] = IF m = 1 THEN ps[m] ELSE f[m - 1] \o ps[m]
          BY <2>4, <4>1
        <4> QED BY <3>3, <4>1, <4>2
      <3> QED BY <3>2, <3>3
    <2> QED BY <2>5
  <1>2. Len(ps) \in Nat
    OBVIOUS
  <1>3. IsUpto(flatten, Len(ps))
    BY <1>1, <1>2
  <1>4. \A m \in 1..Len(ps) : flatten[m] = IF m = 1 THEN ps[m] ELSE flatten[m - 1] \o ps[m]
    BY <1>3
  <1>5. FlattenSeq(ps) = flatten[Len(ps)]
    BY DEF FlattenSeq
  <1> HIDE DEF flatten
  <1>6. flatten[1] = ps[1]
    BY <1>2, <1>4
  <1>7. \A m \in 2..Len(ps) : flatten[m] = flatten[m - 1] \o ps[m]
    <2> SUFFICES ASSUME NEW m \in 2..Len(ps) PROVE flatten[m] = flatten[m - 1] \o ps[m]
      OBVIOUS
    <2>1. m \in 1..Len(ps) /\ m # 1
      BY <1>2
    <2> HIDE DEF IsUpto
    <2> QED BY <1>4, <2>1
  <1> QED BY <1>5, <1>6, <1>7

\* Two texts make up one.
LEMMA ConcatType == ASSUME NEW a \in Seq(Nat), NEW b \in Seq(Nat) PROVE a \o b \in Seq(Nat)
  OBVIOUS

\* Texts make up a text.
LEMMA FlattenType ==
    ASSUME NEW ps \in Seq(Seq(Nat)) PROVE FlattenSeq(ps) \in Seq(Nat)
  <1>1. CASE Len(ps) = 0
    <2>1. ps = <<>>
      BY <1>1
    <2> QED BY <1>1, <2>1 DEF FlattenSeq
  <1>2. CASE Len(ps) # 0
    <2>1. PICK f : /\ f[1] = ps[1]
                   /\ \A m \in 2..Len(ps) : f[m] = f[m - 1] \o ps[m]
                   /\ FlattenSeq(ps) = f[Len(ps)]
      BY <1>2, FlattenSteps
    <2>2. Len(ps) \in Nat /\ Len(ps) \in 1..Len(ps) /\ \A m \in 1..Len(ps) : ps[m] \in Seq(Nat)
      BY <1>2
    <2>3. \A m \in 1..Len(ps) : f[m] \in Seq(Nat)
      <3> DEFINE S == {m \in 1..Len(ps) : f[m] \notin Seq(Nat)}
      <3> SUFFICES ASSUME S # {} PROVE FALSE
        OBVIOUS
      <3>1. PICK m \in S : \A k \in S : m <= k
        <4>1. S \in SUBSET Nat
          OBVIOUS
        <4> HIDE DEF S
        <4> QED BY <4>1, LeastOf
      <3>2. m # 1
        BY <2>1, <2>2
      <3>3. m - 1 \in 1..Len(ps) /\ m - 1 \notin S /\ m \in 2..Len(ps)
        BY <3>1, <3>2, <2>2
      <3>4. f[m - 1] \in Seq(Nat) /\ ps[m] \in Seq(Nat) /\ f[m] = f[m - 1] \o ps[m]
        BY <2>1, <2>2, <3>3
      <3>5. f[m] \in Seq(Nat)
        <4> HIDE DEF S
        <4> QED BY <3>4, ConcatType, Zenon
      <3> QED BY <3>1, <3>5
    <2> QED BY <2>1, <2>2, <2>3
  <1> QED BY <1>1, <1>2

\* A text of one character.
LEMMA OneCharacter == ASSUME NEW t \in Seq(Nat), Len(t) = 1 PROVE t = <<t[1]>>
  <1>1. t \in [1..1 -> Nat]
    OBVIOUS
  <1>2. <<t[1]>> \in [1..1 -> Nat] /\ <<t[1]>>[1] = t[1]
    BY <1>1
  <1>3. \A i \in 1..1 : i = 1
    OBVIOUS
  <1> QED BY <1>1, <1>2, <1>3

\* The characters of a text, each by itself, make up the text.
LEMMA FlattenSingles ==
    ASSUME NEW t \in Seq(Nat) PROVE FlattenSeq([n \in 1..Len(t) |-> <<t[n]>>]) = t
  <1> DEFINE ps == [n \in 1..Len(t) |-> <<t[n]>>]
  <1>1. ps \in Seq(Seq(Nat)) /\ Len(ps) = Len(t) /\ Len(t) \in Nat
        /\ \A n \in 1..Len(t) : ps[n] = <<t[n]>>
    OBVIOUS
  <1> HIDE DEF ps
  <1>2. CASE Len(t) = 0
    <2>1. ps = <<>> /\ t = <<>>
      BY <1>1, <1>2
    <2> QED BY <1>1, <1>2, <2>1 DEF FlattenSeq, ps
  <1>3. CASE Len(t) # 0
    <2>1. PICK f : /\ f[1] = ps[1]
                   /\ \A m \in 2..Len(ps) : f[m] = f[m - 1] \o ps[m]
                   /\ FlattenSeq(ps) = f[Len(ps)]
      BY <1>1, <1>3, FlattenSteps
    <2>2. \A m \in 1..Len(t) : f[m] = SubSeq(t, 1, m)
      <3> DEFINE S == {m \in 1..Len(t) : f[m] # SubSeq(t, 1, m)}
      <3> SUFFICES ASSUME S # {} PROVE FALSE
        OBVIOUS
      <3>1. PICK m \in S : \A k \in S : m <= k
        <4>1. S \in SUBSET Nat
          OBVIOUS
        <4> HIDE DEF S
        <4> QED BY <4>1, LeastOf
      <3>2. m # 1
        <4>1. 1 \in 1..Len(t) /\ f[1] = <<t[1]>>
          BY <1>1, <1>3, <2>1
        <4>2. SubSeq(t, 1, 1) = <<t[1]>>
          <5>1. t \in [1..Len(t) -> Nat] /\ 1 \in 1..Len(t)
            BY <4>1
          <5>2. SubSeq(t, 1, 1) \in Seq(Nat) /\ Len(SubSeq(t, 1, 1)) = 1 /\ SubSeq(t, 1, 1)[1] = t[1]
            BY <5>1
          <5> QED BY <5>2, OneCharacter
        <4> QED BY <4>1, <4>2
      <3>3. m - 1 \in 1..Len(t) /\ m - 1 \notin S /\ m \in 2..Len(t) /\ m \in 1..Len(t)
        <4>1. m \in 1..Len(t) /\ Len(t) \in Nat
          BY <3>1
        <4> HIDE DEF S
        <4> QED BY <3>1, <3>2, <4>1
      <3>4. f[m] = SubSeq(t, 1, m - 1) \o <<t[m]>>
        BY <1>1, <2>1, <3>3
      <3>5. SubSeq(t, 1, m - 1) \o <<t[m]>> = SubSeq(t, 1, m)
        BY <1>1, <3>3
      <3> QED BY <3>1, <3>4, <3>5
    <2>3. SubSeq(t, 1, Len(t)) = t
      OBVIOUS
    <2> QED BY <1>1, <1>3, <2>1, <2>2, <2>3 DEF ps
  <1> QED BY <1>1, <1>2, <1>3

\* What is read of a file is a text.
LEMMA ReadTextType == ASSUME NEW t \in Seq(Nat) PROVE ReadText(t) \in Seq(Nat)
  <1> DEFINE ps == [n \in 1..Len(t) |-> IF n > 1 /\ t[n] = LF /\ t[n - 1] = CR THEN <<>>
                                        ELSE <<IF t[n] = CR THEN LF ELSE t[n]>>]
  <1>1. ps \in Seq(Seq(Nat))
    <2>1. \A n \in 1..Len(t) : ps[n] \in Seq(Nat)
      <3> SUFFICES ASSUME NEW n \in 1..Len(t) PROVE ps[n] \in Seq(Nat)
        OBVIOUS
      <3>1. (IF t[n] = CR THEN LF ELSE t[n]) \in Nat
        BY FileToolsAssumption
      <3>2. <<>> \in Seq(Nat) /\ <<IF t[n] = CR THEN LF ELSE t[n]>> \in Seq(Nat)
        BY <3>1
      <3> QED BY <3>2
    <2>2. Len(t) \in Nat /\ ps = [n \in 1..Len(t) |-> ps[n]]
      OBVIOUS
    <2> HIDE DEF ps
    <2> QED BY <2>1, <2>2
  <1> HIDE DEF ps
  <1> QED BY <1>1, FlattenType DEF ReadText, ps

\* What is written of a text is one.
LEMMA WriteTextType == ASSUME NEW t \in Seq(Nat) PROVE WriteText(t) \in Seq(Nat)
  <1> DEFINE ps == [n \in 1..Len(t) |-> IF t[n] = LF THEN LineSep ELSE <<t[n]>>]
  <1>1. ps \in Seq(Seq(Nat))
    <2>1. LineSep \in Seq(Nat)
      <3>1. LF \in Nat /\ CR \in Nat /\ (LineSep = <<LF>> \/ LineSep = <<CR, LF>>)
        BY FileToolsAssumption
      <3>2. <<LF>> \in Seq(Nat) /\ <<CR, LF>> \in Seq(Nat)
        BY <3>1
      <3> HIDE DEF ps
      <3> QED BY <3>1, <3>2
    <2>2. \A n \in 1..Len(t) : ps[n] \in Seq(Nat)
      BY <2>1
    <2>3. Len(t) \in Nat /\ ps = [n \in 1..Len(t) |-> ps[n]]
      OBVIOUS
    <2> HIDE DEF ps
    <2> QED BY <2>2, <2>3
  <1> HIDE DEF ps
  <1> QED BY <1>1, FlattenType DEF WriteText, ps

\* On a system that ends lines with \n a text without \r is read and written as it is,
\* so that there an edit changes nothing but its one place (read_text and write_text).
THEOREM LineEndsTheorem ==
    ASSUME NEW t \in Seq(Nat)
    PROVE  /\ (\A n \in 1..Len(t) : t[n] # CR) => ReadText(t) = t
           /\ LineSep = <<LF>> => WriteText(t) = t
  <1>1. ASSUME \A n \in 1..Len(t) : t[n] # CR PROVE ReadText(t) = t
    <2>1. ASSUME NEW n \in 1..Len(t)
          PROVE  (IF n > 1 /\ t[n] = LF /\ t[n - 1] = CR THEN <<>>
                  ELSE <<IF t[n] = CR THEN LF ELSE t[n]>>) = <<t[n]>>
      <3>1. n > 1 => n - 1 \in 1..Len(t)
        OBVIOUS
      <3> QED BY <1>1, <3>1
    <2>2. ReadText(t) = FlattenSeq([n \in 1..Len(t) |-> <<t[n]>>])
      BY <2>1 DEF ReadText
    <2> QED BY <2>2, FlattenSingles
  <1>2. ASSUME LineSep = <<LF>> PROVE WriteText(t) = t
    <2>1. ASSUME NEW n \in 1..Len(t) PROVE (IF t[n] = LF THEN LineSep ELSE <<t[n]>>) = <<t[n]>>
      BY <1>2
    <2>2. WriteText(t) = FlattenSeq([n \in 1..Len(t) |-> <<t[n]>>])
      BY <2>1 DEF WriteText
    <2> QED BY <2>2, FlattenSingles
  <1> QED BY <1>1, <1>2

-----------------------------------------------------------------------------
(***************************************************************************)
(* Search and replace                                                      *)
(***************************************************************************)

\* An edit at a place where its old text stands makes a text.
LEMMA SpliceType ==
    ASSUME NEW t \in Seq(Nat), NEW e \in Edit, NEW i \in Places(t, e.old)
    PROVE  Splice(t, i, e) \in Seq(Nat)
  <1>1. /\ i \in Nat /\ Len(e.old) \in Nat /\ Len(t) \in Nat
        /\ i + Len(e.old) <= Len(t)
        /\ e.new \in Seq(Nat)
    BY DEF Places, Edit
  <1>2. SubSeq(t, 1, i) \in Seq(Nat) /\ SubSeq(t, i + Len(e.old) + 1, Len(t)) \in Seq(Nat)
    BY <1>1
  <1> QED BY <1>1, <1>2 DEF Splice

\* What one edit makes of a text is a text, or nothing.
LEMMA ReplacedType ==
    ASSUME NEW t \in Seq(Nat), NEW e \in Edit
    PROVE  Replaced(t, e) \in Seq(Nat) \cup {Refused}
  <1> SUFFICES ASSUME CountsOne(t, e.old) PROVE Splice(t, First(t, e.old), e) \in Seq(Nat)
    BY DEF Replaced
  <1>1. Places(t, e.old) # {} /\ Places(t, e.old) \in SUBSET Nat
    <2>1. Places(t, e.old) # {}
      BY DEF CountsOne
    <2>2. Places(t, e.old) \subseteq 0..Len(t)
      BY DEF Places
    <2> QED BY <2>1, <2>2
  <1>2. First(t, e.old) \in Places(t, e.old)
    BY <1>1, LeastOf DEF First
  <1> QED BY <1>2, SpliceType

\* The loop of multi_edit, unfolded: a recursive function on 0..n exists for every n, or
\* there would be a least n without one.
LEMMA ReplacedAllSteps ==
    ASSUME NEW t \in Seq(Nat), NEW edits \in Seq(Edit)
    PROVE  \E f : /\ f[0] = t
                  /\ \A m \in 1..Len(edits) : f[m] = IF f[m - 1] = Refused THEN Refused ELSE Replaced(f[m - 1], edits[m])
                  /\ ReplacedAll(t, edits) = f[Len(edits)]
  <1> DEFINE After(u, m) == IF u = Refused THEN Refused ELSE Replaced(u, edits[m])
             IsUpto(f, n) == f = [m \in 0..n |-> IF m = 0 THEN t ELSE After(f[m - 1], m)]
             Upto[m \in 0..Len(edits)] == IF m = 0 THEN t
                                          ELSE IF Upto[m - 1] = Refused THEN Refused
                                          ELSE Replaced(Upto[m - 1], edits[m])
  <1>1. \A n \in Nat : \E f : IsUpto(f, n)
    <2> DEFINE S == {n \in Nat : ~ \E f : IsUpto(f, n)}
    <2> SUFFICES ASSUME S # {} PROVE FALSE
      OBVIOUS
    <2>1. PICK n \in S : \A k \in S : n <= k
      <3>1. S \in SUBSET Nat
        OBVIOUS
      <3> HIDE DEF S
      <3> QED BY <3>1, LeastOf
    <2>2. n # 0
      <3> SUFFICES \E f : IsUpto(f, 0)
        OBVIOUS
      <3>1. IsUpto([m \in {0} |-> t], 0)
        OBVIOUS
      <3> QED BY <3>1
    <2>3. n - 1 \in Nat /\ n - 1 \notin S
      <3>1. n \in Nat
        BY <2>1
      <3> HIDE DEF S
      <3> QED BY <3>1, <2>1, <2>2
    <2>4. PICK f : IsUpto(f, n - 1)
      BY <2>3
    <2> DEFINE g == [m \in 0..n |-> IF m = n THEN After(f[n - 1], n) ELSE f[m]]
    <2>5. IsUpto(g, n)
      <3> SUFFICES ASSUME NEW m \in 0..n
                   PROVE  g[m] = IF m = 0 THEN t ELSE After(g[m - 1], m)
        OBVIOUS
      <3>1. CASE m = n
        BY <3>1, <2>2
      <3>2. CASE m # n
        BY <3>2, <2>4, <2>2
      <3> QED BY <3>1, <3>2
    <2> QED BY <2>5
  <1>2. Len(edits) \in Nat
    OBVIOUS
  <1>3. IsUpto(Upto, Len(edits))
    BY <1>1, <1>2
  <1>4. \A m \in 0..Len(edits) : Upto[m] = IF m = 0 THEN t ELSE After(Upto[m - 1], m)
    BY <1>3
  <1>5. ReplacedAll(t, edits) = Upto[Len(edits)]
    BY DEF ReplacedAll
  <1> HIDE DEF Upto
  <1>6. Upto[0] = t
    BY <1>2, <1>4
  <1>7. \A m \in 1..Len(edits) : Upto[m] = After(Upto[m - 1], m)
    BY <1>2, <1>4
  <1> QED BY <1>5, <1>6, <1>7

\* What the loop of multi_edit makes of a text is a text, or nothing.
LEMMA ReplacedAllType ==
    ASSUME NEW t \in Seq(Nat), NEW edits \in Seq(Edit)
    PROVE  ReplacedAll(t, edits) \in Seq(Nat) \cup {Refused}
  <1>1. PICK f : /\ f[0] = t
                 /\ \A m \in 1..Len(edits) :
                      f[m] = IF f[m - 1] = Refused THEN Refused ELSE Replaced(f[m - 1], edits[m])
                 /\ ReplacedAll(t, edits) = f[Len(edits)]
    BY ReplacedAllSteps
  <1>2. Len(edits) \in Nat
    OBVIOUS
  <1>3. \A m \in 0..Len(edits) : f[m] \in Seq(Nat) \cup {Refused}
    <2> DEFINE S == {m \in 0..Len(edits) : f[m] \notin Seq(Nat) \cup {Refused}}
    <2> SUFFICES ASSUME S # {} PROVE FALSE
      OBVIOUS
    <2>1. PICK m \in S : \A k \in S : m <= k
      <3>1. S \in SUBSET Nat
        OBVIOUS
      <3> HIDE DEF S
      <3> QED BY <3>1, LeastOf
    <2>2. m # 0
      BY <1>1
    <2>3. m - 1 \in 0..Len(edits) /\ m - 1 \notin S /\ edits[m] \in Edit /\ m \in 1..Len(edits)
      BY <2>1, <2>2, <1>2
    <2>4. f[m - 1] \in Seq(Nat) \cup {Refused}
      BY <2>3
    <2>5. f[m] \in Seq(Nat) \cup {Refused}
      BY <1>1, <2>3, <2>4, ReplacedType
    <2> QED BY <2>1, <2>5
  <1> QED BY <1>1, <1>2, <1>3

\* An edit that is made is made where its old text stands alone.
LEMMA ReplacedAtOne ==
    ASSUME NEW t \in Seq(Nat), NEW e \in Edit, Replaced(t, e) # Refused
    PROVE  Replaced(t, e) \in At(t, e)
  <1> DEFINE P == Places(t, e.old)
             f == First(t, e.old)
  <1>1. CountsOne(t, e.old) /\ Replaced(t, e) = Splice(t, f, e)
    BY DEF Replaced
  <1>2. P # {} /\ P \in SUBSET Nat
    <2>1. P \subseteq 0..Len(t)
      BY DEF Places
    <2> QED BY <1>1, <2>1 DEF CountsOne
  <1>3. f \in P /\ \A j \in P : f <= j
    <2> HIDE DEF P
    <2>1. PICK m \in P : \A k \in P : m <= k
      BY <1>2, LeastOf
    <2> QED BY <2>1 DEF First, P
  <1>4. Len(e.old) \in Nat
    BY DEF Edit
  <1>5. \A j \in P \ {f} : j < f + Len(e.old)
    BY <1>1 DEF CountsOne
  <1> HIDE DEF P, f
  <1>6. \A j \in P \ {f} : j < f + Len(e.old) /\ f < j + Len(e.old)
    BY <1>2, <1>3, <1>4, <1>5
  <1> QED BY <1>1, <1>3, <1>6 DEF At, P

\* The reference of it, unfolded in the same way.
LEMMA SeriesSteps ==
    ASSUME NEW t \in Seq(Nat), NEW edits \in Seq(Edit)
    PROVE  \E f : /\ f[0] = {t}
                  /\ \A m \in 1..Len(edits) : f[m] = Onward(f[m - 1], edits[m])
                  /\ Series(t, edits) = f[Len(edits)]
  <1> DEFINE After(u, m) == Onward(u, edits[m])
             IsUpto(f, n) == f = [m \in 0..n |-> IF m = 0 THEN {t} ELSE After(f[m - 1], m)]
             Upto[m \in 0..Len(edits)] == IF m = 0 THEN {t}
                                          ELSE Onward(Upto[m - 1], edits[m])
  <1> HIDE DEF After
  <1>1. \A n \in Nat : \E f : IsUpto(f, n)
    <2> DEFINE S == {n \in Nat : ~ \E f : IsUpto(f, n)}
    <2> SUFFICES ASSUME S # {} PROVE FALSE
      OBVIOUS
    <2>1. PICK n \in S : \A k \in S : n <= k
      <3>1. S \in SUBSET Nat
        OBVIOUS
      <3> HIDE DEF S
      <3> QED BY <3>1, LeastOf
    <2>2. n # 0
      <3> SUFFICES \E f : IsUpto(f, 0)
        OBVIOUS
      <3>1. IsUpto([m \in {0} |-> {t}], 0)
        OBVIOUS
      <3> QED BY <3>1
    <2>3. n - 1 \in Nat /\ n - 1 \notin S
      <3>1. n \in Nat
        BY <2>1
      <3> HIDE DEF S
      <3> QED BY <3>1, <2>1, <2>2
    <2>4. PICK f : IsUpto(f, n - 1)
      BY <2>3
    <2> DEFINE g == [m \in 0..n |-> IF m = n THEN After(f[n - 1], n) ELSE f[m]]
    <2>5. IsUpto(g, n)
      <3> SUFFICES ASSUME NEW m \in 0..n
                   PROVE  g[m] = IF m = 0 THEN {t} ELSE After(g[m - 1], m)
        OBVIOUS
      <3>1. CASE m = n
        BY <3>1, <2>2
      <3>2. CASE m # n
        <4>1. n \in Nat
          BY <2>3
        <4>2. m \in 0..n - 1 /\ g[m] = f[m] /\ (m # 0 => m - 1 \in 0..n - 1 /\ g[m - 1] = f[m - 1])
          BY <4>1, <3>2
        <4>3. f[m] = IF m = 0 THEN {t} ELSE After(f[m - 1], m)
          BY <4>2, <2>4
        <4> QED BY <4>2, <4>3
      <3> QED BY <3>1, <3>2
    <2> QED BY <2>5
  <1>2. Len(edits) \in Nat
    OBVIOUS
  <1>3. IsUpto(Upto, Len(edits))
    BY <1>1, <1>2 DEF After
  <1>4. \A m \in 0..Len(edits) : Upto[m] = IF m = 0 THEN {t} ELSE After(Upto[m - 1], m)
    BY <1>3
  <1>5. Series(t, edits) = Upto[Len(edits)]
    BY DEF Series
  <1> HIDE DEF Upto
  <1>6. Upto[0] = {t}
    BY <1>2, <1>4
  <1>7. \A m \in 1..Len(edits) : Upto[m] = After(Upto[m - 1], m)
    BY <1>2, <1>4
  <1> QED BY <1>5, <1>6, <1>7 DEF After

\* A list of edits that is made as a whole is a series of such edits.
LEMMA ReplacedAllSeries ==
    ASSUME NEW t \in Seq(Nat), NEW edits \in Seq(Edit), ReplacedAll(t, edits) # Refused
    PROVE  ReplacedAll(t, edits) \in Series(t, edits)
  <1>1. PICK f : /\ f[0] = t
                 /\ \A m \in 1..Len(edits) :
                      f[m] = IF f[m - 1] = Refused THEN Refused ELSE Replaced(f[m - 1], edits[m])
                 /\ ReplacedAll(t, edits) = f[Len(edits)]
    BY ReplacedAllSteps
  <1>2. PICK g : /\ g[0] = {t}
                 /\ \A m \in 1..Len(edits) : g[m] = Onward(g[m - 1], edits[m])
                 /\ Series(t, edits) = g[Len(edits)]
    BY SeriesSteps
  <1>3. Len(edits) \in Nat /\ t \notin {Refused}
    BY FileToolsAssumption
  <1>4. \A m \in 0..Len(edits) : f[m] # Refused => f[m] \in Seq(Nat) /\ f[m] \in g[m]
    <2> DEFINE S == {m \in 0..Len(edits) : ~(f[m] # Refused => f[m] \in Seq(Nat) /\ f[m] \in g[m])}
    <2> SUFFICES ASSUME S # {} PROVE FALSE
      OBVIOUS
    <2>1. PICK m \in S : \A k \in S : m <= k
      <3>1. S \in SUBSET Nat
        OBVIOUS
      <3> HIDE DEF S
      <3> QED BY <3>1, LeastOf
    <2>2. m # 0
      BY <1>1, <1>2
    <2>3. m - 1 \in 0..Len(edits) /\ m - 1 \notin S /\ edits[m] \in Edit /\ m \in 1..Len(edits)
      BY <2>1, <2>2, <1>3
    <2>4. f[m] # Refused
      BY <2>1
    <2>5. f[m - 1] # Refused /\ f[m] = Replaced(f[m - 1], edits[m])
      BY <1>1, <2>3, <2>4
    <2>6. f[m - 1] \in Seq(Nat) /\ f[m - 1] \in g[m - 1]
      BY <2>3, <2>5
    <2>7. f[m] \in Seq(Nat) /\ f[m] \in At(f[m - 1], edits[m])
      BY <2>3, <2>4, <2>5, <2>6, ReplacedType, ReplacedAtOne
    <2>8. f[m] \in g[m]
      BY <1>2, <2>3, <2>6, <2>7 DEF Onward
    <2> QED BY <2>1, <2>7, <2>8
  <1> QED BY <1>1, <1>2, <1>3, <1>4

\* The same for the one edit of edit_file.
LEMMA ReplacedSeries ==
    ASSUME NEW t \in Seq(Nat), NEW edits \in Seq(Edit), Len(edits) = 1,
           Replaced(t, edits[1]) # Refused
    PROVE  Replaced(t, edits[1]) \in Series(t, edits)
  <1>1. PICK g : /\ g[0] = {t}
                 /\ \A m \in 1..Len(edits) : g[m] = Onward(g[m - 1], edits[m])
                 /\ Series(t, edits) = g[Len(edits)]
    BY SeriesSteps
  <1>2. edits[1] \in Edit
    <2>1. edits \in [1..Len(edits) -> Edit]
      OBVIOUS
    <2>2. 1 \in 1..Len(edits)
      OBVIOUS
    <2> QED BY <2>1, <2>2, Zenon
  <1>3. g[1] = Onward(g[0], edits[1]) /\ Series(t, edits) = g[1]
    <2>1. 1 \in 1..Len(edits) /\ 1 - 1 = 0
      OBVIOUS
    <2>2. g[1] = Onward(g[1 - 1], edits[1])
      BY <1>1, <2>1
    <2> QED BY <1>1, <2>1, <2>2
  <1>4. Replaced(t, edits[1]) \in Onward({t}, edits[1])
    BY <1>2, ReplacedAtOne DEF Onward
  <1> QED BY <1>1, <1>3, <1>4

\* The parts of the inductive invariant.  A call acts from its check to its return.
Acting == {"opening", "writing"}

\* Who acts holds the event loop.
LoopHeld == \A c \in Calls : state[c] \in Acting => loop = c

\* What is to be written was computed from what was read.
ChangeReady ==
    \A c \in Calls : state[c] \in Acting =>
      /\ request[c].tool \notin Reads
      /\ text[c] = Change(request[c], base[c])

\* The file is the last entry of its history, but in the middle of a write.
DiskLogged ==
    /\ Len(log) > 0
    /\ (\A c \in Calls : state[c] # "writing") => disk = log[Len(log)].text

\* What was read is an entry of the history that only other processes have added to.
BaseLogged ==
    \A c \in Calls : alive /\ state[c] \in Acting =>
      \E i \in DOMAIN log :
        /\ log[i].text = base[c]
        /\ \A j \in i + 1..Len(log) : log[j].by = Process

\* The entries of the history are what their requests make of what was read.
WholeIsChange ==
    \A k \in DOMAIN log : log[k].by \in Calls /\ log[k].whole =>
      log[k].text = Change(request[log[k].by], log[k].base)

\* Who may begin an attempt has one left.
TriesLeft == \A c \in Calls : state[c] \in {"new", "sleeping"} => tries[c] <= MaxToolRetries

\* A file is opened for a text alone.
WritesText == \A c \in Calls : state[c] = "writing" => text[c] # Missing

\* The inductive invariant.
FileInv ==
    /\ TypeOK /\ WritesText /\ TriesLeft /\ LoopHeld /\ ChangeReady /\ DiskLogged /\ BaseLogged /\ WholeIsChange
    /\ NoLostUpdate /\ ReportsMatch /\ ReadsAreWhole

\* What is written of a result is a text, unless there is no result.
LEMMA WrittenType ==
    ASSUME NEW u \in Seq(Nat) \cup {Refused} PROVE Written(u) \in Seq(Nat) \cup {Refused}
  BY WriteTextType DEF Written

\* What a request makes of a file is a text, no file, or nothing; what a read returns
\* is the file as it is read.
LEMMA ChangeType ==
    ASSUME NEW r \in Coding \cup Plain, NEW d \in Files
    PROVE  /\ Change(r, d) \in Seq(Nat) \cup {Missing, Refused}
           /\ r.tool \in Reads /\ Change(r, d) # Refused =>
                Change(r, d) \in Seq(Nat) /\ ~NoFile(d) /\ Change(r, d) = ReadText(d)
           /\ Change(r, d) = Missing => d # Missing
  <1>1. r \in Request /\ (r.tool = "edit_file" => Len(r.edits) = 1) /\ r.tool \in Tools
        /\ r.edits \in Seq(Edit) /\ r.text \in Seq(Nat)
    BY FileToolsAssumption DEF Request, Tools
  <1>2. ~ NoFile(d) => ReadText(d) \in Seq(Nat)
    BY ReadTextType DEF NoFile, Files
  <1>3. Missing # Refused /\ Missing \notin Seq(Nat)
    BY FileToolsAssumption
  <1>4. CASE r.tool = "edit_file"
    <2>1. r.edits[1] \in Edit
      BY <1>1, <1>4
    <2>2. EditFile(r, d) \in Seq(Nat) \cup {Refused}
      BY <1>2, <2>1, ReplacedType DEF EditFile
    <2> QED BY <1>3, <1>4, <2>2, WrittenType DEF Change, Reads
  <1>5. CASE r.tool = "multi_edit"
    <2>1. MultiEdit(r, d) \in Seq(Nat) \cup {Refused}
      BY <1>1, <1>2, ReplacedAllType DEF MultiEdit
    <2> QED BY <1>3, <1>5, <2>1, WrittenType DEF Change, Reads
  <1>6. CASE r.tool \in {"write_file", "write"}
    <2>1. Write(r) \in Seq(Nat) \cup {Refused}
      BY <1>1 DEF Write
    <2> QED BY <1>3, <1>6, <2>1, WrittenType DEF Change, Reads
  <1>7. CASE r.tool = "delete"
    BY <1>3, <1>7 DEF Change, Reads, Delete
  <1>8. CASE r.tool \in Reads
    BY <1>2, <1>3, <1>8 DEF Change, Reads
  <1> QED BY <1>1, <1>4, <1>5, <1>6, <1>7, <1>8 DEF Tools, Reads

\* At first no call acts and the history of the file is its first state.
LEMMA InitInv == Init => FileInv
  <1> SUFFICES ASSUME Init PROVE FileInv
    OBVIOUS
  <1>1. disk \in Files
    BY FileToolsAssumption DEF Init, Files, TypeOK
  <1>2. TypeOK
    BY <1>1, FileToolsAssumption DEF Init, TypeOK, Files
  <1>3. WritesText /\ TriesLeft /\ LoopHeld /\ ChangeReady /\ DiskLogged /\ BaseLogged
    BY FileToolsAssumption DEF Init, WritesText, TriesLeft, LoopHeld, ChangeReady, DiskLogged, BaseLogged, Acting
  <1>4. WholeIsChange /\ NoLostUpdate /\ ReportsMatch /\ ReadsAreWhole
    BY FileToolsAssumption DEF Init, WholeIsChange, NoLostUpdate, ReportsMatch, TornAtMost, ReadsAreWhole, ChangesBy
  <1> QED BY <1>2, <1>3, <1>4 DEF FileInv


\* A change that c logs is built on what it read.
LEMMA LogKeeps ==
    ASSUME FileInv, NEW c \in Calls, NEW t \in Seq(Nat) \cup {Missing}, NEW w \in BOOLEAN,
           alive, state[c] \in Acting, w => t = text[c],
           Log(c, t, w), UNCHANGED request
    PROVE  /\ log' \in Seq([by : Calls \cup {Process}, base : Files, text : Files, whole : BOOLEAN])
           /\ Len(log') = Len(log) + 1
           /\ log'[Len(log')] = [by |-> c, base |-> base[c], text |-> t, whole |-> w]
           /\ \A k \in DOMAIN log : log'[k] = log[k]
           /\ DOMAIN log' = 1..Len(log') /\ DOMAIN log = 1..Len(log) /\ Len(log) \in Nat
           /\ WholeIsChange' /\ NoLostUpdate'
  <1> DEFINE e == [by |-> c, base |-> base[c], text |-> t, whole |-> w]
             Entry == [by : Calls \cup {Process}, base : Files, text : Files, whole : BOOLEAN]
  <1>1. /\ log \in Seq(Entry) /\ e \in Entry /\ log' = Append(log, e)
    BY DEF FileInv, TypeOK, Log, Files
  <1>2. e.by = c /\ e.base = base[c] /\ e.text = t /\ e.whole = w
    OBVIOUS
  <1> HIDE DEF e, Entry
  <1>3. /\ log' \in Seq(Entry) /\ Len(log') = Len(log) + 1 /\ log'[Len(log')] = e
        /\ \A k \in DOMAIN log : log'[k] = log[k]
        /\ DOMAIN log' = 1..Len(log') /\ DOMAIN log = 1..Len(log) /\ Len(log) \in Nat
    BY <1>1
  <1>4. WholeIsChange'
    <2> SUFFICES ASSUME NEW k \in DOMAIN log', log'[k].by \in Calls, log'[k].whole
                 PROVE  log'[k].text = Change(request[log'[k].by], log'[k].base)
      BY DEF WholeIsChange
    <2>1. CASE k \in DOMAIN log
      BY <1>3, <2>1 DEF FileInv, WholeIsChange
    <2>2. CASE k = Len(log')
      BY <1>2, <1>3, <2>2 DEF FileInv, ChangeReady
    <2> QED BY <1>3, <2>1, <2>2
  <1>5. NoLostUpdate'
    <2> SUFFICES ASSUME NEW k \in DOMAIN log', log'[k].by \in Calls
                 PROVE  \E i \in 1..k - 1 : /\ log'[i].text = log'[k].base
                                            /\ \A j \in i + 1..k - 1 : log'[j].by = Process
      BY DEF NoLostUpdate
    <2>1. CASE k \in DOMAIN log
      <3>1. PICK i \in 1..k - 1 : /\ log[i].text = log[k].base
                                  /\ \A j \in i + 1..k - 1 : log[j].by = Process
        BY <1>3, <2>1 DEF FileInv, NoLostUpdate
      <3>2. i \in DOMAIN log /\ \A j \in i + 1..k - 1 : j \in DOMAIN log
        BY <1>3, <2>1, <3>1
      <3>3. log'[i].text = log'[k].base /\ \A j \in i + 1..k - 1 : log'[j].by = Process
        BY <1>3, <2>1, <3>1, <3>2
      <3> QED BY <3>1, <3>3
    <2>2. CASE k = Len(log')
      <3>1. PICK i \in DOMAIN log : /\ log[i].text = base[c]
                                    /\ \A j \in i + 1..Len(log) : log[j].by = Process
        BY DEF FileInv, BaseLogged
      <3>2. i \in 1..k - 1 /\ k - 1 = Len(log)
        BY <1>3, <2>2
      <3>3. log'[i].text = log'[k].base
        BY <1>2, <1>3, <2>2, <3>1
      <3>4. \A j \in i + 1..k - 1 : log'[j].by = Process
        BY <1>3, <3>1, <3>2
      <3> QED BY <3>2, <3>3, <3>4
    <2> QED BY <1>3, <2>1, <2>2
  <1> QED BY <1>3, <1>4, <1>5 DEF e, Entry


\* What a logged change makes of the reports: c has torn the file, or succeeded.
LEMMA ReportsKept ==
    ASSUME FileInv, NEW c \in Calls, NEW t \in Seq(Nat) \cup {Missing}, NEW w \in BOOLEAN,
           alive, state[c] \in Acting, w => t = text[c],
           Log(c, t, w), UNCHANGED <<request, text, answer>>,
           \A d \in Calls : d # c => state'[d] = state[d],
           w <=> state'[c] = "succeeded"
    PROVE  ReportsMatch' /\ ReadsAreWhole'
  <1>1. /\ Len(log') = Len(log) + 1 /\ Len(log) \in Nat
        /\ log'[Len(log')] = [by |-> c, base |-> base[c], text |-> t, whole |-> w]
        /\ \A k \in DOMAIN log : log'[k] = log[k]
        /\ DOMAIN log' = 1..Len(log') /\ DOMAIN log = 1..Len(log)
    BY LogKeeps
  <1>2. /\ log'[Len(log')].by = c /\ log'[Len(log')].text = t /\ log'[Len(log')].whole = w
    BY <1>1
  <1>3. \A d \in Calls : ChangesBy(d)' = IF d = c THEN ChangesBy(d) \cup {Len(log')} ELSE ChangesBy(d)
    BY <1>1, <1>2 DEF ChangesBy
  <1>4. \A d \in Calls : ChangesBy(d) \subseteq DOMAIN log
    BY DEF ChangesBy
  <1>5. state[c] # "succeeded"
    BY DEF Acting
  <1>6. ReportsMatch'
    <2>1. \A d \in Calls : d # c => (MadeOnce(d)' <=> MadeOnce(d)) /\ (TornAtMost(d)' <=> TornAtMost(d))
      <3> SUFFICES ASSUME NEW d \in Calls, d # c
                   PROVE  (MadeOnce(d)' <=> MadeOnce(d)) /\ (TornAtMost(d)' <=> TornAtMost(d))
        OBVIOUS
      <3>1. ChangesBy(d)' = ChangesBy(d) /\ \A k \in ChangesBy(d) : log'[k] = log[k]
        BY <1>1, <1>3, <1>4
      <3> QED BY <3>1 DEF MadeOnce, TornAtMost
    <2>2. RemovedByOther => RemovedByOther'
      BY <1>1 DEF RemovedByOther
    <2>3. /\ \A k \in ChangesBy(c) : ~log'[k].whole /\ k < Len(log')
          /\ ChangesBy(c)' = ChangesBy(c) \cup {Len(log')}
      BY <1>1, <1>3, <1>4, <1>5 DEF FileInv, ReportsMatch, TornAtMost
    <2>4. w => MadeOnce(c)'
      BY <1>2, <2>3 DEF MadeOnce
    <2>5. ~w => TornAtMost(c)'
      BY <1>2, <2>3 DEF TornAtMost
    <2> QED BY <2>1, <2>2, <2>4, <2>5 DEF FileInv, ReportsMatch
  <1>7. ReadsAreWhole'
    <2> SUFFICES ASSUME NEW d \in Calls, state'[d] = "succeeded", request[d].tool \in Reads
                 PROVE  \E k \in DOMAIN log' : ~NoFile(log'[k].text) /\ ReadText(log'[k].text) = answer[d]
      BY DEF ReadsAreWhole
    <2>1. d # c
      BY DEF FileInv, ChangeReady
    <2>2. PICK k \in DOMAIN log : ~NoFile(log[k].text) /\ ReadText(log[k].text) = answer[d]
      BY <2>1 DEF FileInv, ReadsAreWhole
    <2> QED BY <1>1, <2>2
  <1> QED BY <1>6, <1>7


\* While a call acts no other does.
LEMMA OneActs ==
    ASSUME FileInv, NEW c \in Calls, state[c] \in Acting
    PROVE  \A d \in Calls : d # c => state[d] \notin Acting
  BY DEF FileInv, LoopHeld

\* What a step that changes neither the file nor its history has to show of the
\* parts that are about them.
LEMMA NoLogKeeps ==
    ASSUME FileInv, UNCHANGED <<request, disk, log>>,
           \A c \in Calls : state'[c] = "writing" <=> state[c] = "writing"
    PROVE  DiskLogged' /\ WholeIsChange' /\ NoLostUpdate'
  BY DEF FileInv, DiskLogged, WholeIsChange, NoLostUpdate

\* A call that begins finds the loop free, so that what it reads is the last entry of
\* the history.
LEMMA BeginInv == ASSUME FileInv, NEW c \in Calls, Begin(c) PROVE FileInv'
  <1> DEFINE new == Change(request[c], disk)
             refused == new = Refused
             read == new # Refused /\ request[c].tool \in Reads
             change == new # Refused /\ request[c].tool \notin Reads
  <1>1. /\ \A d \in Calls : state[d] \notin Acting
        /\ state[c] \in {"new", "sleeping"}
        /\ disk \in Files /\ request[c] \in Coding \cup Plain
        /\ state \in [Calls -> {"new", "opening", "writing", "sleeping", "succeeded", "failed",
                                "cancelled"}]
        /\ tries \in [Calls -> 0..MaxToolRetries + 1] /\ tries[c] <= MaxToolRetries
        /\ MaxToolRetries \in Nat
    BY FileToolsAssumption DEF Begin, LoopFree, FileInv, LoopHeld, TypeOK, TriesLeft
  <1>2. /\ new \in Seq(Nat) \cup {Missing, Refused}
        /\ read => new \in Seq(Nat) /\ ~NoFile(disk) /\ new = ReadText(disk)
    BY <1>1, ChangeType
  <1> HIDE DEF new
  <1>3. /\ tries' = [tries EXCEPT ![c] = @ + 1]
        /\ base' = [base EXCEPT ![c] = disk]
        /\ UNCHANGED <<disk, request, alive, changes, faults, log>>
        /\ \/ refused /\ Return(c, tries[c] + 1, FALSE) /\ UNCHANGED <<text, answer>>
           \/ read /\ Return(c, tries[c] + 1, TRUE) /\ answer' = [answer EXCEPT ![c] = new]
              /\ UNCHANGED text
           \/ change /\ state' = [state EXCEPT ![c] = "opening"]
              /\ text' = [text EXCEPT ![c] = new] /\ loop' = c /\ UNCHANGED answer
    BY DEF Begin, new, bounds
  <1>4. PICK s \in {"sleeping", "failed", "succeeded", "opening"} :
          /\ state' = [state EXCEPT ![c] = s]
          /\ s = "succeeded" <=> read
          /\ s = "opening" <=> change
          /\ s = "opening" => loop' = c
          /\ s # "opening" => loop' = NoCall
          /\ s = "sleeping" => tries[c] + 1 <= MaxToolRetries
    <2>1. CASE refused
      <3>1. CASE tries[c] + 1 <= MaxToolRetries
        BY <1>3, <2>1, <3>1 DEF Return
      <3>2. CASE ~(tries[c] + 1 <= MaxToolRetries)
        BY <1>3, <2>1, <3>2 DEF Return
      <3> QED BY <3>1, <3>2
    <2>2. CASE read
      BY <1>3, <2>2 DEF Return
    <2>3. CASE change
      BY <1>3, <2>3
    <2> QED BY <1>3, <2>1, <2>2, <2>3
  <1>5. /\ text' = IF change THEN [text EXCEPT ![c] = new] ELSE text
        /\ answer' = IF read THEN [answer EXCEPT ![c] = new] ELSE answer
    BY <1>3
  <1>6. \A d \in Calls : /\ state'[d] = IF d = c THEN s ELSE state[d]
                         /\ tries'[d] = IF d = c THEN tries[c] + 1 ELSE tries[d]
    BY <1>1, <1>3, <1>4
  <1>7. TypeOK'
    <2>1. state' \in [Calls -> {"new", "opening", "writing", "sleeping", "succeeded", "failed",
                                "cancelled"}]
      BY <1>1, <1>4
    <2>2. tries' \in [Calls -> 0..MaxToolRetries + 1]
      BY <1>1, <1>3
    <2>3. loop' \in Calls \cup {NoCall}
      BY <1>4
    <2>4. base' \in [Calls -> Files]
      BY <1>1, <1>3 DEF FileInv, TypeOK
    <2>5. text' \in [Calls -> Seq(Nat) \cup {Missing}] /\ answer' \in [Calls -> Seq(Nat)]
      BY <1>2, <1>5 DEF FileInv, TypeOK
    <2> QED BY <1>3, <2>1, <2>2, <2>3, <2>4, <2>5 DEF FileInv, TypeOK
  <1>8. TriesLeft' /\ LoopHeld'
    BY <1>1, <1>4, <1>6 DEF FileInv, TriesLeft, LoopHeld, Acting
  <1>9. ChangeReady'
    <2> SUFFICES ASSUME NEW d \in Calls, state'[d] \in Acting
                 PROVE  request'[d].tool \notin Reads /\ text'[d] = Change(request'[d], base'[d])
      BY DEF ChangeReady
    <2>1. d = c /\ change
      BY <1>1, <1>4, <1>6 DEF Acting
    <2>2. text'[c] = new /\ base'[c] = disk
      BY <1>3, <1>5, <2>1 DEF FileInv, TypeOK
    <2> QED BY <1>3, <2>1, <2>2 DEF new
  <1>10. \A d \in Calls : state'[d] # "writing" /\ state[d] # "writing"
    BY <1>1, <1>4, <1>6 DEF Acting
  <1>11. DiskLogged' /\ WholeIsChange' /\ NoLostUpdate'
    BY <1>3, <1>10, NoLogKeeps
  <1>12. /\ Len(log) \in DOMAIN log /\ log[Len(log)].text = disk
    BY <1>10 DEF FileInv, DiskLogged, TypeOK
  <1>13. BaseLogged'
    <2> SUFFICES ASSUME NEW d \in Calls, state'[d] \in Acting
                 PROVE  \E i \in DOMAIN log : /\ log[i].text = base'[d]
                                              /\ \A j \in i + 1..Len(log) : log[j].by = Process
      BY <1>3 DEF BaseLogged
    <2>1. d = c
      BY <1>1, <1>6
    <2>2. base'[c] = disk
      BY <1>3 DEF FileInv, TypeOK
    <2>3. \A j \in Len(log) + 1..Len(log) : log[j].by = Process
      BY DEF FileInv, TypeOK
    <2> QED BY <1>12, <2>1, <2>2, <2>3
  <1>14. ReportsMatch'
    <2>1. \A d \in Calls : ChangesBy(d)' = ChangesBy(d)
      BY <1>3 DEF ChangesBy
    <2>2. \A d \in Calls : TornAtMost(d)' <=> TornAtMost(d)
      BY <1>3, <2>1 DEF TornAtMost
    <2>3. \A d \in Calls : d # c => (MadeOnce(d)' <=> MadeOnce(d)) /\ text'[d] = text[d]
      BY <1>3, <1>5, <2>1 DEF MadeOnce, FileInv, TypeOK
    <2>4. RemovedByOther' <=> RemovedByOther
      BY <1>3 DEF RemovedByOther
    <2>5. TornAtMost(c) /\ (state'[c] = "succeeded" => request'[c].tool \in Reads)
      BY <1>1, <1>3, <1>4, <1>6 DEF FileInv, ReportsMatch
    <2> QED BY <1>3, <1>6, <2>2, <2>3, <2>4, <2>5 DEF FileInv, ReportsMatch
  <1>15. ReadsAreWhole'
    <2> SUFFICES ASSUME NEW d \in Calls, state'[d] = "succeeded", request[d].tool \in Reads
                 PROVE  \E k \in DOMAIN log : ~NoFile(log[k].text) /\ ReadText(log[k].text) = answer'[d]
      BY <1>3 DEF ReadsAreWhole
    <2>1. CASE d = c
      <3>1. answer'[c] = ReadText(disk) /\ ~NoFile(disk)
        BY <1>2, <1>4, <1>5, <1>6, <2>1 DEF FileInv, TypeOK
      <3> QED BY <1>12, <2>1, <3>1
    <2>2. CASE d # c
      <3>1. state[d] = "succeeded" /\ answer'[d] = answer[d]
        BY <1>5, <1>6, <2>2 DEF FileInv, TypeOK
      <3> QED BY <3>1 DEF FileInv, ReadsAreWhole
    <2> QED BY <2>1, <2>2
  <1>16. WritesText'
    BY <1>10 DEF WritesText
  <1> QED BY <1>16, <1>7, <1>8, <1>9, <1>11, <1>13, <1>14, <1>15 DEF FileInv

\* What the steps that do not touch the accounts of a call leave of them.
LEMMA NoReportKeeps ==
    ASSUME FileInv, UNCHANGED <<request, text, answer, log>>,
           \A d \in Calls : state'[d] = "succeeded" <=> state[d] = "succeeded"
    PROVE  ReportsMatch' /\ ReadsAreWhole'
  <1>1. \A d \in Calls : ChangesBy(d)' = ChangesBy(d)
    BY DEF ChangesBy
  <1>2. /\ \A d \in Calls : (TornAtMost(d)' <=> TornAtMost(d)) /\ (MadeOnce(d)' <=> MadeOnce(d))
        /\ RemovedByOther' <=> RemovedByOther
    BY <1>1 DEF TornAtMost, MadeOnce, RemovedByOther
  <1> QED BY <1>2 DEF FileInv, ReportsMatch, ReadsAreWhole

\* A call that may act has come from its attempts.
LEMMA ReturnState ==
    ASSUME FileInv, NEW c \in Calls, state[c] \in Acting, NEW ok \in BOOLEAN,
           Return(c, tries[c], ok), UNCHANGED tries
    PROVE  /\ state' \in [Calls -> {"new", "opening", "writing", "sleeping", "succeeded", "failed",
                                    "cancelled"}]
           /\ \A d \in Calls : d # c => state'[d] = state[d]
           /\ state'[c] \in {"sleeping", "succeeded", "failed"}
           /\ state'[c] = "succeeded" <=> ok
           /\ \A d \in Calls : state'[d] \notin Acting
           /\ loop' = NoCall
           /\ TriesLeft'
  <1>1. PICK s \in {"sleeping", "succeeded", "failed"} :
          /\ state' = [state EXCEPT ![c] = s]
          /\ s = "succeeded" <=> ok
          /\ s = "sleeping" => tries[c] <= MaxToolRetries
    <2>1. CASE ok
      BY <2>1 DEF Return
    <2>2. CASE ~ok /\ tries[c] <= MaxToolRetries
      BY <2>2 DEF Return
    <2>3. CASE ~ok /\ ~(tries[c] <= MaxToolRetries)
      BY <2>3 DEF Return
    <2> QED BY <2>1, <2>2, <2>3
  <1>2. state \in [Calls -> {"new", "opening", "writing", "sleeping", "succeeded", "failed",
                             "cancelled"}]
    BY DEF FileInv, TypeOK
  <1>3. /\ state' \in [Calls -> {"new", "opening", "writing", "sleeping", "succeeded", "failed",
                                 "cancelled"}]
        /\ \A d \in Calls : state'[d] = IF d = c THEN s ELSE state[d]
    BY <1>1, <1>2
  <1>4. \A d \in Calls : state'[d] \notin Acting
    BY <1>3, OneActs DEF Acting
  <1>5. loop' = NoCall
    BY DEF Return
  <1>6. TriesLeft'
    BY <1>1, <1>3 DEF FileInv, TriesLeft
  <1> QED BY <1>1, <1>3, <1>4, <1>5, <1>6

\* The end of an attempt that changed the file, in whole or in part.
LEMMA LoggedReturn ==
    ASSUME FileInv, NEW c \in Calls, state[c] \in Acting, alive,
           NEW t \in Seq(Nat) \cup {Missing}, NEW w \in BOOLEAN, w => t = text[c],
           disk' = t, Log(c, t, w), Return(c, tries[c], w),
           UNCHANGED <<request, tries, base, text, answer, alive, changes>>,
           faults' \in 0..MaxFaults
    PROVE  FileInv'
  <1>1. /\ log' \in Seq([by : Calls \cup {Process}, base : Files, text : Files, whole : BOOLEAN])
        /\ Len(log') = Len(log) + 1 /\ Len(log) \in Nat
        /\ log'[Len(log')].text = t
        /\ WholeIsChange' /\ NoLostUpdate'
    <2>1. /\ log' \in Seq([by : Calls \cup {Process}, base : Files, text : Files, whole : BOOLEAN])
          /\ Len(log') = Len(log) + 1 /\ Len(log) \in Nat
          /\ log'[Len(log')] = [by |-> c, base |-> base[c], text |-> t, whole |-> w]
          /\ WholeIsChange' /\ NoLostUpdate'
      BY LogKeeps
    <2> QED BY <2>1
  <1>2. /\ state' \in [Calls -> {"new", "opening", "writing", "sleeping", "succeeded", "failed",
                                 "cancelled"}]
        /\ \A d \in Calls : d # c => state'[d] = state[d]
        /\ state'[c] = "succeeded" <=> w
        /\ \A d \in Calls : state'[d] \notin Acting
        /\ loop' = NoCall
        /\ TriesLeft'
    BY ReturnState
  <1>3. ReportsMatch' /\ ReadsAreWhole'
    BY <1>2, ReportsKept
  <1>4. TypeOK'
    BY <1>1, <1>2 DEF FileInv, TypeOK, Files
  <1>5. LoopHeld' /\ ChangeReady' /\ BaseLogged' /\ WritesText'
    BY <1>2 DEF LoopHeld, ChangeReady, BaseLogged, WritesText, Acting
  <1>6. DiskLogged'
    BY <1>1 DEF DiskLogged
  <1> QED BY <1>1, <1>2, <1>3, <1>4, <1>5, <1>6 DEF FileInv

\* What a call is to write.
LEMMA TextType == ASSUME FileInv, NEW c \in Calls PROVE text[c] \in Seq(Nat) \cup {Missing}
  BY DEF FileInv, TypeOK

\* The prefix that a torn write leaves.
LEMMA TornType ==
    ASSUME NEW t \in Seq(Nat), NEW n \in 0..Len(t) PROVE SubSeq(t, 1, n) \in Seq(Nat)
  OBVIOUS

\* A write that is made in whole.
LEMMA FillInv == ASSUME FileInv, NEW c \in Calls, Fill(c) PROVE FileInv'
  <1>1. faults' \in 0..MaxFaults
    BY DEF Fill, bounds, FileInv, TypeOK
  <1>2. /\ state[c] \in Acting /\ alive /\ disk' = text[c] /\ Log(c, text[c], TRUE)
        /\ Return(c, tries[c], TRUE)
        /\ UNCHANGED <<request, tries, base, text, answer, alive, changes>>
    BY DEF Fill, Acting, bounds
  <1> QED BY <1>1, <1>2, TextType, LoggedReturn

\* A file that is removed.
LEMMA UnlinkInv == ASSUME FileInv, NEW c \in Calls, Unlink(c) PROVE FileInv'
  <1>1. faults' \in 0..MaxFaults
    BY DEF Unlink, bounds, FileInv, TypeOK
  <1>2. /\ state[c] \in Acting /\ alive /\ disk' = Missing /\ Log(c, Missing, TRUE)
        /\ Missing = text[c]
        /\ Return(c, tries[c], TRUE)
        /\ UNCHANGED <<request, tries, base, text, answer, alive, changes>>
    BY DEF Unlink, Acting, bounds
  <1> QED BY <1>1, <1>2, LoggedReturn

\* A write that is torn.
LEMMA CannotFillInv ==
    ASSUME FileInv, NEW c \in Calls, CannotFill(c) PROVE FileInv'
  <1>1. faults' \in 0..MaxFaults
    BY FileToolsAssumption DEF CannotFill, FileInv, TypeOK
  <1>2. text[c] \in Seq(Nat)
    BY TextType DEF FileInv, WritesText, CannotFill
  <1>3. PICK n \in 0..Len(text[c]) : Tear(c, n)
    BY DEF CannotFill
  <1>4. SubSeq(text[c], 1, n) \in Seq(Nat)
    BY <1>2, TornType
  <1>5. /\ state[c] \in Acting /\ alive /\ Return(c, tries[c], FALSE)
        /\ disk' = SubSeq(text[c], 1, n) /\ Log(c, SubSeq(text[c], 1, n), FALSE)
        /\ UNCHANGED <<request, tries, base, text, answer, alive, changes>>
    BY <1>3 DEF CannotFill, Acting, Tear
  <1> QED BY <1>1, <1>4, <1>5, LoggedReturn

\* A file that cannot be opened.
LEMMA CannotOpenInv == ASSUME FileInv, NEW c \in Calls, CannotOpen(c) PROVE FileInv'
  <1>1. /\ state[c] = "opening" /\ state[c] \in Acting /\ Return(c, tries[c], FALSE)
        /\ UNCHANGED <<disk, request, tries, base, text, answer, alive, changes, log>>
        /\ faults' \in 0..MaxFaults
    <2>1. faults \in 0..MaxFaults /\ MaxFaults \in Nat
      BY FileToolsAssumption DEF FileInv, TypeOK
    <2>2. (UNCHANGED faults) \/ (faults < MaxFaults /\ faults' = faults + 1)
      BY DEF CannotOpen
    <2>3. faults' \in 0..MaxFaults
      BY <2>1, <2>2
    <2> QED BY <2>3 DEF CannotOpen, Acting
  <1>2. /\ state' \in [Calls -> {"new", "opening", "writing", "sleeping", "succeeded", "failed",
                                 "cancelled"}]
        /\ \A d \in Calls : d # c => state'[d] = state[d]
        /\ state'[c] # "succeeded"
        /\ \A d \in Calls : state'[d] \notin Acting
        /\ loop' = NoCall
        /\ TriesLeft'
    BY <1>1, ReturnState
  <1>3. \A d \in Calls : state'[d] = "writing" <=> state[d] = "writing"
    BY <1>1, <1>2, OneActs DEF Acting
  <1>4. DiskLogged' /\ WholeIsChange' /\ NoLostUpdate'
    BY <1>1, <1>3, NoLogKeeps
  <1>5. \A d \in Calls : state'[d] = "succeeded" <=> state[d] = "succeeded"
    BY <1>1, <1>2
  <1>6. ReportsMatch' /\ ReadsAreWhole'
    BY <1>1, <1>5, NoReportKeeps
  <1>7. TypeOK'
    BY <1>1, <1>2 DEF FileInv, TypeOK
  <1>8. LoopHeld' /\ ChangeReady' /\ BaseLogged' /\ WritesText'
    BY <1>2 DEF LoopHeld, ChangeReady, BaseLogged, WritesText, Acting
  <1> QED BY <1>2, <1>4, <1>6, <1>7, <1>8 DEF FileInv

\* A file that somebody else has removed: the last entry of the history, which is not
\* what the call read.
LEMMA NothingToUnlinkInv == ASSUME FileInv, NEW c \in Calls, NothingToUnlink(c) PROVE FileInv'
  <1>1. /\ state[c] = "opening" /\ state[c] \in Acting /\ Return(c, tries[c], TRUE) /\ alive
        /\ text[c] = Missing /\ disk = Missing
        /\ UNCHANGED <<disk, request, tries, base, text, answer, alive, changes, faults, log>>
    BY DEF NothingToUnlink, Acting, bounds
  <1>2. /\ state' \in [Calls -> {"new", "opening", "writing", "sleeping", "succeeded", "failed",
                                 "cancelled"}]
        /\ \A d \in Calls : d # c => state'[d] = state[d]
        /\ state'[c] = "succeeded"
        /\ \A d \in Calls : state'[d] \notin Acting
        /\ loop' = NoCall
        /\ TriesLeft'
    BY <1>1, ReturnState
  <1>3. \A d \in Calls : state'[d] # "writing" /\ state[d] # "writing"
    BY <1>1, <1>2, OneActs DEF Acting
  <1>4. DiskLogged' /\ WholeIsChange' /\ NoLostUpdate'
    BY <1>1, <1>3, NoLogKeeps
  <1>5. RemovedByOther /\ request[c].tool \notin Reads
    <2>1. request[c] \in Coding \cup Plain /\ base[c] \in Files
      BY DEF FileInv, TypeOK
    <2>2. base[c] # Missing /\ request[c].tool \notin Reads
      BY <1>1, <2>1, ChangeType DEF FileInv, ChangeReady
    <2>3. Len(log) \in DOMAIN log /\ Len(log) \in Nat /\ log[Len(log)].text = Missing
      BY <1>1, <1>3 DEF FileInv, DiskLogged, TypeOK
    <2>4. PICK i \in DOMAIN log : /\ log[i].text = base[c]
                                  /\ \A j \in i + 1..Len(log) : log[j].by = Process
      BY <1>1 DEF FileInv, BaseLogged
    <2>5. Len(log) \in i + 1..Len(log)
      <3>1. i # Len(log)
        BY <2>2, <2>3, <2>4
      <3>2. i \in 1..Len(log)
        BY DEF FileInv, TypeOK
      <3> QED BY <2>3, <3>1, <3>2
    <2> QED BY <2>2, <2>3, <2>4, <2>5 DEF RemovedByOther
  <1>6. ReportsMatch'
    <2>1. \A d \in Calls : ChangesBy(d)' = ChangesBy(d)
      BY <1>1 DEF ChangesBy
    <2>2. /\ \A d \in Calls : (TornAtMost(d)' <=> TornAtMost(d)) /\ (MadeOnce(d)' <=> MadeOnce(d))
          /\ RemovedByOther' <=> RemovedByOther
      BY <1>1, <2>1 DEF TornAtMost, MadeOnce, RemovedByOther
    <2>3. TornAtMost(c)
      BY <1>1 DEF FileInv, ReportsMatch
    <2> QED BY <1>1, <1>2, <1>5, <2>2, <2>3 DEF FileInv, ReportsMatch
  <1>7. ReadsAreWhole'
    BY <1>1, <1>2, <1>5 DEF FileInv, ReadsAreWhole
  <1>8. TypeOK'
    BY <1>1, <1>2 DEF FileInv, TypeOK
  <1>9. LoopHeld' /\ ChangeReady' /\ BaseLogged' /\ WritesText'
    BY <1>2 DEF LoopHeld, ChangeReady, BaseLogged, WritesText, Acting
  <1> QED BY <1>2, <1>4, <1>6, <1>7, <1>8, <1>9 DEF FileInv

\* A call that is cancelled does not act.
LEMMA CancelInv == ASSUME FileInv, NEW c \in Calls, Cancel(c) PROVE FileInv'
  <1>1. /\ state[c] \in {"new", "sleeping"} /\ state' = [state EXCEPT ![c] = "cancelled"]
        /\ UNCHANGED <<disk, request, tries, base, text, answer, loop, alive, changes, faults, log>>
        /\ \A d \in Calls : state[d] \notin Acting
    BY FileToolsAssumption DEF Cancel, bounds, LoopFree, FileInv, LoopHeld
  <1>2. \A d \in Calls : state'[d] = IF d = c THEN "cancelled" ELSE state[d]
    BY <1>1 DEF FileInv, TypeOK
  <1>3. \A d \in Calls : state'[d] \notin Acting /\ state'[d] # "writing" /\ state[d] # "writing"
    BY <1>1, <1>2 DEF Acting
  <1>4. DiskLogged' /\ WholeIsChange' /\ NoLostUpdate'
    BY <1>1, <1>3, NoLogKeeps
  <1>5. \A d \in Calls : state'[d] = "succeeded" <=> state[d] = "succeeded"
    BY <1>1, <1>2
  <1>6. ReportsMatch' /\ ReadsAreWhole'
    BY <1>1, <1>5, NoReportKeeps
  <1>7. TypeOK'
    BY <1>1 DEF FileInv, TypeOK
  <1>8. TriesLeft' /\ LoopHeld' /\ ChangeReady' /\ BaseLogged'
    BY <1>1, <1>2, <1>3 DEF FileInv, TriesLeft, LoopHeld, ChangeReady, BaseLogged
  <1>9. WritesText'
    BY <1>1, <1>2 DEF FileInv, WritesText, Open
  <1> QED BY <1>4, <1>6, <1>7, <1>8, <1>9 DEF FileInv

\* From here on the file is not its last entry, until the writing ends.
LEMMA OpenInv == ASSUME FileInv, NEW c \in Calls, Open(c) PROVE FileInv'
  <1>1. /\ state[c] = "opening" /\ state[c] \in Acting /\ state' = [state EXCEPT ![c] = "writing"]
        /\ disk' = <<>>
        /\ UNCHANGED <<request, tries, base, text, answer, loop, alive, changes, faults, log>>
    BY DEF Open, Acting, bounds
  <1>2. \A d \in Calls : state'[d] = IF d = c THEN "writing" ELSE state[d]
    BY <1>1 DEF FileInv, TypeOK
  <1>3. \A d \in Calls : state'[d] \in Acting => d = c /\ state[d] \in Acting
    BY <1>1, <1>2, OneActs DEF Acting
  <1>4. WholeIsChange' /\ NoLostUpdate'
    BY <1>1 DEF FileInv, WholeIsChange, NoLostUpdate
  <1>5. ReportsMatch' /\ ReadsAreWhole'
    BY <1>1, <1>2, NoReportKeeps
  <1>6. DiskLogged'
    BY <1>1, <1>2 DEF FileInv, DiskLogged
  <1>7. TypeOK'
    BY <1>1 DEF FileInv, TypeOK, Files
  <1>8. TriesLeft' /\ LoopHeld' /\ ChangeReady' /\ BaseLogged'
    BY <1>1, <1>2, <1>3 DEF FileInv, TriesLeft, LoopHeld, ChangeReady, BaseLogged
  <1>9. WritesText'
    BY <1>1, <1>2 DEF FileInv, WritesText, Open
  <1> QED BY <1>4, <1>5, <1>6, <1>7, <1>8, <1>9 DEF FileInv

\* The program ends, in the middle of a write or not.
LEMMA ExitInv == ASSUME FileInv, Exit PROVE FileInv'
  <1>1. UNCHANGED <<request, state, tries, base, text, answer, loop, changes, faults>>
        /\ alive /\ alive' = FALSE
    BY DEF Exit, call, bounds
  <1>2. TriesLeft' /\ LoopHeld' /\ ChangeReady' /\ BaseLogged' /\ WritesText'
    BY <1>1 DEF FileInv, TriesLeft, LoopHeld, ChangeReady, BaseLogged, WritesText
  <1>3. CASE UNCHANGED <<disk, log>>
    <2>1. DiskLogged' /\ WholeIsChange' /\ NoLostUpdate'
      BY <1>1, <1>3, NoLogKeeps
    <2>2. ReportsMatch' /\ ReadsAreWhole'
      BY <1>1, <1>3, NoReportKeeps
    <2>3. TypeOK'
      BY <1>1, <1>3 DEF FileInv, TypeOK
    <2> QED BY <1>2, <2>1, <2>2, <2>3 DEF FileInv
  <1>4. ASSUME NEW c \in Calls, state[c] = "writing", NEW n \in 0..Len(text[c]), Tear(c, n)
        PROVE  FileInv'
    <2>1. text[c] \in Seq(Nat)
      BY <1>4, TextType DEF FileInv, WritesText
    <2> DEFINE t == SubSeq(text[c], 1, n)
    <2>2. t \in Seq(Nat) /\ disk' = t /\ Log(c, t, FALSE)
      BY <1>4, <2>1, TornType DEF Tear
    <2> HIDE DEF t
    <2>3. state[c] \in Acting /\ state'[c] # "succeeded"
      BY <1>1, <1>4 DEF Acting
    <2>4. /\ log' \in Seq([by : Calls \cup {Process}, base : Files, text : Files, whole : BOOLEAN])
          /\ Len(log') = Len(log) + 1 /\ Len(log) \in Nat
          /\ WholeIsChange' /\ NoLostUpdate'
      BY <1>1, <2>2, <2>3, LogKeeps
    <2>5. ReportsMatch' /\ ReadsAreWhole'
      BY <1>1, <2>2, <2>3, ReportsKept
    <2>6. TypeOK'
      BY <1>1, <2>2, <2>4 DEF FileInv, TypeOK, Files
    <2>7. DiskLogged'
      BY <1>1, <1>4, <2>4 DEF DiskLogged
    <2> QED BY <1>2, <2>4, <2>5, <2>6, <2>7 DEF FileInv
  <1> QED BY <1>3, <1>4 DEF Exit

\* A change by another process is between what a call read and what it writes.
LEMMA OutsideInv == ASSUME FileInv, NEW d \in Texts, Outside(d) PROVE FileInv'
  <1> DEFINE e == [by |-> Process, base |-> disk, text |-> d, whole |-> TRUE]
             Entry == [by : Calls \cup {Process}, base : Files, text : Files, whole : BOOLEAN]
  <1>1. /\ UNCHANGED <<request, state, tries, base, text, answer, loop, alive, faults>>
        /\ disk' = d /\ changes' = changes + 1 /\ changes < MaxChanges /\ log' = Append(log, e)
    BY DEF Outside, call
  <1>2. d \in Files /\ e \in Entry /\ log \in Seq(Entry) /\ MaxChanges \in Nat
    BY FileToolsAssumption DEF Files, FileInv, TypeOK
  <1>3. e.by = Process /\ e.text = d /\ e.by \notin Calls
    BY FileToolsAssumption
  <1> HIDE DEF e, Entry
  <1>4. /\ log' \in Seq(Entry) /\ Len(log') = Len(log) + 1 /\ log'[Len(log')] = e
        /\ \A k \in DOMAIN log : log'[k] = log[k]
        /\ DOMAIN log' = 1..Len(log') /\ DOMAIN log = 1..Len(log) /\ Len(log) \in Nat
    BY <1>1, <1>2
  <1>5. TypeOK'
    BY <1>1, <1>2, <1>4 DEF FileInv, TypeOK, Entry
  <1>6. TriesLeft' /\ LoopHeld' /\ ChangeReady' /\ WritesText'
    BY <1>1 DEF FileInv, TriesLeft, LoopHeld, ChangeReady, WritesText
  <1>7. DiskLogged'
    BY <1>1, <1>3, <1>4 DEF DiskLogged
  <1>8. BaseLogged'
    <2> SUFFICES ASSUME NEW c \in Calls, alive, state[c] \in Acting
                 PROVE  \E i \in DOMAIN log' : /\ log'[i].text = base[c]
                                               /\ \A j \in i + 1..Len(log') : log'[j].by = Process
      BY <1>1 DEF BaseLogged
    <2>1. PICK i \in DOMAIN log : /\ log[i].text = base[c]
                                  /\ \A j \in i + 1..Len(log) : log[j].by = Process
      BY DEF FileInv, BaseLogged
    <2>2. i \in DOMAIN log' /\ log'[i].text = base[c]
      BY <1>4, <2>1
    <2>3. ASSUME NEW j \in i + 1..Len(log') PROVE log'[j].by = Process
      <3>1. CASE j = Len(log')
        BY <1>3, <1>4, <3>1
      <3>2. CASE j # Len(log')
        BY <1>4, <2>1, <3>2
      <3> QED BY <3>1, <3>2
    <2> QED BY <2>2, <2>3
  <1>9. WholeIsChange'
    BY <1>1, <1>3, <1>4 DEF FileInv, WholeIsChange
  <1>10. NoLostUpdate'
    <2> SUFFICES ASSUME NEW k \in DOMAIN log', log'[k].by \in Calls
                 PROVE  \E i \in 1..k - 1 : /\ log'[i].text = log'[k].base
                                            /\ \A j \in i + 1..k - 1 : log'[j].by = Process
      BY DEF NoLostUpdate
    <2>1. k \in DOMAIN log /\ log'[k] = log[k]
      BY <1>3, <1>4
    <2>2. PICK i \in 1..k - 1 : /\ log[i].text = log[k].base
                                /\ \A j \in i + 1..k - 1 : log[j].by = Process
      BY <2>1 DEF FileInv, NoLostUpdate
    <2>3. i \in DOMAIN log /\ \A j \in i + 1..k - 1 : j \in DOMAIN log
      BY <1>4, <2>1, <2>2
    <2>4. log'[i].text = log'[k].base /\ \A j \in i + 1..k - 1 : log'[j].by = Process
      BY <1>4, <2>1, <2>2, <2>3
    <2> QED BY <2>2, <2>4
  <1>11. ReportsMatch'
    <2>1. \A c \in Calls : ChangesBy(c)' = ChangesBy(c) /\ ChangesBy(c) \subseteq DOMAIN log
      BY <1>3, <1>4 DEF ChangesBy
    <2>2. /\ \A c \in Calls : (TornAtMost(c)' <=> TornAtMost(c)) /\ (MadeOnce(c)' <=> MadeOnce(c))
          /\ RemovedByOther => RemovedByOther'
      BY <1>1, <1>4, <2>1 DEF TornAtMost, MadeOnce, RemovedByOther
    <2> QED BY <1>1, <2>2 DEF FileInv, ReportsMatch
  <1>12. ReadsAreWhole'
    BY <1>1, <1>4 DEF FileInv, ReadsAreWhole
  <1> QED BY <1>5, <1>6, <1>7, <1>8, <1>9, <1>10, <1>11, <1>12 DEF FileInv

\* Nothing happens.
LEMMA StutterInv == ASSUME FileInv, UNCHANGED vars PROVE FileInv'
  <1>1. UNCHANGED <<disk, request, state, tries, base, text, answer, loop, alive, changes, faults, log>>
    BY DEF vars, call, bounds
  <1>2. DiskLogged' /\ WholeIsChange' /\ NoLostUpdate'
    BY <1>1, NoLogKeeps
  <1>3. ReportsMatch' /\ ReadsAreWhole'
    BY <1>1, NoReportKeeps
  <1> QED BY <1>1, <1>2, <1>3
          DEF FileInv, TypeOK, TriesLeft, LoopHeld, ChangeReady, BaseLogged, WritesText

\* Every reachable state satisfies the invariant.
LEMMA Invariance == Spec => []FileInv
  <1>1. FileInv /\ [Next]_vars => FileInv'
    BY BeginInv, OpenInv, FillInv, UnlinkInv, NothingToUnlinkInv, CannotOpenInv, CannotFillInv, CancelInv,
       ExitInv, OutsideInv, StutterInv DEF Next
  <1> QED BY InitInv, <1>1, PTL DEF Spec

\* The variables have their types.
THEOREM TypeCorrect == Spec => []TypeOK
  <1>1. FileInv => TypeOK
    BY DEF FileInv
  <1> QED BY Invariance, <1>1, PTL

\* Every edit that was made was made at the one place of its old text, and a list of
\* edits in whole and in order; all else of the file is as it was read, with the ends
\* of lines of the system (str.count, str.replace, the loop of multi_edit, read_text
\* and write_text).
THEOREM OnePlaceTheorem == Spec => []OnePlace
  <1>1. FileInv => OnePlace
    <2> SUFFICES ASSUME FileInv, NEW k \in DOMAIN log, log[k].by \in Calls, log[k].whole,
                        request[log[k].by].tool \in Edits
                 PROVE  \E u \in Series(ReadText(log[k].base), request[log[k].by].edits) :
                          log[k].text = WriteText(u)
      BY DEF OnePlace
    <2> DEFINE r == request[log[k].by]
               d == log[k].base
    <2>1. log[k].text = Change(r, d)
      BY DEF FileInv, WholeIsChange
    <2>2. d \in Files /\ log[k].text \in Files /\ r \in Coding \cup Plain
      <3> DEFINE Entry == [by : Calls \cup {Process}, base : Files, text : Files, whole : BOOLEAN]
      <3>1. log[k] \in Entry
        <4>1. log \in Seq(Entry)
          BY DEF FileInv, TypeOK
        <4> HIDE DEF Entry
        <4> QED BY <4>1
      <3>2. request \in [Calls -> Coding] \cup [Calls -> Plain]
        BY DEF FileInv, TypeOK
      <3> QED BY <3>1, <3>2
    <2>3. /\ r \in Request /\ r.edits \in Seq(Edit)
          /\ r.tool = "edit_file" => Len(r.edits) = 1
      BY <2>2, FileToolsAssumption DEF Request
    <2> HIDE DEF r, d
    <2>4. Change(r, d) # Refused
      BY <2>1, <2>2, FileToolsAssumption DEF Files
    <2>5. CASE r.tool = "edit_file"
      <3>1. Change(r, d) = Written(EditFile(r, d)) /\ EditFile(r, d) # Refused
        BY <2>4, <2>5 DEF Change, Reads, Written
      <3>2. ~NoFile(d) /\ EditFile(r, d) = Replaced(ReadText(d), r.edits[1])
        BY <3>1 DEF EditFile
      <3>3. ReadText(d) \in Seq(Nat)
        BY <2>2, <3>2, ReadTextType DEF NoFile, Files
      <3>4. EditFile(r, d) \in Series(ReadText(d), r.edits)
        BY <2>3, <2>5, <3>1, <3>2, <3>3, ReplacedSeries
      <3> QED BY <2>1, <3>1, <3>4 DEF Written, r, d
    <2>6. CASE r.tool = "multi_edit"
      <3>1. Change(r, d) = Written(MultiEdit(r, d)) /\ MultiEdit(r, d) # Refused
        BY <2>4, <2>6 DEF Change, Reads, Written
      <3>2. ~NoFile(d) /\ MultiEdit(r, d) = ReplacedAll(ReadText(d), r.edits)
        BY <3>1 DEF MultiEdit
      <3>3. ReadText(d) \in Seq(Nat)
        BY <2>2, <3>2, ReadTextType DEF NoFile, Files
      <3>4. MultiEdit(r, d) \in Series(ReadText(d), r.edits)
        BY <2>3, <3>1, <3>2, <3>3, ReplacedAllSeries
      <3> QED BY <2>1, <3>1, <3>4 DEF Written, r, d
    <2>7. r.tool \in Edits
      BY DEF r
    <2> QED BY <2>5, <2>6, <2>7 DEF Edits
  <1> QED BY Invariance, <1>1, PTL

\* No edit is computed from a file that a sibling has changed since (the tools do not
\* suspend between read_text and write_text).
THEOREM NoLostUpdateTheorem == Spec => []NoLostUpdate
  <1>1. FileInv => NoLostUpdate
    BY DEF FileInv
  <1> QED BY Invariance, <1>1, PTL

\* What a call reports is what it did to the file, through all its retries
\* (_dispatch_with_retry and the returns of the tools).
THEOREM ReportsTheorem == Spec => []ReportsMatch
  <1>1. FileInv => ReportsMatch
    BY DEF FileInv
  <1> QED BY Invariance, <1>1, PTL

\* No read sees a sibling's write half done (read_file and file_ops).
THEOREM ReadsTheorem == Spec => []ReadsAreWhole
  <1>1. FileInv => ReadsAreWhole
    BY DEF FileInv
  <1> QED BY Invariance, <1>1, PTL

=============================================================================
