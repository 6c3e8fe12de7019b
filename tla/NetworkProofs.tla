--------------------------- MODULE NetworkProofs ---------------------------
(***************************************************************************)
(* The properties of the modules about the way of a request over the       *)
(* network: the request loops of the LLM clients (LLMRetry), the proxy     *)
(* (Proxy), the framed socket (Framing), and the conversation that the     *)
(* clients carry to the models (LLMClients).                               *)
(*                                                                         *)
(* The properties of LLMRetry, for any number of retries, any cap and any  *)
(* Retry-After header, are one inductive invariant together: that nothing  *)
(* is answered from a failure needs no other, the bound on the waits needs *)
(* the type of the counters.                                               *)
(***************************************************************************)
EXTENDS LLMClients, Proxy, Framing, SequenceTheorems, NaturalsInduction, WellFoundedInduction,
        FiniteSetTheorems, TLAPS

RetryInv == TypeOK /\ AnswersAreAnswers /\ GivesUpRightly /\ WaitsAreCapped

\* The number of retries of the client at hand, and the cap.
LEMMA ConstantFacts ==
    TypeOK => MaxRetries[provider] \in Nat /\ Cap \in Nat \ {0} /\ provider \in DOMAIN MaxRetries
  BY LLMRetryAssumption DEF TypeOK, MaxRetries

\* The invariant holds before the first attempt.
LEMMA InitRetryInv == Init => RetryInv
  <1> SUFFICES ASSUME Init PROVE RetryInv
    OBVIOUS
  <1>1. TypeOK
    BY LLMRetryAssumption DEF Init, TypeOK, MaxRetries, Responses
  <1>2. AnswersAreAnswers /\ GivesUpRightly
    BY DEF Init, AnswersAreAnswers, GivesUpRightly
  <1>3. WaitsAreCapped
    BY ConstantFacts, <1>1 DEF Init, WaitsAreCapped
  <1> QED BY <1>1, <1>2, <1>3 DEF RetryInv

\* A wait is a number, for Groq one within the cap.
LEMMA WaitIsCapped ==
  ASSUME TypeOK, NEW r, NEW header \in RetryAfters \cup {NoHeader}
  PROVE  Wait(r, header) \in Nat /\ (provider = "groq" => Wait(r, header) <= Cap)
  BY ConstantFacts, LLMRetryAssumption DEF TypeOK, Wait, Lesser, NoHeader

\* A failure that is tried again, or was the last, keeps the invariant.
LEMMA FailsStep ==
  ASSUME RetryInv, NEW r \in Responses, NEW header \in RetryAfters \cup {NoHeader}, Fails(r, header)
  PROVE  RetryInv'
  <1>0. TypeOK /\ MaxRetries[provider] \in Nat /\ Cap \in Nat \ {0} /\ provider' = provider
    BY ConstantFacts DEF RetryInv, Fails
  <1>1. CASE LastAttempt
    <2>1. phase' = "raised" /\ response' = r /\ UNCHANGED <<attempt, backoff, slept>>
      BY <1>1 DEF Fails, OutOfAttempts
    <2>2. TypeOK' /\ AnswersAreAnswers'
      BY <1>0, <2>1 DEF TypeOK, AnswersAreAnswers
    <2>3. GivesUpRightly'
      BY <1>0, <1>1, <2>1 DEF GivesUpRightly, LastAttempt
    <2>4. WaitsAreCapped'
      BY <1>0, <2>1 DEF RetryInv, WaitsAreCapped
    <2> QED BY <2>2, <2>3, <2>4 DEF RetryInv
  <1>2. CASE ~LastAttempt
    <2>1. /\ slept' = slept + Wait(r, header)
          /\ attempt' = attempt + 1
          /\ backoff' = IF provider = "groq" THEN Lesser(2 * backoff, Cap) ELSE 2 * backoff
          /\ response' = r
          /\ phase = "asking" /\ phase' = phase
      BY <1>2 DEF Fails
    <2>2. Wait(r, header) \in Nat /\ (provider = "groq" => Wait(r, header) <= Cap)
      BY <1>0, WaitIsCapped
    <2>3. /\ backoff' \in Nat \ {0}
          /\ provider = "groq" => backoff' <= Cap
      BY <1>0, <2>1 DEF TypeOK, Lesser
    <2>4. TypeOK'
      BY <1>0, <1>2, <2>1, <2>2, <2>3 DEF TypeOK, LastAttempt
    <2>5. AnswersAreAnswers'
      BY <2>1 DEF AnswersAreAnswers
    <2>6. GivesUpRightly'
      BY <1>0, <2>1 DEF Fails, Retried, GivesUpRightly
    <2>7. WaitsAreCapped'
      <3> SUFFICES ASSUME provider = "groq" PROVE slept' <= attempt' * Cap
        BY <1>0, <2>3 DEF WaitsAreCapped
      <3>1. slept <= attempt * Cap
        BY DEF RetryInv, WaitsAreCapped
      <3>2. (attempt + 1) * Cap = attempt * Cap + Cap
        BY <1>0 DEF TypeOK
      <3>3. attempt * Cap \in Nat
        BY <1>0 DEF TypeOK
      <3> QED BY <1>0, <2>1, <2>2, <3>1, <3>2, <3>3 DEF TypeOK
    <2> QED BY <2>4, <2>5, <2>6, <2>7 DEF RetryInv
  <1> QED BY <1>1, <1>2

\* The steps that end a call keep the counters, and the invariant.
LEMMA EndStep ==
  ASSUME RetryInv, NEW r \in Responses,
         NotJson(r) \/ Answers(r) \/ Recovers(r) \/ Refused(r)
  PROVE  RetryInv'
  <1>0. UNCHANGED <<provider, attempt, backoff, slept>> /\ response' = r
    BY DEF NotJson, Answers, Recovers, Refused
  <1>1. TypeOK' /\ WaitsAreCapped'
    BY <1>0 DEF RetryInv, TypeOK, WaitsAreCapped, NotJson, Answers, Recovers, Refused
  <1>2. AnswersAreAnswers' /\ GivesUpRightly'
    BY <1>0 DEF NotJson, Answers, Recovers, Refused, AnswersAreAnswers, GivesUpRightly, Errors
  <1> QED BY <1>1, <1>2 DEF RetryInv

\* Every step keeps the invariant.
LEMMA StepRetryInv == RetryInv /\ [Next]_vars => RetryInv'
  <1> SUFFICES ASSUME RetryInv, [Next]_vars PROVE RetryInv'
    OBVIOUS
  <1>1. ASSUME NEW r \in Responses, NEW header \in RetryAfters \cup {NoHeader}, Fails(r, header)
        PROVE  RetryInv'
    BY <1>1, FailsStep
  <1>2. ASSUME NEW r \in Responses, NotJson(r) \/ Answers(r) \/ Recovers(r) \/ Refused(r)
        PROVE  RetryInv'
    BY <1>2, EndStep
  <1>3. CASE Cancel
    BY <1>3 DEF Cancel, RetryInv, TypeOK, AnswersAreAnswers, GivesUpRightly, WaitsAreCapped
  <1>4. CASE UNCHANGED vars
    BY <1>4 DEF vars, RetryInv, TypeOK, AnswersAreAnswers, GivesUpRightly, WaitsAreCapped
  <1> QED BY <1>1, <1>2, <1>3, <1>4 DEF Next

\* All properties of the request loops at once.
THEOREM RetryCorrect == Spec => []RetryInv
  <1> QED BY InitRetryInv, StepRetryInv, PTL DEF Spec

\* However many attempts a client makes, no failure becomes an answer
\* (OpenRouterClient.call and GroqClient.call).
THEOREM AnswersTheorem == Spec => []AnswersAreAnswers
  <1>1. RetryInv => AnswersAreAnswers
    BY DEF RetryInv
  <1> QED BY RetryCorrect, <1>1, PTL

\* A passing failure is tried to the end, a client error of Groq not at all.
THEOREM GivesUpTheorem == Spec => []GivesUpRightly
  <1>1. RetryInv => GivesUpRightly
    BY DEF RetryInv
  <1> QED BY RetryCorrect, <1>1, PTL

\* Whatever the Retry-After headers say, the waits of Groq are capped.
THEOREM WaitsTheorem == Spec => []WaitsAreCapped
  <1>1. RetryInv => WaitsAreCapped
    BY DEF RetryInv
  <1> QED BY RetryCorrect, <1>1, PTL

-----------------------------------------------------------------------------
(***************************************************************************)
(* The proxy: remainders, which the key ring computes with.                *)
(***************************************************************************)

\* What div and mod are.
LEMMA Quotient ==
  ASSUME NEW a \in Nat, NEW n \in Nat \ {0}
  PROVE  a = n * (a \div n) + (a % n) /\ a \div n \in Nat /\ a % n \in 0..(n - 1)
  OBVIOUS

\* Multiples of a number are that number apart at least.
LEMMA MultiplesApart ==
  ASSUME NEW p \in Nat, NEW q \in Nat, NEW n \in Nat \ {0}, p < q
  PROVE  n * p + n <= n * q
  <1>1. PICK d \in Nat : q = p + 1 + d
    <2> WITNESS q - p - 1 \in Nat
    <2> QED OBVIOUS
  <1>2. n * q = n * p + n + n * d
    BY <1>1
  <1>3. n * d \in Nat /\ n * p \in Nat
    BY <1>1
  <1> QED BY <1>2, <1>3

\* A multiple and a rest below the divisor: the rest is the remainder.
LEMMA RestIsRemainder ==
  ASSUME NEW q \in Nat, NEW n \in Nat \ {0}, NEW s \in 0..(n - 1)
  PROVE  (n * q + s) % n = s
  <1> DEFINE b == n * q + s
  <1> DEFINE p == b \div n
  <1>0. b \in Nat /\ n * q \in Nat /\ b = n * q + s
    OBVIOUS
  <1>1. b = n * p + (b % n) /\ p \in Nat /\ b % n \in 0..(n - 1)
    BY <1>0, Quotient
  <1> HIDE DEF b, p
  <1>2. n * p \in Nat
    BY <1>1
  <1>3. ~(p < q)
    <2> SUFFICES ASSUME p < q PROVE FALSE
      OBVIOUS
    <2>1. n * p + n <= n * q
      BY <1>1, MultiplesApart
    <2> QED BY <2>1, <1>0, <1>1, <1>2
  <1>4. ~(q < p)
    <2> SUFFICES ASSUME q < p PROVE FALSE
      OBVIOUS
    <2>1. n * q + n <= n * p
      BY <1>1, MultiplesApart
    <2> QED BY <2>1, <1>0, <1>1, <1>2
  <1>5. p = q
    BY <1>1, <1>3, <1>4
  <1>6. b % n = s
    BY <1>0, <1>1, <1>2, <1>5
  <1> QED BY <1>6 DEF b

\* The next remainder comes from the one before.
LEMMA NextRemainder ==
  ASSUME NEW a \in Nat, NEW n \in Nat \ {0}
  PROVE  ((a % n) + 1) % n = (a + 1) % n
  <1> DEFINE q == a \div n
  <1> DEFINE r == a % n
  <1>1. a = n * q + r /\ q \in Nat /\ r \in 0..(n - 1)
    BY Quotient
  <1> HIDE DEF q, r
  <1>2. CASE r + 1 < n
    <2>1. a + 1 = n * q + (r + 1) /\ r + 1 = n * 0 + (r + 1)
      BY <1>1
    <2>2. r + 1 \in 0..(n - 1)
      BY <1>1, <1>2
    <2>3. (a + 1) % n = r + 1 /\ (r + 1) % n = r + 1
      BY <1>1, <2>1, <2>2, RestIsRemainder
    <2> QED BY <2>3 DEF r
  <1>3. CASE r + 1 = n
    <2>1. a + 1 = n * (q + 1) + 0 /\ q + 1 \in Nat /\ r + 1 = n * 1 + 0
      BY <1>1, <1>3
    <2>2. 0 \in 0..(n - 1)
      OBVIOUS
    <2>3. (n * (q + 1) + 0) % n = 0
      BY <2>1, <2>2, RestIsRemainder
    <2>4. (n * 1 + 0) % n = 0
      BY <2>2, RestIsRemainder
    <2> QED BY <2>1, <2>3, <2>4 DEF r
  <1> QED BY <1>1, <1>2, <1>3

-----------------------------------------------------------------------------
(***************************************************************************)
(* The proxy: the invariant.  The mutex is with the one goroutine between  *)
(* taking a key and moving on, and the index of the key ring counts the    *)
(* keys taken, but for the one just taken.                                 *)
(***************************************************************************)

\* A request is at hand.
Busy(c) == pc[c] \in {"rotating", "advancing", "forwarding", "replying"}
\* The keys that the index has moved past.
Passed == IF mutex = NoConn THEN Len(used) ELSE Len(used) - 1

Waiting  == \A c \in dialed : pc[c] = "none"
Locked   == \A c \in Conns : pc[c] = "advancing" <=> mutex = c
Numbered == \A c \in Conns : Busy(c) => read[c] >= 1
RingCounts ==
    /\ mutex # NoConn => used # <<>>
    /\ IF NumKeys = 0 THEN used = <<>> /\ current = 0 ELSE current = Passed % NumKeys

ProxyInv == ProxyTypeOK /\ Waiting /\ Locked /\ Numbered /\ RingCounts /\ KeysInTurn

LEMMA InitProxyInv == ProxyInit => ProxyInv
  <1> SUFFICES ASSUME ProxyInit PROVE ProxyInv
    OBVIOUS
  <1>1. ProxyTypeOK
    BY ProxyAssumption DEF ProxyInit, ProxyTypeOK
  <1>2. Waiting /\ Locked /\ Numbered /\ KeysInTurn
    BY ProxyAssumption DEF ProxyInit, Waiting, Locked, Numbered, Busy, KeysInTurn
  <1>3. RingCounts
    <2>1. NumKeys # 0 => 0 % NumKeys = 0
      BY ProxyAssumption
    <2> QED BY <2>1 DEF ProxyInit, RingCounts, Passed
  <1> QED BY <1>1, <1>2, <1>3 DEF ProxyInv

\* A step that leaves the key ring alone, and no goroutine enters or leaves the
\* place between taking a key and moving on, keeps what is said of the ring.
LEMMA RingAlone ==
  ASSUME ProxyInv, UNCHANGED <<mutex, current, used>>,
         \A c \in Conns : pc'[c] = "advancing" <=> pc[c] = "advancing"
  PROVE  Locked' /\ RingCounts' /\ KeysInTurn'
  BY DEF ProxyInv, Locked, RingCounts, Passed, KeysInTurn

\* The clients and main.
LEMMA OutsideSteps ==
  ASSUME ProxyInv,
         \/ \E c \in Conns : Dial(c) \/ Send(c) \/ StopReading(c) \/ ReadAgain(c) \/ Accept(c)
         \/ CancelContext \/ CloseListener \/ AcceptFails
  PROVE  ProxyInv'
  <1>1. ProxyTypeOK /\ Waiting /\ Numbered
    BY DEF ProxyInv
  <1>2. UNCHANGED <<mutex, current, used, read, replies>>
    BY DEF Dial, Send, StopReading, ReadAgain, Accept, CancelContext, CloseListener, AcceptFails, ring
  <1>3. ASSUME NEW c \in Conns, Dial(c) \/ Send(c) \/ StopReading(c) \/ ReadAgain(c)
        PROVE  ProxyInv'
    <2>1. ProxyTypeOK' /\ Waiting' /\ pc' = pc
      <3>1. CASE Dial(c)
        BY <1>1, <1>2, <3>1 DEF Dial, ProxyTypeOK, Waiting
      <3>2. CASE Send(c)
        <4>1. MaxRequests \in Nat /\ sent[c] \in 0..MaxRequests /\ sent[c] + 1 \in 0..MaxRequests
          BY <1>1, <3>2, ProxyAssumption DEF Send, ProxyTypeOK
        <4>2. sent' \in [Conns -> 0..MaxRequests] /\ UNCHANGED <<main, pc, dialed, deaf>>
          BY <1>1, <3>2, <4>1 DEF Send, ProxyTypeOK
        <4> QED BY <1>1, <1>2, <4>2 DEF ProxyTypeOK, Waiting
      <3>3. CASE StopReading(c) \/ ReadAgain(c)
        BY <1>1, <1>2, <3>3 DEF StopReading, ReadAgain, ProxyTypeOK, Waiting
      <3> QED BY <1>3, <3>1, <3>2, <3>3
    <2>2. Numbered'
      BY <1>1, <1>2, <2>1 DEF Numbered, Busy
    <2> QED BY <1>2, <2>1, <2>2, RingAlone DEF ProxyInv
  <1>4. ASSUME NEW c \in Conns, Accept(c)
        PROVE  ProxyInv'
    <2>1. c \in dialed /\ pc[c] = "none" /\ pc' = [pc EXCEPT ![c] = "reading"] /\ dialed' = dialed \ {c}
      BY <1>1, <1>4 DEF Accept, Waiting
    <2>2. ProxyTypeOK'
      BY <1>1, <1>2, <1>4, <2>1 DEF Accept, ProxyTypeOK
    <2>3. \A d \in Conns : pc'[d] = (IF d = c THEN "reading" ELSE pc[d])
      BY <1>1, <2>1 DEF ProxyTypeOK
    <2>4. Waiting' /\ Numbered'
      BY <1>1, <1>2, <2>1, <2>2, <2>3 DEF ProxyTypeOK, Waiting, Numbered, Busy
    <2>5. \A d \in Conns : pc'[d] = "advancing" <=> pc[d] = "advancing"
      BY <2>1, <2>3
    <2> QED BY <1>2, <2>2, <2>4, <2>5, RingAlone DEF ProxyInv
  <1>5. CASE CancelContext \/ CloseListener \/ AcceptFails
    <2>1. ProxyTypeOK' /\ pc' = pc /\ Waiting'
      BY <1>1, <1>2, <1>5 DEF CancelContext, CloseListener, AcceptFails, ProxyTypeOK, Waiting
    <2>2. Numbered'
      BY <1>1, <1>2, <2>1 DEF Numbered, Busy
    <2> QED BY <1>2, <2>1, <2>2, RingAlone DEF ProxyInv
  <1> QED BY <1>3, <1>4, <1>5

\* Steps of a goroutine off the key ring.
LEMMA OffTheRing ==
  ASSUME ProxyInv, NEW c \in Conns,
         \/ ReadFrame(c) \/ ReadFails(c) \/ Forward(c)
         \/ WriteFrame(c) \/ WriteFails(c)
  PROVE  ProxyInv'
  <1>1. ProxyTypeOK /\ Waiting /\ Numbered
    BY DEF ProxyInv
  <1>2. UNCHANGED <<mutex, current, used, main, dialed, sent, deaf>>
    BY DEF ReadFrame, ReadFails, Forward, WriteFrame, WriteFails, ring
  <1>3. PICK place \in {"reading", "rotating", "forwarding", "replying", "gone"} : pc' = [pc EXCEPT ![c] = place]
    BY DEF ReadFrame, ReadFails, Forward, WriteFrame, WriteFails, GoTo
  <1>4. pc[c] \in {"reading", "forwarding", "replying"}
    BY DEF ReadFrame, ReadFails, Forward, WriteFrame, WriteFails, At
  <1>5. \A d \in Conns : pc'[d] = (IF d = c THEN place ELSE pc[d])
    BY <1>1, <1>3 DEF ProxyTypeOK
  <1>6. Waiting'
    BY <1>1, <1>2, <1>4, <1>5 DEF ProxyTypeOK, Waiting
  <1>7. \A d \in Conns : pc'[d] = "advancing" <=> pc[d] = "advancing"
    BY <1>4, <1>5
  <1>8. read' \in [Conns -> 0..MaxRequests] /\ replies' \in [Conns -> Seq(1..MaxRequests)] /\ Numbered'
    <2>1. CASE ReadFrame(c)
      <3>1. read[c] \in Nat /\ sent[c] \in 0..MaxRequests /\ read[c] < sent[c] /\ MaxRequests \in Nat
        BY <1>1, <2>1, ProxyAssumption DEF ReadFrame, ProxyTypeOK
      <3>2. /\ read' \in [Conns -> 0..MaxRequests] /\ replies' = replies
            /\ \A d \in Conns : read'[d] = (IF d = c THEN read[d] + 1 ELSE read[d])
        BY <1>1, <2>1, <3>1 DEF ReadFrame, ProxyTypeOK
      <3>3. Numbered'
        BY <1>1, <1>5, <3>1, <3>2 DEF Numbered, Busy
      <3> QED BY <1>1, <3>2, <3>3 DEF ProxyTypeOK
    <2>2. CASE WriteFrame(c)
      <3>1. read[c] \in 1..MaxRequests /\ read' = read /\ place = "reading"
        BY <1>1, <1>3, <2>2 DEF WriteFrame, At, GoTo, Numbered, Busy, ProxyTypeOK
      <3>2. replies' \in [Conns -> Seq(1..MaxRequests)]
        BY <1>1, <2>2, <3>1 DEF WriteFrame, ProxyTypeOK
      <3>3. Numbered'
        BY <1>1, <1>5, <3>1 DEF Numbered, Busy
      <3> QED BY <1>1, <3>1, <3>2, <3>3 DEF ProxyTypeOK
    <2>3. CASE ReadFails(c) \/ Forward(c) \/ WriteFails(c)
      <3>1. UNCHANGED <<read, replies>> /\ (Busy(c)' => Busy(c))
        BY <1>1, <2>3 DEF ReadFails, Forward, WriteFails, At, GoTo, Busy, ProxyTypeOK
      <3>2. Numbered'
        BY <1>1, <1>5, <3>1 DEF Numbered, Busy
      <3> QED BY <1>1, <3>1, <3>2 DEF ProxyTypeOK
    <2> QED BY <2>1, <2>2, <2>3
  <1>9. ProxyTypeOK'
    BY <1>1, <1>2, <1>3, <1>8 DEF ProxyTypeOK
  <1> QED BY <1>2, <1>6, <1>7, <1>8, <1>9, RingAlone DEF ProxyInv

\* KeyRing.Next with no keys: nothing is taken.
LEMMA NoKeyStep ==
  ASSUME ProxyInv, NEW c \in Conns, TakeKey(c), NumKeys = 0
  PROVE  ProxyInv'
  <1>1. ProxyTypeOK /\ Waiting /\ Numbered
    BY DEF ProxyInv
  <1>2. /\ UNCHANGED <<main, dialed, sent, deaf, read, replies, mutex, current, used>>
        /\ pc[c] = "rotating" /\ pc' = [pc EXCEPT ![c] = "forwarding"]
    BY DEF TakeKey, ring, GoTo, At
  <1>3. \A d \in Conns : pc'[d] = (IF d = c THEN "forwarding" ELSE pc[d])
    BY <1>1, <1>2 DEF ProxyTypeOK
  <1>4. ProxyTypeOK'
    BY <1>1, <1>2 DEF ProxyTypeOK
  <1>5. Waiting' /\ Numbered'
    BY <1>1, <1>2, <1>3 DEF ProxyTypeOK, Waiting, Numbered, Busy
  <1>6. \A d \in Conns : pc'[d] = "advancing" <=> pc[d] = "advancing"
    BY <1>2, <1>3
  <1> QED BY <1>2, <1>4, <1>5, <1>6, RingAlone DEF ProxyInv

\* KeyRing.Next takes the key at the index: the one after that of the last request.
LEMMA TakeKeyStep ==
  ASSUME ProxyInv, NEW c \in Conns, TakeKey(c), NumKeys # 0
  PROVE  ProxyInv'
  <1>1. ProxyTypeOK /\ Waiting /\ Locked /\ Numbered /\ RingCounts /\ KeysInTurn
    BY DEF ProxyInv
  <1>2. /\ UNCHANGED <<main, dialed, sent, deaf, read, replies, current>>
        /\ pc[c] = "rotating" /\ pc' = [pc EXCEPT ![c] = "advancing"]
        /\ mutex = NoConn /\ mutex' = c /\ used' = Append(used, current)
    BY DEF TakeKey, GoTo, At, MutexFree
  <1>3. \A d \in Conns : pc'[d] = (IF d = c THEN "advancing" ELSE pc[d])
    BY <1>1, <1>2 DEF ProxyTypeOK
  <1>4. NumKeys \in Nat \ {0} /\ NoConn \notin Conns /\ current \in 0..(NumKeys - 1)
    BY <1>1, ProxyAssumption DEF ProxyTypeOK
  <1>5. ProxyTypeOK'
    <2>1. used' \in Seq(0..(NumKeys - 1))
      BY <1>1, <1>2, <1>4 DEF ProxyTypeOK
    <2>2. pc' \in [Conns -> {"none", "reading", "rotating", "advancing", "forwarding", "replying", "gone"}]
      BY <1>1, <1>2 DEF ProxyTypeOK
    <2> QED BY <1>1, <1>2, <2>1, <2>2 DEF ProxyTypeOK
  <1>6. Waiting' /\ Numbered' /\ Locked'
    BY <1>1, <1>2, <1>3, <1>4 DEF ProxyTypeOK, Waiting, Numbered, Busy, Locked
  <1>7. /\ Len(used) \in Nat /\ Len(used') = Len(used) + 1
        /\ used' # <<>> /\ used'[Len(used) + 1] = current
        /\ \A i \in 1..Len(used) : used'[i] = used[i]
        /\ DOMAIN used = 1..Len(used) /\ DOMAIN used' = 1..(Len(used) + 1)
    <2>1. used \in Seq(0..(NumKeys - 1))
      BY <1>1 DEF ProxyTypeOK
    <2> QED BY <1>2, <2>1
  <1>8. current = Len(used) % NumKeys
    BY <1>1, <1>2, <1>4 DEF RingCounts, Passed
  <1>9. RingCounts'
    <2>1. Passed' = Len(used)
      <3>1. mutex' # NoConn
        BY <1>2, <1>4
      <3>2. Passed' = Len(used') - 1
        BY <3>1, Zenon DEF Passed
      <3>3. Len(used) + 1 - 1 = Len(used)
        BY <1>7
      <3> QED BY <1>7, <3>2, <3>3
    <2> QED BY <1>2, <1>4, <1>7, <1>8, <2>1 DEF RingCounts
  <1>10. KeysInTurn'
    <2> SUFFICES ASSUME NEW i \in 1..(Len(used) + 1) PROVE used'[i] = (i - 1) % NumKeys
      BY <1>7 DEF KeysInTurn
    <2>1. CASE i \in 1..Len(used)
      BY <1>1, <1>7, <2>1 DEF KeysInTurn
    <2>2. CASE i = Len(used) + 1
      <3>1. i - 1 = Len(used)
        BY <1>7, <2>2
      <3> QED BY <1>7, <1>8, <2>2, <3>1
    <2> QED BY <1>7, <2>1, <2>2
  <1> QED BY <1>5, <1>6, <1>9, <1>10 DEF ProxyInv

\* ... and moves the index on.
LEMMA AdvanceStep ==
  ASSUME ProxyInv, NEW c \in Conns, Advance(c)
  PROVE  ProxyInv'
  <1>1. ProxyTypeOK /\ Waiting /\ Locked /\ Numbered /\ RingCounts /\ KeysInTurn
    BY DEF ProxyInv
  <1>2. /\ UNCHANGED <<main, dialed, sent, deaf, read, replies, used>>
        /\ pc[c] = "advancing" /\ pc' = [pc EXCEPT ![c] = "forwarding"]
        /\ mutex' = NoConn /\ current' = (current + 1) % NumKeys
    BY DEF Advance, GoTo, At
  <1>3. \A d \in Conns : pc'[d] = (IF d = c THEN "forwarding" ELSE pc[d])
    BY <1>1, <1>2 DEF ProxyTypeOK
  <1>4. mutex = c /\ NoConn \notin Conns
    BY <1>1, <1>2, ProxyAssumption DEF Locked
  <1>5. used # <<>> /\ NumKeys \in Nat \ {0}
    BY <1>1, <1>4, ProxyAssumption DEF RingCounts
  <1>6. Len(used) \in Nat \ {0} /\ Len(used) - 1 \in Nat /\ current = (Len(used) - 1) % NumKeys
    <2>1. used \in Seq(0..(NumKeys - 1))
      BY <1>1 DEF ProxyTypeOK
    <2>2. Len(used) \in Nat \ {0}
      BY <1>5, <2>1
    <2>3. Passed = Len(used) - 1
      BY <1>4, Zenon DEF Passed
    <2>4. current = Passed % NumKeys
      BY <1>1, <1>5 DEF RingCounts
    <2>5. Len(used) - 1 \in Nat
      BY <2>2
    <2> QED BY <2>2, <2>3, <2>4, <2>5
  <1>7. current' = Len(used) % NumKeys
    <2>1. (((Len(used) - 1) % NumKeys) + 1) % NumKeys = (Len(used) - 1 + 1) % NumKeys
      BY <1>5, <1>6, NextRemainder
    <2>2. Len(used) - 1 + 1 = Len(used)
      BY <1>6
    <2> QED BY <1>2, <1>6, <2>1, <2>2
  <1>8. current' \in 0..(NumKeys - 1)
    BY <1>5, <1>6, <1>7, Quotient
  <1>9. ProxyTypeOK'
    BY <1>1, <1>2, <1>8 DEF ProxyTypeOK
  <1>10. Waiting' /\ Numbered' /\ Locked'
    BY <1>1, <1>2, <1>3, <1>4 DEF ProxyTypeOK, Waiting, Numbered, Busy, Locked
  <1>11. RingCounts' /\ KeysInTurn'
    BY <1>1, <1>2, <1>5, <1>7 DEF RingCounts, Passed, KeysInTurn
  <1> QED BY <1>9, <1>10, <1>11 DEF ProxyInv

\* Every step keeps the invariant.
LEMMA StepProxyInv ==
  ProxyInv /\ [ProxyNext]_proxyVars => ProxyInv'
  <1> SUFFICES ASSUME ProxyInv, [ProxyNext]_proxyVars PROVE ProxyInv'
    OBVIOUS
  <1>1. ASSUME NEW c \in Conns, Handler(c)
        PROVE  ProxyInv'
    BY <1>1, OffTheRing, NoKeyStep, TakeKeyStep, AdvanceStep DEF Handler
  <1>2. CASE UNCHANGED proxyVars
    BY <1>2 DEF proxyVars, ring, ProxyInv, ProxyTypeOK, Waiting, Locked, Numbered, Busy, RingCounts, Passed, KeysInTurn
  <1> QED BY <1>1, <1>2, OutsideSteps DEF ProxyNext, Exited

\* All of it at once.
THEOREM ProxyCorrect == ProxySpec => []ProxyInv
  <1> QED BY InitProxyInv, StepProxyInv, PTL DEF ProxySpec

\* The types, for any connections, keys and numbers of requests.
THEOREM ProxyTypes == ProxySpec => []ProxyTypeOK
  <1>1. ProxyInv => ProxyTypeOK
    BY DEF ProxyInv
  <1> QED BY ProxyCorrect, <1>1, PTL

\* For any number of keys, connections and requests the key ring hands its keys
\* out in turn, however the goroutines interleave (KeyRing.Next).
THEOREM KeysTheorem == ProxySpec => []KeysInTurn
  <1>1. ProxyInv => KeysInTurn
    BY DEF ProxyInv
  <1> QED BY ProxyCorrect, <1>1, PTL

-----------------------------------------------------------------------------
(***************************************************************************)
(* The socket: sequences on their way.                                     *)
(***************************************************************************)

\* What is handed over from the head of one sequence to the end of the one before
\* leaves the two together as they were.
LEMMA HandedOver ==
  ASSUME NEW S, NEW a \in Seq(S), NEW b \in Seq(S), b # <<>>
  PROVE  /\ Append(a, Head(b)) \in Seq(S) /\ Tail(b) \in Seq(S)
         /\ Append(a, Head(b)) \o Tail(b) = a \o b
  OBVIOUS

\* What is taken from the front of the first is taken from the front of the two.
LEMMA TakenOut ==
  ASSUME NEW S, NEW a \in Seq(S), NEW b \in Seq(S), a # <<>>
  PROVE  /\ Tail(a) \in Seq(S)
         /\ Tail(a) \o b = Tail(a \o b) /\ Head(a \o b) = Head(a)
  OBVIOUS

\* All but the first two cells.
LEMMA LastCells ==
  ASSUME NEW S, NEW a \in Seq(S), Len(a) >= 2
  PROVE  /\ SubSeq(a, 3, Len(a)) \in Seq(S)
         /\ Len(SubSeq(a, 3, Len(a))) = Len(a) - 2
         /\ \A i \in 1..(Len(a) - 2) : SubSeq(a, 3, Len(a))[i] = a[i + 2]
  <1>1. \A i \in 3..Len(a) : a[i] \in S
    OBVIOUS
  <1>2. /\ SubSeq(a, 3, Len(a)) \in Seq(S)
        /\ Len(SubSeq(a, 3, Len(a))) = (IF 3 <= Len(a) THEN Len(a) - 3 + 1 ELSE 0)
        /\ \A i \in 1..(Len(a) - 3 + 1) : SubSeq(a, 3, Len(a))[i] = a[3 + i - 1]
    BY <1>1, SubSeqProperties
  <1>3. Len(a) \in Nat /\ Len(a) - 3 + 1 = Len(a) - 2
    OBVIOUS
  <1>4. \A i \in 1..(Len(a) - 2) : 3 + i - 1 = i + 2
    BY <1>3
  <1> QED BY <1>2, <1>3, <1>4

\* So are two cells, and the second is the second of the two together.
LEMMA TwoTakenOut ==
  ASSUME NEW S, NEW a \in Seq(S), NEW b \in Seq(S), Len(a) >= 2
  PROVE  /\ SubSeq(a, 3, Len(a)) \in Seq(S)
         /\ SubSeq(a, 3, Len(a)) \o b = SubSeq(a \o b, 3, Len(a \o b))
         /\ a[2] = (a \o b)[2] /\ Len(a \o b) >= 2
  <1> DEFINE c == a \o b
  <1> DEFINE l == SubSeq(a, 3, Len(a)) \o b
  <1> DEFINE r == SubSeq(c, 3, Len(c))
  <1>1. /\ c \in Seq(S) /\ Len(c) = Len(a) + Len(b)
        /\ \A i \in 1..Len(c) : c[i] = (IF i <= Len(a) THEN a[i] ELSE b[i - Len(a)])
    BY ConcatProperties
  <1>2. /\ SubSeq(a, 3, Len(a)) \in Seq(S) /\ Len(SubSeq(a, 3, Len(a))) = Len(a) - 2
        /\ \A i \in 1..(Len(a) - 2) : SubSeq(a, 3, Len(a))[i] = a[i + 2]
    BY LastCells
  <1>3. /\ l \in Seq(S) /\ Len(l) = Len(c) - 2
        /\ \A i \in 1..Len(l) : l[i] = (IF i <= Len(a) - 2 THEN a[i + 2] ELSE b[i - (Len(a) - 2)])
    <2>1. /\ l \in Seq(S) /\ Len(l) = Len(a) - 2 + Len(b)
          /\ \A i \in 1..(Len(a) - 2 + Len(b)) :
               l[i] = (IF i <= Len(a) - 2 THEN SubSeq(a, 3, Len(a))[i] ELSE b[i - (Len(a) - 2)])
      BY <1>2, ConcatProperties
    <2> QED BY <1>1, <1>2, <2>1
  <1> HIDE DEF c
  <1>4. /\ r \in Seq(S) /\ Len(r) = Len(c) - 2
        /\ \A i \in 1..Len(r) : r[i] = c[i + 2]
    BY <1>1, LastCells
  <1> HIDE DEF l, r
  <1>5. ASSUME NEW i \in 1..Len(l) PROVE l[i] = r[i]
    <2>1. i + 2 \in 1..Len(c) /\ i \in 1..Len(r)
      BY <1>1, <1>3, <1>4
    <2>2. r[i] = (IF i + 2 <= Len(a) THEN a[i + 2] ELSE b[i + 2 - Len(a)])
      BY <2>1, <1>1, <1>4
    <2>3. i + 2 <= Len(a) <=> i <= Len(a) - 2
      OBVIOUS
    <2>4. i + 2 - Len(a) = i - (Len(a) - 2)
      OBVIOUS
    <2> QED BY <1>3, <2>2, <2>3, <2>4
  <1>6. l = r
    <2>1. Len(l) = Len(r) /\ \A i \in 1..Len(l) : l[i] = r[i]
      BY <1>3, <1>4, <1>5
    <2> QED BY <1>3, <1>4, <2>1, SeqEqual
  <1>7. a[2] = c[2] /\ Len(c) >= 2
    BY <1>1
  <1> QED BY <1>2, <1>6, <1>7 DEF l, r, c

\* An empty whole has empty parts.
LEMMA BothEmpty ==
  ASSUME NEW S, NEW a \in Seq(S), NEW b \in Seq(S), a \o b = <<>>
  PROVE  a = <<>> /\ b = <<>>
  OBVIOUS

\* A sequence and two cells more.
LEMMA TwoMore ==
  ASSUME NEW S, NEW s \in Seq(S), NEW f \in Seq(S), Len(f) = 2
  PROVE  /\ Len(s \o f) = Len(s) + 2
         /\ \A i \in 1..Len(s) : (s \o f)[i] = s[i]
         /\ (s \o f)[Len(s) + 1] = f[1] /\ (s \o f)[Len(s) + 2] = f[2]
  <1>1. /\ Len(s \o f) = Len(s) + Len(f)
        /\ \A i \in 1..(Len(s) + Len(f)) : (s \o f)[i] = (IF i <= Len(s) THEN s[i] ELSE f[i - Len(s)])
    BY ConcatProperties
  <1>2. Len(s) \in Nat
    OBVIOUS
  <1>3. (s \o f)[Len(s) + 1] = f[Len(s) + 1 - Len(s)] /\ (s \o f)[Len(s) + 2] = f[Len(s) + 2 - Len(s)]
    BY <1>1, <1>2
  <1>4. Len(s) + 1 - Len(s) = 1 /\ Len(s) + 2 - Len(s) = 2
    BY <1>2
  <1> QED BY <1>1, <1>2, <1>3, <1>4

\* n step_event frames, and behind them, if last, one frame of kind k.
Streams(s, n, last, k) ==
    /\ Len(s) = 2 * n + (IF last THEN 2 ELSE 0)
    /\ \A i \in 1..Len(s) : s[i].of = (IF i <= 2 * n THEN "step_event" ELSE k)

LEMMA FrameCells ==
  ASSUME NEW k
  PROVE  /\ Len(Frame(k)) = 2
         /\ Frame(k)[1].of = k /\ Frame(k)[2].of = k
         /\ k \in Frames => Frame(k) \in Seq(Cell)
  BY DEF Frame, Cell

\* One more event is written.
LEMMA StreamGrows ==
  ASSUME NEW s \in Seq(Cell), NEW n \in Nat, NEW k, Streams(s, n, FALSE, k)
  PROVE  Streams(s \o Frame("step_event"), n + 1, FALSE, k)
  <1> DEFINE f == Frame("step_event")
  <1>1. Len(f) = 2 /\ f[1].of = "step_event" /\ f[2].of = "step_event" /\ f \in Seq(Cell)
    BY FrameCells DEF Frames
  <1> HIDE DEF f
  <1>2. /\ Len(s \o f) = Len(s) + 2
        /\ \A i \in 1..Len(s) : (s \o f)[i] = s[i]
        /\ (s \o f)[Len(s) + 1] = f[1] /\ (s \o f)[Len(s) + 2] = f[2]
    BY <1>1, TwoMore
  <1>3. Len(s) = 2 * n /\ \A i \in 1..Len(s) : s[i].of = "step_event"
    BY DEF Streams
  <1>4. ASSUME NEW i \in 1..Len(s \o f) PROVE (s \o f)[i].of = "step_event" /\ i <= 2 * (n + 1)
    <2>1. i \in 1..Len(s) \/ i = Len(s) + 1 \/ i = Len(s) + 2
      BY <1>2, <1>3
    <2> QED BY <2>1, <1>1, <1>2, <1>3, SMTT(30)
  <1>5. Streams(s \o f, n + 1, FALSE, k)
    BY <1>2, <1>3, <1>4 DEF Streams
  <1> QED BY <1>5 DEF f

\* The frame that closes the call is written.
LEMMA StreamCloses ==
  ASSUME NEW s \in Seq(Cell), NEW n \in Nat, NEW k \in Frames, Streams(s, n, FALSE, k)
  PROVE  Streams(s \o Frame(k), n, TRUE, k)
  <1> DEFINE f == Frame(k)
  <1>1. Len(f) = 2 /\ f[1].of = k /\ f[2].of = k /\ f \in Seq(Cell)
    BY FrameCells
  <1> HIDE DEF f
  <1>2. /\ Len(s \o f) = Len(s) + 2
        /\ \A i \in 1..Len(s) : (s \o f)[i] = s[i]
        /\ (s \o f)[Len(s) + 1] = f[1] /\ (s \o f)[Len(s) + 2] = f[2]
    BY <1>1, TwoMore
  <1>3. Len(s) = 2 * n /\ \A i \in 1..Len(s) : s[i].of = "step_event"
    BY DEF Streams
  <1>4. ASSUME NEW i \in 1..Len(s \o f) PROVE (s \o f)[i].of = (IF i <= 2 * n THEN "step_event" ELSE k)
    <2>1. CASE i \in 1..Len(s)
      BY <1>2, <1>3, <2>1
    <2>2. CASE i = Len(s) + 1
      BY <1>1, <1>2, <1>3, <2>2
    <2>3. CASE i = Len(s) + 2
      BY <1>1, <1>2, <1>3, <2>3
    <2> QED BY <1>2, <1>3, <2>1, <2>2, <2>3
  <1>5. Streams(s \o f, n, TRUE, k)
    BY <1>2, <1>3, <1>4 DEF Streams
  <1> QED BY <1>5 DEF f

\* A frame is read.
LEMMA StreamTaken ==
  ASSUME NEW s \in Seq(Cell), NEW n \in Nat, NEW last \in BOOLEAN, NEW k, Streams(s, n, last, k),
         Len(s) >= 2
  PROVE  /\ n > 0 => s[2].of = "step_event" /\ Streams(SubSeq(s, 3, Len(s)), n - 1, last, k)
         /\ n = 0 => last /\ s[2].of = k
  <1>1. n = 0 => last /\ s[2].of = k
    BY DEF Streams
  <1>2. ASSUME n > 0
        PROVE  s[2].of = "step_event" /\ Streams(SubSeq(s, 3, Len(s)), n - 1, last, k)
    <2> DEFINE t == SubSeq(s, 3, Len(s))
    <2>1. Len(t) = Len(s) - 2 /\ \A i \in 1..Len(t) : t[i] = s[i + 2]
      BY LastCells
    <2> HIDE DEF t
    <2>2. s[2].of = "step_event"
      BY <1>2 DEF Streams
    <2>3. Len(t) = 2 * (n - 1) + (IF last THEN 2 ELSE 0)
      BY <2>1 DEF Streams
    <2>4. ASSUME NEW i \in 1..Len(t) PROVE t[i].of = (IF i <= 2 * (n - 1) THEN "step_event" ELSE k)
      <3>1. i + 2 \in 1..Len(s) /\ (i + 2 <= 2 * n <=> i <= 2 * (n - 1))
        BY <2>1
      <3> QED BY <2>1, <3>1 DEF Streams
    <2>5. Streams(t, n - 1, last, k)
      BY <2>3, <2>4 DEF Streams
    <2> QED BY <2>2, <2>5 DEF t
  <1> QED BY <1>1, <1>2

-----------------------------------------------------------------------------
(***************************************************************************)
(* The socket: the invariant.  The cells of the request that are on their  *)
(* way tell what the server can still read, and those on their way back    *)
(* are the events the client has not read and the frame behind them.       *)
(***************************************************************************)

Coming == inbox \o up
Going  == mail \o down
Unread == emitted - events
\* The response was written, unless its size kept it from that.
Responded == handled = 1 /\ server # "handling" /\ cause # "FramingError"

PayloadOf(k) == <<[part |-> "payload", of |-> k]>>

\* The request is on its way, or its payload alone, or nothing; the server has read
\* its header, or lost it, if the payload is alone.
RequestInv ==
    /\ Coming \in {<<>>, PayloadOf(request), Frame(request)}
    /\ client = "new" => Coming = <<>> /\ handled = 0
    /\ server = "payload" => handled = 0 /\ Coming = PayloadOf(request)
    /\ server = "handling" => handled = 1
    /\ handled = 1 => Coming = <<>>

\* The events that were not read, and then the response.
ResponseInv ==
    /\ events <= emitted
    /\ handled = 0 => emitted = 0
    /\ ~Gone => Streams(Going, Unread, Responded, Expected(request))

\* How a connection and a call end.
EndInv ==
    /\ cause = "FramingError" => server = "closed" /\ (handled = 1 => BigReplies)
    /\ client = "got" => Responded
    /\ client = "failed" => server = "closed"

SocketInv == FramingTypeOK /\ RequestInv /\ ResponseInv /\ EndInv /\ AnswerIsMine

\* The cells and the counters.
LEMMA SocketTypes ==
  ASSUME FramingTypeOK
  PROVE  /\ inbox \in Seq(Cell) /\ up \in Seq(Cell)
         /\ mail \in Seq(Cell) /\ down \in Seq(Cell)
         /\ Coming \in Seq(Cell) /\ Going \in Seq(Cell)
         /\ events \in Nat /\ emitted \in Nat /\ MaxEvents \in Nat
         /\ request \in Frames
         /\ Expected(request) \in Frames /\ Expected(request) \in ClosingFrames
  <1>1. /\ inbox \in Seq(Cell) /\ up \in Seq(Cell)
        /\ mail \in Seq(Cell) /\ down \in Seq(Cell)
    BY DEF FramingTypeOK
  <1>2. Coming \in Seq(Cell) /\ Going \in Seq(Cell)
    BY <1>1 DEF Coming, Going
  <1>3. events \in Nat /\ emitted \in Nat /\ MaxEvents \in Nat
    <2>1. MaxEvents \in Nat
      BY FramingAssumption
    <2>2. events \in 0..MaxEvents /\ emitted \in 0..MaxEvents
      BY DEF FramingTypeOK
    <2> QED BY <2>1, <2>2
  <1>4. request \in Requests
    BY DEF FramingTypeOK
  <1>5. /\ request \in Frames
        /\ Expected(request) \in Frames /\ Expected(request) \in ClosingFrames
    BY <1>4 DEF Frames, Expected, ClosingFrames
  <1> QED BY <1>1, <1>2, <1>3, <1>5

LEMMA InitSocketInv == FramingInit => SocketInv
  <1> SUFFICES ASSUME FramingInit PROVE SocketInv
    OBVIOUS
  <1>1. FramingTypeOK
    <2>1. \A q \in {up, down, inbox, mail} : q \in Seq(Cell)
      <3>1. up = <<>> /\ down = <<>> /\ inbox = <<>> /\ mail = <<>>
        BY DEF FramingInit
      <3>2. <<>> \in Seq(Cell)
        OBVIOUS
      <3> QED BY <3>1, <3>2, Zenon
    <2>2. events \in 0..MaxEvents /\ emitted \in 0..MaxEvents
      <3>1. MaxEvents \in Nat
        BY FramingAssumption
      <3>2. events = 0 /\ emitted = 0
        BY DEF FramingInit
      <3> QED BY <3>1, <3>2
    <2>3. /\ request \in Requests
          /\ client \in {"new", "waiting", "got", "timed out", "failed"}
          /\ answer \in ClosingFrames \cup {"none"}
          /\ server \in {"top", "header", "payload", "handling", "closed"}
          /\ cause \in {"none", "client gone", "stopped", "FramingError"}
          /\ handled \in 0..1
      BY DEF FramingInit
    <2>4. stopping \in BOOLEAN
      BY DEF FramingInit
    <2> QED BY <2>1, <2>2, <2>3, <2>4, Zenon DEF FramingTypeOK
  <1>2. Coming = <<>> /\ Going = <<>>
    BY DEF FramingInit, Coming, Going
  <1>3. RequestInv /\ EndInv /\ AnswerIsMine
    BY <1>2 DEF FramingInit, RequestInv, EndInv, AnswerIsMine
  <1>4. ResponseInv
    BY <1>2 DEF FramingInit, ResponseInv, Streams, Responded, Unread
  <1> QED BY <1>1, <1>3, <1>4 DEF SocketInv

\* What is the same before and after keeps the invariant, wherever the cells are.
LEMMA SameInv ==
  ASSUME SocketInv, FramingTypeOK', Coming' = Coming, Going' = Going,
         UNCHANGED <<request, client, events, answer, server, cause, handled, emitted>>
  PROVE  SocketInv'
  <1>1. RequestInv' /\ EndInv' /\ AnswerIsMine'
    BY DEF SocketInv, RequestInv, EndInv, Responded, AnswerIsMine
  <1>2. Unread' = Unread /\ Responded' = Responded /\ (Gone' <=> Gone)
    BY DEF Unread, Responded, Gone
  <1>3. Expected(request)' = Expected(request)
    BY DEF Expected
  <1>4. ResponseInv'
    BY <1>2, <1>3 DEF SocketInv, ResponseInv
  <1> QED BY <1>1, <1>4 DEF SocketInv

\* The network.
LEMMA NetworkSteps ==
  ASSUME SocketInv,
         DeliverUp \/ DeliverDown \/ Stop
  PROVE  SocketInv'
  <1>0. FramingTypeOK
    BY DEF SocketInv
  <1>1. CASE DeliverUp
    <2>1. /\ up # <<>> /\ inbox' = Append(inbox, Head(up)) /\ up' = Tail(up)
          /\ UNCHANGED <<request, client, events, answer, down, mail, server, cause, handled, emitted, stopping>>
      BY <1>1 DEF DeliverUp, mine
    <2>2. Coming' = Coming /\ inbox' \in Seq(Cell) /\ up' \in Seq(Cell)
      <3>1. up \in Seq(Cell) /\ inbox \in Seq(Cell)
        BY <1>0, SocketTypes
      <3> QED BY <2>1, <3>1, HandedOver DEF Coming
    <2>3. Going' = Going
      BY <2>1 DEF Going
    <2>4. FramingTypeOK'
      BY <1>0, <2>1, <2>2 DEF FramingTypeOK
    <2> QED BY <2>1, <2>2, <2>3, <2>4, SameInv
  <1>2. CASE DeliverDown
    <2>1. /\ down # <<>> /\ mail' = Append(mail, Head(down)) /\ down' = Tail(down)
          /\ UNCHANGED <<request, client, events, answer, up, inbox, server, cause, handled, emitted, stopping>>
      BY <1>2 DEF DeliverDown, mine
    <2>2. Going' = Going /\ mail' \in Seq(Cell) /\ down' \in Seq(Cell)
      <3>1. down \in Seq(Cell) /\ mail \in Seq(Cell)
        BY <1>0, SocketTypes
      <3> QED BY <2>1, <3>1, HandedOver DEF Going
    <2>3. Coming' = Coming
      BY <2>1 DEF Coming
    <2>4. FramingTypeOK'
      BY <1>0, <2>1, <2>2 DEF FramingTypeOK
    <2> QED BY <2>1, <2>2, <2>3, <2>4, SameInv
  <1>3. CASE Stop
    <2>1. FramingTypeOK' /\ Coming' = Coming /\ Going' = Going
          /\ UNCHANGED <<request, client, events, answer, server, cause, handled, emitted>>
      BY <1>0, <1>3 DEF Stop, mine, net, FramingTypeOK, Coming, Going
    <2> QED BY <2>1, SameInv
  <1> QED BY <1>1, <1>2, <1>3

\* The request goes out.
LEMMA SendStep ==
  ASSUME SocketInv, SendRequest
  PROVE  SocketInv'
  <1>0. FramingTypeOK /\ RequestInv /\ ResponseInv /\ EndInv
    BY DEF SocketInv
  <1>1. /\ client = "new" /\ client' = "waiting" /\ up' = up \o Frame(request)
        /\ UNCHANGED <<request, events, answer, down, inbox, mail, server, cause, handled, emitted, stopping>>
    BY DEF SendRequest
  <1>2. Coming = <<>> /\ handled = 0
    BY <1>0, <1>1 DEF RequestInv
  <1>3. inbox = <<>> /\ up = <<>>
    BY <1>0, <1>2, SocketTypes, BothEmpty DEF Coming
  <1>4. Frame(request) \in Seq(Cell)
    BY <1>0, SocketTypes, FrameCells
  <1>5. up' = Frame(request) /\ Coming' = Frame(request)
    BY <1>1, <1>3, <1>4 DEF Coming
  <1>6. FramingTypeOK'
    BY <1>0, <1>1, <1>4, <1>5, SocketTypes DEF FramingTypeOK
  <1>7. RequestInv'
    BY <1>0, <1>1, <1>2, <1>5 DEF RequestInv, PayloadOf
  <1>8. Going' = Going /\ Unread' = Unread /\ Responded' = Responded /\ ~Gone
    BY <1>1 DEF Going, Unread, Responded, Gone
  <1>9. ResponseInv'
    <2>1. Expected(request)' = Expected(request)
      BY <1>1 DEF Expected
    <2> QED BY <1>0, <1>1, <1>8, <2>1 DEF ResponseInv
  <1>10. EndInv' /\ AnswerIsMine'
    BY <1>0, <1>1 DEF EndInv, AnswerIsMine
  <1> QED BY <1>6, <1>7, <1>9, <1>10 DEF SocketInv

\* A call that is given up has no claim to an answer.
LEMMA GivenUp ==
  ASSUME SocketInv,
         ClientTimesOut \/ ClientFails
  PROVE  SocketInv'
  <1>0. FramingTypeOK /\ RequestInv /\ ResponseInv /\ EndInv
    BY DEF SocketInv
  <1>1. /\ client = "waiting" /\ client' \in {"timed out", "failed"}
        /\ UNCHANGED <<request, events, answer, inbox, up, mail, down, server, cause, handled, emitted, stopping>>
    BY DEF ClientTimesOut, ClientFails, net
  <1>2. FramingTypeOK' /\ Coming' = Coming /\ Gone' /\ ~Gone
    BY <1>0, <1>1 DEF FramingTypeOK, Coming, Gone
  <1>3. RequestInv' /\ ResponseInv'
    BY <1>0, <1>1, <1>2 DEF RequestInv, ResponseInv
  <1>4. ASSUME client' = "failed"
        PROVE  server = "closed" /\ (handled = 1 => cause = "FramingError" /\ BigReplies)
    <2>1. server = "closed" /\ down = <<>> /\ Len(mail) < 2
      BY <1>4 DEF ClientTimesOut, ClientFails, ClientAtEOF
    <2>2. Going = mail
      BY <1>0, <2>1, SocketTypes, ConcatEmptySeq DEF Going
    <2>3. ASSUME handled = 1, cause # "FramingError" PROVE FALSE
      <3>1. Responded
        BY <2>1, <2>3 DEF Responded
      <3>2. Len(mail) = 2 * Unread + 2
        BY <1>0, <1>2, <2>2, <3>1 DEF ResponseInv, Streams
      <3>3. Unread \in Nat
        BY <1>0, SocketTypes DEF ResponseInv, Unread
      <3> QED BY <2>1, <3>2, <3>3
    <2> QED BY <1>0, <2>1, <2>3 DEF EndInv
  <1>5. EndInv' /\ AnswerIsMine'
    BY <1>0, <1>1, <1>4 DEF EndInv, AnswerIsMine
  <1> QED BY <1>2, <1>3, <1>5 DEF SocketInv

\* A frame is read: an event, or the frame that closes the call.
LEMMA ReadStep ==
  ASSUME SocketInv, ClientReads
  PROVE  SocketInv'
  <1>0. FramingTypeOK /\ RequestInv /\ ResponseInv /\ EndInv
    BY DEF SocketInv
  <1> DEFINE k == mail[2].of
  <1>1. /\ client = "waiting" /\ Len(mail) >= 2
        /\ mail' = SubSeq(mail, 3, Len(mail))
        /\ UNCHANGED <<request, up, down, inbox, server, cause, handled, emitted, stopping>>
        /\ k # "step_event" => client' = "got" /\ answer' = k /\ UNCHANGED events
        /\ k = "step_event" => events' = events + 1 /\ UNCHANGED <<client, answer>>
    BY DEF ClientReads, Closing
  <1> HIDE DEF k
  <1>2. /\ mail' \in Seq(Cell)
        /\ Going' = SubSeq(Going, 3, Len(Going))
        /\ mail[2] = Going[2] /\ Len(Going) >= 2
    <2>1. down \in Seq(Cell) /\ mail \in Seq(Cell)
      BY <1>0, SocketTypes
    <2>2. /\ SubSeq(mail, 3, Len(mail)) \in Seq(Cell)
          /\ SubSeq(mail, 3, Len(mail)) \o down = SubSeq(mail \o down, 3, Len(mail \o down))
          /\ mail[2] = (mail \o down)[2] /\ Len(mail \o down) >= 2
      BY <1>1, <2>1, TwoTakenOut
    <2>3. mail' = SubSeq(mail, 3, Len(mail)) /\ down' = down
      BY <1>1
    <2> QED BY <2>2, <2>3 DEF Going
  <1>3. Coming' = Coming
    BY <1>1 DEF Coming
  <1>4. /\ Streams(Going, Unread, Responded, Expected(request))
        /\ Unread \in Nat /\ Responded \in BOOLEAN
    BY <1>0, <1>1, SocketTypes DEF ResponseInv, Unread, Responded, Gone
  <1>5. /\ Unread > 0 =>
             /\ k = "step_event"
             /\ Streams(Going', Unread - 1, Responded, Expected(request))
        /\ Unread = 0 => Responded /\ k = Expected(request)
    BY <1>0, <1>2, <1>4, SocketTypes, StreamTaken DEF k
  <1>6. CASE Unread > 0
    <2>1. events' = events + 1 /\ UNCHANGED <<client, answer>>
      BY <1>1, <1>5, <1>6
    <2>2. events' <= emitted /\ Unread' = Unread - 1 /\ events' \in 0..MaxEvents
      <3>1. events \in Nat /\ emitted \in 0..MaxEvents /\ MaxEvents \in Nat /\ emitted' = emitted /\ emitted > events
        <4>1. events \in Nat /\ MaxEvents \in Nat /\ emitted \in Nat
          BY <1>0, SocketTypes
        <4>2. emitted \in 0..MaxEvents
          BY <1>0 DEF FramingTypeOK
        <4>3. emitted' = emitted
          BY <1>1
        <4> QED BY <1>6, <4>1, <4>2, <4>3 DEF Unread
      <3> QED BY <2>1, <3>1 DEF Unread
    <2>3. Responded' = Responded /\ Expected(request)' = Expected(request)
      BY <1>1 DEF Responded, Expected
    <2>4. FramingTypeOK'
      BY <1>0, <1>1, <1>2, <2>1, <2>2 DEF FramingTypeOK
    <2>5. RequestInv' /\ EndInv' /\ AnswerIsMine'
      BY <1>0, <1>1, <1>3, <2>1 DEF RequestInv, EndInv, AnswerIsMine
    <2>6. Streams(Going', Unread', Responded', Expected(request)')
      BY <1>5, <1>6, <2>2, <2>3
    <2>7. ResponseInv'
      BY <1>0, <1>1, <2>2, <2>6 DEF ResponseInv
    <2> QED BY <2>4, <2>5, <2>7 DEF SocketInv
  <1>7. CASE Unread = 0
    <2>1. Responded /\ k = Expected(request) /\ k # "step_event" /\ events = emitted
      BY <1>0, <1>5, <1>7, SocketTypes DEF Unread, ClosingFrames
    <2>2. client' = "got" /\ answer' = Expected(request) /\ UNCHANGED events
      BY <1>1, <2>1
    <2>3. FramingTypeOK'
      BY <1>0, <1>1, <1>2, <2>2, SocketTypes DEF FramingTypeOK
    <2>4. RequestInv' /\ Responded'
      BY <1>0, <1>1, <1>3, <2>1, <2>2 DEF RequestInv, Responded
    <2>5. ResponseInv' /\ EndInv'
      BY <1>0, <1>1, <2>2, <2>4 DEF ResponseInv, EndInv, Gone
    <2>6. AnswerIsMine'
      BY <1>1, <2>1, <2>2 DEF AnswerIsMine, Responded, Expected
    <2> QED BY <2>3, <2>4, <2>5, <2>6 DEF SocketInv
  <1> QED BY <1>4, <1>6, <1>7

\* The server begins to read, or stops to.
LEMMA LoopSteps ==
  ASSUME SocketInv,
         Loop \/ ReadTimesOut \/ ReadEnds
  PROVE  SocketInv'
  <1>0. FramingTypeOK /\ RequestInv /\ ResponseInv /\ EndInv /\ AnswerIsMine
    BY DEF SocketInv
  <1>1. /\ UNCHANGED <<request, client, events, answer, up, down, inbox, mail, handled, emitted, stopping>>
        /\ server \in {"top", "header", "payload"} /\ server' \in {"top", "header", "closed"}
        /\ cause' \in {cause, "stopped", "client gone"}
        /\ cause' # cause => server' = "closed"
    BY DEF Loop, ReadTimesOut, ReadEnds, Close, mine, net
  <1>2. cause # "FramingError" /\ cause' # "FramingError"
    BY <1>0, <1>1 DEF EndInv
  <1>3. FramingTypeOK' /\ Coming' = Coming /\ Going' = Going /\ Unread' = Unread
    BY <1>0, <1>1 DEF FramingTypeOK, Coming, Going, Unread
  <1>4. Responded' = Responded /\ (Gone' <=> Gone)
    BY <1>1, <1>2 DEF Responded, Gone
  <1>5. RequestInv'
    BY <1>0, <1>1, <1>3 DEF RequestInv
  <1>6. Expected(request)' = Expected(request)
    BY <1>1 DEF Expected
  <1>7. ResponseInv'
    BY <1>0, <1>1, <1>3, <1>4, <1>6 DEF ResponseInv
  <1>8. EndInv'
    BY <1>0, <1>1, <1>2, <1>4 DEF EndInv
  <1>9. AnswerIsMine'
    BY <1>0, <1>1, <1>2, <1>6 DEF AnswerIsMine
  <1> QED BY <1>3, <1>5, <1>7, <1>8, <1>9 DEF SocketInv

\* The first cell on its way to the server.
LEMMA FirstCell ==
  ASSUME SocketInv, inbox # <<>>
  PROVE  /\ Coming \in {PayloadOf(request), Frame(request)} /\ handled = 0 /\ client # "new"
         /\ Head(inbox) = Head(Coming)
         /\ Tail(inbox) \in Seq(Cell) /\ Tail(inbox) \o up = Tail(Coming)
         /\ Coming = PayloadOf(request) => Head(inbox).part = "payload" /\ Tail(Coming) = <<>>
         /\ Coming = Frame(request) => Head(inbox).part = "header" /\ Tail(Coming) = PayloadOf(request)
  <1>1. FramingTypeOK /\ RequestInv
    BY DEF SocketInv
  <1>2. inbox \in Seq(Cell) /\ up \in Seq(Cell)
    BY <1>1, SocketTypes
  <1>3. Tail(inbox) \in Seq(Cell) /\ Tail(inbox) \o up = Tail(inbox \o up) /\ Head(inbox \o up) = Head(inbox)
    BY <1>2, TakenOut
  <1>4. Coming # <<>>
    BY <1>2, BothEmpty DEF Coming
  <1>5. Coming \in {PayloadOf(request), Frame(request)} /\ handled = 0 /\ client # "new"
    <2>1. handled \in 0..1
      BY <1>1 DEF FramingTypeOK
    <2> QED BY <1>1, <1>4, <2>1 DEF RequestInv
  <1>6. Head(PayloadOf(request)).part = "payload" /\ Tail(PayloadOf(request)) = <<>>
    BY DEF PayloadOf
  <1>7. Head(Frame(request)).part = "header" /\ Tail(Frame(request)) = PayloadOf(request)
    BY DEF PayloadOf, Frame
  <1>8. Head(inbox) = Head(Coming) /\ Tail(inbox) \o up = Tail(Coming)
    BY <1>3 DEF Coming
  <1> QED BY <1>3, <1>5, <1>6, <1>7, <1>8

\* A header is read, or a payload in its place.
LEMMA HeaderStep ==
  ASSUME SocketInv, ReadHeader
  PROVE  SocketInv'
  <1>0. FramingTypeOK /\ RequestInv /\ ResponseInv /\ EndInv /\ AnswerIsMine
    BY DEF SocketInv
  <1>1. /\ UNCHANGED <<request, client, events, answer, up, down, mail, handled, emitted, stopping>>
        /\ server = "header" /\ inbox # <<>> /\ inbox' = Tail(inbox)
        /\ Head(inbox).part = "header" => server' = "payload" /\ cause' = cause
        /\ Head(inbox).part # "header" => server' = "closed" /\ cause' = "FramingError"
    BY DEF ReadHeader, Close, mine
  <1>2. handled = 0 /\ client # "new" /\ Coming' = Tail(Coming) /\ Going' = Going /\ inbox' \in Seq(Cell)
    BY <1>1, FirstCell DEF Coming, Going
  <1>3. \/ Coming' = PayloadOf(request) /\ server' = "payload" /\ cause' = cause
        \/ Coming' = <<>> /\ server' = "closed" /\ cause' = "FramingError"
    BY <1>1, <1>2, FirstCell
  <1>4. FramingTypeOK'
    BY <1>0, <1>1, <1>2, <1>3 DEF FramingTypeOK
  <1>5. PayloadOf(request)' = PayloadOf(request) /\ Expected(request)' = Expected(request)
    BY <1>1 DEF PayloadOf, Expected
  <1>6. RequestInv'
    BY <1>1, <1>2, <1>3, <1>5 DEF RequestInv
  <1>7. Responded' = Responded /\ Unread' = Unread /\ (Gone' <=> Gone)
    BY <1>1, <1>2 DEF Responded, Unread, Gone
  <1>8. ResponseInv'
    BY <1>0, <1>1, <1>2, <1>5, <1>7 DEF ResponseInv
  <1>9. EndInv' /\ AnswerIsMine'
    BY <1>0, <1>1, <1>2, <1>3, <1>5, <1>7 DEF EndInv, AnswerIsMine
  <1> QED BY <1>4, <1>6, <1>8, <1>9 DEF SocketInv

\* The payload is read: the one dispatch.
LEMMA PayloadStep ==
  ASSUME SocketInv, ReadPayload
  PROVE  SocketInv'
  <1>0. FramingTypeOK /\ RequestInv /\ ResponseInv /\ EndInv /\ AnswerIsMine
    BY DEF SocketInv
  <1>1. /\ UNCHANGED <<request, client, events, answer, up, down, mail, cause, emitted, stopping>>
        /\ server = "payload" /\ inbox # <<>> /\ inbox' = Tail(inbox)
        /\ server' = "handling" /\ handled' = handled + 1
    BY DEF ReadPayload, TakePayload, mine
  <1>2. handled = 0 /\ client # "new" /\ handled' = 1 /\ inbox' \in Seq(Cell)
    BY <1>1, FirstCell
  <1>3. Coming' = <<>> /\ Going' = Going
    <2>1. Coming = PayloadOf(request)
      BY <1>0, <1>1 DEF RequestInv
    <2>2. Tail(inbox) \o up = <<>>
      BY <1>1, <2>1, FirstCell
    <2> QED BY <1>1, <2>2 DEF Coming, Going
  <1>4. FramingTypeOK'
    <2>1. inbox' \in Seq(Cell) /\ handled' \in 0..1 /\ server' \in {"top", "header", "payload", "handling", "closed"}
      BY <1>1, <1>2
    <2> QED BY <1>0, <1>1, <2>1 DEF FramingTypeOK
  <1>5. Expected(request)' = Expected(request)
    BY <1>1 DEF Expected
  <1>6. RequestInv'
    BY <1>1, <1>2, <1>3 DEF RequestInv
  <1>7. Responded' = Responded /\ Unread' = Unread /\ (Gone' <=> Gone) /\ ~Responded
    BY <1>1, <1>2 DEF Responded, Unread, Gone
  <1>8. ResponseInv'
    BY <1>0, <1>1, <1>2, <1>3, <1>5, <1>7 DEF ResponseInv
  <1>9. EndInv' /\ AnswerIsMine'
    <2>1. client # "got" /\ cause # "FramingError" /\ client # "failed"
      BY <1>0, <1>1, <1>7 DEF EndInv
    <2> QED BY <1>1, <2>1 DEF EndInv, AnswerIsMine
  <1> QED BY <1>4, <1>6, <1>8, <1>9 DEF SocketInv

\* The handler streams an event.
LEMMA EventStep ==
  ASSUME SocketInv, WriteEvent
  PROVE  SocketInv'
  <1>0. FramingTypeOK /\ RequestInv /\ ResponseInv /\ EndInv /\ AnswerIsMine
    BY DEF SocketInv
  <1>1. /\ UNCHANGED <<request, client, events, answer, up, inbox, mail, server, cause, handled, stopping>>
        /\ server = "handling" /\ emitted < MaxEvents /\ emitted' = emitted + 1
        /\ down' = IF Gone THEN down ELSE down \o Frame("step_event")
    BY DEF WriteEvent, mine
  <1>2. /\ down \in Seq(Cell) /\ mail \in Seq(Cell) /\ Going \in Seq(Cell)
        /\ events \in Nat /\ emitted \in Nat /\ MaxEvents \in Nat
        /\ Frame("step_event") \in Seq(Cell)
    BY <1>0, SocketTypes, FrameCells DEF Frames
  <1>3. handled = 1 /\ ~Responded /\ ~Responded' /\ Coming' = Coming /\ (Gone' <=> Gone)
    BY <1>0, <1>1 DEF RequestInv, Responded, Coming, Gone
  <1>4. down' \in Seq(Cell) /\ emitted' \in 0..MaxEvents /\ events <= emitted'
    BY <1>0, <1>1, <1>2 DEF ResponseInv
  <1>5. FramingTypeOK'
    BY <1>0, <1>1, <1>4 DEF FramingTypeOK
  <1>6. RequestInv'
    BY <1>0, <1>1, <1>3 DEF RequestInv
  <1>7. client # "got" /\ client # "failed" /\ cause # "FramingError"
    BY <1>0, <1>1, <1>3 DEF EndInv
  <1>8. EndInv' /\ AnswerIsMine'
    BY <1>1, <1>7 DEF EndInv, AnswerIsMine
  <1>9. Expected(request)' = Expected(request)
    BY <1>1 DEF Expected
  <1>10. ASSUME ~Gone
         PROVE  Streams(Going', Unread', FALSE, Expected(request))
    <2>1. Going' = Going \o Frame("step_event")
      <3>1. (mail \o down) \o Frame("step_event") = mail \o (down \o Frame("step_event"))
        BY <1>2, ConcatAssociative, SMTT(30)
      <3> QED BY <1>1, <1>10, <3>1 DEF Going
    <2>2. Unread \in Nat /\ Unread' = Unread + 1
      BY <1>0, <1>1, <1>2 DEF ResponseInv, Unread
    <2>3. Responded = FALSE
      BY <1>3 DEF Responded
    <2>4. Streams(Going, Unread, FALSE, Expected(request))
      BY <1>0, <1>10, <2>3 DEF ResponseInv
    <2>5. Streams(Going \o Frame("step_event"), Unread + 1, FALSE, Expected(request))
      BY <1>2, <2>2, <2>4, StreamGrows
    <2> QED BY <2>1, <2>2, <2>5
  <1>11. ResponseInv'
    <2>1. Responded' = FALSE
      BY <1>3 DEF Responded
    <2>2. handled' = 1 /\ events' <= emitted'
      BY <1>1, <1>3, <1>4
    <2>3. ~Gone' => Streams(Going', Unread', Responded', Expected(request)')
      BY <1>3, <1>9, <1>10, <2>1
    <2> QED BY <2>2, <2>3 DEF ResponseInv
  <1> QED BY <1>5, <1>6, <1>8, <1>11 DEF SocketInv

\* The handler is over: a frame closes the call, or the connection is given up.
LEMMA RespondStep ==
  ASSUME SocketInv, Respond
  PROVE  SocketInv'
  <1>0. FramingTypeOK /\ RequestInv /\ ResponseInv /\ EndInv /\ AnswerIsMine
    BY DEF SocketInv
  <1>1. /\ UNCHANGED <<request, client, events, answer, up, inbox, mail, handled, emitted, stopping>>
        /\ server = "handling"
        /\ \/ /\ down' = IF Gone THEN down ELSE down \o Frame(Expected(request))
              /\ server' = "top" /\ cause' = cause
           \/ Gone /\ server' = "closed" /\ cause' = "client gone" /\ down' = down
           \/ BigReplies /\ server' = "closed" /\ cause' = "FramingError" /\ down' = down
    BY DEF Respond, Close, mine
  <1>2. /\ down \in Seq(Cell) /\ mail \in Seq(Cell) /\ Going \in Seq(Cell)
        /\ events \in Nat /\ emitted \in Nat
        /\ Expected(request) \in Frames
        /\ Frame(Expected(request)) \in Seq(Cell)
    BY <1>0, SocketTypes, FrameCells
  <1>3. handled = 1 /\ ~Responded /\ Coming' = Coming /\ (Gone' <=> Gone)
    BY <1>0, <1>1 DEF RequestInv, Responded, Coming, Gone
  <1>4. client # "got" /\ client # "failed" /\ cause # "FramingError"
    BY <1>0, <1>1, <1>3 DEF EndInv
  <1>5. FramingTypeOK'
    <2>1. /\ down' \in Seq(Cell)
          /\ server' \in {"top", "header", "payload", "handling", "closed"}
          /\ cause' \in {"none", "client gone", "stopped", "FramingError"}
      <3>1. down' \in Seq(Cell)
        <4>1. down' = down \/ down' = down \o Frame(Expected(request))
          BY <1>1, Zenon
        <4>2. down \o Frame(Expected(request)) \in Seq(Cell)
          BY <1>2
        <4> QED BY <1>2, <4>1, <4>2
      <3>2. cause \in {"none", "client gone", "stopped", "FramingError"}
        BY <1>0 DEF FramingTypeOK
      <3> QED BY <1>1, <3>1, <3>2
    <2> QED BY <1>0, <1>1, <2>1 DEF FramingTypeOK
  <1>6. RequestInv'
    BY <1>0, <1>1, <1>3 DEF RequestInv
  <1>7. EndInv' /\ AnswerIsMine'
    BY <1>1, <1>4 DEF EndInv, AnswerIsMine
  <1>8. Expected(request)' = Expected(request) /\ Unread' = Unread
    BY <1>1 DEF Expected, Unread
  <1>9. ASSUME ~Gone
        PROVE  Streams(Going', Unread, Responded', Expected(request))
    <2>1. Streams(Going, Unread, FALSE, Expected(request))
      <3>1. Responded = FALSE
        BY <1>3 DEF Responded
      <3> QED BY <1>0, <1>9, <3>1 DEF ResponseInv
    <2>2. CASE server' = "top"
      <3>1. Going' = Going \o Frame(Expected(request))
        <4>1. (mail \o down) \o Frame(Expected(request)) = mail \o (down \o Frame(Expected(request)))
          BY <1>2, ConcatAssociative, SMTT(30)
        <4>2. down' = down \o Frame(Expected(request)) /\ mail' = mail
          BY <1>1, <1>9, <2>2
        <4> QED BY <4>1, <4>2 DEF Going
      <3>2. Unread \in Nat
        BY <1>0, <1>2 DEF ResponseInv, Unread
      <3>3. Responded' = TRUE
        BY <1>1, <1>3, <1>4, <2>2 DEF Responded
      <3>4. Streams(Going \o Frame(Expected(request)), Unread, TRUE, Expected(request))
        BY <1>2, <2>1, <3>2, StreamCloses
      <3> QED BY <3>1, <3>3, <3>4
    <2>3. CASE server' # "top"
      <3>1. cause' = "FramingError" /\ down' = down /\ mail' = mail
        BY <1>1, <1>9, <2>3
      <3>2. Going' = Going /\ Responded' = FALSE
        BY <3>1 DEF Going, Responded
      <3> QED BY <2>1, <3>2
    <2> QED BY <2>2, <2>3
  <1>10. ResponseInv'
    <2>1. handled' = 1 /\ events' <= emitted'
      BY <1>0, <1>1, <1>3 DEF ResponseInv
    <2> QED BY <1>3, <1>8, <1>9, <2>1 DEF ResponseInv
  <1> QED BY <1>5, <1>6, <1>7, <1>10 DEF SocketInv

\* Every step keeps the invariant.
LEMMA StepSocketInv ==
  SocketInv /\ [FramingNext]_framingVars => SocketInv'
  <1> SUFFICES ASSUME SocketInv, [FramingNext]_framingVars PROVE SocketInv'
    OBVIOUS
  <1>1. CASE UNCHANGED framingVars
    <2>1. FramingTypeOK' /\ Coming' = Coming /\ Going' = Going
          /\ UNCHANGED <<request, client, events, answer, server, cause, handled, emitted>>
      BY <1>1 DEF SocketInv, framingVars, mine, net, FramingTypeOK, Coming, Going
    <2> QED BY <2>1, SameInv
  <1> QED BY <1>1, NetworkSteps, SendStep, ReadStep, GivenUp, LoopSteps, HeaderStep, PayloadStep, EventStep,
             RespondStep
          DEF FramingNext, Server, Over

\* All of it at once.
THEOREM SocketCorrect == FramingSpec => []SocketInv
  <1> QED BY InitSocketInv, StepSocketInv, PTL DEF FramingSpec

\* The types, and that a request is handled at most once, for any number of events.
THEOREM FramingTypes == FramingSpec => []FramingTypeOK
  <1>1. SocketInv => FramingTypeOK
    BY DEF SocketInv
  <1> QED BY SocketCorrect, <1>1, PTL

\* For any number of events, whatever is delayed, stopped, timed out or too big: a
\* call that returns has the response to its own request, behind all its events
\* (VsockClient.send, send_stream).
THEOREM AnswerTheorem == FramingSpec => []AnswerIsMine
  <1>1. SocketInv => AnswerIsMine
    BY DEF SocketInv
  <1> QED BY SocketCorrect, <1>1, PTL

-----------------------------------------------------------------------------
(***************************************************************************)
(* The clients: lists of lists.  FlattenSeq joins them from the left; f    *)
(* are the beginnings it joins.                                            *)
(***************************************************************************)

\* f are the beginnings of ss, each one joined.
Flattening(f, ss, S) ==
    /\ f \in [0..Len(ss) -> Seq(S)]
    /\ f[0] = <<>>
    /\ \A n \in 1..Len(ss) : f[n] = f[n - 1] \o ss[n]

\* Of some numbers one is the least.
LEMMA LeastOne ==
    ASSUME NEW D \in SUBSET Nat, D # {} PROVE \E m \in D : \A k \in D : m <= k
  <1> DEFINE R == OpToRel(<, Nat)
  <1>1. \E m \in D : \A k \in D : ~ (<<k, m>> \in R)
    <2>1. IsWellFoundedOn(R, Nat)
      BY NatLessThanWellFounded
    <2> HIDE DEF R
    <2> QED BY <2>1, WFMin
  <1>2. PICK m \in D : \A k \in D : ~ (k < m)
    BY <1>1 DEF OpToRel
  <1>3. \A k \in D : m <= k
    BY <1>2
  <1> QED BY <1>3

\* Every list of lists has such beginnings.
LEMMA FlatteningExists ==
    ASSUME NEW S, NEW ss \in Seq(Seq(S)) PROVE \E f : Flattening(f, ss, S)
  <1> DEFINE L == Len(ss)
             Upto(f, m) ==
               /\ f \in [0..m -> Seq(S)]
               /\ f[0] = <<>>
               /\ \A n \in 1..m : f[n] = f[n - 1] \o ss[n]
             Bad == {m \in 0..L : ~ \E f : Upto(f, m)}
  <1>1. L \in Nat
    OBVIOUS
  <1>2. Bad = {}
    <2> SUFFICES ASSUME Bad # {} PROVE FALSE
      OBVIOUS
    <2>1. PICK m \in Bad : \A k \in Bad : m <= k
      <3> HIDE DEF Upto
      <3>1. Bad \in SUBSET Nat
        BY <1>1
      <3> HIDE DEF Bad
      <3> QED BY <3>1, LeastOne
    <2>2. CASE m = 0
      <3>1. Upto([n \in 0..0 |-> <<>>], 0)
        OBVIOUS
      <3> QED BY <2>1, <2>2, <3>1
    <2>3. CASE m # 0
      <3>1. m - 1 \in 0..L /\ m - 1 \notin Bad /\ m \in 1..L
        <4>1. m \in 0..L
          OBVIOUS
        <4> HIDE DEF Bad, L
        <4>2. m - 1 \in 0..L /\ ~ (m <= m - 1) /\ m \in 1..L
          BY <1>1, <2>3, <4>1
        <4> QED BY <2>1, <4>2
      <3>2. PICK f : Upto(f, m - 1)
        BY <3>1
      <3> DEFINE last == f[m - 1] \o ss[m]
                 g == [n \in 0..m |-> IF n = m THEN last ELSE f[n]]
      <3>3. last \in Seq(S)
        <4>1. f[m - 1] \in Seq(S) /\ ss[m] \in Seq(S)
          BY <3>1, <3>2
        <4> QED BY <4>1, ConcatProperties
      <3> HIDE DEF last
      <3>4. g[m] = last /\ \A n \in 0..(m - 1) : g[n] = f[n]
        <4>1. m \in 0..m /\ \A n \in 0..(m - 1) : n \in 0..m /\ n # m
          BY <1>1, <3>1
        <4> QED BY <4>1
      <3>5. g \in [0..m -> Seq(S)]
        BY <3>1, <3>2, <3>3
      <3>6. g[0] = <<>>
        BY <3>1, <3>2, <3>4
      <3> HIDE DEF g
      <3>7. ASSUME NEW n \in 1..m
            PROVE  g[n] = g[n - 1] \o ss[n]
        <4>1. CASE n = m
          <5>1. m - 1 \in 0..(m - 1) /\ g[m - 1] = f[m - 1]
            BY <3>1, <3>4
          <5> QED BY <3>4, <4>1, <5>1 DEF last
        <4>2. CASE n # m
          <5>1. n \in 1..(m - 1) /\ n \in 0..(m - 1) /\ n - 1 \in 0..(m - 1)
            BY <3>1, <4>2
          <5>2. g[n] = f[n] /\ g[n - 1] = f[n - 1]
            BY <3>4, <5>1
          <5> QED BY <3>2, <5>1, <5>2
        <4> QED BY <4>1, <4>2
      <3>8. Upto(g, m)
        BY <3>5, <3>6, <3>7
      <3>9. m \in Bad
        BY <2>1
      <3> QED BY <3>8, <3>9
    <2> QED BY <2>2, <2>3
  <1>3. \E f : Upto(f, L)
    <2>1. L \in 0..L
      BY <1>1
    <2> HIDE DEF Upto, L
    <2> QED BY <1>2, <2>1
  <1> QED BY <1>3 DEF Flattening

\* There is one, of which FlattenSeq takes the last.
LEMMA FlattenIsLast ==
    ASSUME NEW S, NEW ss \in Seq(Seq(S)), NEW f, Flattening(f, ss, S)
    PROVE  FlattenSeq(ss) = f[Len(ss)] /\ FlattenSeq(ss) \in Seq(S)
  <1> DEFINE L == Len(ss)
             Part[i \in 1..Len(ss)] == IF i = 1 THEN ss[i] ELSE Part[i - 1] \o ss[i]
             e == [i \in 1..L |-> f[i]]
  <1>1. L \in Nat /\ DOMAIN ss = 1..L /\ \A n \in 1..L : ss[n] \in Seq(S)
    OBVIOUS
  <1>2. \A n \in 0..L : f[n] \in Seq(S)
    BY DEF Flattening
  <1>3. CASE L = 0
    <2>1. FlattenSeq(ss) = ss /\ ss = <<>>
      BY <1>3 DEF FlattenSeq
    <2> QED BY <1>3, <2>1 DEF Flattening
  <1>4. CASE L # 0
    <2>1. \A n \in 1..L : f[n] = IF n = 1 THEN ss[n] ELSE f[n - 1] \o ss[n]
      <3>1. ASSUME NEW n \in 1..L, n = 1 PROVE f[n] = ss[n]
        <4>1. f[1] = f[0] \o ss[1] /\ f[0] = <<>>
          <5>1. 1 \in 1..Len(ss) /\ 1 - 1 = 0
            BY <1>1, <3>1
          <5>2. f[1] = f[1 - 1] \o ss[1]
            BY <5>1, Zenon DEF Flattening
          <5> QED BY <5>1, <5>2 DEF Flattening
        <4>2. ss[1] \in Seq(S)
          BY <1>1, <3>1
        <4> QED BY <3>1, <4>1, <4>2, ConcatEmptySeq
      <3> QED BY <3>1 DEF Flattening
    <2>2. \A n \in 1..L : e[n] = f[n]
      OBVIOUS
    <2>3. \A n \in 1..L : n # 1 => n - 1 \in 1..L
      BY <1>1
    <2>4. e = [n \in 1..Len(ss) |-> IF n = 1 THEN ss[n] ELSE e[n - 1] \o ss[n]]
      <3> SUFFICES \A n \in 1..L : e[n] = IF n = 1 THEN ss[n] ELSE e[n - 1] \o ss[n]
        OBVIOUS
      <3> HIDE DEF e
      <3> QED BY <2>1, <2>2, <2>3
    <2> HIDE DEF e
    <2>5. Part = [n \in 1..Len(ss) |-> IF n = 1 THEN ss[n] ELSE Part[n - 1] \o ss[n]]
      BY <2>4
    <2>6. FlattenSeq(ss) = Part[L]
      BY <1>4 DEF FlattenSeq
    <2> HIDE DEF Part
    <2>7. \A n \in 1..L : Part[n] = IF n = 1 THEN ss[n] ELSE Part[n - 1] \o ss[n]
      BY <2>5
    <2>8. \A n \in 1..L : Part[n] = f[n]
      <3> DEFINE D == {n \in 1..L : Part[n] # f[n]}
      <3> SUFFICES ASSUME D # {} PROVE FALSE
        OBVIOUS
      <3>1. PICK m \in D : \A k \in D : m <= k
        <4>1. D \in SUBSET Nat
          OBVIOUS
        <4> HIDE DEF D
        <4> QED BY <4>1, LeastOne
      <3>2. m \in 1..L /\ m # 1
        BY <2>1, <2>7, <3>1
      <3>3. m - 1 \in 1..L /\ ~ (m <= m - 1)
        BY <1>1, <3>2
      <3>4. m - 1 \notin D
        BY <3>1, <3>3
      <3>5. Part[m - 1] = f[m - 1]
        BY <3>3, <3>4
      <3>6. Part[m] = f[m]
        BY <2>1, <2>7, <3>2, <3>5
      <3> QED BY <3>1, <3>6
    <2> QED BY <1>1, <1>2, <1>4, <2>6, <2>8
  <1> QED BY <1>3, <1>4

\* What FlattenSeq returns, and what it makes of nothing.
LEMMA FlattenType ==
    ASSUME NEW S, NEW ss \in Seq(Seq(S)) PROVE FlattenSeq(ss) \in Seq(S)
  BY FlatteningExists, FlattenIsLast

LEMMA FlattenNothing == FlattenSeq(<<>>) = <<>>
  BY DEF FlattenSeq

\* What is joined from two lists is joined from the first, then from the second.
LEMMA FlattenConcat ==
    ASSUME NEW S, NEW a \in Seq(Seq(S)), NEW b \in Seq(Seq(S))
    PROVE  FlattenSeq(a \o b) = FlattenSeq(a) \o FlattenSeq(b)
  <1>1. PICK f : Flattening(f, a, S)
    BY FlatteningExists
  <1>2. PICK g : Flattening(g, b, S)
    BY FlatteningExists
  <1> DEFINE A == Len(a)
             B == Len(b)
             c == a \o b
             h == [n \in 0..(A + B) |-> IF n <= A THEN f[n] ELSE f[A] \o g[n - A]]
  <1>3. A \in Nat /\ B \in Nat /\ c \in Seq(Seq(S)) /\ Len(c) = A + B
    BY ConcatProperties
  <1>4. /\ \A n \in 1..A : c[n] = a[n] /\ a[n] \in Seq(S)
        /\ \A n \in 1..(A + B) : n > A => n - A \in 1..B /\ c[n] = b[n - A] /\ b[n - A] \in Seq(S)
    BY <1>3
  <1> HIDE DEF c, A, B
  <1>5. /\ \A n \in 0..A : f[n] \in Seq(S)
        /\ \A n \in 0..B : g[n] \in Seq(S)
        /\ f[0] = <<>> /\ g[0] = <<>>
        /\ \A n \in 1..A : f[n] = f[n - 1] \o a[n]
        /\ \A n \in 1..B : g[n] = g[n - 1] \o b[n]
    BY <1>1, <1>2 DEF Flattening, A, B
  <1>6. \A n \in 0..(A + B) : h[n] = IF n <= A THEN f[n] ELSE f[A] \o g[n - A]
    OBVIOUS
  <1>7. \A n \in 0..(A + B) : h[n] \in Seq(S)
    <2> SUFFICES ASSUME NEW n \in 0..(A + B) PROVE h[n] \in Seq(S)
      OBVIOUS
    <2>1. CASE n <= A
      <3>1. n \in 0..A /\ h[n] = f[n]
        BY <1>3, <1>6, <2>1
      <3> QED BY <1>5, <3>1
    <2>2. CASE ~ (n <= A)
      <3>1. n - A \in 0..B /\ A \in 0..A
        BY <1>3, <2>2
      <3>2. f[A] \in Seq(S) /\ g[n - A] \in Seq(S)
        BY <1>5, <3>1
      <3>3. f[A] \o g[n - A] \in Seq(S)
        BY <3>2, ConcatProperties
      <3> QED BY <1>6, <2>2, <3>3
    <2> QED BY <2>1, <2>2
  <1>8. h \in [0..(A + B) -> Seq(S)]
    BY <1>7
  <1> HIDE DEF h
  <1>9. h[0] = <<>>
    BY <1>3, <1>5, <1>6
  <1>10. ASSUME NEW n \in 1..(A + B) PROVE h[n] = h[n - 1] \o c[n]
    <2>0. n \in 0..(A + B) /\ n - 1 \in 0..(A + B)
      BY <1>3
    <2>1. CASE n <= A
      <3>1. n \in 1..A /\ n - 1 <= A
        BY <1>3, <2>1
      <3>2. h[n] = f[n] /\ h[n - 1] = f[n - 1]
        BY <1>6, <2>0, <2>1, <3>1
      <3> QED BY <1>4, <1>5, <3>1, <3>2
    <2>2. CASE n > A
      <3>1. n - A \in 1..B /\ c[n] = b[n - A] /\ b[n - A] \in Seq(S)
        BY <1>4, <2>2
      <3>2. A \in 0..A /\ (n - A) - 1 \in 0..B /\ ~(n <= A)
        BY <1>3, <2>2, <3>1
      <3>3. f[A] \in Seq(S) /\ g[(n - A) - 1] \in Seq(S)
        BY <1>5, <3>2
      <3>4. h[n] = f[A] \o (g[(n - A) - 1] \o b[n - A])
        BY <1>5, <1>6, <2>0, <3>1, <3>2
      <3>5. h[n - 1] = f[A] \o g[(n - A) - 1]
        <4>1. CASE n - 1 = A
          <5>1. n - 1 <= A /\ (n - A) - 1 = 0
            BY <1>3, <4>1
          <5>2. h[n - 1] = f[A] /\ g[(n - A) - 1] = <<>>
            BY <1>5, <1>6, <2>0, <4>1, <5>1
          <5> QED BY <3>3, <5>2, ConcatEmptySeq
        <4>2. CASE n - 1 # A
          <5>1. ~ (n - 1 <= A) /\ (n - 1) - A = (n - A) - 1
            BY <1>3, <2>2, <4>2
          <5> QED BY <1>6, <2>0, <5>1
        <4> QED BY <4>1, <4>2
      <3>6. f[A] \o (g[(n - A) - 1] \o b[n - A]) = (f[A] \o g[(n - A) - 1]) \o b[n - A]
        <4> DEFINE r == f[A]
                   s == g[(n - A) - 1]
                   t == b[n - A]
        <4>1. r \in Seq(S) /\ s \in Seq(S) /\ t \in Seq(S)
          BY <3>1, <3>3
        <4> HIDE DEF r, s, t
        <4>2. (r \o s) \o t = r \o (s \o t)
          <5>1. \A x, y, z \in Seq(S) : (x \o y) \o z = x \o (y \o z)
            BY ConcatAssociative, SMTT(30)
          <5> QED BY <4>1, <5>1
        <4> QED BY <4>2 DEF r, s, t
      <3> QED BY <3>1, <3>4, <3>5, <3>6
    <2> QED BY <1>3, <2>1, <2>2
  <1>11. Flattening(h, c, S)
    BY <1>3, <1>8, <1>9, <1>10 DEF Flattening
  <1>12. FlattenSeq(c) = h[A + B]
    BY <1>3, <1>11, FlattenIsLast
  <1>13. FlattenSeq(a) = f[A] /\ FlattenSeq(b) = g[B]
    BY <1>1, <1>2, FlattenIsLast DEF A, B
  <1>14. h[A + B] = f[A] \o g[B]
    <2>1. CASE B = 0
      <3>1. f[A] \in Seq(S) /\ A + B = A /\ A + B \in 0..(A + B)
        BY <1>3, <1>5, <2>1
      <3>2. h[A + B] = f[A] /\ g[B] = <<>>
        BY <1>3, <1>5, <1>6, <2>1, <3>1
      <3> QED BY <3>1, <3>2, ConcatEmptySeq
    <2>2. CASE B # 0
      <3>1. ~ (A + B <= A) /\ (A + B) - A = B /\ A + B \in 0..(A + B)
        BY <1>3, <2>2
      <3> QED BY <1>6, <3>1
    <2> QED BY <2>1, <2>2
  <1> QED BY <1>12, <1>13, <1>14 DEF c

\* A list of lists of one is joined to what they hold.
LEMMA FlattenSingles ==
    ASSUME NEW S, NEW x \in Seq(S)
    PROVE  FlattenSeq([k \in DOMAIN x |-> <<x[k]>>]) = x
  <1> DEFINE ss == [k \in DOMAIN x |-> <<x[k]>>]
             f == [n \in 0..Len(x) |-> SubSeq(x, 1, n)]
  <1>1. Len(x) \in Nat /\ DOMAIN x = 1..Len(x) /\ \A k \in 1..Len(x) : x[k] \in S
    OBVIOUS
  <1>2. ss \in Seq(Seq(S)) /\ Len(ss) = Len(x) /\ \A k \in 1..Len(x) : ss[k] = <<x[k]>>
    BY <1>1
  <1> HIDE DEF ss
  <1>3. \A n \in 0..Len(x) : f[n] = SubSeq(x, 1, n) /\ f[n] \in Seq(S)
    BY <1>1
  <1>4. f \in [0..Len(x) -> Seq(S)]
    BY <1>3
  <1> HIDE DEF f
  <1>5. f[0] = <<>>
    BY <1>1, <1>3
  <1>6. ASSUME NEW n \in 1..Len(x) PROVE f[n] = f[n - 1] \o ss[n]
    <2>1. n \in 0..Len(x) /\ n - 1 \in 0..Len(x)
      BY <1>1
    <2>2. SubSeq(x, 1, n) = SubSeq(x, 1, n - 1) \o <<x[n]>>
      <3> DEFINE p == SubSeq(x, 1, n)
                 q == SubSeq(x, 1, n - 1)
      <3>1. p \in Seq(S) /\ q \in Seq(S) /\ Len(p) = n /\ Len(q) = n - 1 /\ <<x[n]>> \in Seq(S)
        BY <1>1, <2>1
      <3>2. \A k \in 1..n : p[k] = x[k]
        BY <1>1, <2>1
      <3>3. \A k \in 1..(n - 1) : q[k] = x[k]
        BY <1>1, <2>1
      <3> HIDE DEF p, q
      <3>4. Len(q \o <<x[n]>>) = n /\ q \o <<x[n]>> \in Seq(S)
        BY <3>1
      <3>5. \A k \in 1..n : (q \o <<x[n]>>)[k] = x[k]
        BY <3>1, <3>3
      <3>6. p = q \o <<x[n]>>
        BY <3>1, <3>2, <3>4, <3>5, SeqEqual
      <3> QED BY <3>6 DEF p, q
    <2> QED BY <1>2, <1>3, <2>1, <2>2
  <1>7. Flattening(f, ss, S)
    BY <1>2, <1>4, <1>5, <1>6 DEF Flattening
  <1>8. FlattenSeq(ss) = f[Len(x)]
    BY <1>2, <1>7, FlattenIsLast
  <1>9. f[Len(x)] = x
    <2>1. SubSeq(x, 1, Len(x)) = x
      BY SubSeqFull
    <2>2. Len(x) \in 0..Len(x)
      BY <1>1
    <2> QED BY <1>3, <2>1, <2>2
  <1> QED BY <1>8, <1>9 DEF ss

\* A list of empty lists, and one of a single list.
LEMMA FlattenNothings ==
    ASSUME NEW S, NEW ss \in Seq(Seq(S)), \A k \in DOMAIN ss : ss[k] = <<>>
    PROVE  FlattenSeq(ss) = <<>>
  <1> DEFINE f == [n \in 0..Len(ss) |-> <<>>]
  <1>1. <<>> \in Seq(S) /\ <<>> \o <<>> = <<>>
    OBVIOUS
  <1>2. Len(ss) \in Nat /\ DOMAIN ss = 1..Len(ss)
    OBVIOUS
  <1>3. \A n \in 0..Len(ss) : f[n] = <<>>
    OBVIOUS
  <1>4. f \in [0..Len(ss) -> Seq(S)]
    BY <1>1
  <1> HIDE DEF f
  <1>5. \A n \in 1..Len(ss) : n \in 0..Len(ss) /\ n - 1 \in 0..Len(ss) /\ ss[n] = <<>>
    <2> DEFINE L == Len(ss)
    <2>1. \A n \in 1..L : ss[n] = <<>>
      BY <1>2
    <2>2. L \in Nat
      BY <1>2
    <2> HIDE DEF L
    <2>3. \A n \in 1..L : n \in 0..L /\ n - 1 \in 0..L
      BY <2>2
    <2> QED BY <2>1, <2>3 DEF L
  <1>6. 0 \in 0..Len(ss) /\ Len(ss) \in 0..Len(ss)
    BY <1>2
  <1>7. Flattening(f, ss, S)
    BY <1>1, <1>3, <1>4, <1>5, <1>6 DEF Flattening
  <1>8. FlattenSeq(ss) = f[Len(ss)]
    BY <1>7, FlattenIsLast
  <1> QED BY <1>3, <1>6, <1>8

LEMMA FlattenOne ==
    ASSUME NEW S, NEW e \in Seq(S) PROVE FlattenSeq(<<e>>) = e
  <1> DEFINE f == [n \in 0..1 |-> IF n = 0 THEN <<>> ELSE e]
  <1>1. <<e>> \in Seq(Seq(S)) /\ Len(<<e>>) = 1 /\ <<e>>[1] = e /\ <<>> \in Seq(S)
    OBVIOUS
  <1>2. <<>> \o e = e
    BY ConcatEmptySeq
  <1>3. f[0] = <<>> /\ f[1] = e /\ f \in [0..1 -> Seq(S)]
    OBVIOUS
  <1> HIDE DEF f
  <1>4. Flattening(f, <<e>>, S)
    <2>1. \A n \in 1..1 : n = 1 /\ n - 1 = 0
      OBVIOUS
    <2>2. \A n \in 1..1 : f[n] = f[n - 1] \o <<e>>[n]
      BY <1>1, <1>2, <1>3, <2>1
    <2> QED BY <1>1, <1>3, <2>2 DEF Flattening
  <1> QED BY <1>1, <1>3, <1>4, FlattenIsLast

-----------------------------------------------------------------------------
(***************************************************************************)
(* The clients: what is made of the members of a list, joined.  All        *)
(* conversions of the clients and all readings of a request are of this    *)
(* form, so that what is made of a list is made of its parts.              *)
(***************************************************************************)

\* What the function F makes of the members of a list, joined.
Joined(F, s) == FlattenSeq([k \in DOMAIN s |-> F[s[k]]])

\* The types of what is made.
LEMMA MapType ==
    ASSUME NEW X, NEW S, NEW F \in [X -> Seq(S)], NEW s \in Seq(X)
    PROVE  [k \in DOMAIN s |-> F[s[k]]] \in Seq(Seq(S))
  <1> DEFINE L == Len(s)
             Y == Seq(S)
  <1>1. L \in Nat /\ DOMAIN s = 1..L /\ \A k \in 1..L : s[k] \in X
    OBVIOUS
  <1>2. \A k \in 1..L : F[s[k]] \in Y
    BY <1>1
  <1> HIDE DEF L, Y
  <1>3. [k \in 1..L |-> F[s[k]]] \in Seq(Y)
    BY <1>1, <1>2
  <1> QED BY <1>1, <1>3 DEF Y

LEMMA JoinedType ==
    ASSUME NEW X, NEW S, NEW F \in [X -> Seq(S)], NEW s \in Seq(X)
    PROVE  Joined(F, s) \in Seq(S)
  <1> DEFINE ss == [k \in DOMAIN s |-> F[s[k]]]
  <1>1. ss \in Seq(Seq(S))
    BY MapType
  <1> HIDE DEF ss
  <1>2. FlattenSeq(ss) \in Seq(S)
    BY <1>1, FlattenType
  <1> QED BY <1>2 DEF Joined, ss

\* The first equations: of nothing, of two lists, of one member.
LEMMA JoinedNothing == \A F : Joined(F, <<>>) = <<>>
  <1> TAKE F
  <1>1. [k \in DOMAIN <<>> |-> F[<<>>[k]]] = <<>>
    OBVIOUS
  <1> QED BY <1>1, FlattenNothing DEF Joined

LEMMA JoinedConcat ==
    ASSUME NEW X, NEW S, NEW F \in [X -> Seq(S)], NEW a \in Seq(X), NEW b \in Seq(X)
    PROVE  Joined(F, a \o b) = Joined(F, a) \o Joined(F, b)
  <1> DEFINE A == Len(a)
             B == Len(b)
             c == a \o b
             fa == [k \in DOMAIN a |-> F[a[k]]]
             fb == [k \in DOMAIN b |-> F[b[k]]]
             fc == [k \in DOMAIN c |-> F[c[k]]]
  <1>1. /\ A \in Nat /\ DOMAIN a = 1..A /\ B \in Nat /\ DOMAIN b = 1..B
        /\ c \in Seq(X) /\ Len(c) = A + B /\ DOMAIN c = 1..(A + B)
        /\ \A k \in 1..(A + B) : c[k] = IF k <= A THEN a[k] ELSE b[k - A]
    BY ConcatProperties
  <1>2. fa \in Seq(Seq(S)) /\ fb \in Seq(Seq(S)) /\ fc \in Seq(Seq(S))
    <2> HIDE DEF c
    <2> QED BY <1>1, MapType
  <1>3. /\ Len(fa) = A /\ \A k \in 1..A : fa[k] = F[a[k]]
        /\ Len(fb) = B /\ \A k \in 1..B : fb[k] = F[b[k]]
    BY <1>1
  <1>4. Len(fc) = A + B /\ \A k \in 1..(A + B) : fc[k] = F[c[k]]
    <2> HIDE DEF c
    <2> QED BY <1>1
  <1> HIDE DEF fa, fb, fc, c, A, B
  <1>5. /\ fa \o fb \in Seq(Seq(S)) /\ Len(fa \o fb) = A + B
        /\ \A k \in 1..(A + B) : (fa \o fb)[k] = IF k <= A THEN fa[k] ELSE fb[k - A]
    <2> DEFINE Y == Seq(S)
    <2>1. fa \in Seq(Y) /\ fb \in Seq(Y)
      BY <1>2
    <2> HIDE DEF Y
    <2>2. /\ fa \o fb \in Seq(Y) /\ Len(fa \o fb) = Len(fa) + Len(fb)
          /\ \A k \in 1..(Len(fa) + Len(fb)) :
               (fa \o fb)[k] = IF k <= Len(fa) THEN fa[k] ELSE fb[k - Len(fa)]
      BY <2>1, ConcatProperties
    <2> QED BY <1>3, <2>2 DEF Y
  <1>6. \A k \in 1..(A + B) : fc[k] = (fa \o fb)[k]
    <2> SUFFICES ASSUME NEW k \in 1..(A + B) PROVE fc[k] = (fa \o fb)[k]
      OBVIOUS
    <2>1. CASE k <= A
      <3>1. k \in 1..A
        BY <1>1, <2>1
      <3> QED BY <1>1, <1>3, <1>4, <1>5, <2>1, <3>1
    <2>2. CASE ~ (k <= A)
      <3>1. k - A \in 1..B
        BY <1>1, <2>2
      <3> QED BY <1>1, <1>3, <1>4, <1>5, <2>2, <3>1
    <2> QED BY <2>1, <2>2
  <1>7. fc = fa \o fb
    <2> DEFINE Y == Seq(S)
               d == fa \o fb
    <2>1. fc \in Seq(Y) /\ d \in Seq(Y) /\ Len(fc) = Len(d) /\ \A k \in 1..Len(fc) : fc[k] = d[k]
      BY <1>2, <1>4, <1>5, <1>6
    <2> HIDE DEF Y, d
    <2>2. fc = d
      BY <2>1, SeqEqual
    <2> QED BY <2>2 DEF d
  <1>8. FlattenSeq(fa \o fb) = FlattenSeq(fa) \o FlattenSeq(fb)
    BY <1>2, FlattenConcat
  <1> QED BY <1>7, <1>8 DEF Joined, fa, fb, fc, c

\* Members of which nothing is made.
LEMMA JoinedNothings ==
    ASSUME NEW X, NEW S, NEW F \in [X -> Seq(S)], NEW s \in Seq(X),
           \A k \in DOMAIN s : F[s[k]] = <<>>
    PROVE  Joined(F, s) = <<>>
  <1> DEFINE ss == [k \in DOMAIN s |-> F[s[k]]]
  <1>1. ss \in Seq(Seq(S)) /\ \A k \in DOMAIN ss : ss[k] = <<>>
    BY MapType
  <1> HIDE DEF ss
  <1>2. FlattenSeq(ss) = <<>>
    BY <1>1, FlattenNothings
  <1> QED BY <1>2 DEF Joined, ss

\* Members of each of which one thing is made.
LEMMA JoinedSingles ==
    ASSUME NEW X, NEW S, NEW F \in [X -> Seq(S)], NEW s \in Seq(X), NEW y \in Seq(S),
           DOMAIN y = DOMAIN s, \A k \in DOMAIN s : F[s[k]] = <<y[k]>>
    PROVE  Joined(F, s) = y
  <1>1. [k \in DOMAIN s |-> F[s[k]]] = [k \in DOMAIN y |-> <<y[k]>>]
    OBVIOUS
  <1> QED BY <1>1, FlattenSingles DEF Joined

\* A single member.
LEMMA JoinedOne ==
    ASSUME NEW X, NEW S, NEW F \in [X -> Seq(S)], NEW x \in X
    PROVE  Joined(F, <<x>>) = F[x]
  <1>1. [k \in DOMAIN <<x>> |-> F[<<x>>[k]]] = <<F[x]>>
    OBVIOUS
  <1>2. F[x] \in Seq(S)
    OBVIOUS
  <1>3. FlattenSeq(<<F[x]>>) = F[x]
    BY <1>2, FlattenOne
  <1> QED BY <1>1, <1>3 DEF Joined

\* Joining first, or making first.
LEMMA JoinedFlatten ==
    ASSUME NEW X, NEW S, NEW F \in [X -> Seq(S)]
    PROVE  \A g \in Seq(Seq(X)) :
             Joined(F, FlattenSeq(g)) = FlattenSeq([i \in DOMAIN g |-> Joined(F, g[i])])
  <1>0. \A a, b \in Seq(X) : Joined(F, a \o b) = Joined(F, a) \o Joined(F, b)
    BY JoinedConcat
  <1> TAKE g \in Seq(Seq(X))
  <1>1. PICK f : Flattening(f, g, X)
    BY FlatteningExists
  <1> DEFINE L == Len(g)
             ss == [i \in DOMAIN g |-> Joined(F, g[i])]
             h == [n \in 0..L |-> Joined(F, f[n])]
  <1>2. L \in Nat /\ DOMAIN g = 1..L /\ \A n \in 1..L : g[n] \in Seq(X)
    OBVIOUS
  <1>3. /\ \A n \in 0..L : f[n] \in Seq(X)
        /\ f[0] = <<>>
        /\ \A n \in 1..L : f[n] = f[n - 1] \o g[n]
    BY <1>1 DEF Flattening
  <1>4. FlattenSeq(g) = f[L]
    BY <1>1, FlattenIsLast
  <1>5. ss \in Seq(Seq(S)) /\ Len(ss) = L /\ \A n \in 1..L : ss[n] = Joined(F, g[n])
    <2>1. \A n \in 1..L : Joined(F, g[n]) \in Seq(S)
      BY <1>2, JoinedType
    <2> QED BY <1>2, <2>1
  <1>6. \A n \in 0..L : h[n] = Joined(F, f[n]) /\ h[n] \in Seq(S)
    BY <1>3, JoinedType
  <1>7. h \in [0..L -> Seq(S)]
    BY <1>6
  <1> HIDE DEF L, ss, h
  <1>8. h[0] = <<>>
    BY <1>2, <1>3, <1>6, JoinedNothing
  <1>9. ASSUME NEW n \in 1..L PROVE h[n] = h[n - 1] \o ss[n]
    <2>1. n \in 0..L /\ n - 1 \in 0..L
      BY <1>2
    <2>2. f[n - 1] \in Seq(X) /\ g[n] \in Seq(X)
      BY <1>2, <1>3, <2>1
    <2>3. Joined(F, f[n - 1] \o g[n]) = Joined(F, f[n - 1]) \o Joined(F, g[n])
      BY <1>0, <2>2
    <2> QED BY <1>3, <1>5, <1>6, <2>1, <2>3
  <1>10. Flattening(h, ss, S)
    BY <1>5, <1>7, <1>8, <1>9 DEF Flattening
  <1>11. FlattenSeq(ss) = h[L]
    BY <1>5, <1>10, FlattenIsLast
  <1>12. h[L] = Joined(F, f[L])
    BY <1>2, <1>6
  <1> QED BY <1>4, <1>11, <1>12 DEF ss

-----------------------------------------------------------------------------
(***************************************************************************)
(* The clients: blocks.  An answer has its thinking, its text and its      *)
(* calls; results are gathered into a message of their own.                *)
(***************************************************************************)

CallBlock   == [type : {"tool_use"}, id : Nat, name : STRING, input : {"own", "empty", "not an object"}]
ResultBlock == [type : {"tool_result"}, id : Nat, content : Nat]
TextBlock   == [type : {"text", "thinking"}, text : Seq(STRING)]
Block       == TextBlock \cup CallBlock \cup ResultBlock

\* What the functions of the model make of a block.
Pick(types) == [b \in Block |-> IF b.type \in types THEN <<b>> ELSE <<>>]
WordsOf     == [b \in Block |-> IF b.type = "text" THEN b.text ELSE <<>>]

\* The kinds of blocks, and lists of one kind.
LEMMA BlockFacts ==
    /\ \A b \in TextBlock : b \in Block /\ b.type \in {"text", "thinking"} /\ b.text \in Seq(STRING)
    /\ \A b \in CallBlock : b \in Block /\ b.type = "tool_use"
    /\ \A b \in ResultBlock : b \in Block /\ b.type = "tool_result"
    /\ \A b \in Block : b \in TextBlock \/ b \in CallBlock \/ b \in ResultBlock
  BY DEF Block, TextBlock, CallBlock, ResultBlock

LEMMA BlockLists ==
    /\ \A s \in Seq(CallBlock) : s \in Seq(Block) /\ DOMAIN s = 1..Len(s) /\ \A k \in DOMAIN s : s[k] \in CallBlock
    /\ \A s \in Seq(ResultBlock) : s \in Seq(Block) /\ DOMAIN s = 1..Len(s) /\ \A k \in DOMAIN s : s[k] \in ResultBlock
  <1>1. CallBlock \subseteq Block /\ ResultBlock \subseteq Block
    BY BlockFacts
  <1> QED BY <1>1

\* Both are functions, and the model applies them to each block.
LEMMA PickType == \A types : Pick(types) \in [Block -> Seq(Block)]
  BY DEF Pick

LEMMA WordsOfType == WordsOf \in [Block -> Seq(STRING)]
  <1>1. \A b \in Block : (IF b.type = "text" THEN b.text ELSE <<>>) \in Seq(STRING)
    <2> SUFFICES ASSUME NEW b \in Block PROVE (IF b.type = "text" THEN b.text ELSE <<>>) \in Seq(STRING)
      OBVIOUS
    <2>1. b.type = "text" => b \in TextBlock
      BY BlockFacts
    <2>2. b.type = "text" => b.text \in Seq(STRING)
      BY <2>1, BlockFacts
    <2>3. <<>> \in Seq(STRING)
      OBVIOUS
    <2> QED BY <2>2, <2>3
  <1> QED BY <1>1 DEF WordsOf

LEMMA OfIsJoined ==
    ASSUME NEW types, NEW s \in Seq(Block) PROVE Of(types, s) = Joined(Pick(types), s)
  <1>1. \A k \in DOMAIN s : s[k] \in Block
    OBVIOUS
  <1>2. [k \in DOMAIN s |-> IF s[k].type \in types THEN <<s[k]>> ELSE <<>>]
          = [k \in DOMAIN s |-> Pick(types)[s[k]]]
    BY <1>1 DEF Pick
  <1> QED BY <1>2 DEF Of, Joined

LEMMA WordsIsJoined ==
    ASSUME NEW m, m.plain = FALSE, m.content \in Seq(Block)
    PROVE  Words(m) = Joined(WordsOf, m.content)
  <1>1. \A k \in DOMAIN m.content : m.content[k] \in Block
    OBVIOUS
  <1>2. [k \in DOMAIN m.content |-> IF m.content[k].type = "text" THEN m.content[k].text ELSE <<>>]
          = [k \in DOMAIN m.content |-> WordsOf[m.content[k]]]
    BY <1>1 DEF WordsOf
  <1> QED BY <1>2 DEF Words, Joined

\* Where all blocks are of the types asked for, and where none is.
LEMMA PickAll ==
    ASSUME NEW types, NEW s \in Seq(Block), \A k \in DOMAIN s : s[k].type \in types
    PROVE  Of(types, s) = s
  <1>1. [k \in DOMAIN s |-> IF s[k].type \in types THEN <<s[k]>> ELSE <<>>] = [k \in DOMAIN s |-> <<s[k]>>]
    OBVIOUS
  <1> QED BY <1>1, FlattenSingles DEF Of

LEMMA PickNone ==
    ASSUME NEW types, NEW s \in Seq(Block), \A k \in DOMAIN s : s[k].type \notin types
    PROVE  Of(types, s) = <<>>
  <1> DEFINE ss == [k \in DOMAIN s |-> IF s[k].type \in types THEN <<s[k]>> ELSE <<>>]
  <1>1. ss = [k \in DOMAIN s |-> <<>>]
    OBVIOUS
  <1>2. DOMAIN s = 1..Len(s) /\ Len(s) \in Nat /\ <<>> \in Seq(Block)
    OBVIOUS
  <1>3. ss \in Seq(Seq(Block)) /\ \A k \in DOMAIN ss : ss[k] = <<>>
    BY <1>1, <1>2
  <1> HIDE DEF ss
  <1>4. FlattenSeq(ss) = <<>>
    BY <1>3, FlattenNothings
  <1> QED BY <1>4 DEF Of, ss

\* What is made of the blocks of an answer.
LEMMA JoinedAnswer ==
    ASSUME NEW S, NEW F \in [Block -> Seq(S)]
    PROVE  \A t, w \in Seq(STRING), u \in Seq(CallBlock) :
             F[Thinking(t)] = <<>> =>
               Joined(F, BlocksOf(t, w, u)) = (IF w = <<>> THEN <<>> ELSE F[Text(w)]) \o Joined(F, u)
  <1>0. \A a, b \in Seq(Block) : Joined(F, a \o b) = Joined(F, a) \o Joined(F, b)
    BY JoinedConcat
  <1>00. \A a \in Seq(Block) : Joined(F, a) \in Seq(S)
    BY JoinedType
  <1> TAKE t, w \in Seq(STRING), u \in Seq(CallBlock)
  <1> HAVE F[Thinking(t)] = <<>>
  <1> DEFINE T == IF t = <<>> THEN <<>> ELSE <<Thinking(t)>>
             W == IF w = <<>> THEN <<>> ELSE <<Text(w)>>
  <1>1. Thinking(t) \in Block /\ Text(w) \in Block
    BY DEF Thinking, Text, Block, TextBlock
  <1>2. T \in Seq(Block) /\ W \in Seq(Block) /\ u \in Seq(Block)
    BY <1>1, BlockLists
  <1>3. T \o W \in Seq(Block)
    BY <1>2, ConcatProperties
  <1>4. Joined(F, T) = <<>>
    <2>1. Joined(F, <<>>) = <<>> /\ Joined(F, <<Thinking(t)>>) = F[Thinking(t)]
      BY <1>1, JoinedNothing, JoinedOne
    <2> QED BY <2>1
  <1>5. Joined(F, W) = IF w = <<>> THEN <<>> ELSE F[Text(w)]
    <2>1. Joined(F, <<>>) = <<>> /\ Joined(F, <<Text(w)>>) = F[Text(w)]
      BY <1>1, JoinedNothing, JoinedOne
    <2> QED BY <2>1
  <1> HIDE DEF T, W
  <1>6. Joined(F, (T \o W) \o u) = Joined(F, T \o W) \o Joined(F, u)
    BY <1>0, <1>2, <1>3
  <1>7. Joined(F, T \o W) = Joined(F, T) \o Joined(F, W)
    BY <1>0, <1>2
  <1>8. <<>> \o Joined(F, W) = Joined(F, W)
    <2>1. Joined(F, W) \in Seq(S)
      BY <1>00, <1>2
    <2> QED BY <2>1, ConcatEmptySeq
  <1>9. BlocksOf(t, w, u) = (T \o W) \o u
    BY DEF BlocksOf, T, W
  <1> QED BY <1>4, <1>5, <1>6, <1>7, <1>8, <1>9

\* An answer is a list of blocks.
LEMMA AnswerType ==
    ASSUME NEW t \in Seq(STRING), NEW w \in Seq(STRING), NEW u \in Seq(CallBlock)
    PROVE  BlocksOf(t, w, u) \in Seq(Block)
  <1> DEFINE T == IF t = <<>> THEN <<>> ELSE <<Thinking(t)>>
             W == IF w = <<>> THEN <<>> ELSE <<Text(w)>>
  <1>1. Thinking(t) \in Block /\ Text(w) \in Block
    BY DEF Thinking, Text, Block, TextBlock
  <1>2. T \in Seq(Block) /\ W \in Seq(Block) /\ u \in Seq(Block)
    BY <1>1, BlockLists
  <1> HIDE DEF T, W
  <1>3. T \o W \in Seq(Block)
    BY <1>2, ConcatProperties
  <1>4. (T \o W) \o u \in Seq(Block)
    BY <1>2, <1>3, ConcatProperties
  <1> QED BY <1>4 DEF BlocksOf, T, W

\* The parts of an answer: all its calls, no results, its text.
LEMMA AnswerParts ==
    ASSUME NEW t \in Seq(STRING), NEW w \in Seq(STRING), NEW u \in Seq(CallBlock), NEW role
    PROVE  LET m == Blocks(role, BlocksOf(t, w, u))
           IN /\ Calls(m) = u
              /\ Results(m) = <<>>
              /\ Words(m) = w
              /\ Spoken(m) = BlocksOf(<<>>, w, u)
  <1> DEFINE s == BlocksOf(t, w, u)
             m == Blocks(role, s)
  <1>1. s \in Seq(Block) /\ m.plain = FALSE /\ m.content = s /\ u \in Seq(Block)
    BY AnswerType, BlockLists DEF Blocks
  <1>2. Thinking(t) \in Block /\ Text(w) \in Block /\ Thinking(t).type = "thinking"
        /\ Text(w).type = "text" /\ Text(w).text = w
    BY DEF Thinking, Text, Block, TextBlock
  <1>3. ASSUME NEW types, "thinking" \notin types
        PROVE  Of(types, s) = (IF w = <<>> \/ "text" \notin types THEN <<>> ELSE <<Text(w)>>)
                              \o (IF "tool_use" \in types THEN u ELSE <<>>)
    <2> DEFINE F == Pick(types)
    <2>1. F \in [Block -> Seq(Block)]
      BY PickType
    <2>2. /\ F[Thinking(t)] = <<>>
          /\ F[Text(w)] = IF "text" \in types THEN <<Text(w)>> ELSE <<>>
      BY <1>2, <1>3 DEF Pick
    <2>3. Of(types, s) = Joined(F, s)
      BY <1>1, OfIsJoined
    <2> HIDE DEF F
    <2>4. Joined(F, s) = (IF w = <<>> THEN <<>> ELSE F[Text(w)]) \o Joined(F, u)
      BY <2>1, <2>2, JoinedAnswer
    <2>5. Joined(F, u) = IF "tool_use" \in types THEN u ELSE <<>>
      <3>1. \A k \in DOMAIN u : u[k].type = "tool_use"
        BY BlockLists, BlockFacts
      <3>2. "tool_use" \in types => Of(types, u) = u
        BY <1>1, <3>1, PickAll
      <3>3. "tool_use" \notin types => Of(types, u) = <<>>
        BY <1>1, <3>1, PickNone
      <3>4. Of(types, u) = Joined(F, u)
        BY <1>1, OfIsJoined DEF F
      <3> QED BY <3>2, <3>3, <3>4
    <2> QED BY <2>2, <2>3, <2>4, <2>5
  <1> HIDE DEF s
  <1>4. <<>> \o u = u /\ <<>> \o <<>> = <<>>
    BY <1>1, ConcatEmptySeq
  <1>5. Calls(m) = u /\ Results(m) = <<>>
    <2> DEFINE uses == {"tool_use"}
               results == {"tool_result"}
    <2>0. /\ "thinking" \notin uses /\ "text" \notin uses /\ "tool_use" \in uses
          /\ "thinking" \notin results /\ "text" \notin results /\ "tool_use" \notin results
      OBVIOUS
    <2> HIDE DEF uses, results
    <2>1. Of(uses, s) = <<>> \o u
      BY <1>3, <2>0
    <2>2. Of(results, s) = <<>> \o <<>>
      BY <1>3, <2>0
    <2> USE DEF uses, results
    <2> QED BY <1>1, <1>4, <2>1, <2>2 DEF Calls, Results
  <1>6. Spoken(m) = BlocksOf(<<>>, w, u)
    <2> DEFINE spoken == {"text", "tool_use", "tool_result"}
    <2>0. "thinking" \notin spoken /\ "text" \in spoken /\ "tool_use" \in spoken
      OBVIOUS
    <2> HIDE DEF spoken
    <2>1. Of(spoken, s) = (IF w = <<>> THEN <<>> ELSE <<Text(w)>>) \o u
      BY <1>3, <2>0
    <2> USE DEF spoken
    <2>2. <<>> \o (IF w = <<>> THEN <<>> ELSE <<Text(w)>>) = IF w = <<>> THEN <<>> ELSE <<Text(w)>>
      BY <1>2
    <2> QED BY <1>1, <2>1, <2>2 DEF Spoken, BlocksOf
  <1>7. Words(m) = w
    <2>1. WordsOf[Thinking(t)] = <<>> /\ WordsOf[Text(w)] = w /\ \A k \in DOMAIN u : WordsOf[u[k]] = <<>>
      BY <1>2, BlockLists, BlockFacts DEF WordsOf
    <2>2. Words(m) = Joined(WordsOf, s)
      BY <1>1, WordsIsJoined
    <2>3. Joined(WordsOf, s) = (IF w = <<>> THEN <<>> ELSE WordsOf[Text(w)]) \o Joined(WordsOf, u)
      BY <2>1, WordsOfType, JoinedAnswer DEF s
    <2>4. Joined(WordsOf, u) = <<>>
      BY <1>1, <2>1, WordsOfType, JoinedNothings
    <2>5. w \o <<>> = w
      BY ConcatEmptySeq
    <2> QED BY <1>4, <2>1, <2>2, <2>3, <2>4, <2>5
  <1> QED BY <1>5, <1>6, <1>7 DEF s

\* The parts of a message with results.
LEMMA ResultsParts ==
    ASSUME NEW r \in Seq(ResultBlock), NEW role
    PROVE  LET m == Blocks(role, r)
           IN /\ Calls(m) = <<>>
              /\ Results(m) = r
              /\ Words(m) = <<>>
              /\ Spoken(m) = r
              /\ Of({"tool_result", "text"}, r) = r
  <1> DEFINE m == Blocks(role, r)
  <1>1. r \in Seq(Block) /\ m.plain = FALSE /\ m.content = r
    BY BlockLists DEF Blocks
  <1>2. ASSUME NEW types PROVE Of(types, r) = IF "tool_result" \in types THEN r ELSE <<>>
    <2>1. \A k \in DOMAIN r : r[k].type = "tool_result"
      BY BlockLists, BlockFacts
    <2>2. "tool_result" \in types => Of(types, r) = r
      BY <1>1, <2>1, PickAll
    <2>3. "tool_result" \notin types => Of(types, r) = <<>>
      BY <1>1, <2>1, PickNone
    <2> QED BY <2>2, <2>3
  <1>3. Words(m) = <<>>
    <2>1. \A k \in DOMAIN r : WordsOf[r[k]] = <<>>
      BY BlockLists, BlockFacts DEF WordsOf
    <2>2. Joined(WordsOf, r) = <<>>
      BY <1>1, <2>1, WordsOfType, JoinedNothings
    <2> QED BY <1>1, <2>2, WordsIsJoined
  <1>4. Calls(m) = <<>> /\ Results(m) = r /\ Spoken(m) = r
    BY <1>1, <1>2 DEF Calls, Results, Spoken
  <1>5. Of({"tool_result", "text"}, r) = r
    BY <1>2
  <1> QED BY <1>3, <1>4, <1>5

-----------------------------------------------------------------------------
(***************************************************************************)
(* The clients: messages, and what a provider is told of one.  A history   *)
(* has words, answers and gathered results, nothing else.                  *)
(***************************************************************************)

Worded   == [role : {"user"}, plain : {TRUE}, content : Seq(STRING) \ {<<>>}]
Replied  == {Blocks("assistant", BlocksOf(t, w, u)) : t, w \in Seq(STRING), u \in Seq(CallBlock)}
Gathered == [role : {"user"}, plain : {FALSE}, content : Seq(ResultBlock)]
Message  == Worded \cup Replied \cup Gathered

\* What connects the calls and results of a history that a provider is told.
Key == Nat \cup STRING \cup {"unknown_tool"}
CallKey(p, b)      == IF p = "gemini" THEN b.name ELSE b.id
ResultKey(p, h, b) == IF p = "gemini" THEN NameOf(h, b.id) ELSE b.id

\* What a request tells.
CallItem   == [is : {"call"}, key : Key, name : STRING, input : {"own", "empty", "not an object"}]
ResultItem == [is : {"result"}, key : Key, content : Nat]
SaidItem   == [is : {"user", "assistant", "tool"}, words : Seq(STRING)]
Item       == SaidItem \cup CallItem \cup ResultItem

\* The same of one message of the history.
CallsTold(p, u)      == [k \in DOMAIN u |-> Called(CallKey(p, u[k]), u[k].name, u[k].input)]
ResultsTold(p, h, r) == [k \in DOMAIN r |-> Returned(ResultKey(p, h, r[k]), r[k].content)]
Piece(p, h, m) == Said(m.role, Words(m)) \o CallsTold(p, Calls(m)) \o ResultsTold(p, h, Results(m))

\* A list is known by its members.
LEMMA ListType ==
    ASSUME NEW L \in Nat, NEW S, NEW s, s = [k \in 1..L |-> s[k]], \A k \in 1..L : s[k] \in S
    PROVE  s \in Seq(S)
  OBVIOUS

\* The types of what a message tells, part by part.
LEMMA CalledType ==
    ASSUME NEW p, NEW b \in CallBlock
    PROVE  Called(CallKey(p, b), b.name, b.input) \in CallItem
  <1>1. b.name \in STRING /\ b.id \in Nat /\ b.input \in {"own", "empty", "not an object"}
    BY DEF CallBlock
  <1>2. CallKey(p, b) \in Key
    BY <1>1 DEF CallKey, Key
  <1> QED BY <1>1, <1>2 DEF Called, CallItem

\* The least of a set, as NameOf takes it.
LEMMA MinFact == ASSUME NEW D \in SUBSET Nat, D # {} PROVE Min(D) \in D /\ \A k \in D : Min(D) <= k
  BY LeastOne DEF Min

\* Calls, results and words are what a request tells.
LEMMA ListItems == CallItem \subseteq Item /\ ResultItem \subseteq Item /\ SaidItem \subseteq Item
  BY DEF Item

LEMMA SaidType ==
    ASSUME NEW role \in {"user", "assistant", "tool"}, NEW w \in Seq(STRING)
    PROVE  Said(role, w) \in Seq(Item)
  <1>1. [is |-> role, words |-> w] \in SaidItem
    BY DEF SaidItem
  <1>2. [is |-> role, words |-> w] \in Item
    BY <1>1, ListItems
  <1> QED BY <1>2 DEF Said

LEMMA CallsToldType ==
    ASSUME NEW p, NEW u \in Seq(CallBlock)
    PROVE  /\ CallsTold(p, u) \in Seq(Item)
           /\ DOMAIN CallsTold(p, u) = DOMAIN u
           /\ \A k \in DOMAIN u : /\ CallsTold(p, u)[k] = Called(CallKey(p, u[k]), u[k].name, u[k].input)
                                  /\ CallsTold(p, u)[k] \in CallItem
  <1> DEFINE L == Len(u)
             s == CallsTold(p, u)
  <1>1. L \in Nat /\ DOMAIN u = 1..L /\ \A k \in 1..L : u[k] \in CallBlock
    BY BlockLists
  <1>2. s = [k \in 1..L |-> Called(CallKey(p, u[k]), u[k].name, u[k].input)]
    BY <1>1 DEF CallsTold
  <1> HIDE DEF s, L
  <1>3. \A k \in 1..L : s[k] = Called(CallKey(p, u[k]), u[k].name, u[k].input) /\ s[k] \in CallItem
    BY <1>1, <1>2, CalledType
  <1>4. s = [k \in 1..L |-> s[k]] /\ \A k \in 1..L : s[k] \in Item
    BY <1>2, <1>3, ListItems
  <1>5. s \in Seq(Item)
    BY <1>1, <1>4, ListType
  <1>6. DOMAIN s = 1..L
    BY <1>2
  <1> QED BY <1>1, <1>3, <1>5, <1>6 DEF s

\* What the functions of the model find in a message.
LEMMA MessageParts ==
    ASSUME NEW m \in Message
    PROVE  /\ m.role \in {"user", "assistant"}
           /\ Words(m) \in Seq(STRING)
           /\ Calls(m) \in Seq(CallBlock)
           /\ Results(m) \in Seq(ResultBlock)
  <1>0. <<>> \in Seq(STRING) /\ <<>> \in Seq(CallBlock) /\ <<>> \in Seq(ResultBlock)
    OBVIOUS
  <1>1. CASE m \in Worded
    <2>1. m.role = "user" /\ m.plain /\ m.content \in Seq(STRING)
      BY <1>1 DEF Worded
    <2> QED BY <1>0, <2>1 DEF Words, Calls, Results
  <1>2. CASE m \in Replied
    <2>1. PICK t, w \in Seq(STRING), u \in Seq(CallBlock) : m = Blocks("assistant", BlocksOf(t, w, u))
      BY <1>2 DEF Replied
    <2>2. m.role = "assistant"
      BY <2>1 DEF Blocks
    <2>3. Words(m) = w /\ Calls(m) = u /\ Results(m) = <<>>
      BY <2>1, AnswerParts
    <2> QED BY <1>0, <2>2, <2>3
  <1>3. CASE m \in Gathered
    <2>1. m = Blocks("user", m.content) /\ m.content \in Seq(ResultBlock) /\ m.role = "user"
      BY <1>3 DEF Gathered, Blocks
    <2>2. Words(m) = <<>> /\ Calls(m) = <<>> /\ Results(m) = m.content
      BY <2>1, ResultsParts
    <2> QED BY <1>0, <2>1, <2>2
  <1> QED BY <1>1, <1>2, <1>3 DEF Message

\* The first of the calls of a message with an id.
LEMMA FirstWithId ==
    ASSUME NEW m \in Message, NEW id, WithId(m, id) # {}
    PROVE  /\ Min(WithId(m, id)) \in DOMAIN Calls(m)
           /\ Calls(m)[Min(WithId(m, id))].id = id
           /\ NameIn(m, id) \in STRING
  <1> DEFINE D == WithId(m, id)
             c == Calls(m)
  <1>1. c \in Seq(CallBlock)
    BY MessageParts
  <1>2. \A k \in D : k \in DOMAIN c /\ c[k].id = id
    BY DEF WithId
  <1>3. NameIn(m, id) = c[Min(D)].name
    BY DEF NameIn
  <1> HIDE DEF D, c
  <1>4. D \in SUBSET Nat
    BY <1>1, <1>2
  <1>5. Min(D) \in D
    BY <1>4, MinFact DEF D
  <1>6. c[Min(D)] \in CallBlock
    BY <1>1, <1>2, <1>5
  <1>7. c[Min(D)].name \in STRING
    BY <1>6 DEF CallBlock
  <1> QED BY <1>2, <1>3, <1>5, <1>7 DEF D, c

\* The name that goes with an id is one, or that of an unknown tool.
LEMMA NameType == \A h \in Seq(Message), id \in Nat : NameOf(h, id) \in Key
  <1> TAKE h \in Seq(Message), id \in Nat
  <1> DEFINE named == {i \in DOMAIN h : WithId(h[i], id) # {} /\ NameIn(h[i], id) # ""}
  <1>1. DOMAIN h = 1..Len(h) /\ Len(h) \in Nat /\ \A i \in DOMAIN h : h[i] \in Message
    OBVIOUS
  <1>2. NameOf(h, id) = IF named = {} THEN "unknown_tool" ELSE NameIn(h[Min(named)], id)
    BY DEF NameOf
  <1>3. named \in SUBSET Nat /\ \A i \in named : h[i] \in Message /\ WithId(h[i], id) # {}
    <2>1. \A i \in named : i \in DOMAIN h /\ WithId(h[i], id) # {}
      OBVIOUS
    <2> HIDE DEF named
    <2> QED BY <1>1, <2>1
  <1> HIDE DEF named
  <1>4. CASE named = {}
    BY <1>2, <1>4 DEF Key
  <1>5. CASE named # {}
    <2>1. Min(named) \in named
      BY <1>3, <1>5, MinFact
    <2>2. NameIn(h[Min(named)], id) \in STRING
      BY <1>3, <2>1, FirstWithId
    <2> QED BY <1>2, <1>5, <2>2 DEF Key
  <1> QED BY <1>4, <1>5

\* Results are told one by one.
LEMMA ResultsToldType ==
    ASSUME NEW p, NEW h \in Seq(Message), NEW r \in Seq(ResultBlock)
    PROVE  /\ ResultsTold(p, h, r) \in Seq(Item)
           /\ DOMAIN ResultsTold(p, h, r) = DOMAIN r
           /\ \A k \in DOMAIN r : /\ ResultsTold(p, h, r)[k] = Returned(ResultKey(p, h, r[k]), r[k].content)
                                  /\ ResultsTold(p, h, r)[k] \in ResultItem
  <1> DEFINE L == Len(r)
             s == ResultsTold(p, h, r)
  <1>1. L \in Nat /\ DOMAIN r = 1..L /\ \A k \in 1..L : r[k] \in ResultBlock
    BY BlockLists
  <1>2. s = [k \in 1..L |-> Returned(ResultKey(p, h, r[k]), r[k].content)]
    BY <1>1 DEF ResultsTold
  <1> HIDE DEF s, L
  <1>3. ASSUME NEW k \in 1..L
        PROVE  s[k] = Returned(ResultKey(p, h, r[k]), r[k].content) /\ s[k] \in ResultItem
    <2>1. r[k].id \in Nat /\ r[k].content \in Nat
      BY <1>1 DEF ResultBlock
    <2>2. ResultKey(p, h, r[k]) \in Key
      <3>1. NameOf(h, r[k].id) \in Key
        BY <2>1, NameType
      <3>2. r[k].id \in Key
        BY <2>1 DEF Key
      <3> QED BY <3>1, <3>2 DEF ResultKey
    <2> QED BY <1>2, <2>1, <2>2 DEF Returned, ResultItem
  <1>4. s = [k \in 1..L |-> s[k]] /\ \A k \in 1..L : s[k] \in Item
    BY <1>2, <1>3, ListItems
  <1>5. s \in Seq(Item)
    BY <1>1, <1>4, ListType
  <1>6. DOMAIN s = 1..L
    BY <1>2
  <1> QED BY <1>1, <1>3, <1>5, <1>6 DEF s

\* Nothing tells nothing.
LEMMA NothingTold == \A p, h : CallsTold(p, <<>>) = <<>> /\ ResultsTold(p, h, <<>>) = <<>>
  BY DEF CallsTold, ResultsTold

\* What a message tells, and what each of the three kinds tells.
LEMMA PieceType ==
    ASSUME NEW p, NEW h \in Seq(Message), NEW m \in Message PROVE Piece(p, h, m) \in Seq(Item)
  <1> DEFINE a == Said(m.role, Words(m))
             b == CallsTold(p, Calls(m))
             c == ResultsTold(p, h, Results(m))
  <1>1. a \in Seq(Item) /\ b \in Seq(Item) /\ c \in Seq(Item)
    BY MessageParts, SaidType, CallsToldType, ResultsToldType
  <1>2. Piece(p, h, m) = (a \o b) \o c
    BY DEF Piece
  <1> HIDE DEF a, b, c
  <1>3. a \o b \in Seq(Item)
    BY <1>1, ConcatProperties
  <1>4. (a \o b) \o c \in Seq(Item)
    BY <1>1, <1>3, ConcatProperties
  <1> QED BY <1>2, <1>4

\* What the three kinds of messages tell.
LEMMA WordedPiece ==
    ASSUME NEW p, NEW h, NEW m \in Worded
    PROVE  Piece(p, h, m) = Said("user", m.content) /\ m.role = "user" /\ m.plain /\ m.content \in Seq(STRING)
  <1>1. m.role = "user" /\ m.plain /\ m.content \in Seq(STRING)
    BY DEF Worded
  <1>2. Words(m) = m.content /\ Calls(m) = <<>> /\ Results(m) = <<>>
    BY <1>1 DEF Words, Calls, Results
  <1> DEFINE s == Said("user", m.content)
  <1>3. s \in Seq(Item)
    BY <1>1, SaidType
  <1>4. Piece(p, h, m) = (s \o <<>>) \o <<>>
    BY <1>1, <1>2, NothingTold DEF Piece
  <1> HIDE DEF s
  <1>5. s \o <<>> = s
    BY <1>3, ConcatEmptySeq
  <1> QED BY <1>1, <1>4, <1>5 DEF s

AnswersTold(p, h) ==
    \A t, w \in Seq(STRING), u \in Seq(CallBlock) :
      LET m == Blocks("assistant", BlocksOf(t, w, u))
      IN /\ Piece(p, h, m) = Said("assistant", w) \o CallsTold(p, u)
         /\ m.role = "assistant" /\ ~ m.plain

LEMMA AnswerPiece == \A p, h : AnswersTold(p, h)
  <1> TAKE p, h
  <1> USE DEF AnswersTold
  <1> TAKE t, w \in Seq(STRING), u \in Seq(CallBlock)
  <1> DEFINE m == Blocks("assistant", BlocksOf(t, w, u))
             s == Said("assistant", w)
             c == CallsTold(p, u)
  <1>1. m.role = "assistant" /\ ~ m.plain
    BY DEF Blocks
  <1>2. Words(m) = w /\ Calls(m) = u /\ Results(m) = <<>>
    <2>1. \A role : /\ Words(Blocks(role, BlocksOf(t, w, u))) = w
                    /\ Calls(Blocks(role, BlocksOf(t, w, u))) = u
                    /\ Results(Blocks(role, BlocksOf(t, w, u))) = <<>>
      BY AnswerParts
    <2> QED BY <2>1
  <1>3. s \in Seq(Item) /\ c \in Seq(Item)
    BY SaidType, CallsToldType
  <1> HIDE DEF m
  <1>4. Piece(p, h, m) = (s \o c) \o <<>>
    BY <1>1, <1>2, NothingTold DEF Piece
  <1> HIDE DEF s, c
  <1>5. s \o c \in Seq(Item)
    BY <1>3, ConcatProperties
  <1>6. (s \o c) \o <<>> = s \o c
    BY <1>5, ConcatEmptySeq
  <1>7. Piece(p, h, m) = s \o c
    BY <1>4, <1>6
  <1> QED BY <1>1, <1>7 DEF s, c, m

LEMMA GatheredPiece ==
    ASSUME NEW p, NEW h \in Seq(Message), NEW m \in Gathered
    PROVE  /\ Piece(p, h, m) = ResultsTold(p, h, m.content)
           /\ m.role = "user" /\ ~ m.plain /\ m.content \in Seq(ResultBlock)
           /\ m = Blocks("user", m.content)
  <1>1. m.role = "user" /\ ~ m.plain /\ m.content \in Seq(ResultBlock) /\ m = Blocks("user", m.content)
    BY DEF Gathered, Blocks
  <1> DEFINE c == m.content
  <1> HIDE DEF c
  <1>2. Words(Blocks("user", c)) = <<>> /\ Calls(Blocks("user", c)) = <<>> /\ Results(Blocks("user", c)) = c
    <2>1. c \in Seq(ResultBlock)
      BY <1>1 DEF c
    <2> QED BY <2>1, ResultsParts
  <1>3. Words(m) = <<>> /\ Calls(m) = <<>> /\ Results(m) = m.content
    BY <1>1, <1>2 DEF c
  <1> DEFINE s == ResultsTold(p, h, m.content)
  <1>4. s \in Seq(Item)
    BY <1>1, ResultsToldType
  <1>5. Piece(p, h, m) = (<<>> \o <<>>) \o s
    BY <1>1, <1>3, NothingTold DEF Piece, Said
  <1> HIDE DEF s
  <1>6. <<>> \o <<>> = <<>>
    OBVIOUS
  <1>7. <<>> \o s = s
    BY <1>4, ConcatEmptySeq
  <1> QED BY <1>1, <1>5, <1>6, <1>7 DEF s

\* What Anthropic is told is what the history tells.
LEMMA ReadBlocksIsPieces ==
    \A p, h, s : p # "gemini" => ReadBlocks(s) = FlattenSeq([i \in DOMAIN s |-> Piece(p, h, s[i])])
  BY DEF ReadBlocks, Piece, CallsTold, ResultsTold, CallKey, ResultKey

\* The request to Anthropic has no thinking, which tells nothing.
LEMMA ReadByAnthropic ==
    ASSUME NEW h \in Seq(Message), NEW p, p # "gemini"
    PROVE  ReadBlocks(ToAnthropic(h)) = FlattenSeq([i \in DOMAIN h |-> Piece(p, h, h[i])])
  <1>0. \A t, w \in Seq(STRING), u \in Seq(CallBlock) :
          LET m == Blocks("assistant", BlocksOf(t, w, u))
          IN /\ Piece(p, h, m) = Said("assistant", w) \o CallsTold(p, u)
             /\ m.role = "assistant" /\ ~ m.plain
    <2>1. AnswersTold(p, h)
      BY AnswerPiece
    <2> QED BY <2>1 DEF AnswersTold
  <1> DEFINE a == ToAnthropic(h)
  <1>1. DOMAIN a = DOMAIN h
    BY DEF ToAnthropic
  <1>2. ASSUME NEW i \in DOMAIN h PROVE Piece(p, h, a[i]) = Piece(p, h, h[i])
    <2>1. a[i] = IF h[i].plain THEN h[i] ELSE Blocks(h[i].role, Spoken(h[i]))
      BY DEF ToAnthropic
    <2>2. h[i] \in Message
      OBVIOUS
    <2> HIDE DEF a
    <2>3. CASE h[i] \in Worded
      BY <2>1, <2>3, WordedPiece
    <2>4. CASE h[i] \in Replied
      <3>1. PICK t, w \in Seq(STRING), u \in Seq(CallBlock) : h[i] = Blocks("assistant", BlocksOf(t, w, u))
        BY <2>4 DEF Replied
      <3>2. Spoken(h[i]) = BlocksOf(<<>>, w, u)
        BY <3>1, AnswerParts
      <3>3. /\ h[i].role = "assistant" /\ ~ h[i].plain
            /\ Piece(p, h, h[i]) = Said("assistant", w) \o CallsTold(p, u)
        BY <1>0, <3>1
      <3>4. a[i] = Blocks("assistant", BlocksOf(<<>>, w, u))
        BY <2>1, <3>2, <3>3
      <3>5. Piece(p, h, Blocks("assistant", BlocksOf(<<>>, w, u))) = Said("assistant", w) \o CallsTold(p, u)
        <4>1. <<>> \in Seq(STRING)
          OBVIOUS
        <4> QED BY <1>0, <4>1
      <3> QED BY <3>3, <3>4, <3>5
    <2>5. CASE h[i] \in Gathered
      <3>1. h[i] = Blocks("user", h[i].content) /\ h[i].content \in Seq(ResultBlock)
            /\ h[i].role = "user" /\ ~ h[i].plain
        BY <2>5, GatheredPiece
      <3>2. Spoken(h[i]) = h[i].content
        BY <3>1, ResultsParts
      <3> QED BY <2>1, <3>1, <3>2
    <2> QED BY <2>2, <2>3, <2>4, <2>5 DEF Message
  <1> HIDE DEF a
  <1>3. [i \in DOMAIN a |-> Piece(p, h, a[i])] = [i \in DOMAIN h |-> Piece(p, h, h[i])]
    BY <1>1, <1>2
  <1>4. ReadBlocks(a) = FlattenSeq([i \in DOMAIN a |-> Piece(p, h, a[i])])
    BY ReadBlocksIsPieces
  <1> QED BY <1>3, <1>4 DEF a

-----------------------------------------------------------------------------
(***************************************************************************)
(* The clients: the format of OpenAI.                                      *)
(***************************************************************************)

OpenAIMessages ==
    [role : {"assistant", "user", "tool"}, text : Seq(STRING), calls : Seq(CallBlock), id : Nat, content : Nat]

\* What the format makes of a message, and what that tells.
OpenAIOf(m) ==
    IF m.role = "assistant"
    THEN <<OpenAIMessage("assistant", Words(m), Calls(m), NoId, NoId)>>
    ELSE OpenAIUser(m)
OpenAITells ==
    [s \in OpenAIMessages |->
        Said(s.role, s.text) \o CallsTold("openai", s.calls)
        \o (IF s.role = "tool" THEN <<Returned(s.id, s.content)>> ELSE <<>>)]

\* What such a message tells, and a list of them.
LEMMA OpenAITellsType == OpenAITells \in [OpenAIMessages -> Seq(Item)]
  <1> SUFFICES ASSUME NEW s \in OpenAIMessages PROVE OpenAITells[s] \in Seq(Item)
    BY DEF OpenAITells
  <1>1. /\ s.role \in {"user", "assistant", "tool"} /\ s.text \in Seq(STRING)
        /\ s.calls \in Seq(CallBlock) /\ s.id \in Nat /\ s.content \in Nat
    BY DEF OpenAIMessages
  <1> DEFINE a == Said(s.role, s.text)
             b == CallsTold("openai", s.calls)
             c == IF s.role = "tool" THEN <<Returned(s.id, s.content)>> ELSE <<>>
  <1>2. a \in Seq(Item) /\ b \in Seq(Item)
    BY <1>1, SaidType, CallsToldType
  <1>3. c \in Seq(Item)
    <2>1. Returned(s.id, s.content) \in Item
      BY <1>1, ListItems DEF Returned, ResultItem, Key
    <2> HIDE DEF Item
    <2> QED BY <2>1
  <1>4. OpenAITells[s] = (a \o b) \o c
    BY DEF OpenAITells
  <1> HIDE DEF a, b, c
  <1>5. a \o b \in Seq(Item)
    BY <1>2, ConcatProperties
  <1>6. (a \o b) \o c \in Seq(Item)
    BY <1>3, <1>5, ConcatProperties
  <1> QED BY <1>4, <1>6

LEMMA OpenAITellsFlatten ==
    \A g \in Seq(Seq(OpenAIMessages)) :
      Joined(OpenAITells, FlattenSeq(g)) = FlattenSeq([i \in DOMAIN g |-> Joined(OpenAITells, g[i])])
  BY OpenAITellsType, JoinedFlatten

LEMMA OpenAITellsSingles ==
    ASSUME NEW s, NEW y \in Seq(Item),
           DOMAIN y = DOMAIN s, \A k \in DOMAIN s : OpenAITells[s[k]] = <<y[k]>>
    PROVE  Joined(OpenAITells, s) = y
  <1>1. [k \in DOMAIN s |-> OpenAITells[s[k]]] = [k \in DOMAIN y |-> <<y[k]>>]
    OBVIOUS
  <1> QED BY <1>1, FlattenSingles DEF Joined

\* What is told of one that the conversion makes.
LEMMA OpenAIMessageType ==
    ASSUME NEW role \in {"assistant", "user", "tool"}, NEW w \in Seq(STRING), NEW u \in Seq(CallBlock),
           NEW i \in Nat, NEW c \in Nat
    PROVE  /\ OpenAIMessage(role, w, u, i, c) \in OpenAIMessages
           /\ OpenAITells[OpenAIMessage(role, w, u, i, c)] =
                Said(role, w) \o CallsTold("openai", u) \o (IF role = "tool" THEN <<Returned(i, c)>> ELSE <<>>)
  BY DEF OpenAIMessage, OpenAIMessages, OpenAITells

\* The same as the message itself tells.
LEMMA OneOpenAIMessage ==
    ASSUME NEW role \in {"assistant", "user"}, NEW w \in Seq(STRING), NEW u \in Seq(CallBlock)
    PROVE  LET s == <<OpenAIMessage(role, w, u, NoId, NoId)>>
           IN  /\ s \in Seq(OpenAIMessages)
               /\ Joined(OpenAITells, s) = Said(role, w) \o CallsTold("openai", u)
  <1> DEFINE x == OpenAIMessage(role, w, u, NoId, NoId)
             a == Said(role, w)
             b == CallsTold("openai", u)
  <1>1. x \in OpenAIMessages /\ OpenAITells[x] = (a \o b) \o <<>>
    <2>1. NoId \in Nat /\ role \in {"assistant", "user", "tool"} /\ role # "tool"
      BY DEF NoId
    <2> QED BY <2>1, OpenAIMessageType
  <1>2. a \in Seq(Item) /\ b \in Seq(Item)
    BY SaidType, CallsToldType
  <1> HIDE DEF a, b, x
  <1>3. (a \o b) \o <<>> = a \o b
    <2>1. a \o b \in Seq(Item)
      BY <1>2, ConcatProperties
    <2> QED BY <2>1, ConcatEmptySeq
  <1>4. Joined(OpenAITells, <<x>>) = OpenAITells[x]
    BY <1>1, OpenAITellsType, JoinedOne
  <1>5. <<x>> \in Seq(OpenAIMessages)
    BY <1>1
  <1> QED BY <1>1, <1>3, <1>4, <1>5 DEF a, b, x

\* What the conversion makes of a message tells what the message tells.
LEMMA OpenAIOfMessage ==
    ASSUME NEW p, p # "gemini", NEW h \in Seq(Message)
    PROVE  \A m \in Message :
             OpenAIOf(m) \in Seq(OpenAIMessages) /\ Joined(OpenAITells, OpenAIOf(m)) = Piece(p, h, m)
  <1>00. \A t, w \in Seq(STRING), u \in Seq(CallBlock) :
          LET m == Blocks("assistant", BlocksOf(t, w, u))
          IN /\ Piece(p, h, m) = Said("assistant", w) \o CallsTold(p, u)
             /\ m.role = "assistant" /\ ~ m.plain
    <2>1. AnswersTold(p, h)
      BY AnswerPiece
    <2> QED BY <2>1 DEF AnswersTold
  <1>01. \A m \in Worded : Piece(p, h, m) = Said("user", m.content)
    BY WordedPiece
  <1>02. \A m \in Gathered : Piece(p, h, m) = ResultsTold(p, h, m.content)
    BY GatheredPiece
  <1>03. \A r \in Seq(ResultBlock) : ResultsTold(p, h, r) \in Seq(Item)
    BY ResultsToldType
  <1>04. /\ \A u : CallsTold(p, u) = CallsTold("openai", u)
         /\ \A r : ResultsTold(p, h, r) = [k \in DOMAIN r |-> Returned(r[k].id, r[k].content)]
    <2>1. \A u : CallsTold(p, u) = CallsTold("openai", u)
      BY DEF CallsTold, CallKey
    <2>2. \A r : ResultsTold(p, h, r) = [k \in DOMAIN r |-> Returned(r[k].id, r[k].content)]
      BY DEF ResultsTold, ResultKey
    <2> QED BY <2>1, <2>2
  <1>0. <<>> \in Seq(CallBlock) /\ <<>> \in Seq(STRING)
    OBVIOUS
  <1>05. \A i, c \in Nat :
           LET x == OpenAIMessage("tool", <<>>, <<>>, i, c)
           IN /\ x \in OpenAIMessages
              /\ OpenAITells[x] = Said("tool", <<>>) \o CallsTold("openai", <<>>) \o <<Returned(i, c)>>
    <2> SUFFICES ASSUME NEW i \in Nat, NEW c \in Nat
                 PROVE  LET x == OpenAIMessage("tool", <<>>, <<>>, i, c)
                        IN /\ x \in OpenAIMessages
                           /\ OpenAITells[x] = Said("tool", <<>>) \o CallsTold("openai", <<>>) \o <<Returned(i, c)>>
      OBVIOUS
    <2> QED BY <1>0, OpenAIMessageType
  <1> TAKE m \in Message
  <1>1. CASE m \in Worded
    <2>1. m.role = "user" /\ m.plain /\ m.content \in Seq(STRING)
      BY <1>1 DEF Worded
    <2>2. OpenAIOf(m) = <<OpenAIMessage("user", m.content, <<>>, NoId, NoId)>>
      BY <2>1 DEF OpenAIOf, OpenAIUser, Words, Results
    <2>3. Piece(p, h, m) = Said("user", m.content) /\ Said("user", m.content) \in Seq(Item)
      BY <1>1, <1>01, <2>1, SaidType
    <2> DEFINE w == m.content
    <2> HIDE DEF w
    <2>4. w \in Seq(STRING)
      BY <2>1 DEF w
    <2>5. LET s == <<OpenAIMessage("user", w, <<>>, NoId, NoId)>>
          IN  s \in Seq(OpenAIMessages) /\ Joined(OpenAITells, s) = Said("user", w) \o CallsTold("openai", <<>>)
      BY <1>0, <2>4, OneOpenAIMessage
    <2>6. Said("user", w) \o CallsTold("openai", <<>>) = Said("user", w)
      BY <2>3, NothingTold, ConcatEmptySeq DEF w
    <2> QED BY <2>2, <2>3, <2>5, <2>6 DEF w
  <1>2. CASE m \in Replied
    <2>1. PICK t, w \in Seq(STRING), u \in Seq(CallBlock) : m = Blocks("assistant", BlocksOf(t, w, u))
      BY <1>2 DEF Replied
    <2>2. m.role = "assistant" /\ Piece(p, h, m) = Said("assistant", w) \o CallsTold("openai", u)
      BY <1>00, <1>04, <2>1
    <2>3. Words(m) = w /\ Calls(m) = u
      BY <2>1, AnswerParts
    <2>4. OpenAIOf(m) = <<OpenAIMessage("assistant", w, u, NoId, NoId)>>
      BY <2>2, <2>3 DEF OpenAIOf
    <2>5. LET s == <<OpenAIMessage("assistant", w, u, NoId, NoId)>>
          IN  s \in Seq(OpenAIMessages) /\ Joined(OpenAITells, s) = Said("assistant", w) \o CallsTold("openai", u)
      BY OneOpenAIMessage
    <2> QED BY <2>2, <2>4, <2>5
  <1>3. CASE m \in Gathered
    <2> DEFINE r == m.content
               y == ResultsTold(p, h, r)
    <2>1. m.role = "user" /\ ~ m.plain /\ r \in Seq(ResultBlock) /\ m = Blocks("user", r) /\ Piece(p, h, m) = y
      BY <1>3, <1>02 DEF Gathered, Blocks
    <2> HIDE DEF r
    <2>2. m.content = r /\ Results(m) = r /\ Words(m) = <<>> /\ Of({"tool_result", "text"}, r) = r
      <3>1. \A role : /\ Results(Blocks(role, r)) = r /\ Words(Blocks(role, r)) = <<>>
                      /\ Of({"tool_result", "text"}, r) = r
        BY <2>1, ResultsParts
      <3> QED BY <2>1, <3>1 DEF r
    <2>3. CASE r = <<>>
      <3>1. OpenAIOf(m) = <<OpenAIMessage("user", <<>>, <<>>, NoId, NoId)>>
        BY <2>1, <2>2, <2>3 DEF OpenAIOf, OpenAIUser
      <3>2. LET s == <<OpenAIMessage("user", <<>>, <<>>, NoId, NoId)>>
            IN  s \in Seq(OpenAIMessages) /\ Joined(OpenAITells, s) = Said("user", <<>>) \o CallsTold("openai", <<>>)
        BY <1>0, OneOpenAIMessage
      <3>3. Said("user", <<>>) \o CallsTold("openai", <<>>) = <<>>
        BY NothingTold DEF Said
      <3>4. y = <<>>
        BY <2>3, NothingTold
      <3> QED BY <2>1, <3>1, <3>2, <3>3, <3>4
    <2>4. CASE r # <<>>
      <3> DEFINE s == [k \in DOMAIN r |-> OpenAIMessage("tool", <<>>, <<>>, r[k].id, r[k].content)]
      <3>1. OpenAIOf(m) = s
        <4>1. OpenAIOf(m) = [k \in DOMAIN r |->
                 IF r[k].type = "text"
                 THEN OpenAIMessage("user", r[k].text, <<>>, NoId, NoId)
                 ELSE OpenAIMessage("tool", <<>>, <<>>, r[k].id, r[k].content)]
          BY <2>1, <2>2, <2>4 DEF OpenAIOf, OpenAIUser
        <4>2. \A k \in DOMAIN r : r[k].type # "text"
          BY <2>1, BlockLists, BlockFacts
        <4> QED BY <4>1, <4>2
      <3>2. /\ DOMAIN r = 1..Len(r) /\ Len(r) \in Nat
            /\ \A k \in DOMAIN r : r[k].id \in Nat /\ r[k].content \in Nat
        BY <2>1, BlockLists DEF ResultBlock
      <3>3. \A k \in DOMAIN r : /\ s[k] = OpenAIMessage("tool", <<>>, <<>>, r[k].id, r[k].content)
                                /\ s[k] \in OpenAIMessages
        BY <1>05, <3>2
      <3>4. s \in Seq(OpenAIMessages) /\ DOMAIN s = DOMAIN r
        <4> DEFINE L == Len(r)
        <4>1. L \in Nat /\ DOMAIN s = 1..L /\ \A k \in 1..L : s[k] \in OpenAIMessages
          BY <3>2, <3>3
        <4>2. s = [k \in 1..L |-> s[k]]
          BY <4>1
        <4> HIDE DEF L, s
        <4>3. s \in Seq(OpenAIMessages)
          BY <4>1, <4>2, ListType
        <4> QED BY <3>2, <4>1, <4>3 DEF L
      <3>5. \A k \in DOMAIN r : OpenAITells[s[k]] = <<y[k]>>
        <4> SUFFICES ASSUME NEW k \in DOMAIN r PROVE OpenAITells[s[k]] = <<y[k]>>
          OBVIOUS
        <4>1. OpenAITells[s[k]] = (Said("tool", <<>>) \o CallsTold("openai", <<>>)) \o <<Returned(r[k].id, r[k].content)>>
          BY <1>05, <3>2, <3>3
        <4>2. Said("tool", <<>>) \o CallsTold("openai", <<>>) = <<>>
          BY NothingTold DEF Said
        <4>3. <<>> \o <<Returned(r[k].id, r[k].content)>> = <<Returned(r[k].id, r[k].content)>>
          OBVIOUS
        <4>4. y[k] = Returned(r[k].id, r[k].content)
          BY <1>04
        <4> QED BY <4>1, <4>2, <4>3, <4>4
      <3>6. y \in Seq(Item) /\ DOMAIN y = DOMAIN s
        BY <1>03, <1>04, <2>1, <3>4
      <3> HIDE DEF s, y
      <3>7. Joined(OpenAITells, s) = y
        <4>1. \A k \in DOMAIN s : OpenAITells[s[k]] = <<y[k]>>
          BY <3>4, <3>5
        <4> QED BY <3>4, <3>6, <4>1, OpenAITellsSingles
      <3> QED BY <2>1, <3>1, <3>4, <3>7
    <2> QED BY <2>3, <2>4
  <1> QED BY <1>1, <1>2, <1>3 DEF Message

\* The providers with the format of OpenAI are told what the history tells.
LEMMA ReadByOpenAI ==
    ASSUME NEW h \in Seq(Message), NEW p, p # "gemini"
    PROVE  ReadOpenAI(ToOpenAI(h)) = FlattenSeq([i \in DOMAIN h |-> Piece(p, h, h[i])])
  <1>00. \A m \in Message :
             OpenAIOf(m) \in Seq(OpenAIMessages) /\ Joined(OpenAITells, OpenAIOf(m)) = Piece(p, h, m)
    BY OpenAIOfMessage
  <1> DEFINE g == [i \in DOMAIN h |-> OpenAIOf(h[i])]
  <1>0. DOMAIN h = 1..Len(h) /\ Len(h) \in Nat /\ \A i \in DOMAIN h : h[i] \in Message
    OBVIOUS
  <1>1. g \in Seq(Seq(OpenAIMessages))
    <2> DEFINE Y == Seq(OpenAIMessages)
               L == Len(h)
    <2>1. L \in Nat /\ DOMAIN g = 1..L /\ \A k \in 1..L : g[k] \in Y
      BY <1>0, <1>00
    <2>2. g = [k \in 1..L |-> g[k]]
      BY <2>1
    <2> HIDE DEF Y, L, g
    <2>3. g \in Seq(Y)
      BY <2>1, <2>2, ListType
    <2> QED BY <2>3 DEF Y
  <1>2. ToOpenAI(h) = FlattenSeq(g)
    BY DEF ToOpenAI, OpenAIOf
  <1>3. \A i \in DOMAIN g : Joined(OpenAITells, g[i]) = Piece(p, h, h[i])
    BY <1>0, <1>00
  <1>4. DOMAIN g = DOMAIN h
    OBVIOUS
  <1> HIDE DEF g
  <1>5. Joined(OpenAITells, FlattenSeq(g)) = FlattenSeq([i \in DOMAIN g |-> Joined(OpenAITells, g[i])])
    BY <1>1, OpenAITellsFlatten
  <1>6. [i \in DOMAIN g |-> Joined(OpenAITells, g[i])] = [i \in DOMAIN h |-> Piece(p, h, h[i])]
    BY <1>3, <1>4
  <1>7. \A s \in Seq(OpenAIMessages) : ReadOpenAI(s) = Joined(OpenAITells, s)
    <2> SUFFICES ASSUME NEW s \in Seq(OpenAIMessages) PROVE ReadOpenAI(s) = Joined(OpenAITells, s)
      OBVIOUS
    <2>1. \A i \in DOMAIN s : s[i] \in OpenAIMessages
      OBVIOUS
    <2>2. [i \in DOMAIN s |->
             Said(s[i].role, s[i].text) \o CallsTold("openai", s[i].calls)
             \o (IF s[i].role = "tool" THEN <<Returned(s[i].id, s[i].content)>> ELSE <<>>)]
          = [i \in DOMAIN s |-> OpenAITells[s[i]]]
      BY <2>1 DEF OpenAITells
    <2>3. ReadOpenAI(s) = FlattenSeq([i \in DOMAIN s |->
             Said(s[i].role, s[i].text) \o CallsTold("openai", s[i].calls)
             \o (IF s[i].role = "tool" THEN <<Returned(s[i].id, s[i].content)>> ELSE <<>>)])
      BY DEF ReadOpenAI, CallsTold, CallKey
    <2> QED BY <2>2, <2>3 DEF Joined
  <1>8. FlattenSeq(g) \in Seq(OpenAIMessages)
    BY <1>1, FlattenType
  <1> QED BY <1>2, <1>5, <1>6, <1>7, <1>8

-----------------------------------------------------------------------------
(***************************************************************************)
(* The clients: the format of Gemini.                                      *)
(***************************************************************************)

\* What Gemini is told of a block.
GeminiTells(role, h) ==
    [b \in Block |->
        IF b.type = "text" THEN Said(role, b.text)
        ELSE IF b.type = "tool_use" THEN <<Called(b.name, b.name, b.input)>>
        ELSE IF b.type = "tool_result" THEN <<Returned(NameOf(h, b.id), b.content)>>
        ELSE <<>>]

\* What is told of a block, and of a list of one kind.
LEMMA GeminiTellsType ==
    ASSUME NEW role \in {"user", "assistant"}, NEW h \in Seq(Message) PROVE GeminiTells(role, h) \in [Block -> Seq(Item)]
  <1> SUFFICES ASSUME NEW b \in Block PROVE GeminiTells(role, h)[b] \in Seq(Item)
    BY DEF GeminiTells
  <1>1. CASE b \in TextBlock
    <2>1. b.text \in Seq(STRING) /\ b.type \in {"text", "thinking"}
      BY <1>1, BlockFacts
    <2>2. Said(role, b.text) \in Seq(Item)
      BY <2>1, SaidType
    <2> QED BY <2>1, <2>2 DEF GeminiTells
  <1>2. CASE b \in CallBlock
    <2>1. Called(CallKey("gemini", b), b.name, b.input) \in CallItem /\ b.type = "tool_use"
      BY <1>2, CalledType, BlockFacts
    <2>2. Called(b.name, b.name, b.input) \in Item
      BY <2>1, ListItems DEF CallKey
    <2> QED BY <2>1, <2>2 DEF GeminiTells
  <1>3. CASE b \in ResultBlock
    <2>1. b.type = "tool_result" /\ b.content \in Nat /\ b.id \in Nat
      BY <1>3 DEF ResultBlock
    <2>2. Returned(NameOf(h, b.id), b.content) \in Item
      <3>1. NameOf(h, b.id) \in Key
        BY <2>1, NameType
      <3> QED BY <2>1, <3>1, ListItems DEF Returned, ResultItem
    <2> QED BY <2>1, <2>2 DEF GeminiTells
  <1> QED BY <1>1, <1>2, <1>3, BlockFacts

\* A converted block tells what the block tells.
LEMMA PartsOfBlocks ==
    ASSUME NEW role, NEW h, NEW s \in Seq(Block), \A k \in DOMAIN s : s[k].type # "thinking"
    PROVE  ReadParts(role, [k \in DOMAIN s |-> GeminiPart(h, s[k])]) = Joined(GeminiTells(role, h), s)
  <1> DEFINE parts == [k \in DOMAIN s |-> GeminiPart(h, s[k])]
             tell(part) ==
               CASE part.type = "text" -> Said(role, part.text)
                 [] part.type = "function_call" -> <<Called(part.name, part.name, part.args)>>
                 [] part.type = "function_response" -> <<Returned(part.name, part.response)>>
  <1>1. ASSUME NEW k \in DOMAIN s PROVE tell(parts[k]) = GeminiTells(role, h)[s[k]]
    <2>1. s[k] \in Block /\ s[k].type # "thinking"
      OBVIOUS
    <2>2. parts[k] = GeminiPart(h, s[k])
      OBVIOUS
    <2> HIDE DEF parts
    <2>3. CASE s[k] \in TextBlock
      <3>1. s[k].type = "text"
        BY <2>1, <2>3, BlockFacts
      <3>2. parts[k] = [type |-> "text", text |-> s[k].text]
        BY <2>2, <3>1 DEF GeminiPart
      <3>3. tell(parts[k]) = Said(role, s[k].text)
        BY <3>2
      <3> QED BY <2>1, <3>1, <3>3 DEF GeminiTells
    <2>4. CASE s[k] \in CallBlock
      <3>1. s[k].type = "tool_use"
        BY <2>4, BlockFacts
      <3>2. parts[k] = [type |-> "function_call", name |-> s[k].name, args |-> s[k].input]
        BY <2>2, <3>1 DEF GeminiPart
      <3>3. tell(parts[k]) = <<Called(s[k].name, s[k].name, s[k].input)>>
        BY <3>2
      <3> QED BY <2>1, <3>1, <3>3 DEF GeminiTells
    <2>5. CASE s[k] \in ResultBlock
      <3>1. s[k].type = "tool_result"
        BY <2>5, BlockFacts
      <3>2. parts[k] = [type |-> "function_response", name |-> NameOf(h, s[k].id), response |-> s[k].content]
        BY <2>2, <3>1 DEF GeminiPart
      <3>3. tell(parts[k]) = <<Returned(NameOf(h, s[k].id), s[k].content)>>
        BY <3>2
      <3> QED BY <2>1, <3>1, <3>3 DEF GeminiTells
    <2> QED BY <2>1, <2>3, <2>4, <2>5, BlockFacts
  <1>2. DOMAIN parts = DOMAIN s
    OBVIOUS
  <1> HIDE DEF parts
  <1>3. [k \in DOMAIN parts |-> tell(parts[k])] = [k \in DOMAIN s |-> GeminiTells(role, h)[s[k]]]
    BY <1>1, <1>2
  <1>4. ReadParts(role, parts) = FlattenSeq([k \in DOMAIN parts |-> tell(parts[k])])
    BY DEF ReadParts
  <1> HIDE DEF tell
  <1> QED BY <1>3, <1>4 DEF Joined, parts

\* A text, calls, or results tell Gemini what they tell.
LEMMA GeminiTellsOne ==
    ASSUME NEW role \in {"user", "assistant"}, NEW h \in Seq(Message), NEW w \in Seq(STRING)
    PROVE  Joined(GeminiTells(role, h), <<Text(w)>>) = Said(role, w)
  <1> DEFINE F == GeminiTells(role, h)
             x == Text(w)
  <1>1. x \in Block /\ x.type = "text" /\ x.text = w
    BY DEF Text, Block, TextBlock
  <1>2. F[x] = Said(role, w)
    BY <1>1 DEF GeminiTells
  <1>3. F \in [Block -> Seq(Item)]
    BY GeminiTellsType
  <1> HIDE DEF F, x
  <1>4. Joined(F, <<x>>) = F[x]
    BY <1>1, <1>3, JoinedOne
  <1> QED BY <1>2, <1>4 DEF F, x

LEMMA GeminiTellsCalls ==
    ASSUME NEW role, NEW h, NEW u \in Seq(CallBlock)
    PROVE  Joined(GeminiTells(role, h), u) = CallsTold("gemini", u)
  <1> DEFINE y == CallsTold("gemini", u)
  <1>1. y \in Seq(Item) /\ DOMAIN y = DOMAIN u
    BY CallsToldType
  <1>2. \A k \in DOMAIN u : GeminiTells(role, h)[u[k]] = <<y[k]>>
    BY BlockLists, BlockFacts DEF GeminiTells, CallsTold, CallKey
  <1> HIDE DEF y
  <1>3. [k \in DOMAIN u |-> GeminiTells(role, h)[u[k]]] = [k \in DOMAIN y |-> <<y[k]>>]
    BY <1>1, <1>2
  <1> QED BY <1>1, <1>3, FlattenSingles DEF Joined, y

LEMMA GeminiTellsResults ==
    ASSUME NEW role, NEW h \in Seq(Message), NEW r \in Seq(ResultBlock)
    PROVE  Joined(GeminiTells(role, h), r) = ResultsTold("gemini", h, r)
  <1> DEFINE y == ResultsTold("gemini", h, r)
  <1>1. y \in Seq(Item) /\ DOMAIN y = DOMAIN r
    BY ResultsToldType
  <1>2. \A k \in DOMAIN r : GeminiTells(role, h)[r[k]] = <<y[k]>>
    BY BlockLists, BlockFacts DEF GeminiTells, ResultsTold, ResultKey
  <1> HIDE DEF y
  <1>3. [k \in DOMAIN r |-> GeminiTells(role, h)[r[k]]] = [k \in DOMAIN y |-> <<y[k]>>]
    BY <1>1, <1>2
  <1> QED BY <1>1, <1>3, FlattenSingles DEF Joined, y

\* An answer without its thinking has none.
LEMMA SpokenAnswer ==
    ASSUME NEW w \in Seq(STRING), NEW u \in Seq(CallBlock)
    PROVE  LET s == BlocksOf(<<>>, w, u)
           IN  s \in Seq(Block) /\ \A k \in DOMAIN s : s[k].type # "thinking"
  <1> DEFINE W == IF w = <<>> THEN <<>> ELSE <<Text(w)>>
             s == BlocksOf(<<>>, w, u)
  <1>1. Text(w) \in Block /\ Text(w).type = "text"
    BY DEF Text, Block, TextBlock
  <1>2. W \in Seq(Block) /\ u \in Seq(Block) /\ \A k \in 1..Len(W) : W[k].type = "text"
    BY <1>1, BlockLists
  <1>3. \A k \in 1..Len(u) : u[k].type = "tool_use"
    BY BlockLists, BlockFacts
  <1>4. s = (<<>> \o W) \o u
    BY DEF BlocksOf
  <1> HIDE DEF W, s
  <1>5. s = W \o u
    BY <1>2, <1>4, ConcatEmptySeq
  <1>6. /\ s \in Seq(Block) /\ Len(s) = Len(W) + Len(u)
        /\ \A k \in 1..(Len(W) + Len(u)) : s[k] = IF k <= Len(W) THEN W[k] ELSE u[k - Len(W)]
    BY <1>2, <1>5, ConcatProperties
  <1>7. Len(W) \in Nat /\ Len(u) \in Nat /\ DOMAIN s = 1..(Len(W) + Len(u))
    BY <1>2, <1>6
  <1>8. ASSUME NEW k \in DOMAIN s PROVE s[k].type # "thinking"
    <2>1. CASE k <= Len(W)
      <3>1. k \in 1..Len(W) /\ s[k] = W[k]
        BY <1>6, <1>7, <2>1
      <3> QED BY <1>2, <3>1
    <2>2. CASE ~ (k <= Len(W))
      <3>1. k - Len(W) \in 1..Len(u) /\ s[k] = u[k - Len(W)]
        BY <1>6, <1>7, <2>2
      <3> QED BY <1>3, <3>1
    <2> QED BY <2>1, <2>2
  <1> QED BY <1>6, <1>8 DEF s

\* Gemini is told what the history tells.
LEMMA ReadByGemini ==
    ASSUME NEW h \in Seq(Message)
    PROVE  ReadGemini(ToGemini(h)) = FlattenSeq([i \in DOMAIN h |-> Piece("gemini", h, h[i])])
  <1>00. \A t, w \in Seq(STRING), u \in Seq(CallBlock) :
          LET m == Blocks("assistant", BlocksOf(t, w, u))
          IN /\ Piece("gemini", h, m) = Said("assistant", w) \o CallsTold("gemini", u)
             /\ m.role = "assistant" /\ ~ m.plain
    <2>1. AnswersTold("gemini", h)
      BY AnswerPiece
    <2> QED BY <2>1 DEF AnswersTold
  <1> DEFINE g == ToGemini(h)
             role(i) == IF g[i].role = "model" THEN "assistant" ELSE g[i].role
  <1>1. DOMAIN g = DOMAIN h
    BY DEF ToGemini
  <1>2. ASSUME NEW i \in DOMAIN h PROVE ReadParts(role(i), g[i].parts) = Piece("gemini", h, h[i])
    <2> DEFINE m == h[i]
               sp == Spoken(m)
    <2>1. /\ g[i].role = IF m.role = "assistant" THEN "model" ELSE "user"
          /\ g[i].parts = IF m.plain THEN <<Text(m.content)>> ELSE [k \in DOMAIN sp |-> GeminiPart(h, sp[k])]
      BY DEF ToGemini
    <2>2. m \in Message
      OBVIOUS
    <2> HIDE DEF g, m, sp
    <2>3. CASE m \in Worded
      <3>1. m.role = "user" /\ m.plain /\ m.content \in Seq(STRING) /\ Piece("gemini", h, m) = Said("user", m.content)
        BY <2>3, WordedPiece DEF Worded
      <3>2. role(i) = "user" /\ g[i].parts = <<Text(m.content)>>
        BY <2>1, <3>1
      <3>3. ReadParts("user", <<Text(m.content)>>) = Said("user", m.content)
        <4> DEFINE c == m.content
        <4> HIDE DEF c
        <4>1. c \in Seq(STRING) /\ Text(c) = [type |-> "text", text |-> c]
          BY <3>1 DEF Text, c
        <4>2. Text(c) \in Block /\ Text(c).type = "text" /\ Text(c).text = c
          BY <4>1 DEF Block, TextBlock
        <4> DEFINE s == <<Text(c)>>
        <4>3. s \in Seq(Block) /\ \A k \in DOMAIN s : s[k].type # "thinking"
          BY <4>2
        <4>4. [k \in DOMAIN s |-> GeminiPart(h, s[k])] = s
          BY <4>1 DEF GeminiPart
        <4> HIDE DEF s
        <4>5. ReadParts("user", s) = Joined(GeminiTells("user", h), s)
          BY <4>3, <4>4, PartsOfBlocks
        <4>6. Joined(GeminiTells("user", h), <<Text(c)>>) = Said("user", c)
          BY <4>1, GeminiTellsOne
        <4> QED BY <4>5, <4>6 DEF s, c
      <3> QED BY <3>1, <3>2, <3>3 DEF m
    <2>4. CASE m \in Replied
      <3>1. PICK t, w \in Seq(STRING), u \in Seq(CallBlock) : m = Blocks("assistant", BlocksOf(t, w, u))
        BY <2>4 DEF Replied
      <3>2. m.role = "assistant" /\ ~ m.plain /\ Piece("gemini", h, m) = Said("assistant", w) \o CallsTold("gemini", u)
        BY <1>00, <3>1
      <3>3. sp = BlocksOf(<<>>, w, u)
        BY <3>1, AnswerParts DEF sp
      <3>4. role(i) = "assistant" /\ g[i].parts = [k \in DOMAIN sp |-> GeminiPart(h, sp[k])]
        BY <2>1, <3>2
      <3>5. sp \in Seq(Block) /\ \A k \in DOMAIN sp : sp[k].type # "thinking"
        BY <3>3, SpokenAnswer
      <3>6. ReadParts("assistant", g[i].parts) = Joined(GeminiTells("assistant", h), sp)
        <4>1. ReadParts("assistant", [k \in DOMAIN sp |-> GeminiPart(h, sp[k])]) = Joined(GeminiTells("assistant", h), sp)
          BY <3>5, PartsOfBlocks
        <4> QED BY <3>4, <4>1
      <3>7. Joined(GeminiTells("assistant", h), sp) = Said("assistant", w) \o CallsTold("gemini", u)
        <4> DEFINE F == GeminiTells("assistant", h)
        <4>1. F \in [Block -> Seq(Item)]
          BY GeminiTellsType
        <4>2. <<>> \in Seq(STRING)
          OBVIOUS
        <4>3. F[Thinking(<<>>)] = <<>>
          <5>1. Thinking(<<>>) \in Block /\ Thinking(<<>>).type = "thinking"
            BY <4>2 DEF Thinking, Block, TextBlock
          <5> QED BY <5>1 DEF GeminiTells
        <4>4. Joined(F, u) = CallsTold("gemini", u)
          BY GeminiTellsCalls
        <4>5. (IF w = <<>> THEN <<>> ELSE F[Text(w)]) = Said("assistant", w)
          <5>1. Text(w) \in Block /\ Text(w).type = "text" /\ Text(w).text = w
            BY DEF Text, Block, TextBlock
          <5>2. F[Text(w)] = Said("assistant", w)
            BY <5>1 DEF GeminiTells
          <5> QED BY <5>2 DEF Said
        <4> HIDE DEF F
        <4>6. Joined(F, BlocksOf(<<>>, w, u)) = (IF w = <<>> THEN <<>> ELSE F[Text(w)]) \o Joined(F, u)
          BY <4>1, <4>2, <4>3, JoinedAnswer
        <4> QED BY <3>3, <4>4, <4>5, <4>6 DEF F
      <3> QED BY <3>2, <3>4, <3>6, <3>7 DEF m
    <2>5. CASE m \in Gathered
      <3> DEFINE r == m.content
      <3>1. m.role = "user" /\ ~ m.plain /\ r \in Seq(ResultBlock) /\ m = Blocks("user", r) /\ Piece("gemini", h, m) = ResultsTold("gemini", h, r)
        BY <2>5, GatheredPiece DEF Gathered
      <3> HIDE DEF r
      <3>2. sp = r
        BY <3>1, ResultsParts DEF sp
      <3>3. role(i) = "user" /\ g[i].parts = [k \in DOMAIN sp |-> GeminiPart(h, sp[k])]
        BY <2>1, <3>1
      <3>4. sp \in Seq(Block) /\ \A k \in DOMAIN sp : sp[k].type # "thinking"
        BY <3>1, <3>2, BlockLists, BlockFacts
      <3>5. ReadParts("user", g[i].parts) = Joined(GeminiTells("user", h), sp)
        <4>1. ReadParts("user", [k \in DOMAIN sp |-> GeminiPart(h, sp[k])]) = Joined(GeminiTells("user", h), sp)
          BY <3>4, PartsOfBlocks
        <4> QED BY <3>3, <4>1
      <3>6. Joined(GeminiTells("user", h), sp) = ResultsTold("gemini", h, r)
        BY <3>1, <3>2, GeminiTellsResults
      <3> QED BY <3>1, <3>3, <3>5, <3>6 DEF m
    <2> QED BY <2>2, <2>3, <2>4, <2>5 DEF Message
  <1>3. ReadGemini(g) = FlattenSeq([i \in DOMAIN g |-> ReadParts(role(i), g[i].parts)])
    BY DEF ReadGemini
  <1> HIDE DEF g, role
  <1>4. [i \in DOMAIN g |-> ReadParts(role(i), g[i].parts)] = [i \in DOMAIN h |-> Piece("gemini", h, h[i])]
    BY <1>1, <1>2
  <1> QED BY <1>3, <1>4 DEF g

\* Every provider is told what the history tells, each message once and in order.
LEMMA ReadByAll ==
    ASSUME NEW h \in Seq(Message), NEW p
    PROVE  Read(p, Converted(p, h)) = FlattenSeq([i \in DOMAIN h |-> Piece(p, h, h[i])])
  <1>1. CASE p = "anthropic"
    BY <1>1, ReadByAnthropic DEF Read, Converted
  <1>2. CASE p = "gemini"
    BY <1>2, ReadByGemini DEF Read, Converted
  <1>3. CASE p \notin {"anthropic", "gemini"}
    BY <1>3, ReadByOpenAI DEF Read, Converted
  <1> QED BY <1>1, <1>2, <1>3

-----------------------------------------------------------------------------
(***************************************************************************)
(* The clients: what connects calls and results.  The providers are told   *)
(* it differently, and nothing else.                                       *)
(***************************************************************************)

\* What is told, without what connects it.
Drop == [x \in Item |-> <<IF x.is \in {"call", "result"} THEN [x EXCEPT !.key = NoId] ELSE x>>]

\* What is dropped of a call or a result is its key.
LEMMA ItemKinds ==
    /\ \A x \in CallItem : x.is = "call" /\ [x EXCEPT !.key = NoId] = Called(NoId, x.name, x.input)
    /\ \A x \in ResultItem : x.is = "result" /\ [x EXCEPT !.key = NoId] = Returned(NoId, x.content)
    /\ \A x \in SaidItem : x.is \notin {"call", "result"}
  <1>1. \A x \in CallItem : x.is = "call" /\ [x EXCEPT !.key = NoId] = Called(NoId, x.name, x.input)
    <2> SUFFICES ASSUME NEW x \in CallItem
                 PROVE  x.is = "call" /\ [x EXCEPT !.key = NoId] = Called(NoId, x.name, x.input)
      OBVIOUS
    <2> DEFINE i == x.input
    <2>1. x = [is |-> "call", key |-> x.key, name |-> x.name, input |-> i]
      BY DEF CallItem
    <2> HIDE DEF i
    <2> QED BY <2>1 DEF Called, i
  <1>2. \A x \in ResultItem : x.is = "result" /\ [x EXCEPT !.key = NoId] = Returned(NoId, x.content)
    BY DEF ResultItem, Returned
  <1>3. \A x \in SaidItem : x.is \notin {"call", "result"}
    BY DEF SaidItem
  <1> QED BY <1>1, <1>2, <1>3

LEMMA DropType == Drop \in [Item -> Seq(Item)]
  <1> SUFFICES ASSUME NEW x \in Item PROVE Drop[x] \in Seq(Item)
    BY DEF Drop
  <1> DEFINE y == IF x.is \in {"call", "result"} THEN [x EXCEPT !.key = NoId] ELSE x
  <1>0. NoId \in Key
    BY DEF NoId, Key
  <1>1. CASE x \in CallItem
    <2>1. y = Called(NoId, x.name, x.input)
      BY <1>1, ItemKinds
    <2>2. y \in CallItem
      BY <1>0, <1>1, <2>1 DEF Called, CallItem
    <2> HIDE DEF y
    <2>3. y \in Item
      BY <2>2, ListItems
    <2>4. Drop[x] = <<y>>
      BY DEF Drop, y
    <2> QED BY <2>3, <2>4
  <1>2. CASE x \in ResultItem
    <2>1. y = Returned(NoId, x.content)
      BY <1>2, ItemKinds
    <2>2. y \in ResultItem
      BY <1>0, <1>2, <2>1 DEF Returned, ResultItem
    <2> HIDE DEF y
    <2>3. y \in Item
      BY <2>2, ListItems
    <2>4. Drop[x] = <<y>>
      BY DEF Drop, y
    <2> QED BY <2>3, <2>4
  <1>3. CASE x \in SaidItem
    <2>1. y = x
      BY <1>3, ItemKinds
    <2>2. Drop[x] = <<y>>
      BY DEF Drop
    <2> HIDE DEF y
    <2> QED BY <2>1, <2>2
  <1> QED BY <1>1, <1>2, <1>3 DEF Item

\* Told drops the keys one by one, so that it may drop them first.
LEMMA ToldJoined == \A s \in Seq(Item) : Told(s) = Joined(Drop, s)
  <1>00. Drop \in [Item -> Seq(Item)]
    BY DropType
  <1> TAKE s \in Seq(Item)
  <1> DEFINE L == Len(s)
             y == Told(s)
  <1>1. L \in Nat /\ DOMAIN s = 1..L /\ \A k \in 1..L : s[k] \in Item
    OBVIOUS
  <1>2. /\ y = [k \in 1..L |-> IF s[k].is \in {"call", "result"} THEN [s[k] EXCEPT !.key = NoId] ELSE s[k]]
    BY <1>1 DEF Told
  <1> HIDE DEF y, L
  <1>3. DOMAIN y = 1..L /\ y = [k \in 1..L |-> y[k]]
    BY <1>2
  <1>4. \A k \in 1..L : Drop[s[k]] = <<y[k]>>
    BY <1>1, <1>2 DEF Drop
  <1>5. \A k \in 1..L : y[k] \in Item
    <2> SUFFICES ASSUME NEW k \in 1..L PROVE y[k] \in Item
      OBVIOUS
    <2> DEFINE d == Drop[s[k]]
    <2>1. d \in Seq(Item) /\ d = <<y[k]>>
      BY <1>00, <1>1, <1>4
    <2> HIDE DEF d
    <2>2. Len(d) = 1 /\ d[1] = y[k]
      BY <2>1
    <2>3. d[1] \in Item
      BY <2>1, <2>2
    <2> QED BY <2>2, <2>3
  <1>6. y \in Seq(Item)
    BY <1>1, <1>3, <1>5, ListType
  <1>7. [k \in DOMAIN s |-> Drop[s[k]]] = [k \in DOMAIN y |-> <<y[k]>>]
    BY <1>1, <1>3, <1>4
  <1>8. FlattenSeq([k \in DOMAIN y |-> <<y[k]>>]) = y
    BY <1>6, FlattenSingles
  <1> QED BY <1>7, <1>8 DEF Joined, y

LEMMA ToldConcat ==
    \A a, b \in Seq(Item) : Told(a \o b) = Told(a) \o Told(b)
  <1>1. \A a, b \in Seq(Item) : Joined(Drop, a \o b) = Joined(Drop, a) \o Joined(Drop, b)
    BY DropType, JoinedConcat, SMTT(30)
  <1>2. \A a, b \in Seq(Item) : a \o b \in Seq(Item)
    BY ConcatProperties
  <1> QED BY <1>1, <1>2, ToldJoined

LEMMA ToldFlatten ==
    \A g \in Seq(Seq(Item)) : Told(FlattenSeq(g)) = FlattenSeq([i \in DOMAIN g |-> Told(g[i])])
  <1>1. \A g \in Seq(Seq(Item)) :
          Joined(Drop, FlattenSeq(g)) = FlattenSeq([i \in DOMAIN g |-> Joined(Drop, g[i])])
    BY DropType, JoinedFlatten, SMTT(30)
  <1>2. \A g \in Seq(Seq(Item)) : FlattenSeq(g) \in Seq(Item)
    BY FlattenType
  <1>3. ASSUME NEW g \in Seq(Seq(Item))
        PROVE  [i \in DOMAIN g |-> Joined(Drop, g[i])] = [i \in DOMAIN g |-> Told(g[i])]
    <2>1. \A i \in DOMAIN g : g[i] \in Seq(Item)
      OBVIOUS
    <2> QED BY <2>1, ToldJoined
  <1> QED BY <1>1, <1>2, <1>3, ToldJoined

\* What connects is all that the providers are told differently.
LEMMA PieceTold ==
    ASSUME NEW h \in Seq(Message), NEW m \in Message, NEW p, NEW q
    PROVE  Told(Piece(p, h, m)) = Told(Piece(q, h, m))
  <1> DEFINE a == Said(m.role, Words(m))
             u == Calls(m)
             r == Results(m)
  <1>1. a \in Seq(Item) /\ u \in Seq(CallBlock) /\ r \in Seq(ResultBlock)
    BY MessageParts, SaidType
  <1>2. \A x : Piece(x, h, m) = (a \o CallsTold(x, u)) \o ResultsTold(x, h, r)
    BY DEF Piece
  <1> HIDE DEF a, u, r
  <1>3. \A x : CallsTold(x, u) \in Seq(Item) /\ ResultsTold(x, h, r) \in Seq(Item)
    BY <1>1, CallsToldType, ResultsToldType
  <1>4. \A x : a \o CallsTold(x, u) \in Seq(Item)
    BY <1>1, <1>3, ConcatProperties
  <1>5. \A x : Told(Piece(x, h, m)) = (Told(a) \o Told(CallsTold(x, u))) \o Told(ResultsTold(x, h, r))
    <2> SUFFICES ASSUME NEW x
                 PROVE  Told(Piece(x, h, m)) = (Told(a) \o Told(CallsTold(x, u))) \o Told(ResultsTold(x, h, r))
      OBVIOUS
    <2> DEFINE b == CallsTold(x, u)
               c == ResultsTold(x, h, r)
    <2>1. b \in Seq(Item) /\ c \in Seq(Item) /\ a \o b \in Seq(Item) /\ Piece(x, h, m) = (a \o b) \o c
      BY <1>2, <1>3, <1>4
    <2> HIDE DEF b, c
    <2>2. Told(a \o b) = Told(a) \o Told(b)
      BY <1>1, <2>1, ToldConcat
    <2>3. Told((a \o b) \o c) = Told(a \o b) \o Told(c)
      BY <2>1, ToldConcat
    <2> QED BY <2>1, <2>2, <2>3 DEF b, c
  <1>6. \A x : Told(CallsTold(x, u)) = [k \in DOMAIN u |-> Called(NoId, u[k].name, u[k].input)]
    <2> SUFFICES ASSUME NEW x
                 PROVE  Told(CallsTold(x, u)) = [k \in DOMAIN u |-> Called(NoId, u[k].name, u[k].input)]
      OBVIOUS
    <2> DEFINE c == CallsTold(x, u)
    <2>1. /\ DOMAIN c = DOMAIN u
          /\ \A k \in DOMAIN u : c[k] = Called(CallKey(x, u[k]), u[k].name, u[k].input) /\ c[k] \in CallItem
      BY <1>1, CallsToldType
    <2> HIDE DEF c
    <2>2. \A k \in DOMAIN c : /\ c[k].is \in {"call", "result"}
                              /\ [c[k] EXCEPT !.key = NoId] = Called(NoId, u[k].name, u[k].input)
      <3> SUFFICES ASSUME NEW k \in DOMAIN u
                   PROVE  /\ c[k].is \in {"call", "result"}
                          /\ [c[k] EXCEPT !.key = NoId] = Called(NoId, u[k].name, u[k].input)
        BY <2>1
      <3>1. c[k].name = u[k].name /\ c[k].input = u[k].input
        BY <2>1 DEF Called
      <3> QED BY <2>1, <3>1, ItemKinds
    <2>3. Told(c) = [k \in DOMAIN u |-> Called(NoId, u[k].name, u[k].input)]
      BY <2>1, <2>2 DEF Told
    <2> QED BY <2>3 DEF c
  <1>7. \A x : Told(ResultsTold(x, h, r)) = [k \in DOMAIN r |-> Returned(NoId, r[k].content)]
    <2> SUFFICES ASSUME NEW x
                 PROVE  Told(ResultsTold(x, h, r)) = [k \in DOMAIN r |-> Returned(NoId, r[k].content)]
      OBVIOUS
    <2> DEFINE c == ResultsTold(x, h, r)
    <2>1. /\ DOMAIN c = DOMAIN r
          /\ \A k \in DOMAIN r : c[k] = Returned(ResultKey(x, h, r[k]), r[k].content) /\ c[k] \in ResultItem
      BY <1>1, ResultsToldType
    <2> HIDE DEF c
    <2>2. \A k \in DOMAIN c : /\ c[k].is \in {"call", "result"}
                              /\ [c[k] EXCEPT !.key = NoId] = Returned(NoId, r[k].content)
      <3> SUFFICES ASSUME NEW k \in DOMAIN r
                   PROVE  /\ c[k].is \in {"call", "result"}
                          /\ [c[k] EXCEPT !.key = NoId] = Returned(NoId, r[k].content)
        BY <2>1
      <3>1. c[k].content = r[k].content
        BY <2>1 DEF Returned
      <3> QED BY <2>1, <3>1, ItemKinds
    <2>3. Told(c) = [k \in DOMAIN r |-> Returned(NoId, r[k].content)]
      BY <2>1, <2>2 DEF Told
    <2> QED BY <2>3 DEF c
  <1> QED BY <1>5, <1>6, <1>7

\* So every provider is told what the history tells, each message once and in order.
LEMMA ToldByAll ==
    ASSUME NEW h \in Seq(Message), NEW p
    PROVE  Told(Read(p, Converted(p, h))) = Told(ReadBlocks(h))
  <1> DEFINE f(x) == [i \in DOMAIN h |-> Piece(x, h, h[i])]
             t(x) == [i \in DOMAIN h |-> Told(Piece(x, h, h[i]))]
             L == Len(h)
  <1>1. L \in Nat /\ DOMAIN h = 1..L /\ \A i \in 1..L : h[i] \in Message
    OBVIOUS
  <1>2. \A x : f(x) \in Seq(Seq(Item))
    <2> SUFFICES ASSUME NEW x PROVE f(x) \in Seq(Seq(Item))
      OBVIOUS
    <2> DEFINE Y == Seq(Item)
               g == f(x)
    <2>1. \A i \in 1..L : g[i] \in Y
      BY <1>1, PieceType
    <2>2. g = [i \in 1..L |-> g[i]]
      BY <1>1
    <2> HIDE DEF Y, g, L
    <2>3. g \in Seq(Y)
      BY <1>1, <2>1, <2>2, ListType
    <2> QED BY <2>3 DEF Y, g
  <1>3. \A x : Told(FlattenSeq(f(x))) = FlattenSeq(t(x))
    <2> SUFFICES ASSUME NEW x PROVE Told(FlattenSeq(f(x))) = FlattenSeq(t(x))
      OBVIOUS
    <2>1. Told(FlattenSeq(f(x))) = FlattenSeq([i \in DOMAIN f(x) |-> Told(f(x)[i])])
      <3> DEFINE g == f(x)
      <3>1. g \in Seq(Seq(Item))
        BY <1>2
      <3> HIDE DEF g
      <3>2. Told(FlattenSeq(g)) = FlattenSeq([i \in DOMAIN g |-> Told(g[i])])
        BY <3>1, ToldFlatten
      <3> QED BY <3>2 DEF g
    <2>2. [i \in DOMAIN f(x) |-> Told(f(x)[i])] = t(x)
      OBVIOUS
    <2> QED BY <2>1, <2>2
  <1>4. t(p) = t("anthropic")
    BY <1>1, PieceTold
  <1>5. Read(p, Converted(p, h)) = FlattenSeq(f(p))
    BY ReadByAll
  <1>6. ReadBlocks(h) = FlattenSeq(f("anthropic"))
    BY ReadBlocksIsPieces
  <1> HIDE DEF f, t
  <1> QED BY <1>3, <1>4, <1>5, <1>6

-----------------------------------------------------------------------------
(***************************************************************************)
(* The clients: places.  Where the items of a list are when lists are      *)
(* joined.                                                                 *)
(***************************************************************************)

\* The n-th list begins behind the place at[n - 1] of all joined, and ends at at[n].
Placed(at, ss) ==
    /\ at \in [0..Len(ss) -> Nat]
    /\ at[0] = 0
    /\ \A n \in 1..Len(ss) : at[n] = at[n - 1] + Len(ss[n])
    /\ \A m \in 0..Len(ss) : \A n \in 0..m : at[n] <= at[m]
    /\ Len(FlattenSeq(ss)) = at[Len(ss)]
    /\ \A n \in 1..Len(ss) : \A k \in 1..Len(ss[n]) : FlattenSeq(ss)[at[n - 1] + k] = ss[n][k]
    /\ \A j \in 1..at[Len(ss)] : \E n \in 1..Len(ss) : at[n - 1] < j /\ j <= at[n]

\* Every list of lists has such places.
LEMMA PlacesExist ==
    ASSUME NEW S, NEW ss \in Seq(Seq(S)) PROVE \E at : Placed(at, ss)
  <1>1. PICK f : Flattening(f, ss, S)
    BY FlatteningExists
  <1> DEFINE L == Len(ss)
             at == [n \in 0..L |-> Len(f[n])]
  <1>2. L \in Nat /\ DOMAIN ss = 1..L /\ \A n \in 1..L : ss[n] \in Seq(S)
    OBVIOUS
  <1>3. /\ \A n \in 0..L : f[n] \in Seq(S)
        /\ f[0] = <<>>
        /\ \A n \in 1..L : f[n] = f[n - 1] \o ss[n]
    BY <1>1 DEF Flattening
  <1>4. FlattenSeq(ss) = f[L]
    BY <1>1, FlattenIsLast
  <1>5. at \in [0..L -> Nat] /\ \A n \in 0..L : at[n] = Len(f[n])
    BY <1>3
  <1> HIDE DEF L, at
  <1>6. at[0] = 0
    BY <1>2, <1>3, <1>5
  <1>7. ASSUME NEW n \in 1..L
        PROVE  /\ n - 1 \in 0..L /\ n \in 0..L
               /\ at[n] = at[n - 1] + Len(ss[n]) /\ Len(ss[n]) \in Nat
               /\ \A j \in 1..at[n - 1] : f[n][j] = f[n - 1][j]
               /\ \A k \in 1..Len(ss[n]) : f[n][at[n - 1] + k] = ss[n][k]
    <2>1. n - 1 \in 0..L /\ n \in 0..L
      BY <1>2
    <2> DEFINE a == f[n - 1]
               b == ss[n]
    <2>2. a \in Seq(S) /\ b \in Seq(S) /\ f[n] = a \o b
      BY <1>2, <1>3, <2>1
    <2>3. at[n] = Len(a \o b) /\ at[n - 1] = Len(a)
      BY <1>5, <2>1, <2>2
    <2> HIDE DEF a, b
    <2>4. Len(a \o b) = Len(a) + Len(b) /\ Len(b) \in Nat /\ Len(a) \in Nat
      BY <2>2
    <2>5. \A j \in 1..Len(a) : (a \o b)[j] = a[j]
      BY <2>2
    <2>6. \A k \in 1..Len(b) : (a \o b)[Len(a) + k] = b[k]
      BY <2>2
    <2> QED BY <2>1, <2>2, <2>3, <2>4, <2>5, <2>6 DEF a, b
  \* What has been joined stays where it is.
  <1>8. ASSUME NEW m \in 0..L PROVE \A n \in 0..m : at[n] <= at[m] /\ \A j \in 1..at[n] : f[m][j] = f[n][j]
    <2> DEFINE Stays(x) == \A n \in 0..x : at[n] <= at[x] /\ \A j \in 1..at[n] : f[x][j] = f[n][j]
               Bad == {x \in 0..L : ~ Stays(x)}
    <2> SUFFICES ASSUME Bad # {} PROVE FALSE
      OBVIOUS
    <2>1. PICK x \in Bad : \A y \in Bad : x <= y
      <3> HIDE DEF Stays
      <3>1. Bad \in SUBSET Nat
        BY <1>2
      <3> HIDE DEF Bad
      <3> QED BY <3>1, LeastOne
    <2>2. x \in 0..L /\ ~ Stays(x)
      OBVIOUS
    <2>3. x # 0
      <3>1. ASSUME x = 0 PROVE Stays(x)
        BY <1>2, <1>5, <3>1
      <3> HIDE DEF Stays, Bad
      <3> QED BY <2>2, <3>1
    <2>4. x \in 1..L /\ x - 1 \in 0..L /\ ~ (x <= x - 1)
      BY <1>2, <2>2, <2>3
    <2>5. Stays(x - 1)
      <3> HIDE DEF Stays
      <3> QED BY <2>1, <2>4
    <2>6. at[x - 1] \in Nat /\ at[x] \in Nat /\ at[x - 1] <= at[x] /\ \A j \in 1..at[x - 1] : f[x][j] = f[x - 1][j]
      <3> HIDE DEF Bad, Stays
      <3>1. at[x - 1] \in Nat /\ at[x] \in Nat
        BY <1>5, <2>4
      <3>2. at[x] = at[x - 1] + Len(ss[x]) /\ Len(ss[x]) \in Nat
        BY <1>7, <2>4
      <3>3. \A j \in 1..at[x - 1] : f[x][j] = f[x - 1][j]
        BY <1>7, <2>4
      <3> QED BY <3>1, <3>2, <3>3
    <2>7. ASSUME NEW n \in 0..x PROVE at[n] <= at[x] /\ \A j \in 1..at[n] : f[x][j] = f[n][j]
      <3>1. CASE n = x
        BY <1>5, <2>6, <3>1
      <3>2. CASE n # x
        <4>1. n \in 0..(x - 1) /\ n \in 0..L
          BY <1>2, <2>4, <3>2
        <4>2. at[n] \in Nat /\ at[n] <= at[x - 1] /\ \A j \in 1..at[n] : f[x - 1][j] = f[n][j]
          BY <1>5, <2>5, <4>1
        <4> HIDE DEF Bad, Stays
        <4>3. \A j \in 1..at[n] : j \in 1..at[x - 1]
          BY <2>6, <4>2
        <4>4. at[n] <= at[x]
          BY <2>6, <4>2
        <4>5. \A j \in 1..at[n] : f[x][j] = f[n][j]
          BY <2>6, <4>2, <4>3
        <4> QED BY <4>4, <4>5
      <3> QED BY <3>1, <3>2
    <2> QED BY <2>2, <2>7
  <1>9. ASSUME NEW n \in 1..L, NEW k \in 1..Len(ss[n]) PROVE f[L][at[n - 1] + k] = ss[n][k]
    <2>1. at[n - 1] \in Nat /\ at[n] \in Nat /\ at[n] = at[n - 1] + Len(ss[n]) /\ Len(ss[n]) \in Nat
      BY <1>5, <1>7
    <2>2. at[n - 1] + k \in 1..at[n]
      BY <2>1
    <2>3. L \in 0..L /\ n \in 0..L
      BY <1>2
    <2>4. f[L][at[n - 1] + k] = f[n][at[n - 1] + k]
      BY <1>8, <2>2, <2>3
    <2> QED BY <1>7, <2>4
  <1>10. ASSUME NEW j \in 1..at[L] PROVE \E n \in 1..L : at[n - 1] < j /\ j <= at[n]
    <2> DEFINE D == {n \in 0..L : j <= at[n]}
    <2>1. L \in D /\ D \in SUBSET Nat
      BY <1>2
    <2>2. PICK n \in D : \A y \in D : n <= y
      <3> HIDE DEF D
      <3> QED BY <2>1, LeastOne
    <2>3. n \in 0..L /\ j <= at[n]
      OBVIOUS
    <2>4. n # 0
      BY <1>6, <2>3
    <2>5. n \in 1..L /\ n - 1 \in 0..L /\ ~ (n <= n - 1)
      BY <1>2, <2>3, <2>4
    <2>6. n - 1 \notin D
      <3> HIDE DEF D
      <3> QED BY <2>2, <2>5
    <2>7. at[n - 1] < j
      BY <1>2, <1>5, <2>5, <2>6
    <2> QED BY <2>3, <2>5, <2>7
  <1>11. Len(f[L]) = at[L]
    BY <1>2, <1>5
  <1>12. \A n \in 1..L : at[n] = at[n - 1] + Len(ss[n])
    BY <1>7
  <1>13. Placed(at, ss)
    BY <1>4, <1>5, <1>6, <1>8, <1>9, <1>10, <1>11, <1>12 DEF Placed, L
  <1> QED BY <1>13

-----------------------------------------------------------------------------
(***************************************************************************)
(* The clients: calls and their results.  If every message with calls is   *)
(* followed by their results or by words, so are the calls in what all     *)
(* messages tell.                                                          *)
(***************************************************************************)

\* What L messages tell, one after the other: the n-th is told behind the place at[n - 1] of e,
\* by l[n] items, of which the last c[n] are calls, or all are results, if r[n].
Answering(L, l, at, c, r, ss, e) ==
    /\ L \in Nat /\ Len(e) = at[L] /\ DOMAIN e = 1..at[L]
    /\ \A n \in 0..L : at[n] \in Nat
    /\ \A n \in 1..L : l[n] \in Nat /\ c[n] \in Nat /\ c[n] <= l[n]
    /\ \A n \in 1..L : at[n] = at[n - 1] + l[n]
    /\ \A m \in 0..L : \A n \in 0..m : at[n] <= at[m]
    /\ \A n \in 1..L : \A k \in 1..l[n] : e[at[n - 1] + k] = ss[n][k]
    /\ \A j \in 1..at[L] : \E n \in 1..L : at[n - 1] < j /\ j <= at[n]
    /\ \A n \in 1..L : \A k \in 1..l[n] : ss[n][k].is = "call" <=> k > l[n] - c[n]
    /\ \A n \in 1..L : \A k \in 1..l[n] : ss[n][k].is = "result" <=> r[n]
    /\ \A n \in 1..L : c[n] > 0 =>
         /\ n + 1 \in 1..L
         /\ \/ l[n + 1] = 1 /\ ss[n + 1][1].is = "user"
            \/ /\ r[n + 1] /\ l[n + 1] = c[n]
               /\ \A k \in 1..c[n] : ss[n + 1][k].key = ss[n][l[n] - c[n] + k].key
    /\ \A n \in 1..L : r[n] /\ l[n] > 0 =>
         /\ n - 1 \in 1..L
         /\ \/ c[n - 1] > 0
            \/ l[n - 1] = 1 /\ ss[n - 1][1].is = "user" /\ <<ss[n - 1][1]>> = Said("user", <<Summary>>)

\* Then it is paired.
LEMMA AnsweringIsPaired ==
    ASSUME NEW L, NEW l, NEW at, NEW c, NEW r, NEW ss, NEW e, Answering(L, l, at, c, r, ss, e)
    PROVE  Paired(e)
  <1>1. L \in Nat /\ 0 \in 0..L /\ L \in 0..L
    BY DEF Answering
  <1>2. \A n \in 1..L : l[n] \in Nat
    BY DEF Answering
  <1>3. /\ \A n \in 0..L : at[n] \in Nat
        /\ Len(e) = at[L]
        /\ \A n \in 1..L : at[n] = at[n - 1] + l[n]
        /\ \A m \in 0..L : \A n \in 0..m : at[n] <= at[m]
        /\ \A n \in 1..L : \A k \in 1..l[n] : e[at[n - 1] + k] = ss[n][k]
        /\ \A j \in 1..at[L] : \E n \in 1..L : at[n - 1] < j /\ j <= at[n]
    BY DEF Answering
  <1>4. /\ \A n \in 1..L : c[n] \in Nat
        /\ \A n \in 1..L : c[n] <= l[n]
        /\ \A n \in 1..L : \A k \in 1..l[n] : ss[n][k].is = "call" <=> k > l[n] - c[n]
        /\ \A n \in 1..L : \A k \in 1..l[n] : ss[n][k].is = "result" <=> r[n]
    BY DEF Answering
  <1>5. ASSUME NEW n \in 1..L, c[n] > 0
        PROVE  /\ n + 1 \in 1..L
               /\ \/ l[n + 1] = 1 /\ ss[n + 1][1].is = "user"
                  \/ /\ r[n + 1] /\ l[n + 1] = c[n]
                     /\ \A k \in 1..c[n] : ss[n + 1][k].key = ss[n][l[n] - c[n] + k].key
    BY <1>5 DEF Answering
  <1>6. ASSUME NEW n \in 1..L, r[n], l[n] > 0
        PROVE  /\ n - 1 \in 1..L
               /\ \/ c[n - 1] > 0
                  \/ l[n - 1] = 1 /\ ss[n - 1][1].is = "user" /\ <<ss[n - 1][1]>> = Said("user", <<Summary>>)
    BY <1>6 DEF Answering
  <1>7. DOMAIN e = 1..at[L] /\ at[L] \in Nat
    BY DEF Answering
  \* The piece that an item is of.
  <1>8. ASSUME NEW n \in 1..L
        PROVE  /\ at[n] \in Nat /\ at[n - 1] \in Nat /\ at[n] = at[n - 1] + l[n] /\ at[n] <= at[L]
               /\ l[n] \in Nat /\ c[n] \in Nat /\ n \in Nat /\ n - 1 \in 0..L /\ n \in 0..L
               /\ \A k \in 1..l[n] : at[n - 1] + k \in 1..at[L]
    <2>1. n \in 0..L /\ n - 1 \in 0..L /\ L \in 0..L /\ n \in Nat
      BY <1>1
    <2>2. at[n] \in Nat /\ at[n - 1] \in Nat /\ at[L] \in Nat /\ at[n] = at[n - 1] + l[n] /\ at[n] <= at[L]
      BY <1>3, <2>1
    <2> QED BY <1>2, <1>4, <2>1, <2>2
  <1>9. ASSUME NEW j \in 1..at[L]
        PROVE  \E n \in 1..L : j - at[n - 1] \in 1..l[n] /\ e[j] = ss[n][j - at[n - 1]]
    <2>1. PICK n \in 1..L : at[n - 1] < j /\ j <= at[n]
      BY <1>3
    <2>2. j - at[n - 1] \in 1..l[n] /\ at[n - 1] + (j - at[n - 1]) = j
      BY <1>7, <1>8, <2>1
    <2>3. e[at[n - 1] + (j - at[n - 1])] = ss[n][j - at[n - 1]]
      BY <1>3, <2>2
    <2> QED BY <2>2, <2>3
  <1>10. ASSUME NEW i \in DOMAIN e, e[i].is = "result"
         PROVE  i > 1 /\ (e[i - 1].is \in {"call", "result"} \/ <<e[i - 1]>> = Said("user", <<Summary>>))
    <2>1. PICK n \in 1..L : i - at[n - 1] \in 1..l[n] /\ e[i] = ss[n][i - at[n - 1]]
      BY <1>7, <1>9
    <2> DEFINE k == i - at[n - 1]
    <2>2. i \in Nat /\ k \in 1..l[n] /\ e[i] = ss[n][k] /\ i = at[n - 1] + k
      BY <1>7, <1>8, <2>1
    <2> HIDE DEF k
    <2>3. r[n] /\ l[n] > 0
      BY <1>4, <1>8, <1>10, <2>2
    <2>4. CASE k > 1
      <3>1. k - 1 \in 1..l[n] /\ i - 1 = at[n - 1] + (k - 1) /\ i > 1
        BY <1>8, <2>2, <2>4
      <3>2. e[i - 1] = ss[n][k - 1]
        BY <1>3, <3>1
      <3>3. e[i - 1].is = "result"
        BY <1>4, <2>3, <3>1, <3>2
      <3> QED BY <3>1, <3>3
    <2>5. CASE k = 1
      <3> DEFINE m == n - 1
      <3>1. m \in 1..L
        BY <1>6, <2>3
      <3>2. \/ c[m] > 0
            \/ l[m] = 1 /\ ss[m][1].is = "user" /\ <<ss[m][1]>> = Said("user", <<Summary>>)
        BY <1>6, <2>3
      <3>3. i - 1 = at[m]
        BY <1>8, <2>2, <2>5
      <3> HIDE DEF m
      <3>4. l[m] \in 1..l[m] /\ at[m] = at[m - 1] + l[m] /\ at[m] > 0
        BY <1>4, <1>8, <3>1, <3>2
      <3>5. e[i - 1] = ss[m][l[m]] /\ i > 1
        <4>1. e[at[m - 1] + l[m]] = ss[m][l[m]]
          BY <1>3, <3>1, <3>4
        <4>2. at[m] \in Nat
          BY <1>8, <3>1
        <4> QED BY <2>2, <3>3, <3>4, <4>1, <4>2
      <3>6. c[m] > 0 => e[i - 1].is = "call"
        <4>1. c[m] > 0 => l[m] > l[m] - c[m]
          BY <1>8, <3>1
        <4> QED BY <1>4, <3>1, <3>4, <3>5, <4>1
      <3> QED BY <3>2, <3>5, <3>6
    <2> QED BY <1>8, <2>2, <2>4, <2>5
  <1>11. ASSUME NEW i \in DOMAIN e, e[i].is = "call", i = 1 \/ e[i - 1].is # "call"
         PROVE  LET n == Cardinality(Group(e, i))
                IN \/ /\ i + 2 * n - 1 <= Len(e)
                      /\ \A j \in Group(e, i) : e[j + n].is = "result" /\ e[j + n].key = e[j].key
                      /\ i + 2 * n <= Len(e) => e[i + 2 * n].is # "result"
                   \/ i + n <= Len(e) /\ e[i + n].is = "user"
    <2>1. PICK n \in 1..L : i - at[n - 1] \in 1..l[n] /\ e[i] = ss[n][i - at[n - 1]]
      BY <1>7, <1>9
    <2> DEFINE k == i - at[n - 1]
               D == l[n] - c[n]
               A == at[n]
               q == n + 1
    <2>2. i \in Nat /\ k \in 1..l[n] /\ e[i] = ss[n][k] /\ i = at[n - 1] + k
      BY <1>7, <1>8, <2>1
    <2>3. D \in Nat /\ c[n] \in Nat /\ l[n] = D + c[n] /\ A \in Nat /\ A = at[n - 1] + (D + c[n]) /\ at[n - 1] \in Nat
      BY <1>4, <1>8
    <2> HIDE DEF k
    <2>4. k > D /\ c[n] > 0
      <3>1. k > D
        BY <1>4, <1>11, <2>2
      <3> QED BY <2>2, <2>3, <3>1
    <2>5. k = D + 1
      <3> SUFFICES ASSUME k # D + 1 PROVE FALSE
        OBVIOUS
      <3>1. k - 1 \in 1..l[n] /\ k - 1 > D /\ i - 1 = at[n - 1] + (k - 1) /\ i # 1
        BY <2>2, <2>3, <2>4
      <3>2. e[i - 1] = ss[n][k - 1]
        BY <1>3, <3>1
      <3>3. e[i - 1].is = "call"
        BY <1>4, <3>1, <3>2
      <3> QED BY <1>11, <3>1, <3>3
    <2>6. i = at[n - 1] + D + 1 /\ A = i + c[n] - 1
      BY <2>2, <2>3, <2>5
    \* The calls of the piece.
    <2>7. ASSUME NEW j \in i..A
          PROVE  /\ j - i + 1 \in 1..c[n]
                 /\ e[j] = ss[n][D + (j - i + 1)] /\ e[j].is = "call"
                 /\ j \in 1..at[L]
      <3>1. j \in Nat /\ j - i + 1 \in 1..c[n] /\ D + (j - i + 1) \in 1..l[n] /\ D + (j - i + 1) > D
            /\ j = at[n - 1] + (D + (j - i + 1))
        BY <2>2, <2>3, <2>6
      <3>2. e[j] = ss[n][D + (j - i + 1)]
        BY <1>3, <3>1
      <3>3. e[j].is = "call"
        BY <1>4, <3>1, <3>2
      <3>4. j \in 1..at[L]
        BY <1>8, <3>1
      <3> QED BY <3>1, <3>2, <3>3, <3>4
    <2>8. /\ q \in 1..L
          /\ \/ l[q] = 1 /\ ss[q][1].is = "user"
             \/ /\ r[q] /\ l[q] = c[n]
                /\ \A x \in 1..c[n] : ss[q][x].key = ss[n][D + x].key
      BY <1>5, <2>4
    <2>9. /\ at[q] \in Nat /\ at[q] = A + l[q] /\ at[q] <= at[L]
          /\ l[q] \in Nat /\ l[q] > 0
          /\ \A x \in 1..l[q] : e[A + x] = ss[q][x] /\ A + x \in 1..at[L]
      <3>1. q - 1 = n
        BY <1>8
      <3>2. l[q] > 0
        BY <2>3, <2>4, <2>8
      <3> HIDE DEF q
      <3> QED BY <1>3, <1>8, <2>8, <3>1, <3>2
    <2> HIDE DEF q, D, A
    <2>10. A + 1 \in 1..at[L] /\ e[A + 1].is # "call"
      <3>1. 1 \in 1..l[q]
        BY <2>9
      <3>2. e[A + 1] = ss[q][1] /\ A + 1 \in 1..at[L]
        BY <2>9, <3>1
      <3>3. ss[q][1].is \in {"user", "result"}
        BY <1>4, <2>8, <3>1
      <3> QED BY <3>2, <3>3
    <2>11. Group(e, i) = i..A
      <3>1. \A j \in i..A : j \in DOMAIN e /\ i <= j /\ \A x \in i..j : e[x].is = "call"
        <4> TAKE j \in i..A
        <4>1. \A x \in i..j : x \in i..A
          BY <2>2, <2>3
        <4>2. i <= j
          BY <2>2, <2>3
        <4> QED BY <1>7, <2>7, <4>1, <4>2
      <3>2. ASSUME NEW j \in DOMAIN e, i <= j, \A x \in i..j : e[x].is = "call" PROVE j \in i..A
        <4>1. j \in Nat
          BY <1>7
        <4>2. CASE j <= A
          BY <2>2, <2>3, <3>2, <4>1, <4>2
        <4>3. CASE j > A
          <5>1. A + 1 \in i..j
            BY <2>2, <2>3, <2>6, <4>1, <4>3
          <5> QED BY <2>10, <3>2, <5>1
        <4> QED BY <2>3, <4>1, <4>2, <4>3
      <3>3. \A j \in i..A : j \in Group(e, i)
        BY <3>1 DEF Group
      <3>4. \A j \in Group(e, i) : j \in i..A
        BY <3>2 DEF Group
      <3> QED BY <3>3, <3>4
    <2>12. Cardinality(Group(e, i)) = c[n]
      <3>1. i \in Int /\ A \in Int /\ i <= A /\ A - i + 1 = c[n]
        BY <2>2, <2>3, <2>4, <2>6
      <3>2. Cardinality(i..A) = A - i + 1
        BY <3>1, FS_Interval
      <3> QED BY <2>11, <3>1, <3>2
    <2>13. CASE l[q] = 1 /\ ss[q][1].is = "user"
      <3>1. 1 \in 1..l[q] /\ i + c[n] = A + 1
        BY <2>2, <2>3, <2>6, <2>13
      <3>2. e[i + c[n]].is = "user" /\ i + c[n] <= Len(e)
        <4>1. e[A + 1] = ss[q][1]
          BY <2>9, <3>1
        <4>2. A + 1 <= Len(e)
          BY <1>3, <1>7, <2>10
        <4> QED BY <2>13, <3>1, <4>1, <4>2
      <3> QED BY <2>12, <3>2
    <2>14. CASE r[q] /\ l[q] = c[n] /\ \A x \in 1..c[n] : ss[q][x].key = ss[n][D + x].key
      <3>1. i + 2 * c[n] - 1 = at[q] /\ i + 2 * c[n] = at[q] + 1 /\ at[q] <= Len(e)
        <4> DEFINE x == c[n]
                   y == at[q]
        <4>1. i \in Nat /\ x \in Nat /\ A \in Nat /\ y \in Nat /\ A = i + x - 1 /\ y = A + x
          BY <2>2, <2>3, <2>6, <2>9, <2>14
        <4>2. y <= Len(e)
          BY <1>3, <2>9
        <4> HIDE DEF x, y
        <4>3. i + 2 * x - 1 = y /\ i + 2 * x = y + 1
          BY <4>1
        <4> QED BY <4>2, <4>3 DEF x, y
      <3>2. ASSUME NEW j \in i..A PROVE e[j + c[n]].is = "result" /\ e[j + c[n]].key = e[j].key
        <4> DEFINE x == j - i + 1
        <4>1. x \in 1..c[n] /\ e[j] = ss[n][D + x]
          BY <2>7
        <4>2. j + c[n] = A + x
          BY <2>2, <2>3, <2>6
        <4> HIDE DEF x
        <4>3. e[A + x] = ss[q][x]
          BY <2>9, <2>14, <4>1
        <4>4. ss[q][x].is = "result"
          BY <1>4, <2>8, <2>14, <4>1
        <4> QED BY <2>14, <4>1, <4>2, <4>3, <4>4
      <3>3. ASSUME at[q] + 1 <= Len(e), e[at[q] + 1].is = "result" PROVE FALSE
        <4>1. at[q] + 1 \in 1..at[L]
          <5>1. Len(e) = at[L] /\ at[L] \in Nat /\ at[q] \in Nat
            BY <1>3, <1>7, <2>9
          <5> QED BY <3>3, <5>1
        <4> DEFINE y == at[q] + 1
        <4>y. y \in 1..at[L] /\ y \in Nat
          BY <2>9, <4>1
        <4> HIDE DEF y
        <4>2. PICK m \in 1..L : y - at[m - 1] \in 1..l[m] /\ e[y] = ss[m][y - at[m - 1]]
          BY <1>9, <4>y
        <4> DEFINE z == y - at[m - 1]
        <4>3. z \in 1..l[m] /\ e[at[q] + 1] = ss[m][z] /\ at[q] + 1 = at[m - 1] + z
          <5>1. z \in 1..l[m] /\ e[y] = ss[m][z] /\ y = at[m - 1] + z
            BY <1>8, <4>2, <4>y
          <5> QED BY <5>1 DEF y
        <4> HIDE DEF z
        <4>4. r[m] /\ l[m] > 0
          BY <1>4, <1>8, <3>3, <4>3
        <4> DEFINE o == m - 1
        <4>5. /\ o \in 1..L
              /\ c[o] > 0 \/ (l[o] = 1 /\ ss[o][1].is = "user")
          BY <1>6, <4>4
        <4>6. at[q] + 1 = at[o] + z /\ z \in Nat /\ z > 0 /\ z <= l[m] /\ at[m] = at[o] + l[m] /\ m = o + 1
          BY <1>8, <4>3
        <4> HIDE DEF o
        <4>7. l[o] > 0 /\ at[o] = at[o - 1] + l[o] /\ at[o] \in Nat /\ at[o - 1] \in Nat
              /\ l[o] \in Nat
          BY <1>4, <1>8, <4>5
        <4>8. q \in Nat /\ o \in Nat /\ m \in Nat /\ q \in 0..L /\ m \in 0..L /\ o - 1 \in 0..L
          BY <1>8, <2>8, <4>5
        <4>9. ~ (m <= q)
          <5>1. m <= q => at[m] <= at[q]
            BY <1>3, <4>8
          <5> QED BY <1>8, <2>9, <4>6, <4>7, <5>1
        <4>10. ~ (q <= o - 1)
          <5>1. q <= o - 1 => at[q] <= at[o - 1]
            BY <1>3, <4>8
          <5> QED BY <2>9, <4>6, <4>7, <5>1
        <4>11. o = q
          BY <4>6, <4>8, <4>9, <4>10
        <4>12. 1 \in 1..l[q] /\ ss[q][1].is = "result"
          BY <1>4, <2>8, <2>9, <2>14
        <4>13. c[q] = 0
          <5>1. ~ (1 > l[q] - c[q])
            BY <1>4, <2>8, <4>12
          <5>2. l[q] \in 1..l[q] /\ ~ (l[q] > l[q] - c[q])
            <6>1. l[q] \in 1..l[q]
              BY <2>9
            <6>2. ss[q][l[q]].is = "result"
              BY <1>4, <2>8, <2>14, <6>1
            <6> QED BY <1>4, <2>8, <6>1, <6>2
          <5> QED BY <1>8, <2>8, <2>9, <5>2
        <4> QED BY <4>5, <4>11, <4>12, <4>13
      <3> QED BY <2>11, <2>12, <3>1, <3>2, <3>3
    <2> QED BY <2>8, <2>13, <2>14
  <1> QED BY <1>10, <1>11 DEF Paired

-----------------------------------------------------------------------------
(***************************************************************************)
(* The clients: the order of messages.  What may stand behind what in a    *)
(* history, and which items each kind of messages tells.                   *)
(***************************************************************************)

\* Where calls can be traced, their ids lead to their names.
LEMMA NameFound ==
    ASSUME NEW h \in Seq(Message), Traceable(h), NEW i \in DOMAIN h, NEW k \in DOMAIN Calls(h[i])
    PROVE  NameOf(h, Calls(h[i])[k].id) = Calls(h[i])[k].name
  <1> DEFINE id == Calls(h[i])[k].id
             named == {j \in DOMAIN h : WithId(h[j], id) # {} /\ NameIn(h[j], id) # ""}
  <1>1. /\ \A x \in DOMAIN Calls(h[i]) : Calls(h[i])[x].id = id => x = k
        /\ \A j \in DOMAIN h : \A x \in DOMAIN Calls(h[j]) : Calls(h[j])[x].id = id => j = i
        /\ Calls(h[i])[k].name # ""
    BY DEF Traceable
  <1>2. \A j \in DOMAIN h : h[j] \in Message
    OBVIOUS
  <1>3. NameOf(h, id) = IF named = {} THEN "unknown_tool" ELSE NameIn(h[Min(named)], id)
    BY DEF NameOf
  <1>4. k \in WithId(h[i], id)
    BY DEF WithId
  <1>5. DOMAIN h \in SUBSET Nat
    OBVIOUS
  <1> HIDE DEF id
  <1>6. NameIn(h[i], id) = Calls(h[i])[k].name
    <2>1. Min(WithId(h[i], id)) \in DOMAIN Calls(h[i]) /\ Calls(h[i])[Min(WithId(h[i], id))].id = id
      BY <1>2, <1>4, FirstWithId
    <2>2. Min(WithId(h[i], id)) = k
      BY <1>1, <2>1
    <2> QED BY <2>2 DEF NameIn
  <1>7. i \in named /\ named \in SUBSET Nat
    BY <1>1, <1>4, <1>5, <1>6
  <1>8. \A j \in named : j = i
    <2> SUFFICES ASSUME NEW j \in named PROVE j = i
      OBVIOUS
    <2>1. j \in DOMAIN h /\ WithId(h[j], id) # {}
      OBVIOUS
    <2>2. Min(WithId(h[j], id)) \in DOMAIN Calls(h[j]) /\ Calls(h[j])[Min(WithId(h[j], id))].id = id
      BY <1>2, <2>1, FirstWithId
    <2> QED BY <1>1, <2>1, <2>2
  <1> HIDE DEF named
  <1>9. Min(named) = i
    <2>1. Min(named) \in named
      BY <1>7, MinFact
    <2> QED BY <1>8, <2>1
  <1> QED BY <1>3, <1>6, <1>7, <1>9 DEF id

\* A message with calls; what may stand behind a message; and that it does.
Asks(m) == m \in Replied /\ Calls(m) # <<>>
Follows(a, b) ==
    /\ Asks(a) => b \in Worded \/ b = Blocks("user", ResultsOf(a))
    /\ b \in Gathered =>
         a = Plain("user", <<Summary>>) \/ (Asks(a) /\ b = Blocks("user", ResultsOf(a)))
InOrder(h) ==
    /\ h # <<>> => h[1] \notin Gathered
    /\ \A i \in 1..Len(h) : i + 1 \in 1..Len(h) => Follows(h[i], h[i + 1])

\* What is gathered for a message has a result for each of its calls.
LEMMA ResultsOfType ==
    ASSUME NEW m \in Message
    PROVE  /\ ResultsOf(m) \in Seq(ResultBlock)
           /\ Len(ResultsOf(m)) = Len(Calls(m))
           /\ \A k \in 1..Len(Calls(m)) : ResultsOf(m)[k].id = Calls(m)[k].id
           /\ Blocks("user", ResultsOf(m)) \in Gathered
  <1> DEFINE c == Calls(m)
             L == Len(c)
             r == ResultsOf(m)
  <1>1. L \in Nat /\ DOMAIN c = 1..L /\ \A k \in 1..L : c[k] \in CallBlock
    <2>1. c \in Seq(CallBlock)
      BY MessageParts
    <2> HIDE DEF c
    <2> QED BY <2>1
  <1>2. \A k \in 1..L : c[k].id \in Nat
    BY <1>1 DEF CallBlock
  <1>3. r = [k \in 1..L |-> Result(c[k].id, k)]
    BY <1>1 DEF ResultsOf
  <1> HIDE DEF c, L, r
  <1>4. \A k \in 1..L : r[k] = Result(c[k].id, k)
    BY <1>3
  <1>5. \A k \in 1..L : r[k] \in ResultBlock /\ r[k].id = c[k].id
    <2> SUFFICES ASSUME NEW k \in 1..L PROVE r[k] \in ResultBlock /\ r[k].id = c[k].id
      OBVIOUS
    <2>1. c[k].id \in Nat /\ k \in Nat
      BY <1>1, <1>2
    <2>2. \A i, x \in Nat : Result(i, x) \in ResultBlock /\ Result(i, x).id = i
      BY DEF Result, ResultBlock
    <2> QED BY <1>4, <2>1, <2>2
  <1>6. r = [k \in 1..L |-> r[k]]
    BY <1>3
  <1>7. r \in Seq(ResultBlock)
    BY <1>1, <1>5, <1>6, ListType
  <1>8. Len(r) = L
    BY <1>1, <1>3, <1>7
  <1>9. Blocks("user", r) \in Gathered
    BY <1>7 DEF Blocks, Gathered
  <1> QED BY <1>5, <1>7, <1>8, <1>9 DEF c, L, r

\* The items of what each kind of messages tells.
LEMMA PieceItems ==
    ASSUME NEW h \in Seq(Message), NEW p, NEW m \in Message
    PROVE  LET s == Piece(p, h, m)
               c == Len(Calls(m))
           IN /\ Len(s) \in Nat /\ c \in Nat /\ c <= Len(s)
              /\ \A k \in 1..Len(s) : s[k].is = "call" <=> k > Len(s) - c
              /\ \A k \in 1..Len(s) : s[k].is = "result" <=> m \in Gathered
              /\ \A k \in 1..c : s[Len(s) - c + k].key = CallKey(p, Calls(m)[k])
              /\ m \in Worded => Len(s) = 1 /\ s[1].is = "user" /\ <<s[1]>> = Said("user", m.content)
              /\ m \in Gathered =>
                   /\ Len(s) = Len(m.content)
                   /\ \A k \in 1..Len(s) : s[k].key = ResultKey(p, h, m.content[k])
              /\ c > 0 => m \in Replied
  <1>00. \A t, w \in Seq(STRING), u \in Seq(CallBlock) :
           LET a == Blocks("assistant", BlocksOf(t, w, u))
           IN /\ Piece(p, h, a) = Said("assistant", w) \o CallsTold(p, u)
              /\ a.role = "assistant" /\ ~ a.plain
    <2>1. AnswersTold(p, h)
      BY AnswerPiece
    <2> QED BY <2>1 DEF AnswersTold
  <1>1. CASE m \in Worded
    <2> DEFINE w == m.content
    <2>1. m.plain /\ w \in Seq(STRING) /\ w # <<>> /\ m \notin Gathered
      BY <1>1 DEF Worded, Gathered
    <2>2. Calls(m) = <<>> /\ Len(Calls(m)) = 0
      BY <2>1 DEF Calls
    <2>3. Piece(p, h, m) = Said("user", w)
      BY <1>1, WordedPiece
    <2> HIDE DEF w
    <2>4. Piece(p, h, m) = <<[is |-> "user", words |-> w]>> /\ Said("user", w) = <<[is |-> "user", words |-> w]>>
      BY <2>1, <2>3 DEF Said
    <2> DEFINE x == [is |-> "user", words |-> w]
               s == Piece(p, h, m)
    <2>5. x.is = "user"
      OBVIOUS
    <2> HIDE DEF x, s
    <2>6. s = <<x>> /\ Said("user", w) = <<x>>
      BY <2>4 DEF x, s
    <2>7. Len(s) = 1 /\ s[1] = x
      BY <2>6
    <2>8. <<s[1]>> = Said("user", w)
      BY <2>6, <2>7
    <2>9. \A k \in 1..Len(s) : k = 1
      BY <2>7
    <2> QED BY <2>1, <2>2, <2>5, <2>7, <2>8, <2>9 DEF s, w
  <1>2. CASE m \in Replied
    <2>1. PICK t, w \in Seq(STRING), u \in Seq(CallBlock) : m = Blocks("assistant", BlocksOf(t, w, u))
      BY <1>2 DEF Replied
    <2>2. m.role = "assistant" /\ ~ m.plain /\ Piece(p, h, m) = Said("assistant", w) \o CallsTold(p, u)
      BY <1>00, <2>1
    <2>3. Calls(m) = u
      BY <2>1, AnswerParts
    <2>4. m \notin Gathered /\ m \notin Worded
      BY <2>2 DEF Gathered, Worded
    <2> DEFINE a == Said("assistant", w)
               b == CallsTold(p, u)
               s == Piece(p, h, m)
               L == Len(u)
               A == Len(a)
    <2>5. A \in Nat /\ a \in Seq(Item) /\ \A k \in 1..A : a[k].is = "assistant"
      <3>1. a \in Seq(Item)
        BY SaidType
      <3>2. CASE w = <<>>
        BY <3>2 DEF Said
      <3>3. CASE w # <<>>
        <4> DEFINE x == [is |-> "assistant", words |-> w]
        <4>1. a = <<x>> /\ x.is = "assistant"
          BY <3>3 DEF Said
        <4> HIDE DEF x
        <4> QED BY <3>1, <4>1
      <3> QED BY <3>1, <3>2, <3>3
    <2>6. L \in Nat /\ Len(b) = L /\ b \in Seq(Item) /\ DOMAIN u = 1..L
      <3>1. b \in Seq(Item) /\ DOMAIN b = DOMAIN u
        BY CallsToldType
      <3>2. L \in Nat /\ DOMAIN u = 1..L
        OBVIOUS
      <3> HIDE DEF b, L
      <3> QED BY <3>1, <3>2
    <2>7. \A k \in 1..L : b[k].is = "call" /\ b[k].key = CallKey(p, u[k])
      <3>1. \A k \in DOMAIN u : b[k] = Called(CallKey(p, u[k]), u[k].name, u[k].input)
        BY CallsToldType
      <3>2. \A x, y, z : Called(x, y, z).is = "call" /\ Called(x, y, z).key = x
        BY DEF Called
      <3> HIDE DEF b, L
      <3>3. ASSUME NEW k \in 1..L PROVE b[k].is = "call" /\ b[k].key = CallKey(p, u[k])
        <4>1. b[k] = Called(CallKey(p, u[k]), u[k].name, u[k].input)
          BY <2>6, <3>1
        <4> QED BY <3>2, <4>1
      <3> QED BY <3>3
    <2> HIDE DEF a, b, s, L, A
    <2>8. s = a \o b
      BY <2>2 DEF s, a, b
    <2>9. /\ Len(s) = A + L
          /\ \A k \in 1..A : s[k] = a[k]
          /\ \A k \in 1..L : s[A + k] = b[k]
      <3>1. Len(a) = A
        BY DEF A
      <3>2. Len(a \o b) = Len(a) + Len(b)
        BY <2>5, <2>6, ConcatProperties
      <3>3. \A k \in 1..Len(a) : (a \o b)[k] = a[k]
        BY <2>5, <2>6
      <3>4. \A k \in 1..Len(b) : (a \o b)[Len(a) + k] = b[k]
        BY <2>5, <2>6
      <3> QED BY <2>6, <2>8, <3>1, <3>2, <3>3, <3>4, SMTT(30)
    <2>10. ASSUME NEW k \in 1..Len(s) PROVE (s[k].is = "call" <=> k > A) /\ s[k].is # "result"
      <3>1. CASE k \in 1..A
        BY <2>5, <2>9, <3>1
      <3>2. CASE k \notin 1..A
        <4> DEFINE x == k - A
        <4>1. x \in 1..L /\ k = A + x /\ k > A
          BY <2>5, <2>6, <2>9, <3>2
        <4> HIDE DEF x
        <4>2. s[k] = b[x]
          BY <2>9, <4>1
        <4> QED BY <2>7, <4>1, <4>2
      <3> QED BY <3>1, <3>2
    <2>11. /\ Len(s) - L = A /\ Len(s) \in Nat /\ L <= Len(s)
           /\ \A k \in 1..L : s[A + k].key = CallKey(p, u[k])
      BY <2>5, <2>6, <2>7, <2>9
    <2> QED BY <1>2, <2>3, <2>4, <2>6, <2>10, <2>11 DEF s, L
  <1>3. CASE m \in Gathered
    <2> DEFINE r == m.content
               s == Piece(p, h, m)
    <2>1. /\ s = ResultsTold(p, h, r) /\ r \in Seq(ResultBlock) /\ m = Blocks("user", r)
          /\ m.role = "user" /\ ~ m.plain
      BY <1>3, GatheredPiece
    <2>2. Calls(m) = <<>> /\ Len(Calls(m)) = 0
      <3>1. \A role : Calls(Blocks(role, r)) = <<>>
        BY <2>1, ResultsParts
      <3> QED BY <2>1, <3>1
    <2>3. m \notin Worded
      BY <2>1 DEF Worded
    <2>4. /\ s \in Seq(Item) /\ DOMAIN s = DOMAIN r
          /\ \A k \in DOMAIN r : s[k] = Returned(ResultKey(p, h, r[k]), r[k].content)
      BY <2>1, ResultsToldType
    <2> HIDE DEF s, r
    <2>5. Len(s) \in Nat /\ Len(s) = Len(r) /\ DOMAIN s = 1..Len(s)
      BY <2>1, <2>4
    <2>6. \A k \in 1..Len(s) : s[k].is = "result" /\ s[k].key = ResultKey(p, h, r[k])
      BY <2>4, <2>5 DEF Returned
    <2>7. \A k \in 1..Len(s) : ~ (k > Len(s) - 0)
      BY <2>5
    <2> QED BY <1>3, <2>2, <2>3, <2>5, <2>6, <2>7 DEF s, r
  <1> QED BY <1>1, <1>2, <1>3 DEF Message

-----------------------------------------------------------------------------
(***************************************************************************)
(* The clients: a history in order.                                        *)
(***************************************************************************)

\* What is told of a history in order that does not end with an answer is paired.
LEMMA HistoryIsPaired ==
    ASSUME NEW h \in Seq(Message), InOrder(h), h # <<>> => h[Len(h)] \notin Replied,
           NEW p, p = "gemini" => Traceable(h)
    PROVE  Paired(FlattenSeq([i \in DOMAIN h |-> Piece(p, h, h[i])]))
  <1> DEFINE L == Len(h)
             ss == [i \in DOMAIN h |-> Piece(p, h, h[i])]
             e == FlattenSeq(ss)
             l == [n \in 1..L |-> Len(Piece(p, h, h[n]))]
             c == [n \in 1..L |-> Len(Calls(h[n]))]
             r == [n \in 1..L |-> h[n] \in Gathered]
  <1>1. L \in Nat /\ DOMAIN h = 1..L /\ \A n \in 1..L : h[n] \in Message
    OBVIOUS
  <1>2. ss \in Seq(Seq(Item)) /\ Len(ss) = L /\ \A n \in 1..L : ss[n] = Piece(p, h, h[n])
    <2> DEFINE Y == Seq(Item)
    <2>1. DOMAIN ss = 1..L /\ \A n \in 1..L : ss[n] \in Y /\ ss[n] = Piece(p, h, h[n])
      BY <1>1, PieceType
    <2>2. ss = [n \in 1..L |-> ss[n]]
      BY <2>1
    <2> HIDE DEF Y, ss, L
    <2>3. ss \in Seq(Y)
      BY <1>1, <2>1, <2>2, ListType
    <2>4. Len(ss) = L
      BY <1>1, <2>1, <2>3
    <2> QED BY <2>1, <2>3, <2>4 DEF Y
  <1>3. /\ \A n \in 1..L : l[n] = Len(Piece(p, h, h[n])) /\ l[n] = Len(ss[n])
        /\ \A n \in 1..L : c[n] = Len(Calls(h[n]))
        /\ \A n \in 1..L : r[n] <=> h[n] \in Gathered
    <2> HIDE DEF ss
    <2> QED BY <1>2
  <1>4. PICK at : Placed(at, ss)
    <2> HIDE DEF ss
    <2> QED BY <1>2, PlacesExist
  <1>5. e \in Seq(Item)
    <2> HIDE DEF ss
    <2> QED BY <1>2, FlattenType
  <1> HIDE DEF ss, e, l, c, r
  <1>6. /\ at \in [0..L -> Nat]
        /\ \A n \in 1..L : at[n] = at[n - 1] + l[n]
        /\ \A m \in 0..L : \A n \in 0..m : at[n] <= at[m]
        /\ Len(e) = at[L]
        /\ \A n \in 1..L : \A k \in 1..l[n] : e[at[n - 1] + k] = ss[n][k]
        /\ \A j \in 1..at[L] : \E n \in 1..L : at[n - 1] < j /\ j <= at[n]
    BY <1>2, <1>3, <1>4 DEF Placed, e
  <1>7. DOMAIN e = 1..at[L]
    BY <1>5, <1>6
  <1> HIDE DEF L
  \* The items of the n-th piece.
  <1>8. ASSUME NEW n \in 1..L
        PROVE  /\ l[n] \in Nat /\ c[n] \in Nat /\ c[n] <= l[n]
               /\ \A k \in 1..l[n] : ss[n][k].is = "call" <=> k > l[n] - c[n]
               /\ \A k \in 1..l[n] : ss[n][k].is = "result" <=> r[n]
               /\ \A k \in 1..c[n] : ss[n][l[n] - c[n] + k].key = CallKey(p, Calls(h[n])[k])
               /\ h[n] \in Worded => l[n] = 1 /\ ss[n][1].is = "user" /\ <<ss[n][1]>> = Said("user", h[n].content)
               /\ h[n] \in Gathered =>
                    /\ l[n] = Len(h[n].content)
                    /\ \A k \in 1..l[n] : ss[n][k].key = ResultKey(p, h, h[n].content[k])
               /\ c[n] > 0 => h[n] \in Replied
    <2> DEFINE m == h[n]
               s == ss[n]
    <2>1. m \in Message /\ s = Piece(p, h, m) /\ l[n] = Len(s) /\ c[n] = Len(Calls(m)) /\ (r[n] <=> m \in Gathered)
      BY <1>1, <1>2, <1>3
    <2> HIDE DEF m, s
    <2>2. /\ Len(s) \in Nat /\ Len(Calls(m)) \in Nat /\ Len(Calls(m)) <= Len(s)
          /\ \A k \in 1..Len(s) : s[k].is = "call" <=> k > Len(s) - Len(Calls(m))
          /\ \A k \in 1..Len(s) : s[k].is = "result" <=> m \in Gathered
          /\ \A k \in 1..Len(Calls(m)) : s[Len(s) - Len(Calls(m)) + k].key = CallKey(p, Calls(m)[k])
          /\ m \in Worded => Len(s) = 1 /\ s[1].is = "user" /\ <<s[1]>> = Said("user", m.content)
          /\ m \in Gathered =>
               /\ Len(s) = Len(m.content)
               /\ \A k \in 1..Len(s) : s[k].key = ResultKey(p, h, m.content[k])
          /\ Len(Calls(m)) > 0 => m \in Replied
      BY <2>1, PieceItems, SMTT(30)
    <2> QED BY <2>1, <2>2 DEF m, s
  \* The results that stand behind calls.
  <1>9. ASSUME NEW n \in 1..L, NEW q \in 1..L, h[q] = Blocks("user", ResultsOf(h[n]))
        PROVE  /\ r[q] /\ l[q] = c[n]
               /\ \A k \in 1..c[n] : ss[q][k].key = ss[n][l[n] - c[n] + k].key
    <2> DEFINE m == h[n]
               u == Calls(m)
               rs == ResultsOf(m)
    <2>1. /\ Len(rs) = Len(u) /\ \A k \in 1..Len(u) : rs[k].id = u[k].id
          /\ Blocks("user", rs) \in Gathered
      BY <1>1, ResultsOfType
    <2>2. u \in Seq(CallBlock)
      BY <1>1, MessageParts
    <2>3. h[q] \in Gathered /\ h[q].content = rs
      BY <1>9, <2>1 DEF Blocks
    <2>4. c[n] = Len(u)
      BY <1>3
    <2> HIDE DEF rs, u
    <2>5. r[q] /\ l[q] = c[n] /\ \A k \in 1..c[n] : ss[q][k].key = ResultKey(p, h, rs[k])
      BY <1>3, <1>8, <2>1, <2>3, <2>4
    <2>6. ASSUME NEW k \in 1..c[n] PROVE ResultKey(p, h, rs[k]) = CallKey(p, u[k])
      <3>1. rs[k].id = u[k].id /\ k \in DOMAIN u
        BY <2>1, <2>2, <2>4
      <3>2. CASE p = "gemini"
        <4>1. NameOf(h, u[k].id) = u[k].name
          BY <1>1, <3>1, <3>2, NameFound DEF u
        <4> QED BY <3>1, <3>2, <4>1 DEF ResultKey, CallKey
      <3>3. CASE p # "gemini"
        BY <3>1, <3>3 DEF ResultKey, CallKey
      <3> QED BY <3>2, <3>3
    <2>7. \A k \in 1..c[n] : ss[n][l[n] - c[n] + k].key = CallKey(p, u[k])
      BY <1>8 DEF u
    <2> QED BY <2>5, <2>6, <2>7
  <1>10. /\ \A n \in 1..L : n + 1 \in 1..L => Follows(h[n], h[n + 1])
         /\ L > 0 => h[1] \notin Gathered /\ h[L] \notin Replied
    <2>1. L > 0 => h # <<>>
      BY DEF L
    <2> QED BY <2>1 DEF InOrder, L
  <1>11. \A n \in 1..L : c[n] > 0 => Asks(h[n])
    <2> SUFFICES ASSUME NEW n \in 1..L, c[n] > 0 PROVE Asks(h[n])
      OBVIOUS
    <2>1. h[n] \in Replied /\ Len(Calls(h[n])) > 0
      BY <1>3, <1>8
    <2> QED BY <2>1 DEF Asks
  <1>12. \A n \in 1..L : Asks(h[n]) => c[n] > 0
    <2> SUFFICES ASSUME NEW n \in 1..L, Asks(h[n]) PROVE c[n] > 0
      OBVIOUS
    <2>1. Calls(h[n]) \in Seq(CallBlock) /\ Calls(h[n]) # <<>>
      BY <1>1, MessageParts DEF Asks
    <2>2. c[n] = Len(Calls(h[n]))
      BY <1>3
    <2> QED BY <2>1, <2>2
  <1>13. ASSUME NEW n \in 1..L, c[n] > 0
         PROVE  /\ n + 1 \in 1..L
                /\ \/ l[n + 1] = 1 /\ ss[n + 1][1].is = "user"
                   \/ /\ r[n + 1] /\ l[n + 1] = c[n]
                      /\ \A k \in 1..c[n] : ss[n + 1][k].key = ss[n][l[n] - c[n] + k].key
    <2>1. n # L
      BY <1>8, <1>10, <1>13
    <2> DEFINE q == n + 1
    <2>2. q \in 1..L
      BY <1>1, <2>1
    <2>3. h[q] \in Worded \/ h[q] = Blocks("user", ResultsOf(h[n]))
      BY <1>10, <1>11, <1>13, <2>2 DEF Follows
    <2> HIDE DEF q
    <2>4. \/ l[q] = 1 /\ ss[q][1].is = "user"
          \/ /\ r[q] /\ l[q] = c[n]
             /\ \A k \in 1..c[n] : ss[q][k].key = ss[n][l[n] - c[n] + k].key
      BY <1>8, <1>9, <2>2, <2>3
    <2> QED BY <2>2, <2>4 DEF q
  <1>14. ASSUME NEW n \in 1..L, r[n]
         PROVE  /\ n - 1 \in 1..L
                /\ \/ c[n - 1] > 0
                   \/ l[n - 1] = 1 /\ ss[n - 1][1].is = "user" /\ <<ss[n - 1][1]>> = Said("user", <<Summary>>)
    <2>1. h[n] \in Gathered
      BY <1>3, <1>14
    <2>2. n # 1
      BY <1>1, <1>10, <2>1
    <2> DEFINE m == n - 1
    <2>3. m \in 1..L /\ m + 1 = n
      BY <1>1, <2>2
    <2> HIDE DEF m
    <2>4. h[m] = Plain("user", <<Summary>>) \/ Asks(h[m])
      BY <1>10, <2>1, <2>3 DEF Follows
    <2>5. ASSUME h[m] = Plain("user", <<Summary>>)
          PROVE  l[m] = 1 /\ ss[m][1].is = "user" /\ <<ss[m][1]>> = Said("user", <<Summary>>)
      <3>1. h[m] \in Worded /\ h[m].content = <<Summary>>
        <4>1. <<Summary>> \in Seq(STRING) /\ <<Summary>> # <<>>
          BY LLMClientsAssumption
        <4>2. \A w \in Seq(STRING) : w # <<>> => Plain("user", w) \in Worded /\ Plain("user", w).content = w
          BY DEF Plain, Worded
        <4> QED BY <2>5, <4>1, <4>2, Zenon
      <3>2. h[m] \in Worded => l[m] = 1 /\ ss[m][1].is = "user" /\ <<ss[m][1]>> = Said("user", h[m].content)
        BY <1>8, <2>3
      <3> QED BY <3>1, <3>2, Zenon
    <2> QED BY <1>12, <2>3, <2>4, <2>5 DEF m
  <1>15. Answering(L, l, at, c, r, ss, e)
    <2>1. \A n \in 0..L : at[n] \in Nat
      BY <1>6
    <2> QED BY <1>1, <1>6, <1>7, <1>8, <1>13, <1>14, <2>1 DEF Answering
  <1>16. Paired(e)
    BY <1>15, AnsweringIsPaired
  <1> QED BY <1>16 DEF e, ss

-----------------------------------------------------------------------------
(***************************************************************************)
(* The clients: the invariant.                                             *)
(***************************************************************************)

\* The invariant: the request that is under way was made from the history as it is, which is
\* in order and ends with the user's side; the tools run for an answer with calls.
ClientTypes ==
    /\ history \in Seq(Message)
    /\ turn \in {"prompt", "call", "tools"}
    /\ ids \in Nat
RequestMade == turn = "call" => payload = Converted(provider, history)
UserIsLast  == turn = "call" => (history # <<>> => history[Len(history)] \notin Replied)
ToolsCalled == turn = "tools" => history # <<>> /\ Asks(history[Len(history)])
ClientInv   == ClientTypes /\ RequestMade /\ UserIsLast /\ ToolsCalled /\ InOrder(history)

\* Nothing is under way at the start.
LEMMA InitClient == ClientInit => ClientInv
  BY DEF ClientInit, ClientInv, ClientTypes, RequestMade, UserIsLast, ToolsCalled, InOrder

\* Who may stand behind whom.
LEMMA Behind ==
    /\ \A b \in Worded : b \notin Gathered /\ b \notin Replied
    /\ \A b \in Replied : b \notin Gathered
    /\ \A a, b : b \in Worded => Follows(a, b)
    /\ \A a, b : a \notin Replied /\ b \in Replied => Follows(a, b)
    /\ \A a : Asks(a) => Follows(a, Blocks("user", ResultsOf(a)))
  <1>1. \A b \in Worded : b.plain = TRUE /\ b.role = "user"
    BY DEF Worded
  <1>2. \A b \in Replied : b.plain = FALSE /\ b.role = "assistant"
    BY DEF Replied, Blocks
  <1>3. \A b \in Gathered : b.plain = FALSE /\ b.role = "user"
    BY DEF Gathered
  <1>4. (\A b \in Worded : b \notin Gathered /\ b \notin Replied) /\ \A b \in Replied : b \notin Gathered
    BY <1>1, <1>2, <1>3
  <1> QED BY <1>4 DEF Follows, Asks

\* A message that may follow joins a history in order.
LEMMA AppendInOrder ==
    ASSUME NEW h \in Seq(Message), InOrder(h), NEW m \in Message,
           h = <<>> => m \notin Gathered, h # <<>> => Follows(h[Len(h)], m)
    PROVE  InOrder(Append(h, m))
  <1> DEFINE g == Append(h, m)
             L == Len(h)
  <1>1. L \in Nat /\ (L = 0 <=> h = <<>>)
    OBVIOUS
  <1>2. Len(g) = L + 1 /\ g[L + 1] = m /\ \A i \in 1..L : g[i] = h[i]
    OBVIOUS
  <1>3. /\ L > 0 => h[1] \notin Gathered
        /\ \A i \in 1..L : i + 1 \in 1..L => Follows(h[i], h[i + 1])
        /\ L = 0 => m \notin Gathered
        /\ L > 0 => Follows(h[L], m)
    BY <1>1 DEF InOrder
  <1> HIDE DEF g, L
  <1>4. g[1] \notin Gathered
    BY <1>1, <1>2, <1>3
  <1>5. ASSUME NEW i \in 1..Len(g), i + 1 \in 1..Len(g) PROVE Follows(g[i], g[i + 1])
    <2>1. i \in 1..L
      BY <1>1, <1>2, <1>5
    <2>2. CASE i = L
      BY <1>2, <1>3, <2>1, <2>2
    <2>3. CASE i # L
      <3>1. i + 1 \in 1..L
        BY <1>1, <2>1, <2>3
      <3> QED BY <1>2, <1>3, <2>1, <3>1
    <2> QED BY <2>2, <2>3
  <1>6. InOrder(g)
    BY <1>4, <1>5 DEF InOrder
  <1> QED BY <1>6 DEF g

\* A word of the user, or of the summary, is a message.
LEMMA WordedMessage == \A w \in STRING : Plain("user", <<w>>) \in Worded /\ Plain("user", <<w>>) \in Message
  <1>1. \A w \in STRING : <<w>> \in Seq(STRING) /\ <<w>> # <<>>
    <2>1. \A S : \A w \in S : <<w>> \in Seq(S) /\ <<w>> # <<>>
      OBVIOUS
    <2> QED BY <2>1, Zenon
  <1>2. \A x \in Seq(STRING) : x # <<>> => Plain("user", x) \in Worded
    BY DEF Plain, Worded
  <1>3. \A w \in STRING : Plain("user", <<w>>) \in Worded
    BY <1>1, <1>2, Zenon
  <1> QED BY <1>3 DEF Message

\* A compaction leaves the order and the end.
LEMMA CompactedKeeps ==
    ASSUME NEW h \in Seq(Message), InOrder(h), Len(h) > MinRecent
    PROVE  LET g == Compacted(h)
           IN /\ g \in Seq(Message)
              /\ InOrder(g)
              /\ g # <<>> => h # <<>> /\ g[Len(g)] = h[Len(h)]
  <1>1. CASE Len(h) <= MinRecent + 1
    BY <1>1 DEF Compacted, InOrder
  <1>2. CASE ~ (Len(h) <= MinRecent + 1)
    <2> DEFINE N == Len(h)
               S == Plain("user", <<Summary>>)
               a == <<h[1], S>>
               lo == N - MinRecent + 1
               b == SubSeq(h, lo, N)
               g == Compacted(h)
    <2>1. MinRecent \in Nat \ {0} /\ S \in Message /\ S \in Worded
      BY LLMClientsAssumption, WordedMessage
    <2>2. N \in Nat /\ h # <<>> /\ \A k \in 1..N : h[k] \in Message
      BY <1>2, <2>1
    <2>3. N > MinRecent + 1 /\ lo \in Nat /\ lo >= 3 /\ lo <= N /\ N - lo + 1 = MinRecent
      BY <1>2, <2>1, <2>2
    <2>4. a \in Seq(Message) /\ Len(a) = 2 /\ a[1] = h[1] /\ a[2] = S
      <3>1. h[1] \in Message
        BY <2>2, <2>3
      <3> HIDE DEF S
      <3> QED BY <2>1, <3>1
    <2>5. g = a \o b
      BY <1>2 DEF Compacted
    <2>6. /\ h[1] \notin Gathered
          /\ \A k \in 1..N : k + 1 \in 1..N => Follows(h[k], h[k + 1])
      BY <2>2 DEF InOrder
    <2> HIDE DEF N, S, a, lo, g
    <2>7. b \in Seq(Message) /\ Len(b) = MinRecent /\ \A k \in 1..MinRecent : b[k] = h[lo + k - 1]
      <3>1. lo \in Int /\ N \in Int /\ \A k \in lo..N : h[k] \in Message
        BY <2>2, <2>3
      <3> QED BY <2>3, <3>1, SubSeqProperties
    <2> HIDE DEF b
    <2>8. /\ g \in Seq(Message) /\ Len(g) = MinRecent + 2
          /\ g[1] = h[1] /\ g[2] = S
          /\ \A k \in 1..MinRecent : g[k + 2] = h[lo + k - 1]
      <3>1. a \o b \in Seq(Message) /\ Len(a \o b) = Len(a) + Len(b)
        BY <2>4, <2>7, ConcatProperties
      <3>2. /\ \A k \in 1..2 : (a \o b)[k] = a[k]
            /\ \A k \in 1..MinRecent : (a \o b)[2 + k] = b[k]
        <4>1. \A k \in 1..(Len(a) + Len(b)) : (a \o b)[k] = IF k <= Len(a) THEN a[k] ELSE b[k - Len(a)]
          BY <2>4, <2>7, ConcatProperties
        <4>2. ASSUME NEW k \in 1..2 PROVE (a \o b)[k] = a[k]
          <5>1. k \in 1..(Len(a) + Len(b)) /\ k <= Len(a)
            BY <2>1, <2>4, <2>7
          <5> QED BY <4>1, <5>1
        <4>3. ASSUME NEW k \in 1..MinRecent PROVE (a \o b)[2 + k] = b[k]
          <5>1. 2 + k \in 1..(Len(a) + Len(b)) /\ ~ (2 + k <= Len(a)) /\ (2 + k) - Len(a) = k
            BY <2>1, <2>4, <2>7
          <5> QED BY <4>1, <5>1
        <4> QED BY <4>2, <4>3
      <3>3. (a \o b)[1] = a[1] /\ (a \o b)[2] = a[2]
        <4>1. 1 \in 1..2 /\ 2 \in 1..2
          OBVIOUS
        <4> QED BY <3>2, <4>1
      <3>4. \A k \in 1..MinRecent : k + 2 = 2 + k
        OBVIOUS
      <3> QED BY <2>1, <2>4, <2>5, <2>7, <3>1, <3>2, <3>3, <3>4, SMTT(30)
    <2>9. g[Len(g)] = h[N]
      <3>1. MinRecent \in 1..MinRecent /\ lo + MinRecent - 1 = N
        BY <2>1, <2>2, <2>3
      <3> QED BY <2>8, <3>1
    <2>10. ASSUME NEW i \in 1..Len(g), i + 1 \in 1..Len(g) PROVE Follows(g[i], g[i + 1])
      <3>1. CASE i = 1
        BY <2>1, <2>8, <3>1, Behind
      <3>2. CASE i = 2
        <4>1. g[i + 1] = h[lo]
          <5>1. 1 \in 1..MinRecent /\ lo + 1 - 1 = lo /\ i + 1 = 1 + 2
            BY <2>1, <2>3, <3>2
          <5> QED BY <2>8, <5>1
        <4>2. g[i] = S /\ S \notin Replied
          BY <2>1, <2>8, <3>2, Behind
        <4> QED BY <4>2 DEF Follows, Asks, S
      <3>3. CASE i > 2
        <4> DEFINE k == i - 2
                   n == lo + k - 1
        <4>1. k \in 1..MinRecent /\ k + 1 \in 1..MinRecent /\ i = k + 2 /\ i + 1 = (k + 1) + 2
          <5>1. Len(g) = MinRecent + 2 /\ MinRecent \in Nat
            BY <2>1, <2>8
          <5>2. i \in Int /\ i > 2 /\ i + 1 <= MinRecent + 2
            BY <2>10, <3>3, <5>1
          <5> QED BY <5>1, <5>2
        <4>2. n \in 1..N /\ n + 1 \in 1..N /\ lo + (k + 1) - 1 = n + 1
          BY <2>1, <2>2, <2>3, <4>1
        <4> HIDE DEF k
        <4>3. g[i] = h[n] /\ g[i + 1] = h[n + 1]
          BY <2>8, <4>1, <4>2
        <4> QED BY <2>6, <4>2, <4>3
      <3> QED BY <3>1, <3>2, <3>3
    <2>11. InOrder(g)
      BY <2>6, <2>8, <2>10 DEF InOrder
    <2> QED BY <2>2, <2>8, <2>9, <2>11 DEF g, N
  <1> QED BY <1>1, <1>2

\* The top of the loop ends the turn, or makes a request from the history.
LEMMA AskKeeps ==
    ASSUME NEW h \in Seq(Message), InOrder(h), h # <<>>, h[Len(h)] \notin Replied, NEW n, Ask(h, n)
    PROVE  /\ history' \in Seq(Message) /\ InOrder(history')
           /\ turn' \in {"prompt", "call"}
           /\ RequestMade' /\ UserIsLast'
  <1>1. CASE n >= MaxSteps
    BY <1>1 DEF Ask, RequestMade, UserIsLast
  <1>2. CASE ~ (n >= MaxSteps)
    <2>1. history' = h \/ (Len(h) > MinRecent /\ history' = Compacted(h))
      BY <1>2 DEF Ask
    <2>2. /\ history' \in Seq(Message) /\ InOrder(history')
          /\ history' # <<>> => history'[Len(history')] \notin Replied
      BY <2>1, CompactedKeeps
    <2>3. turn' = "call" /\ payload' = Converted(provider', history')
      BY <1>2 DEF Ask
    <2> QED BY <2>2, <2>3 DEF RequestMade, UserIsLast
  <1> QED BY <1>1, <1>2

\* The blocks that are made of what a provider says are those of an answer.
LEMMA InputType == \A form \in Forms : Input(form) \in {"own", "empty", "not an object"}
  BY DEF Input

LEMMA ParsedType ==
    ASSUME NEW raw \in Raws, raw.calls # Null, NEW n \in Nat, NEW p \in DOMAIN MaxRetries
    PROVE  \E t, w \in Seq(STRING), u \in Seq(CallBlock) : Parsed(p, raw, n) = BlocksOf(t, w, u)
  <1>1. raw.thinking \in Seq(STRING) /\ raw.text \in Seq(STRING) /\ raw.calls \in Seq(RawCall) /\ <<>> \in Seq(STRING)
    BY LLMClientsAssumption
  <1> DEFINE c == raw.calls
  <1>2. DOMAIN c = 1..Len(c) /\ Len(c) \in Nat /\ \A k \in DOMAIN c : c[k] \in RawCall
    BY <1>1
  <1>3. \A k \in DOMAIN c : /\ c[k].name \in STRING /\ c[k].args \in Forms
                            /\ n + k \in Nat /\ NoId \in Nat
    BY <1>2 DEF RawCall, NoId
  <1> DEFINE own == [k \in DOMAIN c |-> Use(n + k, c[k].name, "own")]
             given == [k \in DOMAIN c |-> Use(n + k, c[k].name, Input(c[k].args))]
             drawn == [k \in DOMAIN c |->
                         Use(IF c[k].id = "null" THEN NoId ELSE n + k, c[k].name, Input(c[k].args))]
  <1>4. \A i \in Nat, name \in STRING, input \in {"own", "empty", "not an object"} : Use(i, name, input) \in CallBlock
    BY DEF Use, CallBlock
  <1>5. ASSUME NEW k \in DOMAIN c
        PROVE  own[k] \in CallBlock /\ given[k] \in CallBlock /\ drawn[k] \in CallBlock
    <2>1. Input(c[k].args) \in {"own", "empty", "not an object"}
      BY <1>3, InputType
    <2> QED BY <1>3, <1>4, <2>1
  <1>6. own \in Seq(CallBlock) /\ given \in Seq(CallBlock) /\ drawn \in Seq(CallBlock)
    <2> DEFINE L == Len(c)
    <2>1. /\ own = [k \in 1..L |-> own[k]] /\ given = [k \in 1..L |-> given[k]]
          /\ drawn = [k \in 1..L |-> drawn[k]]
      BY <1>2
    <2>2. /\ \A k \in 1..L : own[k] \in CallBlock /\ given[k] \in CallBlock /\ drawn[k] \in CallBlock
          /\ L \in Nat
      BY <1>2, <1>5
    <2> HIDE DEF own, given, drawn, L
    <2> QED BY <2>1, <2>2, ListType
  <1>7. p \in {"anthropic", "openai", "openrouter", "groq", "ollama", "gemini"}
    BY DEF MaxRetries
  <1>8. \/ Parsed(p, raw, n) = BlocksOf(raw.thinking, raw.text, own)
        \/ Parsed(p, raw, n) = BlocksOf(<<>>, raw.text, given)
        \/ Parsed(p, raw, n) = BlocksOf(<<>>, raw.text, drawn)
    BY <1>7 DEF Parsed, AnthropicBlocks, OpenAIBlocks, OpenRouterBlocks, GroqBlocks, OllamaBlocks, GeminiBlocks
  <1> HIDE DEF own, given, drawn
  <1> QED BY <1>1, <1>6, <1>8

\* Such an answer joins the history.
LEMMA JoinKeeps ==
    ASSUME ClientInv, turn = "call",
           NEW t \in Seq(STRING), NEW w \in Seq(STRING), NEW u \in Seq(CallBlock),
           Join(BlocksOf(t, w, u))
    PROVE  ClientInv'
  <1> DEFINE b == BlocksOf(t, w, u)
             m == Blocks("assistant", b)
  <1>1. m \in Message /\ m \in Replied
    BY DEF Message, Replied
  <1>2. /\ history \in Seq(Message) /\ ids \in Nat /\ InOrder(history)
        /\ history # <<>> => history[Len(history)] \notin Replied
    BY DEF ClientInv, ClientTypes, UserIsLast
  <1>3. Of({"tool_use"}, b) = u /\ Calls(m) = u
    <2>1. Calls(m) = u
      BY AnswerParts
    <2>2. Calls(m) = Of({"tool_use"}, b)
      BY DEF Calls, Blocks
    <2> QED BY <2>1, <2>2
  <1> HIDE DEF b, m
  <1>4. /\ history' = Append(history, m) /\ ids' = ids + Len(u)
        /\ turn' \in {"prompt", "tools"}
        /\ turn' = "tools" => u # <<>>
    BY <1>3 DEF Join, EndTurn, b, m
  <1>5. /\ history' \in Seq(Message) /\ history' # <<>> /\ history'[Len(history')] = m
        /\ ids' \in Nat
    BY <1>1, <1>2, <1>4
  <1>6. InOrder(history')
    <2>1. m \notin Gathered /\ \A a : a \notin Replied => Follows(a, m)
      BY <1>1, Behind
    <2> QED BY <1>1, <1>2, <1>4, <2>1, AppendInOrder
  <1>7. ToolsCalled'
    BY <1>1, <1>3, <1>4, <1>5 DEF ToolsCalled, Asks
  <1> QED BY <1>4, <1>5, <1>6, <1>7 DEF ClientInv, ClientTypes, RequestMade, UserIsLast

\* Every step keeps the invariant.
LEMMA StepClient == ClientInv /\ provider \in DOMAIN MaxRetries /\ [ClientNext]_clientVars => ClientInv'
  <1> SUFFICES ASSUME ClientInv, provider \in DOMAIN MaxRetries, [ClientNext]_clientVars PROVE ClientInv'
    OBVIOUS
  <1>0. history \in Seq(Message) /\ ids \in Nat /\ InOrder(history)
    BY DEF ClientInv, ClientTypes
  \* A turn that ends leaves the history.
  <1>00. ASSUME UNCHANGED <<history, ids>>, EndTurn PROVE ClientInv'
    BY <1>0, <1>00 DEF EndTurn, ClientInv, ClientTypes, RequestMade, UserIsLast, ToolsCalled
  \* A request from a history that a message of the user has joined.
  <1>01. ASSUME NEW m \in Message, m \notin Replied,
                history = <<>> => m \notin Gathered, history # <<>> => Follows(history[Len(history)], m),
                NEW n, Ask(Append(history, m), n), ids' = ids
         PROVE  ClientInv'
    <2> DEFINE h == Append(history, m)
    <2>1. h \in Seq(Message) /\ h # <<>> /\ h[Len(h)] = m
      BY <1>0
    <2>2. InOrder(h)
      BY <1>0, <1>01, AppendInOrder
    <2>3. Ask(h, n)
      BY <1>01
    <2> HIDE DEF h
    <2>4. /\ history' \in Seq(Message) /\ InOrder(history')
          /\ turn' \in {"prompt", "call"}
          /\ RequestMade' /\ UserIsLast'
      BY <1>01, <2>1, <2>2, <2>3, AskKeeps
    <2> QED BY <1>0, <1>01, <2>4 DEF ClientInv, ClientTypes, ToolsCalled
  <1>1. ASSUME NEW p \in DOMAIN MaxRetries, BeginTurn(p) PROVE ClientInv'
    <2> DEFINE m == Plain("user", <<Word>>)
    <2>1. m \in Message /\ m \in Worded
      BY LLMClientsAssumption, WordedMessage
    <2>2. Ask(Append(history, m), 0) /\ ids' = ids
      BY <1>1 DEF BeginTurn
    <2> HIDE DEF m
    <2>3. m \notin Gathered /\ m \notin Replied /\ \A a : Follows(a, m)
      BY <2>1, Behind
    <2> QED BY <1>01, <2>1, <2>2, <2>3
  <1>2. CASE Attempt
    <2>1. UNCHANGED <<history, payload, turn, ids>> /\ provider' = provider
      BY <1>2 DEF Attempt, conversation, Next, Fails, NotJson, Answers, Recovers, Refused, Cancel
    <2> QED BY <2>1 DEF ClientInv, ClientTypes, RequestMade, UserIsLast, ToolsCalled
  <1>3. ASSUME NEW raw \in Raws, Answer(raw) PROVE ClientInv'
    <2>1. raw.calls # Null /\ turn = "call" /\ Join(Parsed(provider, raw, ids))
      BY <1>3 DEF Answer
    <2>2. \E t, w \in Seq(STRING), u \in Seq(CallBlock) : Parsed(provider, raw, ids) = BlocksOf(t, w, u)
      BY <1>0, <2>1, ParsedType
    <2>3. PICK t, w \in Seq(STRING), u \in Seq(CallBlock) : Parsed(provider, raw, ids) = BlocksOf(t, w, u)
      BY <2>2
    <2>4. Join(BlocksOf(t, w, u))
      BY <2>1, <2>3
    <2> QED BY <2>1, <2>4, JoinKeeps
  <1>4. ASSUME NEW raw \in Raws, AnswerRaises(raw) PROVE ClientInv'
    BY <1>00, <1>4 DEF AnswerRaises
  <1>5. ASSUME NEW raw \in Raws, raw.calls # Null, NEW k \in DOMAIN raw.calls,
               AnswerRecovered(raw.calls[k].name)
        PROVE  ClientInv'
    <2> DEFINE name == raw.calls[k].name
               u == <<Use(ids + 1, name, "own")>>
    <2>1. raw.calls \in Seq(RawCall)
      BY <1>5, LLMClientsAssumption
    <2>2. name \in STRING
      <3>1. raw.calls[k] \in RawCall
        BY <2>1
      <3> QED BY <3>1 DEF RawCall
    <2> HIDE DEF name
    <2>3. Use(ids + 1, name, "own") \in CallBlock
      BY <1>0, <2>2 DEF Use, CallBlock
    <2>4. u \in Seq(CallBlock) /\ <<>> \in Seq(STRING)
      BY <2>3
    <2>5. BlocksOf(<<>>, <<>>, u) = u
      <3>1. <<>> \o <<>> = <<>>
        OBVIOUS
      <3>2. <<>> \o u = u
        BY <2>4, ConcatEmptySeq
      <3> QED BY <3>1, <3>2 DEF BlocksOf
    <2>6. Join(u) /\ turn = "call"
      BY <1>5 DEF AnswerRecovered, name
    <2> HIDE DEF u
    <2>7. Join(BlocksOf(<<>>, <<>>, u))
      BY <2>5, <2>6
    <2> QED BY <2>4, <2>6, <2>7, JoinKeeps
  <1>6. CASE Fail
    BY <1>00, <1>6 DEF Fail
  <1>7. CASE Collect
    <2> DEFINE a == history[Len(history)]
               m == Blocks("user", ResultsOf(a))
    <2>1. history # <<>> /\ Asks(a) /\ ids' = ids /\ Ask(Append(history, m), step)
      BY <1>7 DEF Collect, ClientInv, ToolsCalled, Last
    <2>2. a \in Message
      BY <1>0, <2>1
    <2> HIDE DEF a
    <2>3. m \in Gathered /\ Follows(a, m)
      BY <2>1, <2>2, ResultsOfType, Behind
    <2> HIDE DEF m
    <2>4. m \in Message /\ m \notin Replied
      BY <2>3, Behind DEF Message
    <2>5. Follows(history[Len(history)], m)
      BY <2>3 DEF a
    <2> QED BY <1>01, <2>1, <2>4, <2>5
  <1>8. CASE UNCHANGED clientVars
    <2>1. UNCHANGED <<history, payload, turn, ids>> /\ provider' = provider
      BY <1>8 DEF clientVars, conversation, vars
    <2> QED BY <2>1 DEF ClientInv, ClientTypes, RequestMade, UserIsLast, ToolsCalled
  <1> QED BY <1>1, <1>2, <1>3, <1>4, <1>5, <1>6, <1>7, <1>8 DEF ClientNext

\* The provider is always one of the six.
LEMMA ProviderStep ==
    provider \in DOMAIN MaxRetries /\ [ClientNext]_clientVars => (provider \in DOMAIN MaxRetries)'
  <1>1. ASSUME provider \in DOMAIN MaxRetries, Attempt PROVE provider' = provider
    BY <1>1 DEF Attempt, Next, Fails, NotJson, Answers, Recovers, Refused, Cancel
  <1> QED BY <1>1 DEF ClientNext, BeginTurn, Answer, Join, AnswerRaises, AnswerRecovered, Fail, Collect,
                      clientVars, vars

LEMMA ClientsHold == ClientSpec => [](ClientInv /\ provider \in DOMAIN MaxRetries)
  <1> DEFINE I == ClientInv /\ provider \in DOMAIN MaxRetries
  <1>1. ClientInit => I
    BY InitClient DEF ClientInit, Init
  <1>2. I /\ [ClientNext]_clientVars => I'
    BY StepClient, ProviderStep
  <1> QED BY <1>1, <1>2, PTL DEF ClientSpec

\* In the turns of a conversation too, however many there are and with whichever clients, an
\* answer is never made of a failure (the call methods of the clients).
THEOREM TurnAnswersTheorem == ClientSpec => []AnswersAreAnswers
  <1>1. ClientInit => AnswersAreAnswers
    BY DEF ClientInit, Init, AnswersAreAnswers
  <1>2. AnswersAreAnswers /\ [ClientNext]_clientVars => AnswersAreAnswers'
    <2> SUFFICES ASSUME AnswersAreAnswers, [ClientNext]_clientVars PROVE AnswersAreAnswers'
      OBVIOUS
    <2>1. ASSUME NEW h, NEW n, Ask(h, n) PROVE AnswersAreAnswers'
      BY <2>1 DEF Ask, AnswersAreAnswers
    <2>2. ASSUME NEW p \in DOMAIN MaxRetries, BeginTurn(p) PROVE AnswersAreAnswers'
      BY <2>1, <2>2 DEF BeginTurn
    <2>3. CASE Attempt
      <3>1. ASSUME NEW r, NEW header, Fails(r, header) PROVE AnswersAreAnswers'
        BY <3>1 DEF Fails, OutOfAttempts, AnswersAreAnswers
      <3>2. ASSUME NEW r, Answers(r) PROVE AnswersAreAnswers'
        BY <3>2 DEF Answers, AnswersAreAnswers, Errors
      <3>3. ASSUME NEW r, NotJson(r) \/ Recovers(r) \/ Refused(r) \/ Cancel PROVE AnswersAreAnswers'
        BY <3>3 DEF NotJson, Recovers, Refused, Cancel, AnswersAreAnswers
      <3> QED BY <2>3, <3>1, <3>2, <3>3 DEF Attempt, Next
    <2>4. ASSUME NEW raw \in Raws, Answer(raw) \/ AnswerRaises(raw) PROVE AnswersAreAnswers'
      BY <2>4 DEF Answer, AnswerRaises, Join, EndTurn, AnswersAreAnswers
    <2>5. ASSUME NEW name, AnswerRecovered(name) PROVE AnswersAreAnswers'
      BY <2>5 DEF AnswerRecovered, Join, EndTurn, AnswersAreAnswers
    <2>6. CASE Fail
      BY <2>6 DEF Fail, EndTurn, AnswersAreAnswers
    <2>7. CASE Collect
      BY <2>1, <2>7 DEF Collect
    <2>8. CASE UNCHANGED clientVars
      BY <2>8 DEF clientVars, vars, AnswersAreAnswers
    <2> QED BY <2>2, <2>3, <2>4, <2>5, <2>6, <2>7, <2>8 DEF ClientNext
  <1> QED BY <1>1, <1>2, PTL DEF ClientSpec

\* Whatever the models say, whoever spoke before, however often the history was compacted
\* and the provider exchanged: a request tells the whole conversation, each message once and
\* in order, but for the thinking (the _convert and call methods of the clients).
THEOREM NothingLostTheorem == ClientSpec => []NothingLost
  <1>1. ClientInv => NothingLost
    BY ToldByAll DEF ClientInv, ClientTypes, RequestMade, NothingLost
  <1> QED BY <1>1, ClientsHold, PTL

\* Whatever the models say, wherever turns broke off, the history was compacted and the
\* provider exchanged: in every request the calls of a response have their results behind
\* them, one for each, in their order and under their ids (for Gemini, if every call has a
\* name and an id of its own, under the names of their tools), or else words of the user
\* (run_conversation_turn, the conversions, GeminiClient.call).
THEOREM CallsAnsweredTheorem == ClientSpec => []CallsAnswered
  <1>1. ASSUME ClientInv, turn = "call", provider = "gemini" => Traceable(history)
        PROVE  Paired(Read(provider, payload))
    <2>1. /\ history \in Seq(Message) /\ InOrder(history)
          /\ history # <<>> => history[Len(history)] \notin Replied
          /\ payload = Converted(provider, history)
      BY <1>1 DEF ClientInv, ClientTypes, RequestMade, UserIsLast
    <2>2. Read(provider, payload) = FlattenSeq([i \in DOMAIN history |-> Piece(provider, history, history[i])])
      BY <2>1, ReadByAll
    <2> QED BY <1>1, <2>1, <2>2, HistoryIsPaired
  <1>2. ClientInv => CallsAnswered
    BY <1>1 DEF CallsAnswered
  <1> QED BY <1>2, ClientsHold, PTL
=============================================================================
