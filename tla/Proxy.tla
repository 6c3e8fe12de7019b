--------------------------------- MODULE Proxy ---------------------------------
(***************************************************************************)
(* The privacy proxy (proxy/main.go): main accepts connections, and each   *)
(* has a goroutine that reads a frame, forwards it with the next API key   *)
(* and writes the response; a signal ends it all.                          *)
(*                                                                         *)
(* Requests are numbered on their connection; what is in a frame is left   *)
(* out.  A client may send its next request before it has a response.      *)
(***************************************************************************)
EXTENDS Naturals, Sequences

CONSTANTS
    Conns,          \* connections
    NumKeys,        \* the number of API keys
    MaxRequests,    \* bound: requests on a connection
    NoConn          \* nobody holds the mutex

ASSUME ProxyAssumption ==
    /\ NumKeys \in Nat /\ MaxRequests \in Nat
    /\ NoConn \notin Conns

VARIABLES
    main,       \* "accepting", "cancelled" (ctx is done), "closed" (the listener too), "exited"
    pc,         \* where the goroutine of each connection is
    dialed,     \* the connections in the listener's backlog
    sent,       \* requests the client has sent
    deaf,       \* the connections whose client leaves unread what it is sent
    read,       \* requests the goroutine has read
    replies,    \* the requests that were answered, in order
    mutex,      \* who holds the mutex of the key ring
    current,    \* KeyRing.current, from 0
    used        \* history: the keys taken, in order

ring == <<mutex, current, used>>
proxyVars == <<main, pc, dialed, sent, deaf, read, replies, ring>>

ProxyInit ==
    /\ main = "accepting"
    /\ pc = [c \in Conns |-> "none"]
    /\ dialed = {}
    /\ sent = [c \in Conns |-> 0]
    /\ deaf = {}
    /\ read = [c \in Conns |-> 0]
    /\ replies = [c \in Conns |-> <<>>]
    /\ mutex = NoConn
    /\ current = 0
    /\ used = <<>>

Running == main # "exited"
Open(c) == pc[c] \notin {"none", "gone"}

-----------------------------------------------------------------------------
(***************************************************************************)
(* The client                                                              *)
(***************************************************************************)

Dial(c) ==
    /\ main \in {"accepting", "cancelled"}
    /\ pc[c] = "none" /\ c \notin dialed
    /\ dialed' = dialed \cup {c}
    /\ UNCHANGED <<main, pc, sent, deaf, read, replies, ring>>

Send(c) ==
    /\ Running /\ Open(c)
    /\ sent[c] < MaxRequests
    /\ sent' = [sent EXCEPT ![c] = @ + 1]
    /\ UNCHANGED <<main, pc, dialed, deaf, read, replies, ring>>

\* It stops to take what the proxy writes, and goes on.
StopReading(c) ==
    /\ Running /\ Open(c)
    /\ c \notin deaf
    /\ deaf' = deaf \cup {c}
    /\ UNCHANGED <<main, pc, dialed, sent, read, replies, ring>>

ReadAgain(c) ==
    /\ Running /\ Open(c)
    /\ c \in deaf
    /\ deaf' = deaf \ {c}
    /\ UNCHANGED <<main, pc, dialed, sent, read, replies, ring>>

-----------------------------------------------------------------------------
(***************************************************************************)
(* main                                                                    *)
(***************************************************************************)

Accept(c) ==
    /\ main \in {"accepting", "cancelled"}
    /\ c \in dialed
    /\ dialed' = dialed \ {c}
    /\ pc' = [pc EXCEPT ![c] = "reading"]
    /\ UNCHANGED <<main, sent, deaf, read, replies, ring>>

\* The signal goroutine: cancel(), then listener.Close().
CancelContext ==
    /\ main = "accepting"
    /\ main' = "cancelled"
    /\ UNCHANGED <<pc, dialed, sent, deaf, read, replies, ring>>

CloseListener ==
    /\ main = "cancelled"
    /\ main' = "closed"
    /\ dialed' = {}
    /\ UNCHANGED <<pc, sent, deaf, read, replies, ring>>

\* The accept loop logs the error and goes on.
NeverDone == FALSE
\* case <-ctx.Done()
CtxDone == main \in {"cancelled", "closed"}

\* Accept fails: main returns if the context is done, and the goroutines are no more.
AcceptFails ==
    /\ main = "closed"
    /\ main' = IF CtxDone THEN "exited" ELSE main
    /\ UNCHANGED <<pc, dialed, sent, deaf, read, replies, ring>>

-----------------------------------------------------------------------------
(***************************************************************************)
(* The goroutine of a connection                                           *)
(***************************************************************************)

At(c, place) == Running /\ pc[c] = place
GoTo(c, place) == pc' = [pc EXCEPT ![c] = place]

\* readFrame; an llm_request goes on to KeyRing.ProxyNext, and an echo or a message of
\* another type is answered at once.
ReadFrame(c) ==
    /\ At(c, "reading")
    /\ read[c] < sent[c]
    /\ read' = [read EXCEPT ![c] = @ + 1]
    /\ GoTo(c, "rotating") \/ GoTo(c, "replying")
    /\ UNCHANGED <<main, dialed, sent, deaf, replies, ring>>

\* The client has closed, or its frame is not one: the goroutine returns.
ReadFails(c) ==
    /\ At(c, "reading")
    /\ GoTo(c, "gone")
    /\ UNCHANGED <<main, dialed, sent, deaf, read, replies, ring>>

\* Nobody waits for the mutex.
NoMutex == TRUE
\* kr.mu.Lock()
MutexFree == mutex = NoConn

\* KeyRing.ProxyNext takes the key, then moves on, under the mutex.
TakeKey(c) ==
    /\ At(c, "rotating")
    /\ MutexFree
    /\ IF NumKeys = 0
       THEN GoTo(c, "forwarding") /\ UNCHANGED ring
       ELSE /\ GoTo(c, "advancing")
            /\ mutex' = c
            /\ used' = Append(used, current)
            /\ UNCHANGED current
    /\ UNCHANGED <<main, dialed, sent, deaf, read, replies>>

Advance(c) ==
    /\ At(c, "advancing")
    /\ current' = (current + 1) % NumKeys
    /\ mutex' = NoConn
    /\ GoTo(c, "forwarding")
    /\ UNCHANGED <<main, dialed, sent, deaf, read, replies, used>>

\* A failed request is given up without a response.
ForwardOrDrop(c) ==
    /\ At(c, "forwarding")
    /\ GoTo(c, "replying") \/ GoTo(c, "reading")
    /\ UNCHANGED <<main, dialed, sent, deaf, read, replies, ring>>
\* The target answers, refuses or does not answer for 120 seconds: there is a
\* response of some kind.
Forward(c) ==
    /\ At(c, "forwarding")
    /\ GoTo(c, "replying")
    /\ UNCHANGED <<main, dialed, sent, deaf, read, replies, ring>>

\* writeFrame.  conn.Write has no deadline: for a client that does not read, it
\* ends if the response fits into the buffers between them, or never.
WriteFrame(c) ==
    /\ At(c, "replying")
    /\ replies' = [replies EXCEPT ![c] = Append(@, read[c])]
    /\ GoTo(c, "reading")
    /\ UNCHANGED <<main, dialed, sent, deaf, read, ring>>

WriteFails(c) ==
    /\ At(c, "replying")
    /\ GoTo(c, "gone")
    /\ UNCHANGED <<main, dialed, sent, deaf, read, replies, ring>>

-----------------------------------------------------------------------------
Exited == ~Running /\ UNCHANGED proxyVars

Handler(c) ==
    \/ ReadFrame(c) \/ ReadFails(c) \/ TakeKey(c) \/ Advance(c)
    \/ Forward(c) \/ WriteFrame(c) \/ WriteFails(c)

ProxyNext ==
    \/ \E c \in Conns : \/ Dial(c) \/ Send(c) \/ StopReading(c) \/ ReadAgain(c)
                       \/ Accept(c) \/ Handler(c)
    \/ CancelContext \/ CloseListener \/ AcceptFails
    \/ Exited

\* Goroutines are scheduled, a mutex is handed to everyone who waits, the target
\* answers or times out, and main accepts.  A write goes on whenever its client
\* reads, and a frame has an end.  Nothing makes a client dial, send, read or close,
\* nor a signal come.
ProxyFairness ==
    /\ \A c \in Conns :
         /\ WF_proxyVars(ReadFrame(c)) /\ SF_proxyVars(TakeKey(c)) /\ WF_proxyVars(Advance(c))
         /\ WF_proxyVars(Forward(c)) /\ SF_proxyVars(c \notin deaf /\ WriteFrame(c))
    /\ WF_proxyVars(CloseListener) /\ WF_proxyVars(AcceptFails)

ProxySpec == ProxyInit /\ [][ProxyNext]_proxyVars /\ ProxyFairness

-----------------------------------------------------------------------------
(***************************************************************************)
(* Properties                                                              *)
(***************************************************************************)

\* The values of the variables.
ProxyTypeOK ==
    /\ main \in {"accepting", "cancelled", "closed", "exited"}
    /\ pc \in [Conns -> {"none", "reading", "rotating", "advancing", "forwarding", "replying", "gone"}]
    /\ dialed \in SUBSET Conns
    /\ sent \in [Conns -> 0..MaxRequests]
    /\ deaf \in SUBSET Conns
    /\ read \in [Conns -> 0..MaxRequests]
    /\ replies \in [Conns -> Seq(1..MaxRequests)]
    /\ mutex \in Conns \cup {NoConn}
    /\ current \in {0} \cup 0..(NumKeys - 1)
    /\ used \in Seq(0..(NumKeys - 1))

\* However the goroutines interleave, the keys are taken in turn: each request
\* gets the key after that of the request before (KeyRing.ProxyNext: "returns the next
\* API key in round-robin order").
KeysInTurn == \A i \in DOMAIN used : used[i] = (i - 1) % NumKeys

\* Whatever the clients of the other connections do, which may never read: if its own
\* client reads again and again, a request that was sent is answered, or its
\* connection or the proxy ends.
Answered ==
    \A c \in Conns :
      []<>(c \notin deaf) =>
        \A n \in 1..MaxRequests :
          (sent[c] >= n) ~> (Len(replies[c]) >= n \/ ~Open(c) \/ ~Running)

\* A signal ends the proxy, whatever the connections do.
ShutdownEnds == (main = "cancelled") ~> ~Running
=============================================================================
