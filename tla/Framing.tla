-------------------------------- MODULE Framing --------------------------------
(***************************************************************************)
(* One connection between a VsockClient and the VsockServer (vsock/): the  *)
(* client sends one request and reads frames until the one that ends its   *)
(* call; the server reads with a 30 second timer, dispatches, and reads on.*)
(*                                                                         *)
(* A frame is two cells, a header and a payload, which the network         *)
(* delivers one after the other; its kind is that of its message.  Time is *)
(* left out: a timer may end any wait that is not over.                    *)
(***************************************************************************)
EXTENDS Naturals, Sequences

CONSTANTS
    MaxEvents,  \* bound: step_event frames in front of a response
    Stalls,     \* may a payload come more than 30 seconds after its header?
    BigReplies  \* may a response exceed MAX_MESSAGE_SIZE?

ASSUME FramingAssumption ==
    /\ MaxEvents \in Nat
    /\ Stalls \in BOOLEAN /\ BigReplies \in BOOLEAN

VARIABLES
    request,    \* the kind of the request
    client,     \* "new", "waiting", "got" a closing frame, "timed out" or "failed"
    events,     \* step_event frames the client has read
    answer,     \* the closing frame it has read
    up, down,   \* cells on their way to the server and to the client
    inbox,      \* cells the server's reader has buffered
    mail,       \* cells the client's reader has buffered
    server,     \* "top" of its loop, reading a "header" or a "payload", "handling", "closed"
    cause,      \* why the server closed
    handled,    \* requests handed to a handler
    emitted,    \* step_event frames written
    stopping    \* stop() was called

net  == <<up, down, inbox, mail>>
mine == <<request, client, events, answer>>
framingVars == <<mine, net, server, cause, handled, emitted, stopping>>

Requests == {"known", "unknown", "raising"}
ClosingFrames == {"reply", "error"}
Frames   == Requests \cup ClosingFrames \cup {"step_event"}
Cell     == [part : {"header", "payload"}, of : Frames]

\* encode_frame
Frame(k) == <<[part |-> "header", of |-> k], [part |-> "payload", of |-> k]>>

\* A response there is for each request.
Expected(k) == IF k = "known" THEN "reply" ELSE "error"

Gone == client \in {"got", "timed out", "failed"}

FramingInit ==
    /\ request \in Requests
    /\ client = "new" /\ events = 0 /\ answer = "none"
    /\ up = <<>> /\ down = <<>> /\ inbox = <<>> /\ mail = <<>>
    /\ server = "top" /\ cause = "none"
    /\ handled = 0 /\ emitted = 0
    /\ stopping = FALSE

-----------------------------------------------------------------------------
(***************************************************************************)
(* The network                                                             *)
(***************************************************************************)

DeliverUp ==
    /\ up # <<>>
    /\ inbox' = Append(inbox, Head(up)) /\ up' = Tail(up)
    /\ UNCHANGED <<mine, down, mail, server, cause, handled, emitted, stopping>>

DeliverDown ==
    /\ down # <<>>
    /\ mail' = Append(mail, Head(down)) /\ down' = Tail(down)
    /\ UNCHANGED <<mine, up, inbox, server, cause, handled, emitted, stopping>>

\* The peer has closed and all it wrote is read.
ServerAtEOF == Gone /\ up = <<>>
ClientAtEOF == server = "closed" /\ down = <<>>

-----------------------------------------------------------------------------
(***************************************************************************)
(* The client: send and send_stream                                        *)
(***************************************************************************)

SendRequest ==
    /\ client = "new"
    /\ client' = "waiting"
    /\ up' = up \o Frame(request)
    /\ UNCHANGED <<request, events, answer, down, inbox, mail, server, cause, handled, emitted, stopping>>

\* Any frame closes a call.
AnyFrame(k) == TRUE
\* A step_event does not.
Closing(k) == k # "step_event"

\* read_frame, and out of the loop with a frame that closes the call.
ClientReads ==
    /\ client = "waiting"
    /\ Len(mail) >= 2
    /\ LET k == mail[2].of
       IN IF Closing(k)
          THEN client' = "got" /\ answer' = k /\ UNCHANGED events
          ELSE events' = events + 1 /\ UNCHANGED <<client, answer>>
    /\ mail' = SubSeq(mail, 3, Len(mail))
    /\ UNCHANGED <<request, up, down, inbox, server, cause, handled, emitted, stopping>>

\* The call has no timeout.
Patient == FALSE
\* No frame within the timeout of the call; it starts anew with each frame.
TimeIsUp == Len(mail) < 2

ClientTimesOut ==
    /\ client = "waiting"
    /\ TimeIsUp
    /\ client' = "timed out"
    /\ UNCHANGED <<request, events, answer, net, server, cause, handled, emitted, stopping>>

\* IncompleteReadError
ClientFails ==
    /\ client = "waiting"
    /\ Len(mail) < 2 /\ ClientAtEOF
    /\ client' = "failed"
    /\ UNCHANGED <<request, events, answer, net, server, cause, handled, emitted, stopping>>

-----------------------------------------------------------------------------
(***************************************************************************)
(* The server: _handle_connection                                          *)
(***************************************************************************)

Close(why) == server' = "closed" /\ cause' = why

\* while not self._shutdown_event.is_set()
Loop ==
    /\ server = "top"
    /\ IF stopping THEN Close("stopped") ELSE server' = "header" /\ UNCHANGED cause
    /\ UNCHANGED <<mine, net, handled, emitted, stopping>>

\* readexactly(HEADER_SIZE).  A payload taken for a header declares a length over
\* the maximum, since it is text: FramingError, which nothing catches.
ReadHeader ==
    /\ server = "header"
    /\ inbox # <<>>
    /\ inbox' = Tail(inbox)
    /\ IF Head(inbox).part = "header"
       THEN server' = "payload" /\ UNCHANGED cause
       ELSE Close("FramingError")
    /\ UNCHANGED <<mine, up, down, mail, handled, emitted, stopping>>

\* readexactly takes it out.
TakePayload == Tail(inbox)

\* readexactly(payload_length), and the dispatch.
ReadPayload ==
    /\ server = "payload"
    /\ inbox # <<>>
    /\ inbox' = TakePayload
    /\ server' = "handling"
    /\ handled' = handled + 1
    /\ UNCHANGED <<mine, up, down, mail, cause, emitted, stopping>>

\* wait_for(read_frame, 30): a header that was read is lost with the cancelled
\* read.
TimerEnds == inbox = <<>> /\ ~ServerAtEOF /\ (server = "header" \/ (server = "payload" /\ Stalls))

ReadTimesOut ==
    /\ server \in {"header", "payload"}
    /\ TimerEnds
    /\ server' = "top"
    /\ UNCHANGED <<mine, net, cause, handled, emitted, stopping>>

\* The end of the stream is not noticed.
Unnoticed == FALSE
\* IncompleteReadError
EndOfStream == inbox = <<>> /\ ServerAtEOF

ReadEnds ==
    /\ server \in {"header", "payload"}
    /\ EndOfStream
    /\ Close("client gone")
    /\ UNCHANGED <<mine, net, handled, emitted, stopping>>

\* A handler that takes the writer streams an event.
WriteEvent ==
    /\ server = "handling" /\ request = "known"
    /\ emitted < MaxEvents
    /\ emitted' = emitted + 1
    /\ down' = IF Gone THEN down ELSE down \o Frame("step_event")
    /\ UNCHANGED <<mine, up, inbox, mail, server, cause, handled, stopping>>

\* The handler returns or raises, or there is none: a frame is written.  With the
\* client gone, drain may raise; with a response over the size, encode_frame
\* does, and neither is caught.
Respond ==
    /\ server = "handling"
    /\ \/ /\ down' = IF Gone THEN down ELSE down \o Frame(Expected(request))
          /\ server' = "top" /\ UNCHANGED cause
       \/ Gone /\ Close("client gone") /\ UNCHANGED down
       \/ BigReplies /\ request = "known" /\ Close("FramingError") /\ UNCHANGED down
    /\ UNCHANGED <<mine, up, inbox, mail, handled, emitted, stopping>>

Stop ==
    /\ ~stopping
    /\ stopping' = TRUE
    /\ UNCHANGED <<mine, net, server, cause, handled, emitted>>

-----------------------------------------------------------------------------
Over == client # "new" /\ client # "waiting" /\ server = "closed" /\ UNCHANGED framingVars

Server == Loop \/ ReadHeader \/ ReadPayload \/ ReadTimesOut \/ ReadEnds

FramingNext ==
    \/ DeliverUp \/ DeliverDown
    \/ SendRequest \/ ClientReads \/ ClientTimesOut \/ ClientFails
    \/ Server \/ WriteEvent \/ Respond
    \/ Stop \/ Over

\* The client and the server are scheduled, their timers run, and the network
\* delivers.  Nothing makes a client call, a handler return, or a server stop.
FramingFairness ==
    /\ WF_framingVars(ClientReads) /\ WF_framingVars(ClientTimesOut \/ ClientFails)
    /\ WF_framingVars(DeliverUp) /\ WF_framingVars(DeliverDown)
    /\ WF_framingVars(Server)

FramingSpec == FramingInit /\ [][FramingNext]_framingVars /\ FramingFairness

-----------------------------------------------------------------------------
(***************************************************************************)
(* Properties                                                              *)
(***************************************************************************)

\* The values of the variables; a request is handled at most once.
FramingTypeOK ==
    /\ request \in Requests
    /\ client \in {"new", "waiting", "got", "timed out", "failed"}
    /\ events \in 0..MaxEvents
    /\ answer \in ClosingFrames \cup {"none"}
    /\ \A q \in {up, down, inbox, mail} : q \in Seq(Cell)
    /\ server \in {"top", "header", "payload", "handling", "closed"}
    /\ cause \in {"none", "client gone", "stopped", "FramingError"}
    /\ handled \in 0..1
    /\ emitted \in 0..MaxEvents
    /\ stopping \in BOOLEAN

\* A call that returns has the response to its request, and all the events that
\* were streamed before it; one that fails although it was carried out failed
\* for the size of its response (VsockClient.send, send_stream).
AnswerIsMine ==
    /\ client = "got" => answer = Expected(request) /\ events = emitted /\ handled = 1
    /\ client = "failed" /\ handled = 1 => BigReplies /\ cause = "FramingError"

\* A call ends, with an answer, a timeout or an error, even if the handler never
\* returns (the wait_for of send and send_stream).
CallEnds == (client = "waiting") ~> Gone

\* Unless a handler never returns, the server lets go of a connection that its
\* client has closed, and after stop() of every connection, although the client
\* keeps it open and sends nothing more (Server.wait_closed waits for that).
ConnectionEnds ==
    []<>(server # "handling") =>
        /\ Gone ~> (server = "closed")
        /\ stopping ~> (server = "closed")
=============================================================================
