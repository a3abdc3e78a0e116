------------------------------ MODULE IpcServer ------------------------------
(***************************************************************************)
(* The IPC server of the player (internal/ipc: ipc.go, session.go): one    *)
(* authenticated GUI session at a time, over loopback TCP.                 *)
(*                                                                         *)
(* Four kinds of goroutine share it: acceptLoop, which serves one          *)
(* connection after another and delivers its events to Incoming; one       *)
(* writeLoop per session; the event loop of the program, which takes       *)
(* events and sends frames; and the one that calls Close.  Steps under the *)
(* mutex are single actions; select statements are choices among the       *)
(* cases that are ready.                                                   *)
(***************************************************************************)
EXTENDS Naturals, Sequences, SequencesExt

CONSTANTS
  InCap,       \* capacity of Incoming (8 in the code)
  ControlCap,  \* capacity of a session's control queue (32 in the code)
  Display,     \* the latest-value slots: state, lyrics
  MaxSession,  \* bound: authenticated sessions
  MaxConn,     \* bound: connections, authenticated or not
  MaxMessage   \* bound: frames sent by the program and requests read from the GUI, together

ASSUME CapacityAssumption ==
  /\ InCap \in Nat \ {0}
  /\ ControlCap \in Nat \ {0}
  /\ MaxSession \in Nat /\ MaxConn \in Nat /\ MaxMessage \in Nat
  /\ "control" \notin Display

None == 0            \* nil peer, empty slot
Marker == 0          \* the flush marker in a control queue; frames are numbered from 1
Sessions == 1 .. MaxSession
Kind == {"control"} \cup Display

VARIABLES
  acceptor,    \* where acceptLoop is
  conns,       \* connections accepted so far
  connOpen,    \* the connection being served is open
  peer,        \* Server.peer, by session id
  nextSession,
  done,        \* session.done is closed
  log, got,    \* every event delivered to Incoming, and how many were received
  requests,    \* requests read so far
  control,     \* session.control
  slot,        \* session.state and session.lyrics
  writer,      \* where the writeLoop of each session is
  writing,     \* the frame it is writing
  wire,        \* frames written to the connection of each session, by kind
  frames,      \* frames sent so far
  taken,       \* control frames SendTo took, for each session
  flushed,     \* the session's flush marker was reached
  closer, closePeer, \* where Close is, and the session it found
  closing, serverDone, incomingClosed

acceptorVars == <<acceptor, conns, nextSession, requests>>
queueVars == <<control, slot, taken, frames>>
writerVars == <<writer, writing, wire, flushed>>
closerVars == <<closer, closePeer, closing, serverDone, incomingClosed>>
vars == <<acceptorVars, connOpen, peer, done, log, got, queueVars, writerVars, closerVars>>

AcceptorState == {"accept", "auth", "publish", "connected", "read", "request", "stop", "bye", "clear", "exit"}
WriterState == {"none", "top", "idle", "write", "exit"}
CloserState == {"idle", "mark", "await", "shut", "wait", "finished"}
Frame == [kind : Kind, n : 0 .. MaxMessage]
Event == [kind : {"connected", "request", "disconnected"}, session : Sessions]

TypeOK ==
  /\ acceptor \in AcceptorState /\ conns \in 0 .. MaxConn
  /\ connOpen \in BOOLEAN
  /\ peer \in 0 .. MaxSession /\ nextSession \in 0 .. MaxSession
  /\ done \in [Sessions -> BOOLEAN]
  /\ log \in Seq(Event) /\ got \in 0 .. Len(log) /\ Len(log) - got <= InCap
  /\ requests \in 0 .. MaxMessage /\ frames \in 0 .. MaxMessage
  /\ control \in [Sessions -> Seq(0 .. MaxMessage)]
  /\ \A s \in Sessions : Len(control[s]) <= ControlCap
  /\ slot \in [Sessions -> [Display -> 0 .. MaxMessage]]
  /\ writer \in [Sessions -> WriterState]
  /\ writing \in [Sessions -> Frame]
  /\ wire \in [Sessions -> [Kind -> Seq(0 .. MaxMessage)]]
  /\ taken \in [Sessions -> Seq(1 .. MaxMessage)]
  /\ flushed \in [Sessions -> BOOLEAN]
  /\ closer \in CloserState /\ closePeer \in 0 .. MaxSession
  /\ closing \in BOOLEAN /\ serverDone \in BOOLEAN /\ incomingClosed \in BOOLEAN

NoFrame == [kind |-> "control", n |-> Marker]

\* NewServer: listening, acceptLoop started.
Init ==
  /\ acceptor = "accept" /\ conns = 0 /\ connOpen = FALSE
  /\ peer = None /\ nextSession = 0
  /\ done = [s \in Sessions |-> FALSE]
  /\ log = <<>> /\ got = 0 /\ requests = 0 /\ frames = 0
  /\ control = [s \in Sessions |-> <<>>]
  /\ slot = [s \in Sessions |-> [d \in Display |-> None]]
  /\ writer = [s \in Sessions |-> "none"]
  /\ writing = [s \in Sessions |-> NoFrame]
  /\ wire = [s \in Sessions |-> [k \in Kind |-> <<>>]]
  /\ taken = [s \in Sessions |-> <<>>]
  /\ flushed = [s \in Sessions |-> FALSE]
  /\ closer = "idle" /\ closePeer = None /\ closing = FALSE /\ serverDone = FALSE /\ incomingClosed = FALSE

-----------------------------------------------------------------------------

\* session.stop: closes done and the session's own connection, once.
Stop(s) ==
  /\ done' = [done EXCEPT ![s] = TRUE]
  /\ connOpen' = (connOpen /\ s # peer)

-----------------------------------------------------------------------------
(* acceptLoop and serve. *)

\* Accept returns a connection; one accepted while closing is closed at once.
Accept ==
  /\ acceptor = "accept" /\ ~serverDone /\ conns < MaxConn
  /\ conns' = conns + 1
  /\ acceptor' = IF closing THEN "exit" ELSE "auth"
  /\ connOpen' = ~closing
  /\ UNCHANGED <<nextSession, requests, peer, done, log, got, queueVars, writerVars, closerVars>>

\* The listener is closed.
AcceptFails ==
  /\ acceptor = "accept" /\ serverDone
  /\ acceptor' = "exit"
  /\ UNCHANGED <<conns, nextSession, requests, connOpen, peer, done, log, got, queueVars, writerVars, closerVars>>

\* The secret is read and hello is written within the deadline, or not.
Authenticate ==
  /\ acceptor = "auth"
  /\ acceptor' \in IF connOpen /\ nextSession < MaxSession THEN {"publish", "clear"} ELSE {"clear"}
  /\ UNCHANGED <<conns, nextSession, requests, connOpen, peer, done, log, got, queueVars, writerVars, closerVars>>

\* The session is published and its writeLoop started; Close may already be running.
Publish ==
  /\ acceptor = "publish"
  /\ nextSession' = nextSession + 1
  /\ peer' = nextSession + 1
  /\ writer' = [writer EXCEPT ![nextSession + 1] = "top"]
  /\ acceptor' = "connected"
  /\ UNCHANGED <<conns, requests, connOpen, done, log, got, queueVars, writing, wire, flushed, closerVars>>

DeliverForever(kind, next) ==
  /\ Len(log) - got < InCap
  /\ log' = Append(log, [kind |-> kind, session |-> peer])
  /\ acceptor' = next
  /\ UNCHANGED <<done, connOpen>>
\* deliver: blocks while Incoming is full, gives up when the server is done.
Deliver(kind, next) ==
  \/ /\ Len(log) - got < InCap
     /\ log' = Append(log, [kind |-> kind, session |-> peer])
     /\ acceptor' = next
     /\ UNCHANGED <<done, connOpen>>
  \/ /\ serverDone
     /\ acceptor' = "clear"
     /\ Stop(peer)
     /\ UNCHANGED log

DeliverConnected ==
  /\ acceptor = "connected"
  /\ Deliver("connected", "read")
  /\ UNCHANGED <<conns, nextSession, requests, peer, got, queueVars, writerVars, closerVars>>

\* A request is read, which the scanner may hold since before the connection was closed.
ReadRequest ==
  /\ acceptor = "read" /\ frames + requests < MaxMessage
  /\ requests' = requests + 1
  /\ acceptor' = "request"
  /\ UNCHANGED <<conns, nextSession, connOpen, peer, done, log, got, queueVars, writerVars, closerVars>>

\* The connection ends, is closed by either side, or carries an invalid request.
ReadEnds ==
  /\ acceptor = "read"
  /\ acceptor' = "stop"
  /\ UNCHANGED <<conns, nextSession, requests, connOpen, peer, done, log, got, queueVars, writerVars, closerVars>>

DeliverRequest ==
  /\ acceptor = "request"
  /\ Deliver("request", "read")
  /\ UNCHANGED <<conns, nextSession, requests, peer, got, queueVars, writerVars, closerVars>>

StopServedSilent ==
  /\ acceptor = "stop"
  /\ Stop(peer)
  /\ acceptor' = "clear"
  /\ UNCHANGED <<conns, nextSession, requests, peer, log, got, queueVars, writerVars, closerVars>>
\* The session is stopped before its end is reported.
StopServed ==
  /\ acceptor = "stop"
  /\ Stop(peer)
  /\ acceptor' = "bye"
  /\ UNCHANGED <<conns, nextSession, requests, peer, log, got, queueVars, writerVars, closerVars>>

DeliverDisconnected ==
  /\ acceptor = "bye"
  /\ Deliver("disconnected", "clear")
  /\ UNCHANGED <<conns, nextSession, requests, peer, got, queueVars, writerVars, closerVars>>

\* serve has returned and closed the connection.
Clear ==
  /\ acceptor = "clear"
  /\ acceptor' = "accept"
  /\ connOpen' = FALSE /\ peer' = None
  /\ UNCHANGED <<conns, nextSession, requests, done, log, got, queueVars, writerVars, closerVars>>

\* The GUI goes away at any time.
ClientDrops ==
  /\ connOpen
  /\ connOpen' = FALSE
  /\ UNCHANGED <<acceptorVars, peer, done, log, got, queueVars, writerVars, closerVars>>

-----------------------------------------------------------------------------
(* The program: it receives events and sends frames. *)

Receive ==
  /\ got < Len(log)
  /\ got' = got + 1
  /\ UNCHANGED <<acceptorVars, connOpen, peer, done, log, queueVars, writerVars, closerVars>>

Matches(id) == peer # None /\ ~closing /\ ~done[peer] /\ (id = 0 \/ id = peer)

\* SendTo, a display frame: it replaces the one that waits.
SendDisplay(id, d) ==
  /\ frames + requests < MaxMessage /\ Matches(id)
  /\ frames' = frames + 1
  /\ slot' = [slot EXCEPT ![peer][d] = frames + 1]
  /\ UNCHANGED <<acceptorVars, connOpen, peer, done, log, got, control, taken, writerVars, closerVars>>

SendControlDropsOldest(id) ==
  /\ frames + requests < MaxMessage /\ Matches(id)
  /\ frames' = frames + 1
  /\ control' = [control EXCEPT ![peer] =
       Append(IF Len(@) < ControlCap THEN @ ELSE Tail(@), frames + 1)]
  /\ taken' = [taken EXCEPT ![peer] = Append(@, frames + 1)]
  /\ UNCHANGED <<acceptorVars, connOpen, done, peer, log, got, slot, writerVars, closerVars>>
\* SendTo, a control frame: it is queued, or the session is stopped.
SendControl(id) ==
  /\ frames + requests < MaxMessage /\ Matches(id)
  /\ frames' = frames + 1
  /\ IF Len(control[peer]) < ControlCap
     THEN /\ control' = [control EXCEPT ![peer] = Append(@, frames + 1)]
          /\ taken' = [taken EXCEPT ![peer] = Append(@, frames + 1)]
          /\ UNCHANGED <<done, connOpen>>
     ELSE /\ Stop(peer)
          /\ UNCHANGED <<control, taken>>
  /\ UNCHANGED <<acceptorVars, peer, log, got, slot, writerVars, closerVars>>

-----------------------------------------------------------------------------
(* writeLoop. *)

TakeControl(s) ==
  /\ control[s] # <<>>
  /\ control' = [control EXCEPT ![s] = Tail(@)]
  /\ IF Head(control[s]) = Marker
     THEN /\ flushed' = [flushed EXCEPT ![s] = TRUE]
          /\ writer' = [writer EXCEPT ![s] = "top"]
          /\ UNCHANGED writing
     ELSE /\ writing' = [writing EXCEPT ![s] = [kind |-> "control", n |-> Head(control[s])]]
          /\ writer' = [writer EXCEPT ![s] = "write"]
          /\ UNCHANGED flushed
  /\ UNCHANGED <<done, connOpen, slot, wire>>

TakeDisplay(s, d) ==
  /\ slot[s][d] # None
  /\ slot' = [slot EXCEPT ![s][d] = None]
  /\ writing' = [writing EXCEPT ![s] = [kind |-> d, n |-> slot[s][d]]]
  /\ writer' = [writer EXCEPT ![s] = "write"]
  /\ UNCHANGED <<done, connOpen, control, flushed, wire>>

WriterExits(s) ==
  /\ writer' = [writer EXCEPT ![s] = "exit"]
  /\ Stop(s)
  /\ UNCHANGED <<control, slot, writing, flushed, wire>>

\* The outer select: done or a control frame, and only without either the inner one.
WriterTop(s) ==
  /\ writer[s] = "top"
  /\ \/ done[s] /\ WriterExits(s)
     \/ TakeControl(s)
     \/ /\ ~done[s] /\ control[s] = <<>>
        /\ writer' = [writer EXCEPT ![s] = "idle"]
        /\ UNCHANGED <<done, connOpen, control, slot, writing, flushed, wire>>
  /\ UNCHANGED <<acceptorVars, peer, log, got, taken, frames, closerVars>>

WriterIdleControlOnly(s) ==
  /\ writer[s] = "idle"
  /\ \/ done[s] /\ WriterExits(s)
     \/ TakeControl(s)
  /\ UNCHANGED <<acceptorVars, peer, log, got, taken, frames, closerVars>>
\* The inner select: whatever comes first.
WriterIdle(s) ==
  /\ writer[s] = "idle"
  /\ \/ done[s] /\ WriterExits(s)
     \/ TakeControl(s)
     \/ \E d \in Display : TakeDisplay(s, d)
  /\ UNCHANGED <<acceptorVars, peer, log, got, taken, frames, closerVars>>

\* The write succeeds while the connection is open; it fails on a closed one, and
\* on a client that does not read within the deadline.
Write(s) ==
  /\ writer[s] = "write"
  /\ \/ /\ s = peer /\ connOpen
        /\ wire' = [wire EXCEPT ![s][writing[s].kind] = Append(@, writing[s].n)]
        /\ writer' = [writer EXCEPT ![s] = "top"]
        /\ UNCHANGED <<done, connOpen, control, slot, writing, flushed>>
     \/ WriterExits(s)
  /\ UNCHANGED <<acceptorVars, peer, log, got, taken, frames, closerVars>>

-----------------------------------------------------------------------------
(* Close. *)

\* No frame is taken any more; the session that is current now is flushed.
BeginClose ==
  /\ closer = "idle"
  /\ closing' = TRUE
  /\ closePeer' = peer
  /\ closer' = IF peer # None THEN "mark" ELSE "shut"
  /\ UNCHANGED <<acceptorVars, connOpen, peer, done, log, got, queueVars, writerVars, serverDone, incomingClosed>>

\* flush: a marker behind the queued frames, or the session is over, or time is up.
FlushMark ==
  /\ closer = "mark"
  /\ \/ /\ Len(control[closePeer]) < ControlCap
        /\ control' = [control EXCEPT ![closePeer] = Append(@, Marker)]
        /\ closer' = "await"
     \/ closer' = "shut" /\ UNCHANGED control
  /\ UNCHANGED <<acceptorVars, connOpen, peer, done, log, got, slot, taken, frames, writerVars,
                 closePeer, closing, serverDone, incomingClosed>>

\* flush: the marker was reached, the session is over, or time is up.
FlushAwait ==
  /\ closer = "await"
  /\ closer' = "shut"
  /\ UNCHANGED <<acceptorVars, connOpen, peer, done, log, got, queueVars, writerVars,
                 closePeer, closing, serverDone, incomingClosed>>

\* The session is stopped, done, the listener and the connection are closed.
Shut ==
  /\ closer = "shut"
  /\ serverDone' = TRUE
  /\ done' = [s \in Sessions |-> done[s] \/ s = closePeer]
  /\ connOpen' = FALSE
  /\ closer' = "wait"
  /\ UNCHANGED <<acceptorVars, peer, log, got, queueVars, writerVars, closePeer, closing, incomingClosed>>

WorkersIgnored == TRUE
WorkersDone == acceptor = "exit" /\ \A s \in Sessions : writer[s] \in {"none", "exit"}

\* workers.Wait, then Incoming is closed.
FinishClose ==
  /\ closer = "wait" /\ WorkersDone
  /\ incomingClosed' = TRUE
  /\ closer' = "finished"
  /\ UNCHANGED <<acceptorVars, connOpen, peer, done, log, got, queueVars, writerVars, closePeer, closing, serverDone>>
-----------------------------------------------------------------------------

Acceptor ==
  \/ Accept \/ AcceptFails \/ Authenticate \/ Publish \/ DeliverConnected
  \/ ReadRequest \/ ReadEnds \/ DeliverRequest \/ StopServed \/ DeliverDisconnected \/ Clear
Writer(s) == WriterTop(s) \/ WriterIdle(s) \/ Write(s)
Closer == FlushMark \/ FlushAwait \/ Shut \/ FinishClose

Next ==
  \/ Acceptor \/ ClientDrops \/ Receive
  \/ \E id \in 0 .. MaxSession : SendControl(id) \/ \E d \in Display : SendDisplay(id, d)
  \/ \E s \in Sessions : Writer(s)
  \/ BeginClose \/ Closer

Spec == Init /\ [][Next]_vars

\* Goroutines that can run do; a connection that is closed ends its reader.
Fairness ==
  /\ WF_vars(AcceptFails \/ Authenticate \/ Publish \/ DeliverConnected \/ DeliverRequest
             \/ StopServed \/ DeliverDisconnected \/ Clear)
  /\ WF_vars(ReadEnds /\ ~connOpen)
  /\ \A s \in Sessions : WF_vars(Writer(s))
  /\ WF_vars(Closer)

FairSpec == Spec /\ Fairness

-----------------------------------------------------------------------------
(* Properties. *)

\* Events are delivered "in connection order, including lifecycle transitions"
\* (Event): each session is announced first, reported ended last, and the next
\* one is announced only after that, when the old one is over: a delayed request is
\* never taken for one of a newer GUI, and two GUIs are never served at once.
EventOrder ==
  /\ \A i \in 1 .. Len(log) :
       IF i = 1 THEN log[1] = [kind |-> "connected", session |-> 1]
       ELSE LET first == log[i - 1].kind = "disconnected" IN
            /\ log[i].kind = "connected" <=> first
            /\ log[i].session = log[i - 1].session + IF first THEN 1 ELSE 0
  /\ \A s \in Sessions : s < nextSession => done[s] /\ peer # s

\* Control frames reach the GUI in the order SendTo took them, none lost and none
\* twice, up to the point where the session ends; the display frames written are
\* ever newer, so that a stale state never follows a later one.
WireOrder ==
  \A s \in Sessions :
    /\ IsPrefix(wire[s]["control"], taken[s])
    /\ \A d \in Display : \A i \in 1 .. Len(wire[s][d]) - 1 : wire[s][d][i] < wire[s][d][i + 1]

\* Close "flushes queued control frames": once the marker is reached, every
\* control frame ever taken for the session has been written.
FlushMeansWritten ==
  \A s \in Sessions : flushed[s] => wire[s]["control"] = taken[s]

\* What the GUI reads of a session is what the program sent it: in order, fresh, and all of
\* it up to the marker when the server closes (session.go: SendTo, writeLoop, flush). Every
\* variable keeps its type meanwhile.
WireTrue == TypeOK /\ WireOrder /\ FlushMeansWritten

\* Nothing is sent on Incoming after Close has closed it.
NoSendAfterClose == [][log' # log => ~incomingClosed]_vars

\* Close ends, whatever the GUI does and although nobody receives events any more.
CloseTerminates == closer # "idle" ~> closer = "finished"

\* To a program that keeps receiving (waitIPC is armed again by every event), the
\* end of a session that was announced is reported, unless the server closes.
EndReported ==
  WF_vars(Receive) =>
    \A s \in Sessions :
      (done[s] /\ [kind |-> "connected", session |-> s] \in ToSet(log)) ~>
        ([kind |-> "disconnected", session |-> s] \in ToSet(log) \/ serverDone)

\* The latest display frame, or a newer one, is written unless the session ends.
LatestWritten ==
  \A s \in Sessions, d \in Display, n \in 1 .. MaxMessage :
    slot[s][d] = n ~> (done[s] \/ \E i \in 1 .. Len(wire[s][d]) : wire[s][d][i] >= n)

\* No news is lost on either side: the end of a session reaches the program, the latest
\* display frame the GUI (session.go: deliver, writeLoop).
NewsArrives == EndReported /\ LatestWritten
=============================================================================
