--------------------------- MODULE IpcServerProofs ---------------------------
(***************************************************************************)
(* Theorems about IpcServer, for every number of connections, sessions and *)
(* frames, and queues of every capacity.                                   *)
(***************************************************************************)
EXTENDS IpcServer, TLAPS

-----------------------------------------------------------------------------
(* The inductive invariant.  Each part says what the place of one goroutine *)
(* implies about what the others share with it.                             *)

\* acceptLoop: where it is tells which session is published.
Serving == {"connected", "read", "request", "stop", "bye"}
Between == {"accept", "auth", "publish", "exit"}
Publishing ==
  /\ frames + requests <= MaxMessage
  /\ peer \in {None, nextSession}
  /\ acceptor \in Serving => peer = nextSession /\ nextSession # 0
  /\ acceptor \in Between => peer = None
  /\ acceptor = "publish" => nextSession < MaxSession
  /\ \A s \in Sessions : s > nextSession => writer[s] = "none"

\* A session is stopped before its end is reported and before another is published.
Ending ==
  /\ \A s \in Sessions : s < nextSession => done[s]
  /\ acceptor \in Between \cup {"clear", "bye"} /\ nextSession # 0 => done[nextSession]

\* The event that may come next, by the one that came last.
LastIs(kinds, s) == log # <<>> /\ log[Len(log)].kind \in kinds /\ log[Len(log)].session = s
Reported(n) == IF n = 0 THEN log = <<>> ELSE LastIs({"disconnected"}, n)
Told ==
  /\ acceptor \in {"accept", "clear"} /\ ~serverDone => Reported(nextSession)
  /\ acceptor \in {"auth", "publish"} => Reported(nextSession)
  /\ acceptor = "connected" => Reported(nextSession - 1)
  /\ acceptor \in {"read", "request", "stop", "bye"} => LastIs({"connected", "request"}, nextSession)

\* Close: a step that needs the one before it.
Closing ==
  /\ closing <=> closer # "idle"
  /\ closer \in {"mark", "await"} => closePeer # None
  /\ incomingClosed => acceptor = "exit"

\* Where the frames of a session are.
Busy(s, kind) == writer[s] = "write" /\ writing[s].kind = kind
InHand(s) == IF Busy(s, "control") THEN 1 ELSE 0
Marked(s) == control[s] # <<>> /\ control[s][Len(control[s])] = Marker
Queued(s) == IF Marked(s) THEN Len(control[s]) - 1 ELSE Len(control[s])

\* Control frames: those written, the one in hand and those queued are what was taken.
Ordered(s) ==
  /\ Len(wire[s]["control"]) <= Len(taken[s])
  /\ \A i \in 1 .. Len(wire[s]["control"]) : wire[s]["control"][i] = taken[s][i]
Placed(s) ==
  writer[s] # "exit" =>
    /\ Len(taken[s]) = Len(wire[s]["control"]) + InHand(s) + Queued(s)
    /\ Busy(s, "control") => writing[s].n = taken[s][Len(wire[s]["control"]) + 1]
    /\ \A i \in 1 .. Queued(s) : control[s][i] = taken[s][Len(wire[s]["control"]) + InHand(s) + i]

\* The marker is queued once, behind the last frame taken for the session Close found.
Flushing(s) ==
  /\ Marked(s) \/ flushed[s] => s = closePeer /\ closer \notin {"idle", "mark"}
  /\ flushed[s] => control[s] = <<>> /\ ~Busy(s, "control") /\ wire[s]["control"] = taken[s]

\* Display frames: what waits is newer than what is in hand, and that than what was written.
Fresh(s, d) ==
  LET w == wire[s][d] IN
  /\ \A i \in 1 .. Len(w) : w[i] <= frames
  /\ \A i \in 1 .. Len(w) - 1 : w[i] < w[i + 1]
  /\ Busy(s, d) => writing[s].n <= frames /\ \A i \in 1 .. Len(w) : w[i] < writing[s].n
  /\ slot[s][d] # None =>
       /\ slot[s][d] <= frames
       /\ Busy(s, d) => writing[s].n < slot[s][d]
       /\ \A i \in 1 .. Len(w) : w[i] < slot[s][d]

\* What concerns acceptLoop and Close, and what concerns the frames.
Lifecycle == Publishing /\ Ending /\ Told /\ EventOrder /\ Closing
FramesOf(s) == Ordered(s) /\ Placed(s) /\ Flushing(s) /\ \A d \in Display : Fresh(s, d)
Frames == \A s \in Sessions : FramesOf(s)
IInv == TypeOK /\ Lifecycle /\ Frames

-----------------------------------------------------------------------------
(* Types: of acceptLoop and Close, of the events, and of the frames. *)

TypeOfServer ==
  /\ acceptor \in AcceptorState /\ closer \in CloserState
  /\ conns \in 0 .. MaxConn /\ requests \in 0 .. MaxMessage /\ frames \in 0 .. MaxMessage
  /\ peer \in 0 .. MaxSession /\ nextSession \in 0 .. MaxSession /\ closePeer \in 0 .. MaxSession
  /\ connOpen \in BOOLEAN
  /\ closing \in BOOLEAN /\ serverDone \in BOOLEAN /\ incomingClosed \in BOOLEAN
  /\ done \in [Sessions -> BOOLEAN]

TypeOfLog == log \in Seq(Event) /\ got \in 0 .. Len(log) /\ Len(log) - got <= InCap

TypeOfFrames ==
  /\ control \in [Sessions -> Seq(0 .. MaxMessage)]
  /\ \A s \in Sessions : Len(control[s]) <= ControlCap
  /\ slot \in [Sessions -> [Display -> 0 .. MaxMessage]]
  /\ writer \in [Sessions -> WriterState]
  /\ writing \in [Sessions -> Frame]
  /\ wire \in [Sessions -> [Kind -> Seq(0 .. MaxMessage)]]
  /\ taken \in [Sessions -> Seq(1 .. MaxMessage)]
  /\ flushed \in [Sessions -> BOOLEAN]

LEMMA TypeParts == TypeOK <=> TypeOfServer /\ TypeOfLog /\ TypeOfFrames
BY DEF TypeOK, TypeOfServer, TypeOfLog, TypeOfFrames

LEMMA InitType == Init => TypeOK
<1> SUFFICES ASSUME Init PROVE TypeOK
  OBVIOUS
<1>1. TypeOfServer
  <2>1. /\ conns \in 0 .. MaxConn /\ requests \in 0 .. MaxMessage /\ frames \in 0 .. MaxMessage
        /\ peer \in 0 .. MaxSession /\ nextSession \in 0 .. MaxSession /\ closePeer \in 0 .. MaxSession
    BY CapacityAssumption DEF Init, None
  <2>2. acceptor \in AcceptorState /\ closer \in CloserState
    BY DEF Init, AcceptorState, CloserState
  <2>3. connOpen \in BOOLEAN /\ closing \in BOOLEAN /\ serverDone \in BOOLEAN /\ incomingClosed \in BOOLEAN
    BY Zenon DEF Init
  <2>4. done \in [Sessions -> BOOLEAN]
    BY DEF Init
  <2> QED BY <2>1, <2>2, <2>3, <2>4 DEF TypeOfServer
<1>2. TypeOfLog
  BY CapacityAssumption DEF Init, TypeOfLog
<1>3. TypeOfFrames
  <2>1. \A k \in Kind : <<>> \in Seq(0 .. MaxMessage)
    OBVIOUS
  <2>2. wire \in [Sessions -> [Kind -> Seq(0 .. MaxMessage)]]
    BY <2>1 DEF Init
  <2>3. slot \in [Sessions -> [Display -> 0 .. MaxMessage]]
    BY CapacityAssumption DEF Init, None
  <2>4. writing \in [Sessions -> Frame]
    BY CapacityAssumption DEF Init, NoFrame, Frame, Marker, Kind
  <2>5. writer \in [Sessions -> WriterState] /\ flushed \in [Sessions -> BOOLEAN]
    BY DEF Init, WriterState
  <2>6. /\ control \in [Sessions -> Seq(0 .. MaxMessage)] /\ taken \in [Sessions -> Seq(1 .. MaxMessage)]
        /\ \A s \in Sessions : Len(control[s]) <= ControlCap
    BY CapacityAssumption DEF Init
  <2> QED BY <2>2, <2>3, <2>4, <2>5, <2>6 DEF TypeOfFrames
<1> QED BY <1>1, <1>2, <1>3, TypeParts

\* Delivering an event, given that a session is published.
LEMMA DeliverType ==
  ASSUME TypeOfServer, TypeOfLog, peer \in Sessions,
         NEW kind \in {"connected", "request", "disconnected"}, NEW next \in AcceptorState,
         Deliver(kind, next), UNCHANGED got
  PROVE  /\ TypeOfLog' /\ acceptor' \in AcceptorState /\ connOpen' \in BOOLEAN
         /\ done' \in [Sessions -> BOOLEAN]
<1>1. CASE Len(log) - got < InCap /\ log' = Append(log, [kind |-> kind, session |-> peer]) /\ acceptor' = next
           /\ UNCHANGED <<done, connOpen>>
  <2>1. [kind |-> kind, session |-> peer] \in Event
    BY DEF Event
  <2>2. TypeOfLog'
    BY <1>1, <2>1, CapacityAssumption DEF TypeOfLog
  <2> QED BY <1>1, <2>2 DEF TypeOfServer
<1>2. CASE serverDone /\ acceptor' = "clear" /\ Stop(peer) /\ UNCHANGED log
  <2>1. TypeOfLog'
    BY <1>2 DEF TypeOfLog
  <2>2. acceptor' \in AcceptorState
    BY <1>2 DEF AcceptorState
  <2>3. connOpen' \in BOOLEAN
    BY <1>2 DEF Stop, TypeOfServer
  <2>4. done' \in [Sessions -> BOOLEAN]
    BY <1>2 DEF Stop, TypeOfServer
  <2> QED BY <2>1, <2>2, <2>3, <2>4
<1> QED BY <1>1, <1>2 DEF Deliver

LEMMA AcceptorType ==
  ASSUME TypeOfServer, TypeOfLog, Publishing, Acceptor \/ ClientDrops \/ Receive
  PROVE  TypeOfServer' /\ TypeOfLog'
<1> USE DEF queueVars, writerVars, closerVars
<1>1. CASE Accept
  BY <1>1, CapacityAssumption DEF Accept, TypeOfServer, TypeOfLog, AcceptorState
<1>2. CASE AcceptFails
  BY <1>2 DEF AcceptFails, TypeOfServer, TypeOfLog, AcceptorState
<1>3. CASE Authenticate
  BY <1>3 DEF Authenticate, TypeOfServer, TypeOfLog, AcceptorState
<1>4. CASE Publish
  BY <1>4, CapacityAssumption DEF Publish, Publishing, TypeOfServer, TypeOfLog, AcceptorState
<1>5. peer \in Sessions \/ acceptor \notin Serving
  BY CapacityAssumption DEF Publishing, TypeOfServer, Sessions
<1>6. CASE DeliverConnected
  BY <1>5, <1>6, DeliverType DEF DeliverConnected, TypeOfServer, Serving, AcceptorState
<1>7. CASE ReadRequest
  BY <1>7, CapacityAssumption DEF ReadRequest, TypeOfServer, TypeOfLog, AcceptorState
<1>8. CASE ReadEnds
  BY <1>8 DEF ReadEnds, TypeOfServer, TypeOfLog, AcceptorState
<1>9. CASE DeliverRequest
  BY <1>5, <1>9, DeliverType DEF DeliverRequest, TypeOfServer, Serving, AcceptorState
<1>10. CASE StopServed
  BY <1>10 DEF StopServed, Stop, TypeOfServer, TypeOfLog, AcceptorState
<1>11. CASE DeliverDisconnected
  BY <1>5, <1>11, DeliverType DEF DeliverDisconnected, TypeOfServer, Serving, AcceptorState
<1>12. CASE Clear
  <2>1. peer' \in 0 .. MaxSession /\ acceptor' \in AcceptorState
    BY <1>12, CapacityAssumption DEF Clear, None, AcceptorState
  <2>2. connOpen' \in BOOLEAN
    BY <1>12, Zenon DEF Clear
  <2> QED BY <1>12, <2>1, <2>2 DEF Clear, TypeOfServer, TypeOfLog

<1>13. CASE ClientDrops
  BY <1>13 DEF ClientDrops, TypeOfServer, TypeOfLog, acceptorVars
<1>14. CASE Receive
  <2>1. TypeOfLog'
    BY <1>14, CapacityAssumption DEF Receive, TypeOfLog
  <2> QED BY <1>14, <2>1 DEF Receive, TypeOfServer, acceptorVars
<1> QED
  BY <1>1, <1>2, <1>3, <1>4, <1>6, <1>7, <1>8, <1>9, <1>10, <1>11, <1>12, <1>13, <1>14 DEF Acceptor

LEMMA AcceptorFramesType ==
  ASSUME TypeOfServer, TypeOfFrames, Publishing, Acceptor \/ ClientDrops \/ Receive
  PROVE  TypeOfFrames'
<1>1. CASE UNCHANGED <<queueVars, writerVars>>
  BY <1>1 DEF TypeOfFrames, queueVars, writerVars
<1>2. CASE Publish
  BY <1>2, CapacityAssumption DEF Publish, TypeOfFrames, WriterState, queueVars
<1> QED
  BY <1>1, <1>2 DEF Acceptor, Accept, AcceptFails, Authenticate, DeliverConnected, ReadRequest,
     ReadEnds, DeliverRequest, StopServed, DeliverDisconnected, Clear, ClientDrops, Receive

LEMMA SendType ==
  ASSUME TypeOfServer, TypeOfFrames, Publishing, NEW id \in 0 .. MaxSession,
         SendControl(id) \/ \E d \in Display : SendDisplay(id, d)
  PROVE  TypeOfServer' /\ TypeOfFrames' /\ UNCHANGED <<log, got>>
<1>1. peer \in Sessions /\ frames + 1 \in 1 .. MaxMessage
  BY CapacityAssumption DEF SendControl, SendDisplay, Matches, Publishing, TypeOfServer, Sessions, None
<1>2. CASE SendControl(id)
  <2>1. TypeOfServer'
    <3>1. connOpen' \in BOOLEAN /\ done' \in [Sessions -> BOOLEAN]
      BY <1>2 DEF SendControl, Stop, TypeOfServer
    <3> QED BY <1>1, <1>2, <3>1 DEF SendControl, TypeOfServer, acceptorVars, closerVars
  <2>2. control' \in [Sessions -> Seq(0 .. MaxMessage)] /\ taken' \in [Sessions -> Seq(1 .. MaxMessage)]
        /\ \A s \in Sessions : Len(control'[s]) <= ControlCap
    <3>1. CASE Len(control[peer]) < ControlCap
      <4>1. /\ control' = [control EXCEPT ![peer] = Append(@, frames + 1)]
            /\ taken' = [taken EXCEPT ![peer] = Append(@, frames + 1)]
        BY <1>2, <3>1 DEF SendControl
      <4>2. /\ Append(control[peer], frames + 1) \in Seq(0 .. MaxMessage)
            /\ Append(taken[peer], frames + 1) \in Seq(1 .. MaxMessage)
            /\ Len(Append(control[peer], frames + 1)) <= ControlCap
        BY <1>1, <3>1, CapacityAssumption DEF TypeOfFrames
      <4> QED BY <4>1, <4>2 DEF TypeOfFrames
    <3>2. CASE ~(Len(control[peer]) < ControlCap)
      BY <1>2, <3>2 DEF SendControl, TypeOfFrames
    <3> QED BY <3>1, <3>2
  <2> QED BY <1>2, <2>1, <2>2 DEF SendControl, TypeOfFrames, writerVars
<1>3. ASSUME NEW d \in Display, SendDisplay(id, d) PROVE TypeOfServer' /\ TypeOfFrames' /\ UNCHANGED <<log, got>>
  <2>1. TypeOfServer'
    BY <1>1, <1>3, CapacityAssumption DEF SendDisplay, TypeOfServer, acceptorVars, closerVars
  <2>2. slot' \in [Sessions -> [Display -> 0 .. MaxMessage]]
    BY <1>1, <1>3, CapacityAssumption DEF SendDisplay, TypeOfFrames
  <2> QED BY <1>3, <2>1, <2>2 DEF SendDisplay, TypeOfFrames, writerVars
<1> QED BY <1>2, <1>3

\* What a step of a writeLoop can be, apart from what it leaves alone.
WriterFrame == UNCHANGED <<acceptorVars, peer, log, got, taken, frames, closerVars>>
ToIdle(s) ==
  /\ ~done[s] /\ control[s] = <<>>
  /\ writer' = [writer EXCEPT ![s] = "idle"]
  /\ UNCHANGED <<done, connOpen, control, slot, writing, flushed, wire>>
Writes(s) ==
  /\ wire' = [wire EXCEPT ![s][writing[s].kind] = Append(@, writing[s].n)]
  /\ writer' = [writer EXCEPT ![s] = "top"]
  /\ UNCHANGED <<done, connOpen, control, slot, writing, flushed>>

LEMMA WriterSteps ==
  ASSUME NEW s \in Sessions, Writer(s)
  PROVE  /\ WriterFrame
         /\ \/ writer[s] \in {"top", "idle"} /\ TakeControl(s)
            \/ writer[s] \in {"top", "idle"} /\ \E d \in Display : TakeDisplay(s, d)
            \/ WriterExits(s)
            \/ writer[s] = "top" /\ ToIdle(s)
            \/ writer[s] = "write" /\ Writes(s)
BY DEF Writer, WriterTop, WriterIdle, Write, WriterFrame, ToIdle, Writes

LEMMA WriterType ==
  ASSUME TypeOfServer, TypeOfFrames, NEW s \in Sessions, Writer(s)
  PROVE  TypeOfServer' /\ TypeOfFrames' /\ UNCHANGED <<log, got>>
<1> USE DEF WriterFrame, acceptorVars, closerVars
<1>0. WriterFrame
  BY WriterSteps
<1>1. CASE TakeControl(s)
  <2>1. /\ Head(control[s]) \in 0 .. MaxMessage /\ Tail(control[s]) \in Seq(0 .. MaxMessage)
        /\ Len(Tail(control[s])) <= ControlCap
    BY <1>1, CapacityAssumption DEF TakeControl, TypeOfFrames
  <2>2. [kind |-> "control", n |-> Head(control[s])] \in Frame
    BY <2>1 DEF Frame, Kind
  <2>3. TypeOfFrames'
    BY <1>0, <1>1, <2>1, <2>2 DEF TakeControl, TypeOfFrames, WriterState
  <2> QED BY <1>0, <1>1, <2>3 DEF TakeControl, TypeOfServer
<1>2. ASSUME NEW d \in Display, TakeDisplay(s, d)
      PROVE TypeOfServer' /\ TypeOfFrames' /\ UNCHANGED <<log, got>>
  <2>1. [kind |-> d, n |-> slot[s][d]] \in Frame
    BY DEF TypeOfFrames, Frame, Kind
  <2>2. slot' \in [Sessions -> [Display -> 0 .. MaxMessage]]
    BY <1>2, CapacityAssumption DEF TakeDisplay, TypeOfFrames, None
  <2>3. TypeOfFrames'
    BY <1>0, <1>2, <2>1, <2>2 DEF TakeDisplay, TypeOfFrames, WriterState
  <2> QED BY <1>0, <1>2, <2>3 DEF TakeDisplay, TypeOfServer
<1>3. CASE WriterExits(s)
  <2>1. TypeOfServer'
    BY <1>0, <1>3 DEF WriterExits, Stop, TypeOfServer
  <2> QED BY <1>0, <1>3, <2>1 DEF WriterExits, TypeOfFrames, WriterState
<1>4. CASE ToIdle(s)
  BY <1>0, <1>4 DEF ToIdle, TypeOfServer, TypeOfFrames, WriterState
<1>5. CASE Writes(s)
  <2>1. writing[s].kind \in Kind /\ writing[s].n \in 0 .. MaxMessage
    BY DEF TypeOfFrames, Frame
  <2>2. wire' \in [Sessions -> [Kind -> Seq(0 .. MaxMessage)]]
    BY <1>5, <2>1 DEF Writes, TypeOfFrames
  <2> QED BY <1>0, <1>5, <2>2 DEF Writes, TypeOfServer, TypeOfFrames, WriterState
<1> QED BY <1>1, <1>2, <1>3, <1>4, <1>5, WriterSteps

LEMMA CloserType ==
  ASSUME TypeOfServer, TypeOfFrames, Closing, BeginClose \/ Closer
  PROVE  TypeOfServer' /\ TypeOfFrames' /\ UNCHANGED <<log, got>>
<1> USE DEF acceptorVars, queueVars, writerVars
<1>1. CASE BeginClose
  BY <1>1 DEF BeginClose, TypeOfServer, TypeOfFrames, CloserState
<1>2. CASE FlushMark
  <2>1. closePeer \in Sessions
    BY <1>2, CapacityAssumption DEF FlushMark, Closing, TypeOfServer, Sessions, None
  <2>2. /\ control' \in [Sessions -> Seq(0 .. MaxMessage)]
        /\ \A s \in Sessions : Len(control'[s]) <= ControlCap
    <3>1. CASE Len(control[closePeer]) < ControlCap
               /\ control' = [control EXCEPT ![closePeer] = Append(@, Marker)]
      <4>1. Append(control[closePeer], Marker) \in Seq(0 .. MaxMessage)
            /\ Len(Append(control[closePeer], Marker)) <= ControlCap
        BY <2>1, <3>1, CapacityAssumption DEF TypeOfFrames, Marker
      <4> QED BY <3>1, <4>1 DEF TypeOfFrames
    <3> QED BY <1>2, <3>1 DEF FlushMark, TypeOfFrames

  <2>3. TypeOfServer'
    BY <1>2 DEF FlushMark, TypeOfServer, CloserState
  <2> QED BY <1>2, <2>2, <2>3 DEF FlushMark, TypeOfFrames
<1>3. CASE FlushAwait
  BY <1>3 DEF FlushAwait, TypeOfServer, TypeOfFrames, CloserState
<1>4. CASE Shut
  BY <1>4 DEF Shut, TypeOfServer, TypeOfFrames, CloserState
<1>5. CASE FinishClose
  BY <1>5 DEF FinishClose, TypeOfServer, TypeOfFrames, CloserState
<1> QED BY <1>1, <1>2, <1>3, <1>4, <1>5 DEF Closer

LEMMA TypeStep == TypeOK /\ Publishing /\ Closing /\ [Next]_vars => TypeOK'
<1> SUFFICES ASSUME TypeOfServer, TypeOfLog, TypeOfFrames, Publishing, Closing, [Next]_vars
             PROVE  TypeOfServer' /\ TypeOfLog' /\ TypeOfFrames'
  BY TypeParts, PTL
<1>1. CASE UNCHANGED <<log, got>> /\ TypeOfServer' /\ TypeOfFrames'
  BY <1>1 DEF TypeOfLog
<1>2. CASE UNCHANGED vars
  BY <1>2 DEF TypeOfServer, TypeOfLog, TypeOfFrames, vars, acceptorVars, queueVars, writerVars, closerVars
<1> QED
  BY <1>1, <1>2, AcceptorType, AcceptorFramesType, SendType, WriterType, CloserType DEF Next

-----------------------------------------------------------------------------
(* Lifecycle: what acceptLoop, the end of a session and Close imply. *)

LEMMA InitLifecycle == Init => Lifecycle
<1> SUFFICES ASSUME Init PROVE Lifecycle
  OBVIOUS
<1>1. Publishing /\ Ending
  BY CapacityAssumption DEF Init, Publishing, Ending, Serving, Between, Sessions, None
<1>2. Told /\ EventOrder
  BY CapacityAssumption DEF Init, Told, Reported, EventOrder, Sessions
<1>3. Closing
  BY DEF Init, Closing
<1> QED BY <1>1, <1>2, <1>3 DEF Lifecycle

\* Steps that leave acceptLoop and Close where they are, and stop sessions at most.
Aside ==
  /\ UNCHANGED <<acceptorVars, peer, log, closerVars>>
  /\ \A s \in Sessions : done[s] => done'[s]
  /\ \A s \in Sessions : writer[s] = "none" => writer'[s] = "none"
  /\ frames' + requests <= MaxMessage

LEMMA AsideSteps ==
  ASSUME TypeOfServer, TypeOfFrames, Publishing,
         \/ ClientDrops \/ Receive
         \/ \E id \in 0 .. MaxSession : SendControl(id) \/ \E d \in Display : SendDisplay(id, d)
         \/ \E s \in Sessions : Writer(s)
         \/ UNCHANGED vars
  PROVE  Aside
<1> USE DEF Aside
<1>1. CASE ClientDrops \/ Receive \/ UNCHANGED vars
  BY <1>1 DEF ClientDrops, Receive, Publishing, vars, queueVars, writerVars, acceptorVars
<1>2. ASSUME NEW id \in 0 .. MaxSession, SendControl(id) PROVE Aside
  <2>1. \A s \in Sessions : done[s] => done'[s]
    BY <1>2 DEF SendControl, Stop, TypeOfServer
  <2> QED BY <1>2, <2>1, CapacityAssumption DEF SendControl, TypeOfServer, writerVars
<1>3. ASSUME NEW id \in 0 .. MaxSession, NEW d \in Display, SendDisplay(id, d) PROVE Aside
  BY <1>3, CapacityAssumption DEF SendDisplay, TypeOfServer, writerVars
<1>4. ASSUME NEW s \in Sessions, Writer(s), writer[s] # "none" PROVE Aside
  <2>1. WriterFrame
    BY <1>4, WriterSteps
  <2>2. \A r \in Sessions : done[r] => done'[r]
    BY <1>4, WriterSteps DEF TakeControl, TakeDisplay, WriterExits, ToIdle, Writes, Stop, TypeOfServer
  <2>3. \A r \in Sessions : writer[r] = "none" => writer'[r] = "none"
    BY <1>4, WriterSteps DEF TakeControl, TakeDisplay, WriterExits, ToIdle, Writes, TypeOfFrames
  <2> QED BY <2>1, <2>2, <2>3 DEF WriterFrame, Publishing, acceptorVars
<1>5. ASSUME NEW s \in Sessions, Writer(s) PROVE writer[s] # "none"
  BY <1>5 DEF Writer, WriterTop, WriterIdle, Write
<1> QED BY <1>1, <1>2, <1>3, <1>4, <1>5

LEMMA PublishingStep ==
  ASSUME TypeOfServer, TypeOfFrames, Publishing, Aside \/ Acceptor \/ BeginClose \/ Closer
  PROVE  Publishing'
<1> USE CapacityAssumption DEF Publishing, Serving, Between, acceptorVars
<1>1. CASE Aside
  BY <1>1 DEF Aside, TypeOfServer
<1>2. CASE BeginClose \/ Closer
  BY <1>2 DEF BeginClose, Closer, FlushMark, FlushAwait, Shut, FinishClose, queueVars, writerVars
<1>3. CASE Acceptor /\ ~Publish
  BY <1>3 DEF Acceptor, Accept, AcceptFails, Authenticate, DeliverConnected, DeliverRequest,
     DeliverDisconnected, Deliver, ReadRequest, ReadEnds, StopServed, Clear, TypeOfServer, None,
     queueVars, writerVars
<1>4. CASE Publish
  <2>1. \A s \in Sessions : s > nextSession' => writer'[s] = "none"
    BY <1>4 DEF Publish, TypeOfServer, TypeOfFrames, Sessions
  <2> QED BY <1>4, <2>1 DEF Publish, TypeOfServer, queueVars
<1> QED BY <1>1, <1>2, <1>3, <1>4

LEMMA EndingStep ==
  ASSUME TypeOfServer, Publishing, Ending, Aside \/ Acceptor \/ BeginClose \/ Closer
  PROVE  Ending'
<1> USE CapacityAssumption DEF Ending, Serving, Between, acceptorVars
<1>1. CASE Aside
  BY <1>1 DEF Aside, TypeOfServer, Sessions
<1>2. CASE BeginClose \/ Closer
  BY <1>2 DEF BeginClose, Closer, FlushMark, FlushAwait, Shut, FinishClose, TypeOfServer, Sessions
<1>3. CASE Accept \/ AcceptFails \/ Authenticate \/ ReadRequest \/ ReadEnds \/ Clear
  BY <1>3 DEF Accept, AcceptFails, Authenticate, ReadRequest, ReadEnds, Clear
<1>4. CASE Publish
  BY <1>4 DEF Publish, TypeOfServer, Sessions
<1>5. (peer \in Sessions /\ peer = nextSession) \/ acceptor \notin Serving
  BY DEF Publishing, TypeOfServer, Sessions
<1>6. CASE DeliverConnected \/ DeliverRequest \/ DeliverDisconnected \/ StopServed
  BY <1>5, <1>6 DEF DeliverConnected, DeliverRequest, DeliverDisconnected, Deliver, StopServed, Stop,
     TypeOfServer
<1> QED BY <1>1, <1>2, <1>3, <1>4, <1>6 DEF Acceptor

LEMMA ClosingStep ==
  ASSUME TypeOfServer, Closing, Aside \/ Acceptor \/ BeginClose \/ Closer
  PROVE  Closing'
<1> USE DEF Closing, acceptorVars, closerVars
<1>1. CASE Aside
  BY <1>1 DEF Aside
<1>2. CASE Acceptor
  BY <1>2 DEF Acceptor, Accept, AcceptFails, Authenticate, Publish, DeliverConnected, DeliverRequest,
     DeliverDisconnected, ReadRequest, ReadEnds, StopServed, Clear
<1>3. CASE BeginClose \/ Closer
  BY <1>3 DEF BeginClose, Closer, FlushMark, FlushAwait, Shut, FinishClose, WorkersDone, None
<1> QED BY <1>1, <1>2, <1>3

\* What an event appended to the log leaves of its order, and makes of its end.
LEMMA LogGrows ==
  ASSUME TypeOfLog, NEW e \in Event, log' = Append(log, e)
  PROVE  /\ Len(log') = Len(log) + 1
         /\ \A i \in 1 .. Len(log) : log'[i] = log[i]
         /\ log'[Len(log')] = e /\ log' # <<>>
BY DEF TypeOfLog

Follows(l, i) ==
  IF i = 1 THEN l[1] = [kind |-> "connected", session |-> 1]
  ELSE LET first == l[i - 1].kind = "disconnected" IN
       /\ l[i].kind = "connected" <=> first
       /\ l[i].session = l[i - 1].session + IF first THEN 1 ELSE 0
InOrder == \A i \in 1 .. Len(log) : Follows(log, i)

LEMMA OrderStep ==
  ASSUME TypeOfServer, TypeOfLog, Publishing, Told, InOrder, Acceptor
  PROVE  Told' /\ InOrder'
<1> USE CapacityAssumption DEF acceptorVars, closerVars
<1>1. CASE UNCHANGED log /\ Acceptor
  <2>1. InOrder'
    BY <1>1 DEF InOrder
  <2>2. CASE Accept \/ AcceptFails \/ Authenticate \/ ReadRequest \/ ReadEnds \/ Clear \/ StopServed
    BY <1>1, <2>1, <2>2 DEF Accept, AcceptFails, Authenticate, ReadRequest, ReadEnds, Clear, StopServed,
       Told, Reported, LastIs
  <2>3. CASE Publish
    <3>1. Reported(nextSession) /\ nextSession' - 1 = nextSession /\ nextSession' # 0
      BY <2>3 DEF Publish, Told, TypeOfServer
    <3>2. acceptor' = "connected" /\ Reported(nextSession' - 1)
      BY <2>3, <3>1 DEF Publish
    <3>3. Reported(nextSession' - 1) <=> Reported(nextSession - 1)'
      BY <1>1 DEF Reported, LastIs
    <3> QED BY <2>1, <3>2, <3>3 DEF Told
  <2>4. CASE serverDone /\ acceptor' = "clear" /\ UNCHANGED closerVars
    BY <1>1, <2>1, <2>4 DEF Told
  <2>5. ~(Len(log) - got < InCap /\ log' = Append(log, [kind |-> "connected", session |-> peer]))
        /\ ~(Len(log) - got < InCap /\ log' = Append(log, [kind |-> "request", session |-> peer]))
        /\ ~(Len(log) - got < InCap /\ log' = Append(log, [kind |-> "disconnected", session |-> peer]))
    <3>1. \A e : Len(Append(log, e)) = Len(log) + 1
      BY DEF TypeOfLog
    <3>2. Len(log) # Len(log) + 1
      BY DEF TypeOfLog
    <3> QED BY <1>1, <3>1, <3>2
  <2> QED
    BY <1>1, <2>1, <2>2, <2>3, <2>4, <2>5 DEF Acceptor, DeliverConnected, DeliverRequest, DeliverDisconnected, Deliver
<1> DEFINE kind == CASE acceptor = "connected" -> "connected"
                     [] acceptor = "request" -> "request"
                     [] acceptor = "bye" -> "disconnected"
           next == IF acceptor = "bye" THEN "clear" ELSE "read"
<1>2. CASE /\ log' = Append(log, [kind |-> kind, session |-> peer]) /\ acceptor' = next
           /\ acceptor \in {"connected", "request", "bye"} /\ UNCHANGED <<nextSession, peer>>
  <2>1. peer = nextSession /\ peer \in Sessions /\ peer # 0
    BY <1>2 DEF Publishing, Serving, TypeOfServer, Sessions
  <2>0. \/ acceptor = "connected" /\ kind = "connected" /\ next = "read"
        \/ acceptor = "request" /\ kind = "request" /\ next = "read"
        \/ acceptor = "bye" /\ kind = "disconnected" /\ next = "clear"
    BY <1>2
  <2> HIDE DEF kind, next
  <2>2. [kind |-> kind, session |-> peer] \in Event
    BY <2>0, <2>1 DEF Event
  <2>3. /\ Len(log') = Len(log) + 1
        /\ \A i \in 1 .. Len(log) : log'[i] = log[i]
        /\ log'[Len(log')] = [kind |-> kind, session |-> peer] /\ log' # <<>>
    BY <1>2, <2>2, LogGrows
  <2>4. Told'
    BY <1>2, <2>0, <2>1, <2>3 DEF Told, Reported, LastIs
  <2>5. Len(log) \in Nat /\ (log # <<>> => Len(log) > 0) /\ (log = <<>> => Len(log) = 0)
    BY DEF TypeOfLog
  <2>6. CASE log = <<>>
    BY <1>2, <2>0, <2>1, <2>3, <2>5, <2>6 DEF InOrder, Follows, Told, Reported, LastIs, TypeOfServer
  <2>7. CASE log # <<>>
    <3>1. LET first == log[Len(log)].kind = "disconnected" IN
          /\ kind = "connected" <=> first
          /\ peer = log[Len(log)].session + IF first THEN 1 ELSE 0
      BY <1>2, <2>0, <2>1, <2>7 DEF Told, Reported, LastIs, TypeOfServer
    <3>2. \A i \in 1 .. Len(log) : Follows(log', i)
      <4>1. \A i \in 1 .. Len(log) : i # 1 => i - 1 \in 1 .. Len(log)
        BY <2>5
      <4>2. \A i \in 1 .. Len(log) : Follows(log, i)
        BY DEF InOrder
      <4> QED BY <2>3, <2>5, <4>1, <4>2 DEF Follows
    <3>3. Follows(log', Len(log) + 1)
      BY <2>3, <2>5, <2>7, <3>1 DEF Follows
    <3>4. \A i \in 1 .. Len(log') : i \in 1 .. Len(log) \/ i = Len(log) + 1
      BY <2>3, <2>5
    <3>5. \A i : Follows(log, i)' <=> Follows(log', i)
      BY DEF Follows
    <3>6. \A i \in 1 .. Len(log') : Follows(log', i)
      BY <3>2, <3>3, <3>4
    <3> QED BY <2>4, <3>5, <3>6 DEF InOrder
  <2> QED BY <2>4, <2>6, <2>7
<1>3. CASE DeliverConnected
  <2>1. CASE log' = Append(log, [kind |-> "connected", session |-> peer]) /\ acceptor' = "read"
    <3>1. acceptor = "connected" /\ UNCHANGED <<nextSession, peer>>
      BY <1>3 DEF DeliverConnected
    <3> QED BY <1>2, <2>1, <3>1
  <2> QED BY <1>1, <1>3, <2>1 DEF DeliverConnected, Deliver
<1>4. CASE DeliverRequest
  <2>1. CASE log' = Append(log, [kind |-> "request", session |-> peer]) /\ acceptor' = "read"
    <3>1. acceptor = "request" /\ UNCHANGED <<nextSession, peer>>
      BY <1>4 DEF DeliverRequest
    <3> QED BY <1>2, <2>1, <3>1
  <2> QED BY <1>1, <1>4, <2>1 DEF DeliverRequest, Deliver
<1>5. CASE DeliverDisconnected
  <2>1. CASE log' = Append(log, [kind |-> "disconnected", session |-> peer]) /\ acceptor' = "clear"
    BY <1>2, <1>5, <2>1 DEF DeliverDisconnected
  <2> QED BY <1>1, <1>5, <2>1 DEF DeliverDisconnected, Deliver
<1> QED
  BY <1>1, <1>3, <1>4, <1>5 DEF Acceptor, Accept, AcceptFails, Authenticate, Publish, ReadRequest, ReadEnds,
     StopServed, Clear

LEMMA LifecycleStep == TypeOK /\ Lifecycle /\ [Next]_vars => Lifecycle'
<1> SUFFICES ASSUME TypeOK, Lifecycle, [Next]_vars PROVE Lifecycle'
  OBVIOUS
<1> USE DEF Lifecycle
<1>0. TypeOfServer /\ TypeOfLog /\ TypeOfFrames
  BY TypeParts
<1>1. EventOrder <=> InOrder /\ \A s \in Sessions : s < nextSession => done[s] /\ peer # s
  BY DEF EventOrder, InOrder, Follows
<1>2. EventOrder' <=> (InOrder /\ \A s \in Sessions : s < nextSession => done[s] /\ peer # s)'
  BY DEF EventOrder, InOrder, Follows
<1>3. Aside \/ Acceptor \/ BeginClose \/ Closer
  BY <1>0, AsideSteps DEF Next
<1>4. Publishing' /\ Ending' /\ Closing'
  BY <1>0, <1>3, PublishingStep, EndingStep, ClosingStep
<1>5. Told' /\ InOrder'
  <2>1. CASE Aside
    BY <1>1, <2>1 DEF Aside, Told, Reported, LastIs, InOrder, acceptorVars, closerVars
  <2>2. CASE BeginClose \/ Closer
    BY <1>1, <2>2 DEF BeginClose, Closer, FlushMark, FlushAwait, Shut, FinishClose, Told, Reported, LastIs, InOrder,
       acceptorVars
  <2> QED BY <1>0, <1>1, <1>3, <2>1, <2>2, OrderStep
<1>6. (\A s \in Sessions : s < nextSession => done[s] /\ peer # s)'
  <2>1. nextSession' \in 0 .. MaxSession
    BY TypeStep DEF TypeOK

  <2> QED BY <1>4, <2>1, CapacityAssumption DEF Ending, Publishing, Sessions, None
<1> QED BY <1>2, <1>4, <1>5, <1>6


-----------------------------------------------------------------------------
(* Frames: where the frames of each session are. *)

\* What the proofs below use of sequences.
LEMMA SeqElements ==
  ASSUME NEW S, NEW q \in Seq(S)
  PROVE  Len(q) \in Nat /\ \A i \in 1 .. Len(q) : q[i] \in S
OBVIOUS

LEMMA SeqAppended ==
  ASSUME NEW S, NEW q \in Seq(S), NEW e
  PROVE  /\ Len(Append(q, e)) = Len(q) + 1
         /\ Append(q, e)[Len(q) + 1] = e
         /\ \A i \in 1 .. Len(q) : Append(q, e)[i] = q[i]
OBVIOUS

LEMMA SeqTail ==
  ASSUME NEW S, NEW q \in Seq(S), q # <<>>
  PROVE  /\ Len(q) \in Nat \ {0} /\ Head(q) = q[1]
         /\ Len(Tail(q)) = Len(q) - 1 /\ Tail(q) \in Seq(S)
         /\ \A i \in 1 .. Len(q) - 1 : Tail(q)[i] = q[i + 1]
         /\ Tail(q) = <<>> <=> Len(q) = 1
<1>1. Len(q) \in Nat \ {0} /\ Head(q) = q[1]
  OBVIOUS
<1>2. Len(Tail(q)) = Len(q) - 1 /\ Tail(q) \in Seq(S)
  OBVIOUS
<1>3. \A i \in 1 .. Len(q) - 1 : Tail(q)[i] = q[i + 1]
  OBVIOUS
<1>4. \A r \in Seq(S) : r = <<>> <=> Len(r) = 0
  OBVIOUS
<1> QED BY <1>1, <1>2, <1>3, <1>4

LEMMA InitFrames == Init => Frames
BY CapacityAssumption DEF Init, Frames, FramesOf, Ordered, Placed, Flushing, Fresh, Busy, InHand, Marked,
   Queued, Kind, NoFrame, None, Marker

\* What is known of the frames of a session stays so while they stay where they are.
LEMMA FramesStay ==
  ASSUME TypeOfServer, TypeOfFrames, NEW s \in Sessions, FramesOf(s),
         control'[s] = control[s], slot'[s] = slot[s], wire'[s] = wire[s],
         taken'[s] = taken[s], flushed'[s] = flushed[s],
         \/ writer'[s] = writer[s] /\ writing'[s] = writing[s]
         \/ writer[s] # "write" /\ writer[s] # "exit" /\ writer'[s] # "write"
         \/ writer'[s] = "exit",
         frames' \in Nat, frames <= frames',
         s = closePeer /\ closer \notin {"idle", "mark"}
           => closePeer' = closePeer /\ closer' \notin {"idle", "mark"}
  PROVE  FramesOf(s)'
<1> USE DEF FramesOf, Busy
<1>1. Ordered(s)'
  BY DEF Ordered
<1>2. Placed(s)'
  BY DEF Placed, InHand, Queued, Marked
<1>3. Flushing(s)'
  BY DEF Flushing, Marked
<1>4. ASSUME NEW d \in Display PROVE Fresh(s, d)'
  <2>1. /\ wire[s][d] \in Seq(0 .. MaxMessage) /\ slot[s][d] \in 0 .. MaxMessage
        /\ writing[s].n \in 0 .. MaxMessage /\ frames \in Nat
        /\ wire'[s][d] = wire[s][d] /\ slot'[s][d] = slot[s][d]
    BY DEF TypeOfFrames, TypeOfServer, Kind, Frame
  <2>2. Busy(s, d)' => Busy(s, d) /\ writing'[s].n = writing[s].n
    OBVIOUS
  <2> HIDE DEF Busy
  <2>3. Len(wire[s][d]) \in Nat /\ \A i \in 1 .. Len(wire[s][d]) : wire[s][d][i] \in Nat
    <3>1. \A i \in 1 .. Len(wire[s][d]) : wire[s][d][i] \in 0 .. MaxMessage
      BY <2>1, SeqElements
    <3> QED BY <2>1, <3>1, CapacityAssumption, SeqElements
  <2>4. Fresh(s, d)
    BY DEF FramesOf
  <2>5. slot[s][d] \in Nat /\ writing[s].n \in Nat
    BY <2>1, CapacityAssumption
  <2> QED BY <2>1, <2>2, <2>3, <2>4, <2>5 DEF Fresh
<1> QED BY <1>1, <1>2, <1>3, <1>4

LEMMA PublishFrames ==
  ASSUME TypeOfServer, TypeOfFrames, Publishing, Frames, Publish
  PROVE  Frames'
<1> SUFFICES ASSUME NEW s \in Sessions PROVE FramesOf(s)'
  BY DEF Frames
<1>1. \/ writer'[s] = writer[s]
      \/ writer[s] = "none" /\ writer'[s] = "top"
  BY CapacityAssumption DEF Publish, Publishing, TypeOfFrames, TypeOfServer, Sessions
<1> QED
  BY <1>1, FramesStay DEF Publish, Frames, TypeOfServer, queueVars, closerVars

LEMMA SendDisplayFrames ==
  ASSUME TypeOfServer, TypeOfFrames, Publishing, Frames,
         NEW id \in 0 .. MaxSession, NEW d \in Display, SendDisplay(id, d)
  PROVE  Frames'
<1> SUFFICES ASSUME NEW s \in Sessions PROVE FramesOf(s)'
  BY DEF Frames
<1> USE DEF SendDisplay, writerVars, closerVars
<1>1. peer \in Sessions /\ frames \in Nat /\ frames' = frames + 1 /\ frames' \in Nat /\ frames <= frames'
  BY DEF Matches, TypeOfServer, Sessions, None
<1>2. CASE s # peer
  <2>1. slot'[s] = slot[s]
    BY <1>2 DEF TypeOfFrames
  <2> QED BY <1>1, <2>1, FramesStay DEF Frames
<1>3. CASE s = peer
  <2>1. FramesOf(s)
    BY DEF Frames
  <2>2. Ordered(s)' /\ Placed(s)' /\ Flushing(s)'
    BY <2>1 DEF FramesOf, Ordered, Placed, Flushing, Busy, InHand, Queued, Marked
  <2>3. ASSUME NEW c \in Display PROVE Fresh(s, c)'
    <3>1. /\ wire[s][c] \in Seq(0 .. MaxMessage) /\ slot[s][c] \in 0 .. MaxMessage
          /\ writing[s].n \in 0 .. MaxMessage
          /\ slot'[s][c] = slot[s][c] \/ slot'[s][c] = frames + 1
      BY DEF TypeOfFrames, Kind, Frame
    <3>2. Len(wire[s][c]) \in Nat /\ \A i \in 1 .. Len(wire[s][c]) : wire[s][c][i] \in Nat
      <4>1. Len(wire[s][c]) \in Nat /\ \A i \in 1 .. Len(wire[s][c]) : wire[s][c][i] \in 0 .. MaxMessage
        BY <3>1, SeqElements
      <4>2. 0 .. MaxMessage \subseteq Nat
        BY CapacityAssumption
      <4> QED BY <4>1, <4>2
    <3>3. Busy(s, c)' <=> Busy(s, c)
      BY DEF Busy
    <3>4. Fresh(s, c)
      BY <2>1 DEF FramesOf
    <3>5. slot[s][c] \in Nat /\ writing[s].n \in Nat
      BY <3>1, CapacityAssumption
    <3>6. \A i \in 1 .. Len(wire[s][c]) : wire[s][c][i] <= frames'
      BY <1>1, <3>1, <3>2, <3>4 DEF Fresh
    <3>7. Busy(s, c) => writing[s].n <= frames' /\ \A i \in 1 .. Len(wire[s][c]) : wire[s][c][i] < writing[s].n
      BY <1>1, <3>5, <3>4 DEF Fresh
    <3>8. slot'[s][c] # None =>
            /\ slot'[s][c] <= frames'
            /\ Busy(s, c) => writing[s].n < slot'[s][c]
            /\ \A i \in 1 .. Len(wire[s][c]) : wire[s][c][i] < slot'[s][c]
      BY <1>1, <3>1, <3>2, <3>5, <3>4 DEF Fresh
    <3> QED BY <1>1, <3>1, <3>6, <3>7, <3>8, <3>3, <3>4 DEF Fresh
  <2> QED BY <2>2, <2>3 DEF FramesOf
<1> QED BY <1>2, <1>3

LEMMA SendControlFrames ==
  ASSUME TypeOfServer, TypeOfFrames, Publishing, Closing, Frames,
         NEW id \in 0 .. MaxSession, SendControl(id)
  PROVE  Frames'
<1> SUFFICES ASSUME NEW s \in Sessions PROVE FramesOf(s)'
  BY DEF Frames
<1> USE DEF SendControl, writerVars, closerVars
<1>1. /\ peer \in Sessions /\ frames \in Nat /\ frames' = frames + 1 /\ frames' \in Nat /\ frames <= frames'
      /\ closer = "idle"
  BY DEF Matches, Closing, TypeOfServer, Sessions, None
<1>2. CASE s # peer \/ ~(Len(control[peer]) < ControlCap)
  <2>1. control'[s] = control[s] /\ taken'[s] = taken[s]
    BY <1>2 DEF TypeOfFrames
  <2> QED BY <1>1, <2>1, FramesStay DEF Frames
<1>3. CASE s = peer /\ Len(control[peer]) < ControlCap
  <2>1. FramesOf(s)
    BY DEF Frames
  <2>2. /\ control[s] \in Seq(0 .. MaxMessage) /\ taken[s] \in Seq(1 .. MaxMessage)
        /\ wire[s]["control"] \in Seq(0 .. MaxMessage)
    BY DEF TypeOfFrames, Kind
  <2>3. control'[s] = Append(control[s], frames + 1) /\ taken'[s] = Append(taken[s], frames + 1)
    BY <1>3 DEF TypeOfFrames
  <2>4. /\ Len(control'[s]) = Len(control[s]) + 1 /\ Len(taken'[s]) = Len(taken[s]) + 1
        /\ control'[s][Len(control'[s])] = frames + 1 /\ taken'[s][Len(taken'[s])] = frames + 1
        /\ \A i \in 1 .. Len(control[s]) : control'[s][i] = control[s][i]
        /\ \A i \in 1 .. Len(taken[s]) : taken'[s][i] = taken[s][i]
        /\ Len(control[s]) \in Nat /\ Len(taken[s]) \in Nat /\ Len(wire[s]["control"]) \in Nat
    BY <2>2, <2>3
  <2>5. ~Marked(s) /\ ~flushed[s]
    BY <1>1, <2>1 DEF FramesOf, Flushing
  <2>6. ~Marked(s)' /\ Queued(s)' = Queued(s) + 1 /\ Queued(s) = Len(control[s])
    BY <1>1, <2>4, <2>5 DEF Marked, Queued, Marker
  <2>7. /\ \A kind : Busy(s, kind)' <=> Busy(s, kind)
        /\ InHand(s)' = InHand(s) /\ InHand(s) \in {0, 1}
        /\ wire'[s] = wire[s] /\ writing'[s] = writing[s] /\ writer'[s] = writer[s] /\ flushed'[s] = flushed[s]
        /\ slot'[s] = slot[s]
    BY DEF Busy, InHand
  <2>8. Ordered(s)'
    <3> HIDE DEF SendControl, writerVars, closerVars
    <3> DEFINE m == Len(wire[s]["control"])
               t == Len(taken[s])
    <3>1. m \in Nat /\ t \in Nat /\ m <= t
      BY <2>1, <2>4 DEF FramesOf, Ordered
    <3> HIDE DEF m, t
    <3>2. m <= t + 1 /\ \A i \in 1 .. m : i \in 1 .. t
      BY <3>1
    <3> QED BY <2>1, <2>4, <2>7, <3>2 DEF FramesOf, Ordered, m, t
  <2>9. Placed(s)'
    <3> HIDE DEF SendControl, writerVars, closerVars
    <3> SUFFICES ASSUME writer[s] # "exit" PROVE Placed(s)'
      BY <2>7 DEF Placed
    <3>1. /\ Len(taken[s]) = Len(wire[s]["control"]) + InHand(s) + Queued(s)
          /\ Busy(s, "control") => writing[s].n = taken[s][Len(wire[s]["control"]) + 1]
          /\ \A i \in 1 .. Queued(s) : control[s][i] = taken[s][Len(wire[s]["control"]) + InHand(s) + i]
      BY <2>1 DEF FramesOf, Placed
    <3> DEFINE w == Len(wire[s]["control"])
               t == Len(taken[s])
               h == InHand(s)
               q == Queued(s)
    <3>0. w \in Nat /\ t \in Nat /\ h \in Nat /\ q \in Nat /\ t = w + h + q
      BY <2>4, <2>6, <2>7, <3>1
    <3> HIDE DEF w, t, h, q
    <3>9. t + 1 = w + h + (q + 1)
      BY <3>0
    <3>2. Len(taken'[s]) = Len(wire[s]["control"]) + InHand(s) + Queued(s)'
      BY <2>4, <2>6, <3>9 DEF w, t, h, q
    <3>3. Busy(s, "control") => writing[s].n = taken'[s][Len(wire[s]["control"]) + 1]
      <4>1. Busy(s, "control") => InHand(s) = 1
        BY DEF InHand
      <4>2. h = 1 => w + 1 \in 1 .. t
        BY <3>0
      <4> QED BY <2>4, <3>1, <4>1, <4>2 DEF w, t, h
    <3>4. ASSUME NEW i \in 1 .. Queued(s)'
          PROVE  control'[s][i] = taken'[s][Len(wire[s]["control"]) + InHand(s) + i]
      <4>1. CASE i \in 1 .. Queued(s)
        <5>1. w + h + i \in 1 .. t
          <6>1. i \in 1 .. q
            BY <4>1 DEF q
          <6> QED BY <3>0, <6>1
        <5> QED BY <2>4, <2>6, <3>1, <4>1, <5>1 DEF w, t, h
      <4>2. CASE i = Queued(s) + 1
        <5>1. w + h + i = t + 1 /\ i = q + 1
          BY <3>0, <4>2 DEF q
        <5> QED BY <2>4, <2>6, <5>1 DEF w, t, h, q
      <4> QED BY <2>4, <2>6, <4>1, <4>2
    <3> QED BY <2>7, <3>2, <3>3, <3>4 DEF Placed
  <2>10. Flushing(s)'
    BY <2>5, <2>6, <2>7 DEF Flushing
  <2>11. ASSUME NEW d \in Display PROVE Fresh(s, d)'
    <3>1. /\ wire[s][d] \in Seq(0 .. MaxMessage) /\ slot[s][d] \in 0 .. MaxMessage
          /\ writing[s].n \in 0 .. MaxMessage
      BY DEF TypeOfFrames, Kind, Frame
    <3>2. Len(wire[s][d]) \in Nat /\ \A i \in 1 .. Len(wire[s][d]) : wire[s][d][i] \in Nat
      <4>1. Len(wire[s][d]) \in Nat /\ \A i \in 1 .. Len(wire[s][d]) : wire[s][d][i] \in 0 .. MaxMessage
        BY <3>1, SeqElements
      <4>2. 0 .. MaxMessage \subseteq Nat
        BY CapacityAssumption
      <4> HIDE DEF SendControl, writerVars, closerVars
      <4> QED BY <4>1, <4>2
    <3>3. Fresh(s, d)
      BY <2>1 DEF FramesOf
    <3>5. slot[s][d] \in Nat /\ writing[s].n \in Nat
      BY <3>1, CapacityAssumption
    <3>6. \A i \in 1 .. Len(wire[s][d]) : wire[s][d][i] <= frames'
      <4>1. \A i \in 1 .. Len(wire[s][d]) : wire[s][d][i] <= frames
        BY <3>3 DEF Fresh
      <4>2. frames \in Nat /\ frames' \in Nat /\ frames <= frames'
        BY <1>1
      <4> HIDE DEF SendControl, writerVars, closerVars
      <4> QED BY <3>2, <4>1, <4>2

    <3>7. Busy(s, d) => writing[s].n <= frames' /\ \A i \in 1 .. Len(wire[s][d]) : wire[s][d][i] < writing[s].n
      BY <1>1, <2>7, <3>5, <3>3 DEF Fresh
    <3>8. slot'[s][d] # None =>
            /\ slot'[s][d] <= frames'
            /\ Busy(s, d) => writing[s].n < slot'[s][d]
            /\ \A i \in 1 .. Len(wire[s][d]) : wire[s][d][i] < slot'[s][d]
      BY <1>1, <2>7, <3>1, <3>2, <3>5, <3>3 DEF Fresh
    <3> QED BY <1>1, <2>7, <3>1, <3>6, <3>7, <3>8, <2>7, <3>3 DEF Fresh
  <2> QED BY <2>8, <2>9, <2>10, <2>11 DEF FramesOf
<1> QED BY <1>2, <1>3

LEMMA CloserFrames ==
  ASSUME TypeOfServer, TypeOfFrames, Closing, Frames, BeginClose \/ Closer
  PROVE  Frames'
<1> SUFFICES ASSUME NEW s \in Sessions PROVE FramesOf(s)'
  BY DEF Frames
<1> USE DEF queueVars, writerVars
<1>1. frames' = frames /\ frames' \in Nat /\ frames <= frames'
  BY DEF BeginClose, Closer, FlushMark, FlushAwait, Shut, FinishClose, TypeOfServer
<1>2. CASE BeginClose \/ FlushAwait \/ Shut \/ FinishClose \/ (FlushMark /\ UNCHANGED control)
  BY <1>1, <1>2, FramesStay DEF BeginClose, FlushMark, FlushAwait, Shut, FinishClose, Frames
<1>3. CASE FlushMark /\ control' = [control EXCEPT ![closePeer] = Append(@, Marker)]
           /\ Len(control[closePeer]) < ControlCap /\ closer' = "await"
  <2> USE DEF FlushMark
  <2>1. FramesOf(s) /\ closer = "mark"
    BY <1>3 DEF Frames
  <2>2. CASE s # closePeer
    <3>1. control'[s] = control[s]
      BY <1>3, <2>2 DEF TypeOfFrames
    <3> QED BY <1>1, <1>3, <2>1, <3>1, FramesStay
  <2>3. CASE s = closePeer
    <3>1. control[s] \in Seq(0 .. MaxMessage) /\ control'[s] = Append(control[s], Marker)
      BY <1>3, <2>3 DEF TypeOfFrames
    <3>2. ~Marked(s) /\ ~flushed[s]
      BY <2>1 DEF FramesOf, Flushing
    <3>3. /\ Len(control'[s]) = Len(control[s]) + 1 /\ control'[s] # <<>>
          /\ control'[s][Len(control'[s])] = Marker
          /\ \A i \in 1 .. Len(control[s]) : control'[s][i] = control[s][i]
          /\ Len(control[s]) \in Nat
      BY <3>1
    <3>4. Queued(s)' = Queued(s) /\ Queued(s) = Len(control[s])
      BY <3>2, <3>3 DEF Marked, Queued
    <3>5. Ordered(s)' /\ \A d \in Display : Fresh(s, d)'
      BY <1>3, <2>1 DEF FramesOf, Ordered, Fresh, Busy
    <3>6. InHand(s)' = InHand(s) /\ Busy(s, "control")' = Busy(s, "control")
      BY <1>3 DEF InHand, Busy
    <3>7. Placed(s)'
      BY <1>3, <2>1, <3>3, <3>4, <3>6 DEF FramesOf, Placed
    <3>8. Flushing(s)'
      BY <1>3, <2>3, <3>2 DEF Flushing
    <3> QED BY <3>5, <3>7, <3>8 DEF FramesOf
  <2> QED BY <2>2, <2>3
<1> QED BY <1>2, <1>3 DEF Closer, FlushMark

\* Two sequences of one length with the same elements are one.
LEMMA SameSeq ==
  ASSUME NEW S, NEW T, NEW q \in Seq(S), NEW r \in Seq(T), Len(q) = Len(r),
         \A i \in 1 .. Len(q) : q[i] = r[i]
  PROVE  q = r
OBVIOUS

\* A frame is taken from the control queue: the oldest one, or the marker when all is written.
LEMMA TakeControlFrames ==
  ASSUME TypeOfServer, TypeOfFrames, NEW s \in Sessions, FramesOf(s),
         writer[s] \in {"top", "idle"}, TakeControl(s), WriterFrame
  PROVE  FramesOf(s)'
<1> USE DEF WriterFrame, closerVars
<1> DEFINE w == wire[s]["control"]
<1>1. /\ control[s] \in Seq(0 .. MaxMessage) /\ taken[s] \in Seq(1 .. MaxMessage) /\ w \in Seq(0 .. MaxMessage)
      /\ Len(control[s]) \in Nat \ {0} /\ Len(taken[s]) \in Nat /\ Len(w) \in Nat /\ frames \in Nat
  BY DEF TypeOfFrames, TypeOfServer, Kind, TakeControl
<1>2. /\ control'[s] = Tail(control[s]) /\ wire' = wire /\ slot' = slot /\ taken' = taken /\ frames' = frames
      /\ closer' = closer /\ closePeer' = closePeer
  BY DEF TakeControl, TypeOfFrames
<1>3. /\ Len(control'[s]) = Len(control[s]) - 1 /\ Head(control[s]) = control[s][1]
      /\ \A i \in 1 .. Len(control[s]) - 1 : control'[s][i] = control[s][i + 1]
      /\ control'[s] = <<>> <=> Len(control[s]) = 1
  BY <1>1, <1>2, SeqTail DEF TakeControl
<1>4. /\ \A k : ~Busy(s, k)
      /\ InHand(s) = 0
  BY DEF Busy, InHand
<1>5. /\ Len(taken[s]) = Len(w) + Queued(s)
      /\ \A i \in 1 .. Queued(s) : control[s][i] = taken[s][Len(w) + i]
  <2>1. Len(taken[s]) = Len(w) + 0 + Queued(s)
        /\ \A i \in 1 .. Queued(s) : control[s][i] = taken[s][Len(w) + 0 + i]
    BY <1>4 DEF FramesOf, Placed
  <2>2. Len(w) + 0 = Len(w)
    BY <1>1
  <2> QED BY <2>1, <2>2
<1>6. Ordered(s)'
  BY <1>2 DEF FramesOf, Ordered
<1>7. CASE Head(control[s]) = Marker
  <2>1. /\ flushed'[s] = TRUE /\ writer'[s] = "top"
    BY <1>7 DEF TakeControl, TypeOfFrames
  <2>2. \A k : ~Busy(s, k)'
    BY <2>1 DEF Busy
  <2>3. Queued(s) = 0
    <3> SUFFICES ASSUME Queued(s) # 0 PROVE FALSE
      OBVIOUS
    <3>1. 1 \in 1 .. Queued(s) /\ Len(w) + 1 \in 1 .. Len(taken[s])
      <4>1. Queued(s) \in Nat
        BY <1>1 DEF Queued, Marked
      <4> QED BY <1>1, <1>5, <4>1
    <3>2. taken[s][Len(w) + 1] \in 1 .. MaxMessage
      BY <1>1, <3>1, SeqElements
    <3>3. control[s][1] = taken[s][Len(w) + 1]
      BY <1>5, <3>1
    <3> QED BY <1>3, <1>7, <3>2, <3>3, CapacityAssumption DEF Marker
  <2>4. Marked(s) /\ Len(control[s]) = 1 /\ control'[s] = <<>>
    BY <1>1, <1>3, <2>3 DEF Queued
  <2>5. ~Marked(s)' /\ Queued(s)' = 0 /\ InHand(s)' = 0
    BY <2>2, <2>4 DEF Marked, Queued, InHand
  <2>6. w = taken[s]
    <3>1. Len(taken[s]) = Len(w)
      BY <1>1, <1>5, <2>3
    <3>2. \A i \in 1 .. Len(w) : w[i] = taken[s][i]
      BY DEF FramesOf, Ordered
    <3> HIDE DEF w
    <3> QED BY <1>1, <3>1, <3>2, SameSeq
  <2>7. Placed(s)'
    <3>1. Len(taken[s]) = Len(w) + 0 + 0
      BY <1>1, <2>6
    <3>2. ~Busy(s, "control")' /\ 1 .. 0 = {}
      BY <2>2
    <3> QED BY <1>2, <2>5, <3>1, <3>2 DEF Placed
  <2>8. Flushing(s)'
    BY <1>2, <2>2, <2>4, <2>6 DEF FramesOf, Flushing
  <2>9. ASSUME NEW d \in Display PROVE Fresh(s, d)'
    BY <1>2, <1>4, <2>2 DEF FramesOf, Fresh
  <2> QED BY <1>6, <2>7, <2>8, <2>9 DEF FramesOf
<1>8. CASE Head(control[s]) # Marker
  <2>1. /\ writing'[s] = [kind |-> "control", n |-> Head(control[s])] /\ writer'[s] = "write"
        /\ flushed' = flushed
    BY <1>8 DEF TakeControl, TypeOfFrames
  <2>2. /\ Busy(s, "control")' /\ InHand(s)' = 1
        /\ \A d \in Display : ~Busy(s, d)'
    BY <2>1, CapacityAssumption DEF Busy, InHand
  <2>3. Marked(s)' <=> Marked(s)
    <3>1. Len(control[s]) # 1 => control'[s][Len(control'[s])] = control[s][Len(control[s])]
      <4> SUFFICES ASSUME Len(control[s]) # 1 PROVE control'[s][Len(control'[s])] = control[s][Len(control[s])]
        OBVIOUS
      <4>1. \A c \in Nat \ {0, 1} : c - 1 \in 1 .. c - 1 /\ (c - 1) + 1 = c
        OBVIOUS
      <4>2. control'[s][Len(control[s]) - 1] = control[s][(Len(control[s]) - 1) + 1]
        BY <1>1, <1>3, <4>1
      <4> QED BY <1>1, <1>3, <4>1, <4>2
    <3> QED BY <1>1, <1>3, <1>8, <3>1 DEF Marked
  <2>4. Queued(s)' = Queued(s) - 1 /\ Queued(s) \in Nat \ {0}
    BY <1>1, <1>3, <1>8, <2>3 DEF Queued, Marked
  <2>5. Queued(s) <= Len(control[s])
    BY <1>1 DEF Queued
  <2>6. Placed(s)'
    <3> DEFINE m == Len(w)
               t == Len(taken[s])
               q == Queued(s)
    <3>0. m \in Nat /\ t \in Nat /\ q \in Nat \ {0} /\ t = m + q /\ m + 1 + (q - 1) = m + q
      <4>1. m \in Nat /\ t \in Nat /\ q \in Nat \ {0} /\ t = m + q
        BY <1>1, <1>5, <2>4
      <4> HIDE DEF m, t, q
      <4> QED BY <4>1
    <3> HIDE DEF m, t, q
    <3>1. Len(taken[s]) = Len(w) + 1 + Queued(s)'
      BY <2>4, <3>0 DEF m, t, q
    <3>2. writing'[s].n = taken[s][Len(w) + 1]
      <4>1. 1 \in 1 .. q
        BY <3>0
      <4>2. control[s][1] = taken[s][Len(w) + 1]
        BY <1>5, <4>1 DEF q
      <4> QED BY <1>3, <2>1, <4>2
    <3>3. ASSUME NEW i \in 1 .. Queued(s)' PROVE control'[s][i] = taken[s][Len(w) + 1 + i]
      <4>1. i + 1 \in 1 .. Queued(s) /\ i \in 1 .. Len(control[s]) - 1 /\ Len(w) + (i + 1) = Len(w) + 1 + i
        <5>1. i \in 1 .. q - 1 /\ q <= Len(control[s]) /\ Len(control[s]) \in Nat
          BY <1>1, <2>4, <2>5 DEF q
        <5>2. i + 1 \in 1 .. q /\ i \in 1 .. Len(control[s]) - 1 /\ m + (i + 1) = m + 1 + i
          BY <3>0, <5>1
        <5> QED BY <5>2 DEF m, q
      <4>2. control[s][i + 1] = taken[s][Len(w) + (i + 1)]
        BY <1>5, <4>1
      <4> QED BY <1>3, <4>1, <4>2
    <3> QED BY <1>2, <2>2, <3>1, <3>2, <3>3 DEF Placed
  <2>7. Flushing(s)'
    BY <1>1, <1>2, <2>1, <2>3 DEF FramesOf, Flushing
  <2>8. ASSUME NEW d \in Display PROVE Fresh(s, d)'
    BY <1>2, <2>2 DEF FramesOf, Fresh
  <2> QED BY <1>6, <2>6, <2>7, <2>8 DEF FramesOf
<1> QED BY <1>7, <1>8

LEMMA TakeDisplayFrames ==
  ASSUME TypeOfServer, TypeOfFrames, NEW s \in Sessions, FramesOf(s),
         writer[s] \in {"top", "idle"}, NEW d \in Display, TakeDisplay(s, d), WriterFrame
  PROVE  FramesOf(s)'
<1> USE DEF WriterFrame, closerVars
<1>1. /\ control' = control /\ wire' = wire /\ taken' = taken /\ flushed' = flushed /\ frames' = frames
      /\ closer' = closer /\ closePeer' = closePeer
      /\ writer'[s] = "write" /\ writing'[s] = [kind |-> d, n |-> slot[s][d]]
      /\ slot[s][d] # None
      /\ \A c \in Display : slot'[s][c] = IF c = d THEN None ELSE slot[s][c]
  BY DEF TakeDisplay, TypeOfFrames
<1>2. /\ \A k : ~Busy(s, k)
      /\ \A k : Busy(s, k)' <=> k = d
      /\ InHand(s) = 0 /\ InHand(s)' = 0
  BY <1>1, CapacityAssumption DEF Busy, InHand
<1>3. Ordered(s)' /\ Placed(s)'
  <2>1. Queued(s)' = Queued(s)
    BY <1>1 DEF Queued, Marked
  <2>2. d # "control"
    BY CapacityAssumption
  <2> QED BY <1>1, <1>2, <2>1, <2>2 DEF FramesOf, Ordered, Placed
<1>4. Flushing(s)'
  BY <1>1, <1>2, CapacityAssumption DEF FramesOf, Flushing, Marked
<1>5. ASSUME NEW c \in Display PROVE Fresh(s, c)'
  <2>1. Fresh(s, c)
    BY DEF FramesOf
  <2> QED BY <1>1, <1>2, <2>1 DEF Fresh
<1> QED BY <1>3, <1>4, <1>5 DEF FramesOf

LEMMA WritesFrames ==
  ASSUME TypeOfServer, TypeOfFrames, NEW s \in Sessions, FramesOf(s),
         writer[s] = "write", Writes(s), WriterFrame
  PROVE  FramesOf(s)'
<1> USE DEF WriterFrame, closerVars
<1> DEFINE k == writing[s].kind
           n == writing[s].n
<1>1. /\ k \in Kind /\ n \in 0 .. MaxMessage /\ Busy(s, k) /\ frames \in Nat
      /\ \A c \in Kind : wire[s][c] \in Seq(0 .. MaxMessage) /\ Len(wire[s][c]) \in Nat
  BY DEF TypeOfFrames, TypeOfServer, Frame, Busy
<1>2. /\ control' = control /\ slot' = slot /\ taken' = taken /\ flushed' = flushed /\ frames' = frames
      /\ closer' = closer /\ closePeer' = closePeer /\ writer'[s] = "top"
      /\ wire'[s][k] = Append(wire[s][k], n)
      /\ \A c \in Kind \ {k} : wire'[s][c] = wire[s][c]
  BY <1>1 DEF Writes, TypeOfFrames
<1>3. /\ \A c : ~Busy(s, c)'
      /\ InHand(s)' = 0
  BY <1>2 DEF Busy, InHand
<1>4. Len(wire'[s][k]) = Len(wire[s][k]) + 1 /\ wire'[s][k][Len(wire[s][k]) + 1] = n
      /\ \A i \in 1 .. Len(wire[s][k]) : wire'[s][k][i] = wire[s][k][i]
  <2> DEFINE q == wire[s][k]
             v == wire'[s][k]
  <2>1. q \in Seq(0 .. MaxMessage) /\ v = Append(q, n)
    BY <1>1, <1>2
  <2> HIDE DEF q, v, n, k
  <2>2. /\ Len(v) = Len(q) + 1 /\ v[Len(q) + 1] = n
        /\ \A i \in 1 .. Len(q) : v[i] = q[i]
    BY <2>1, SeqAppended
  <2> QED BY <2>2 DEF q, v

<1>5. Queued(s)' = Queued(s) /\ Queued(s) \in Nat /\ (Marked(s)' <=> Marked(s))
  <2>1. control[s] \in Seq(0 .. MaxMessage)
    BY DEF TypeOfFrames
  <2> QED BY <1>2, <2>1 DEF Queued, Marked
<1>6. Ordered(s)' /\ Placed(s)' /\ Flushing(s)'
  <2>1. CASE k = "control"
    <3>1. /\ InHand(s) = 1 /\ ~flushed[s]
          /\ Len(taken[s]) = Len(wire[s][k]) + 1 + Queued(s)
          /\ n = taken[s][Len(wire[s][k]) + 1]
          /\ \A i \in 1 .. Queued(s) : control[s][i] = taken[s][Len(wire[s][k]) + 1 + i]
      BY <1>1, <2>1 DEF FramesOf, Placed, Flushing, InHand
    <3> DEFINE m == Len(wire[s]["control"])
               t == Len(taken[s])
               q == Queued(s)
    <3>9. m \in Nat /\ t \in Nat /\ q \in Nat /\ t = m + 1 + q /\ t = (m + 1) + 0 + q
      <4>1. taken[s] \in Seq(1 .. MaxMessage)
        BY DEF TypeOfFrames
      <4>2. m \in Nat /\ t \in Nat /\ q \in Nat /\ t = m + 1 + q
        <5>1. m \in Nat
          BY <1>1, <2>1
        <5>2. t \in Nat
          BY <4>1, SeqElements
        <5>3. t = m + 1 + q
          BY <2>1, <3>1
        <5> QED BY <1>5, <5>1, <5>2, <5>3
      <4> HIDE DEF m, t, q
      <4> QED BY <4>2
    <3>8. Len(wire'[s]["control"]) = m + 1 /\ wire'[s]["control"][m + 1] = n
          /\ \A i \in 1 .. m : wire'[s]["control"][i] = wire[s]["control"][i]
      BY <1>4, <2>1
    <3>2. Ordered(s)'
      <4>1. m + 1 <= t /\ \A i \in 1 .. m + 1 : i \in 1 .. m \/ i = m + 1
        BY <3>9
      <4>2. \A i \in 1 .. m : wire[s]["control"][i] = taken[s][i]
        BY DEF FramesOf, Ordered
      <4>3. n = taken[s][m + 1]
        BY <2>1, <3>1
      <4> HIDE DEF m
      <4>4. \A i \in 1 .. m + 1 : wire'[s]["control"][i] = taken[s][i]
        BY <3>8, <4>1, <4>2, <4>3
      <4> QED BY <1>2, <3>8, <4>1, <4>4 DEF Ordered
    <3>3. Placed(s)'
      <4>1. \A i \in 1 .. q : m + 1 + i = (m + 1) + 0 + i
        BY <3>9
      <4>2. \A i \in 1 .. q : control[s][i] = taken[s][m + 1 + i]
        BY <2>1, <3>1
      <4>3. InHand(s)' = 0 /\ Queued(s)' = q /\ Len(wire'[s]["control"]) = m + 1 /\ Len(taken'[s]) = t
        BY <1>2, <1>3, <1>5, <3>8
      <4>4. ~Busy(s, "control")'
        BY <1>3
      <4> HIDE DEF m, q, t
      <4>5. /\ Len(taken'[s]) = Len(wire'[s]["control"]) + InHand(s)' + Queued(s)'
            /\ \A i \in 1 .. Queued(s)' : control[s][i] = taken[s][Len(wire'[s]["control"]) + InHand(s)' + i]
        BY <3>9, <4>1, <4>2, <4>3
      <4> QED BY <1>2, <4>4, <4>5 DEF Placed
    <3>4. Flushing(s)'
      BY <1>2, <1>5, <3>1 DEF FramesOf, Flushing
    <3> QED BY <3>2, <3>3, <3>4
  <2>2. CASE k # "control"
    <3>1. InHand(s) = 0 /\ wire'[s]["control"] = wire[s]["control"]
      BY <1>2, <2>2 DEF InHand, Busy, Kind
    <3> QED BY <1>2, <1>3, <1>5, <3>1 DEF FramesOf, Ordered, Placed, Flushing
  <2> QED BY <2>1, <2>2
<1>7. ASSUME NEW d \in Display PROVE Fresh(s, d)'
  <2>1. Fresh(s, d) /\ d \in Kind
    BY DEF FramesOf, Kind
  <2>2. CASE k = d
    <3>1. Busy(s, d)
      BY <1>1, <2>2
    <3>2. n <= frames /\ \A i \in 1 .. Len(wire[s][d]) : wire[s][d][i] < n
      BY <2>1, <3>1 DEF Fresh
    <3>3. \A i \in 1 .. Len(wire'[s][d]) : i \in 1 .. Len(wire[s][d]) \/ i = Len(wire[s][d]) + 1
      BY <1>1, <1>4, <2>2
    <3>4. n \in Nat /\ \A i \in 1 .. Len(wire'[s][d]) : wire'[s][d][i] <= n /\ wire'[s][d][i] \in Nat
      <4>1. \A i \in 1 .. Len(wire[s][d]) : wire[s][d][i] \in 0 .. MaxMessage
        BY <1>1, <2>2, SeqElements
      <4>2. n \in Nat /\ \A i \in 1 .. Len(wire[s][d]) : wire[s][d][i] \in Nat /\ wire[s][d][i] <= n
        BY <1>1, <3>2, <4>1, CapacityAssumption
      <4> SUFFICES ASSUME NEW i \in 1 .. Len(wire'[s][d])
                   PROVE  wire'[s][d][i] <= n /\ wire'[s][d][i] \in Nat
        BY <4>2
      <4>3. CASE i \in 1 .. Len(wire[s][d])
        BY <1>4, <2>2, <4>2, <4>3
      <4>4. CASE i = Len(wire[s][d]) + 1
        BY <1>4, <2>2, <4>2, <4>4
      <4> QED BY <3>3, <4>3, <4>4
    <3>5. \A i \in 1 .. Len(wire'[s][d]) - 1 : wire'[s][d][i] < wire'[s][d][i + 1]
      <4> SUFFICES ASSUME NEW i \in 1 .. Len(wire'[s][d]) - 1 PROVE wire'[s][d][i] < wire'[s][d][i + 1]
        OBVIOUS
      <4> DEFINE w == wire[s][d]
                 v == wire'[s][d]
                 l == Len(w)
      <4>1. /\ l \in Nat /\ i \in 1 .. l /\ v[l + 1] = n /\ \A j \in 1 .. l : v[j] = w[j]
            /\ \A j \in 1 .. l : w[j] < n
            /\ \A j \in 1 .. l - 1 : w[j] < w[j + 1]
        <5>1. l \in Nat /\ Len(v) = l + 1 /\ v[l + 1] = n /\ \A j \in 1 .. l : v[j] = w[j]
          BY <1>1, <1>4, <2>2
        <5>2. i \in 1 .. Len(v) - 1
          OBVIOUS
        <5>3. \A j \in 1 .. l : w[j] < n
          BY <3>2
        <5>4. \A j \in 1 .. l - 1 : w[j] < w[j + 1]
          BY <2>1 DEF Fresh
        <5> HIDE DEF w, v, l
        <5>5. i \in 1 .. l
          BY <5>1, <5>2
        <5> QED BY <5>1, <5>3, <5>4, <5>5
      <4> HIDE DEF w, v, l, n, k
      <4>2. CASE i = l
        <5>1. v[i] = w[i] /\ w[i] < n /\ v[i + 1] = n
          BY <4>1, <4>2
        <5> QED BY <5>1 DEF v
      <4>3. CASE i # l
        <5>1. i \in 1 .. l - 1 /\ i + 1 \in 1 .. l
          BY <4>1, <4>3
        <5>2. v[i] = w[i] /\ v[i + 1] = w[i + 1] /\ w[i] < w[i + 1]
          BY <4>1, <5>1
        <5> QED BY <5>2 DEF v
      <4> QED BY <4>2, <4>3

    <3>6. slot[s][d] # None => slot[s][d] <= frames /\ n < slot[s][d]
      BY <2>1, <3>1 DEF Fresh
    <3>7. slot[s][d] \in Nat
      BY CapacityAssumption DEF TypeOfFrames
    <3>8. \A i \in 1 .. Len(wire'[s][d]) :
            wire'[s][d][i] <= frames /\ (slot[s][d] # None => wire'[s][d][i] < slot[s][d])
      BY <1>1, <3>2, <3>4, <3>6, <3>7
    <3> QED BY <1>2, <1>3, <3>5, <3>6, <3>8 DEF Fresh
  <2>3. CASE k # d
    BY <1>2, <1>3, <2>1, <2>3 DEF Fresh
  <2> QED BY <2>2, <2>3
<1> QED BY <1>6, <1>7 DEF FramesOf

LEMMA WriterFrames ==
  ASSUME TypeOfServer, TypeOfFrames, Frames, NEW s \in Sessions, Writer(s)
  PROVE  Frames'
<1>1. WriterFrame /\ frames' \in Nat /\ frames <= frames'
  BY WriterSteps DEF WriterFrame, TypeOfServer
<1>2. ASSUME NEW r \in Sessions, r # s PROVE FramesOf(r)'
  <2>1. /\ control'[r] = control[r] /\ slot'[r] = slot[r] /\ wire'[r] = wire[r] /\ flushed'[r] = flushed[r]
        /\ writer'[r] = writer[r] /\ writing'[r] = writing[r]
    <3> USE <1>2 DEF TypeOfFrames
    <3>1. CASE TakeControl(s)
      BY <3>1 DEF TakeControl
    <3>2. CASE \E d \in Display : TakeDisplay(s, d)
      BY <3>2 DEF TakeDisplay
    <3>3. CASE WriterExits(s) \/ ToIdle(s)
      BY <3>3 DEF WriterExits, ToIdle
    <3>4. CASE Writes(s)
      BY <3>4 DEF Writes
    <3> QED BY <3>1, <3>2, <3>3, <3>4, WriterSteps
  <2> QED BY <1>1, <2>1, FramesStay DEF Frames, WriterFrame, closerVars
<1>3. FramesOf(s)'
  <2>1. CASE WriterExits(s) \/ (writer[s] = "top" /\ ToIdle(s))
    <3>1. writer'[s] = "exit" \/ (writer[s] = "top" /\ writer'[s] = "idle")
      BY <2>1 DEF WriterExits, ToIdle, TypeOfFrames
    <3> QED BY <1>1, <2>1, <3>1, FramesStay DEF WriterExits, ToIdle, Frames, WriterFrame, closerVars
  <2> QED
    BY <1>1, <2>1, WriterSteps, TakeControlFrames, TakeDisplayFrames, WritesFrames DEF Frames
<1> QED BY <1>2, <1>3 DEF Frames

LEMMA FramesStep == TypeOK /\ Lifecycle /\ Frames /\ [Next]_vars => Frames'
<1> SUFFICES ASSUME TypeOfServer, TypeOfFrames, Publishing, Closing, Frames, [Next]_vars
             PROVE  Frames'
  BY TypeParts DEF Lifecycle
<1>1. CASE UNCHANGED <<queueVars, writerVars, closerVars>>
  BY <1>1, FramesStay DEF Frames, queueVars, writerVars, closerVars, TypeOfServer
<1>2. CASE (Acceptor /\ ~Publish) \/ ClientDrops \/ Receive \/ UNCHANGED vars
  BY <1>1, <1>2 DEF Acceptor, Accept, AcceptFails, Authenticate, DeliverConnected, ReadRequest, ReadEnds,
     DeliverRequest, StopServed, DeliverDisconnected, Clear, ClientDrops, Receive, vars
<1> QED
  BY <1>2, PublishFrames, SendDisplayFrames, SendControlFrames, WriterFrames, CloserFrames DEF Next, Acceptor

-----------------------------------------------------------------------------
(* Theorems. *)

\* IInv is inductive: what acceptLoop, the writeLoops, Close and the program know of
\* each other by where they are (session.go) holds in every reachable state.
THEOREM Invariance == Spec => []IInv
<1>1. Init => IInv
  BY InitType, InitLifecycle, InitFrames DEF IInv
<1>2. IInv /\ [Next]_vars => IInv'
  BY TypeStep, LifecycleStep, FramesStep DEF IInv, Lifecycle
<1> QED BY <1>1, <1>2, PTL DEF Spec

\* Whatever the interleaving of acceptLoop, the writeLoops, the GUI and Close, events
\* arrive in connection order, and a session is over before the next is announced
\* (session.go: serve, deliver).
THEOREM EventsInOrder == Spec => []EventOrder
<1>1. IInv => EventOrder
  BY DEF IInv, Lifecycle
<1> QED BY <1>1, Invariance, PTL

\* What the GUI reads is what SendTo took, in order, display frames ever newer, and all
\* control frames once the marker of Close is reached (session.go: SendTo, writeLoop, flush).
THEOREM WireIsTrue == Spec => []WireTrue
<1>1. IInv => WireTrue
  <2> SUFFICES ASSUME TypeOK, Frames PROVE WireTrue
    BY DEF IInv
  <2>0. TypeOfFrames
    BY TypeParts
  <2>1. ASSUME NEW s \in Sessions PROVE IsPrefix(wire[s]["control"], taken[s])
    <3>1. wire[s]["control"] \in Seq(0 .. MaxMessage) /\ taken[s] \in Seq(1 .. MaxMessage)
      BY <2>0 DEF TypeOfFrames, Kind
    <3>2. Ordered(s)
      BY DEF Frames, FramesOf
    <3> QED BY <3>1, <3>2 DEF Ordered, IsPrefix
  <2>2. ASSUME NEW s \in Sessions, NEW d \in Display, NEW i \in 1 .. Len(wire[s][d]) - 1
        PROVE  wire[s][d][i] < wire[s][d][i + 1]
    BY DEF Frames, FramesOf, Fresh
  <2>3. FlushMeansWritten
    BY DEF Frames, FramesOf, Flushing, FlushMeansWritten
  <2> QED BY <2>1, <2>2, <2>3 DEF WireTrue, WireOrder
<1> QED BY <1>1, Invariance, PTL

\* Once Close has closed Incoming, acceptLoop, the only one that sends on it, has
\* returned (session.go: Close waits for the workers first): there is no send on a closed channel.
THEOREM ClosedIncomingIsSilent == Spec => NoSendAfterClose
<1>1. IInv /\ [Next]_vars => [log' # log => ~incomingClosed]_vars
  <2> SUFFICES ASSUME Closing, [Next]_vars, log' # log PROVE ~incomingClosed
    BY DEF IInv, Lifecycle
  <2>1. CASE Acceptor
    BY <2>1 DEF Closing, Acceptor, Accept, AcceptFails, Authenticate, Publish, DeliverConnected, ReadRequest,
       ReadEnds, DeliverRequest, StopServed, DeliverDisconnected, Clear
  <2>2. CASE \E s \in Sessions : Writer(s)
    BY <2>2, WriterSteps DEF WriterFrame
  <2>3. CASE UNCHANGED log
    BY <2>3
  <2> QED
    BY <2>1, <2>2, <2>3 DEF Next, ClientDrops, Receive, SendControl, SendDisplay, BeginClose, Closer, FlushMark,
       FlushAwait, Shut, FinishClose, vars
<1> QED BY <1>1, Invariance, PTL DEF Spec, NoSendAfterClose

=============================================================================
