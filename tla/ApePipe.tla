------------------------------- MODULE ApePipe -------------------------------
(***************************************************************************)
(* Playing an APE file through a decoder subprocess                        *)
(* (internal/audio/format/apestream: pipe.go, stream.go).                  *)
(*                                                                         *)
(* A generation is one subprocess, its pipe and the readLoop goroutine     *)
(* that turns the pipe into chunks.  The audio goroutine calls Stream,     *)
(* which drains the current generation; the program calls Seek, which      *)
(* replaces the generation, and Close.  Samples are numbered by their      *)
(* place in the file; the decoder may stall or die at any of them.         *)
(***************************************************************************)
EXTENDS Naturals, Sequences

CONSTANTS
  ChunkFrames,  \* frames of a full chunk (pipeBufFrames, 4096)
  BufFrames,    \* most frames of one backend read (maxBufFrames, 4096)
  StreamFrames, \* frames asked of one Stream call (the output's buffer)
  ChunkCap,     \* capacity of chunkChan (pipeChunkBuffer, 4)
  Total,        \* frames in the file
  Serialised,   \* TRUE: through Streamer and its opMu; FALSE: the Backend alone
  MaxGen        \* bound: generations started

ASSUME PipeAssumption ==
  /\ ChunkFrames \in Nat \ {0} /\ BufFrames \in Nat \ {0} /\ StreamFrames \in Nat \ {0}
  /\ ChunkCap \in Nat \ {0} /\ Total \in Nat /\ MaxGen \in Nat \ {0}
  /\ Serialised \in BOOLEAN

Gens == 1 .. MaxGen
None == 0
Frames(from, n) == [i \in 1 .. n |-> from + i - 1]
Least(a, b) == IF a < b THEN a ELSE b

\* bufPool: a read asks for what the call asked for, up to a limit.
ReadFrames == Least(StreamFrames, BufFrames)

VARIABLES
  gen, session,        \* generations started; pipeOwner.session
  loop, src, chunk, last, chan,  \* readLoop: place, next frame, chunk in hand, whether it ends the stream; chunkChan
  abort,               \* abortOnce of each generation: not called, running, done
  readBuf,             \* the tail of a chunk kept for the next read
  reader, reading, acc, filled, \* Stream: place, generation read, frames of this read, frames of this call
  ctl, target,         \* Seek or Close: place, and where Seek goes
  pos, buf, closed     \* Streamer: CurrentSample, the buffer from Pos on, Closed

loopVars == <<loop, src, chunk, last>>
readerVars == <<reader, reading, acc, filled>>
ctlVars == <<gen, session, ctl, target, closed>>
vars == <<loopVars, chan, abort, readBuf, readerVars, ctlVars, pos, buf>>

FrameSeq == Seq(0 .. Total)

TypeOK ==
  /\ gen \in Gens /\ session \in 0 .. gen
  /\ loop \in [Gens -> {"none", "read", "send", "exit"}]
  /\ src \in [Gens -> 0 .. Total]
  /\ chunk \in [Gens -> FrameSeq] /\ last \in [Gens -> BOOLEAN]
  /\ chan \in [Gens -> Seq(FrameSeq)] /\ \A g \in Gens : Len(chan[g]) <= ChunkCap
  /\ abort \in [Gens -> {"no", "running", "done"}]
  /\ readBuf \in [Gens -> FrameSeq]
  /\ reader \in {"idle", "fill", "drain", "abort", "return"}
  /\ reading \in 0 .. gen /\ acc \in FrameSeq /\ filled \in 0 .. StreamFrames
  /\ ctl \in {"idle", "seek", "restart", "close"} /\ target \in 0 .. Total
  /\ pos \in 0 .. Total /\ buf \in FrameSeq /\ closed \in BOOLEAN

\* Decode: the first backend that opens the file, from its beginning.
Init ==
  /\ gen = 1 /\ session = 1
  /\ loop = [g \in Gens |-> IF g = 1 THEN "read" ELSE "none"]
  /\ src = [g \in Gens |-> 0]
  /\ chunk = [g \in Gens |-> <<>>] /\ last = [g \in Gens |-> FALSE]
  /\ chan = [g \in Gens |-> <<>>]
  /\ abort = [g \in Gens |-> "no"]
  /\ readBuf = [g \in Gens |-> <<>>]
  /\ reader = "idle" /\ reading = None /\ acc = <<>> /\ filled = 0
  /\ ctl = "idle" /\ target = 0
  /\ pos = 0 /\ buf = <<>> /\ closed = FALSE

\* opMu: Stream, Seek and Close exclude each other; without it only the owner's
\* mutex keeps Read from taking a generation that Seek or Close is replacing.
Unlocked == TRUE
Locked == Serialised => (reader = "idle" /\ ctl = "idle")
OwnerFree == ctl = "idle"

-----------------------------------------------------------------------------
(* readLoop. *)

\* ReadFull returns a full chunk, or fewer frames when the process has ended, was
\* killed or died.
LoopRead(g) ==
  /\ loop[g] = "read"
  /\ \E k \in 0 .. Least(ChunkFrames, Total - src[g]) :
       /\ chunk' = [chunk EXCEPT ![g] = Frames(src[g], k)]
       /\ src' = [src EXCEPT ![g] = @ + k]
       /\ last' = [last EXCEPT ![g] = k < ChunkFrames]
       /\ loop' = [loop EXCEPT ![g] = IF k = 0 THEN "exit" ELSE "send"]
  /\ UNCHANGED <<chan, abort, readBuf, readerVars, ctlVars, pos, buf>>

\* The chunk is queued, or the generation is canceled; either case when both are ready.
LoopSend(g) ==
  /\ loop[g] = "send"
  /\ \/ /\ Len(chan[g]) < ChunkCap
        /\ chan' = [chan EXCEPT ![g] = Append(@, chunk[g])]
        /\ loop' = [loop EXCEPT ![g] = IF last[g] THEN "exit" ELSE "read"]
     \/ /\ abort[g] # "no"
        /\ loop' = [loop EXCEPT ![g] = "exit"]
        /\ UNCHANGED chan
  /\ chunk' = [chunk EXCEPT ![g] = <<>>]
  /\ UNCHANGED <<src, last, abort, readBuf, readerVars, ctlVars, pos, buf>>

\* chunkChan is closed and empty: its only closer has left.
Drained(g) == chan[g] = <<>> /\ loop[g] = "exit"

-----------------------------------------------------------------------------
(* abort, called by a read that timed out and by Seek and Close. *)

\* cancel is closed, the process killed, its pipe closed.
BeginAbort(g) == abort' = [abort EXCEPT ![g] = IF @ = "no" THEN "running" ELSE @]

ReapPatient(g) ==
  /\ abort[g] = "running" /\ loop[g] = "exit"
  /\ abort' = [abort EXCEPT ![g] = "done"]
  /\ UNCHANGED <<loopVars, chan, readBuf, readerVars, ctlVars, pos, buf>>
\* The process is reaped when readLoop is done, or when waiting for it took too long.
Reap(g) ==
  /\ abort[g] = "running"
  /\ abort' = [abort EXCEPT ![g] = "done"]
  /\ UNCHANGED <<loopVars, chan, readBuf, readerVars, ctlVars, pos, buf>>

-----------------------------------------------------------------------------
(* Streamer.Stream and the read under it. *)

BeginStream ==
  /\ reader = "idle" /\ Locked /\ ~closed
  /\ reader' = "fill"
  /\ filled' = 0
  /\ UNCHANGED <<loopVars, chan, abort, readBuf, reading, acc, ctlVars, pos, buf>>

\* CopyToOutput.
Copy ==
  LET n == Least(StreamFrames - filled, Len(buf)) IN
  /\ reader = "fill" /\ n > 0
  /\ filled' = filled + n
  /\ pos' = pos + n
  /\ buf' = SubSeq(buf, n + 1, Len(buf))
  /\ UNCHANGED <<loopVars, chan, abort, readBuf, reader, reading, acc, ctlVars>>

EndStream ==
  /\ reader = "fill" /\ filled = StreamFrames
  /\ reader' = "idle"
  /\ UNCHANGED <<loopVars, chan, abort, readBuf, reading, acc, filled, ctlVars, pos, buf>>

\* pipeOwner.read snapshots the generation; read starts with the kept tail.
BeginRead ==
  /\ reader = "fill" /\ buf = <<>> /\ filled < StreamFrames /\ OwnerFree
  /\ reading' = session
  /\ IF session = None
     THEN reader' = "idle" /\ UNCHANGED <<acc, readBuf>>
     ELSE LET n == Least(ReadFrames, Len(readBuf[session])) IN
          /\ acc' = SubSeq(readBuf[session], 1, n)
          /\ readBuf' = [readBuf EXCEPT ![session] = SubSeq(@, n + 1, Len(@))]
          /\ reader' = IF n = ReadFrames THEN "return" ELSE "drain"
  /\ UNCHANGED <<loopVars, chan, abort, filled, ctlVars, pos, buf>>

NoRest(c, n) == <<>>
Rest(c, n) == SubSeq(c, n + 1, Len(c))

\* A chunk is received; what does not fit is kept for the next read.
Drain ==
  LET c == Head(chan[reading])
      n == Least(ReadFrames - Len(acc), Len(c)) IN
  /\ reader = "drain" /\ chan[reading] # <<>>
  /\ chan' = [chan EXCEPT ![reading] = Tail(@)]
  /\ acc' = acc \o SubSeq(c, 1, n)
  /\ readBuf' = IF n < Len(c) THEN [readBuf EXCEPT ![reading] = Rest(c, n)] ELSE readBuf
  /\ reader' = IF Len(acc) + n = ReadFrames THEN "return" ELSE "drain"
  /\ UNCHANGED <<loopVars, abort, reading, filled, ctlVars, pos, buf>>

DrainEnds ==
  /\ reader = "drain" /\ Drained(reading)
  /\ reader' = "return"
  /\ UNCHANGED <<loopVars, chan, abort, readBuf, reading, acc, filled, ctlVars, pos, buf>>

\* The decoder has not produced the next chunk in time.
ReadTimeout ==
  /\ reader = "drain"
  /\ BeginAbort(reading)
  /\ reader' = "abort"
  /\ UNCHANGED <<loopVars, chan, readBuf, reading, acc, filled, ctlVars, pos, buf>>

\* abort returns to the read, also when another caller runs it.
ReadAborted ==
  /\ reader = "abort" /\ abort[reading] = "done"
  /\ reader' = "return"
  /\ UNCHANGED <<loopVars, chan, abort, readBuf, reading, acc, filled, ctlVars, pos, buf>>

\* The read returns to Stream: frames to copy, or the end of the stream.
EndRead ==
  /\ reader = "return"
  /\ buf' = acc /\ acc' = <<>>
  /\ reader' = IF acc = <<>> THEN "idle" ELSE "fill"
  /\ UNCHANGED <<loopVars, chan, abort, readBuf, reading, filled, ctlVars, pos>>

-----------------------------------------------------------------------------
(* Streamer.Seek and Close. *)

\* stopLocked: the current generation, if any, is aborted.
StopLocked == IF session = None THEN UNCHANGED abort ELSE BeginAbort(session)
StoppedAtOnce == TRUE
Stopped == \A g \in Gens : g = session => abort[g] = "done"

BeginSeek ==
  /\ ctl = "idle" /\ Locked /\ ~closed /\ gen < MaxGen
  /\ ctl' = "seek"
  /\ target' \in 0 .. Total
  /\ StopLocked
  /\ UNCHANGED <<loopVars, chan, readBuf, readerVars, gen, session, closed, pos, buf>>

SeekStopped ==
  /\ ctl = "seek" /\ Stopped
  /\ ctl' = "restart" /\ session' = None
  /\ UNCHANGED <<loopVars, chan, abort, readBuf, readerVars, gen, target, closed, pos, buf>>

\* A new generation starts at the target; only then do position and buffer follow.
Restart ==
  /\ ctl = "restart"
  /\ ctl' = "idle"
  /\ \/ /\ gen' = gen + 1 /\ session' = gen + 1
        /\ loop' = [loop EXCEPT ![gen + 1] = "read"]
        /\ src' = [src EXCEPT ![gen + 1] = target]
        /\ pos' = target /\ buf' = <<>>
     \/ UNCHANGED <<gen, session, loop, src, pos, buf>>
  /\ UNCHANGED <<chunk, last, chan, abort, readBuf, readerVars, target, closed>>

BeginClose ==
  /\ ctl = "idle" /\ Locked /\ ~closed
  /\ ctl' = "close" /\ closed' = TRUE
  /\ StopLocked
  /\ UNCHANGED <<loopVars, chan, readBuf, readerVars, gen, session, target, pos, buf>>

EndClose ==
  /\ ctl = "close" /\ Stopped
  /\ ctl' = "idle" /\ session' = None
  /\ UNCHANGED <<loopVars, chan, abort, readBuf, readerVars, gen, target, closed, pos, buf>>

-----------------------------------------------------------------------------

ReadLoop(g) == LoopRead(g) \/ LoopSend(g)
Stream == Copy \/ EndStream \/ BeginRead \/ Drain \/ DrainEnds \/ ReadAborted \/ EndRead
SeekOrClose == SeekStopped \/ Restart \/ EndClose

Next ==
  \/ \E g \in Gens : ReadLoop(g) \/ Reap(g)
  \/ BeginStream \/ Stream \/ ReadTimeout
  \/ BeginSeek \/ BeginClose \/ SeekOrClose

Spec == Init /\ [][Next]_vars

\* Calls in progress run on, both timers fire, and a mutex is not withheld forever
\* from one who asks for it (sync.Mutex's starvation mode); the decoder owes nothing.
Fairness ==
  /\ SF_vars(BeginRead)
  /\ WF_vars(Stream) /\ WF_vars(ReadTimeout) /\ WF_vars(SeekOrClose)
  /\ \A g \in Gens : WF_vars(Reap(g))

FairSpec == Spec /\ Fairness

-----------------------------------------------------------------------------
(* Properties. *)

\* q holds the frames of the file from a place on.
Run(q, from) == \A i \in 1 .. Len(q) : q[i] = from + i - 1

\* What Stream has, the chunks on their way to it, and the frame that follows each of them.
Held == buf \o acc \o readBuf[session]
Chunks == IF chunk[session] = <<>> THEN chan[session] ELSE Append(chan[session], chunk[session])
After(i) == IF i = 0 THEN pos + Len(Held) ELSE Chunks[i][1] + Len(Chunks[i])

\* The frame heard next is the one the position names, across partial reads, seeks,
\* failed seeks, stalls and crashes of the decoder: what is buffered anywhere from the
\* output to the decoder is one unbroken run of the file that starts at Position().
PositionTrue ==
  /\ Run(buf, pos)
  /\ session # None =>
       /\ Run(Held, pos)
       /\ \A i \in 1 .. Len(Chunks) : Chunks[i] # <<>> /\ Run(Chunks[i], After(i - 1))

\* Unless it was aborted, a generation loses nothing: the run ends where its decoder is.
NothingLost ==
  session # None /\ abort[session] = "no" => After(Len(Chunks)) = src[session]

\* What is heard is the file from Position() on, without a gap, a repetition or a piece
\* from elsewhere (stream.go, pipe.go). Every variable keeps its type meanwhile.
SoundInPlace == TypeOK /\ PositionTrue /\ NothingLost

\* No decoder process is forgotten: one that nobody has begun to abort is the
\* current one, and after Close every process has been reaped.
NoOrphan ==
  /\ \A g \in 1 .. gen : abort[g] = "no" => g = session
  /\ closed /\ ctl = "idle" => \A g \in 1 .. gen : abort[g] = "done"

\* A decoder that stalls blocks nobody for good: Stream returns, and so do Seek and
\* Close, although they wait for it.
CallsReturn == (reader # "idle" ~> reader = "idle") /\ (ctl # "idle" ~> ctl = "idle")
=============================================================================
