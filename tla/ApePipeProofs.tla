---------------------------- MODULE ApePipeProofs ----------------------------
(***************************************************************************)
(* Theorems about ApePipe, for files, chunks, buffers and queues of every  *)
(* size and every number of generations: no decoder process is forgotten,  *)
(* with opMu (Serialised) or without it, and with opMu what is heard is    *)
(* the file from Position() on.  And about Streams, for songs of any       *)
(* number of frames of any length, any calls and any seek: every sample is *)
(* heard, in order, from where the decoder is.                             *)
(***************************************************************************)
EXTENDS ApePipe, Streams, SequenceTheorems, WellFoundedInduction, TLAPS

-----------------------------------------------------------------------------
(* Which generations there are, and where Seek and Close are with them. *)

LifeType ==
  /\ gen \in Gens /\ session \in 0 .. gen /\ reading \in 0 .. gen
  /\ abort \in [Gens -> {"no", "running", "done"}]
  /\ closed \in BOOLEAN
  /\ reader \in {"idle", "fill", "drain", "abort", "return"}
  /\ ctl \in {"idle", "seek", "restart", "close"}

\* Only the current generation may be running; a Seek or Close in progress keeps it
\* until it has stopped.
Owned ==
  /\ \A g \in 1 .. gen : g # session => abort[g] = "done"
  /\ \A g \in Gens : g > gen => abort[g] = "no"
  /\ reader \in {"drain", "abort"} => reading # None
  /\ ctl \in {"seek", "restart"} => ~closed /\ gen < MaxGen
  /\ ctl = "restart" => session = None
  /\ closed /\ ctl = "idle" => session = None

Life == LifeType /\ Owned

-----------------------------------------------------------------------------
(* Where the frames are.  The run of the file ahead of the output is cut in *)
(* pieces, each of which starts where the one before it ends.               *)

\* opMu: while Stream runs, no Seek and no Close does, and it reads the generation they left.
Alone ==
  /\ reader # "idle" => ctl = "idle"
  /\ reader \in {"drain", "abort", "return"} => reading = session /\ session # None

\* Where the frames of one read are, by the place of the reader.
Reading ==
  /\ reader \in {"drain", "abort", "return"} => buf = <<>>
  /\ reader \in {"idle", "fill"} => acc = <<>>
  /\ reader = "drain" => readBuf[session] = <<>> /\ Len(acc) < ReadFrames

\* Where the frames of one generation are, by the place of its readLoop.
Looping(g) ==
  /\ chunk[g] # <<>> <=> loop[g] = "send"
  /\ g > gen => loop[g] = "none" /\ readBuf[g] = <<>> /\ chan[g] = <<>> /\ chunk[g] = <<>>

Ends(g, i) ==
  IF i = 0 THEN pos + Len(buf) + Len(acc) + Len(readBuf[g]) ELSE chan[g][i][1] + Len(chan[g][i])
Unbroken(g) ==
  /\ Run(acc, pos + Len(buf))
  /\ Run(readBuf[g], pos + Len(buf) + Len(acc))
  /\ \A i \in 1 .. Len(chan[g]) : chan[g][i] # <<>> /\ Run(chan[g][i], Ends(g, i - 1))
  /\ Run(chunk[g], Ends(g, Len(chan[g])))
  /\ \A i \in 0 .. Len(chan[g]) : Ends(g, i) <= src[g]
\* Its decoder is where the run ends, unless the end was thrown away.
Complete(g) ==
  abort[g] = "no" \/ loop[g] # "exit" => Ends(g, Len(chan[g])) + Len(chunk[g]) = src[g]

Sound ==
  /\ Alone /\ Reading
  /\ \A g \in Gens : Looping(g)
  /\ Run(buf, pos) /\ pos + Len(buf) <= Total
  /\ session # None => Unbroken(session) /\ Complete(session)

IInv == TypeOK /\ Life /\ Sound

-----------------------------------------------------------------------------
(* No process is forgotten. *)

LEMMA InitLife == Init => Life
<1> SUFFICES ASSUME Init PROVE Life
  OBVIOUS
<1>1. LifeType
  <2>1. closed \in BOOLEAN
    BY Zenon DEF Init
  <2> QED BY <2>1, PipeAssumption DEF Init, LifeType, Gens, None
<1>2. Owned
  BY PipeAssumption DEF Init, Owned, Gens, None
<1> QED BY <1>1, <1>2 DEF Life

\* Aborting the current generation, or none.
LEMMA AbortStep ==
  ASSUME Life, NEW g \in Gens, g = session, BeginAbort(g), UNCHANGED <<gen, session>>
  PROVE  /\ abort' \in [Gens -> {"no", "running", "done"}]
         /\ \A h \in 1 .. gen : h # session => abort'[h] = "done"
         /\ \A h \in Gens : h > gen => abort'[h] = "no"
BY DEF BeginAbort, Life, LifeType, Owned, Gens

LEMMA StopStep ==
  ASSUME Life, StopLocked, UNCHANGED <<gen, session>>
  PROVE  /\ abort' \in [Gens -> {"no", "running", "done"}]
         /\ \A h \in 1 .. gen : h # session => abort'[h] = "done"
         /\ \A h \in Gens : h > gen => abort'[h] = "no"
<1>1. CASE session = None
  BY <1>1 DEF StopLocked, Life, LifeType, Owned
<1>2. CASE session # None
  <2>1. session \in Gens
    BY <1>2, PipeAssumption DEF Life, LifeType, Gens, None
  <2> QED BY <1>2, <2>1, AbortStep DEF StopLocked
<1> QED BY <1>1, <1>2

LEMMA LifeStep == Life /\ [Next]_vars => Life'
<1> SUFFICES ASSUME Life, [Next]_vars PROVE Life'
  OBVIOUS
<1> USE PipeAssumption DEF Life, LifeType, Owned, readerVars, ctlVars
<1>1. ASSUME NEW g \in Gens, ReadLoop(g) PROVE Life'
  BY <1>1 DEF ReadLoop, LoopRead, LoopSend
<1>2. ASSUME NEW g \in Gens, Reap(g) PROVE Life'
  BY <1>2 DEF Reap
<1>3. CASE BeginStream \/ Copy \/ EndStream \/ Drain \/ DrainEnds \/ ReadAborted \/ EndRead
  BY <1>3 DEF BeginStream, Copy, EndStream, Drain, DrainEnds, ReadAborted, EndRead
<1>4. CASE BeginRead
  BY <1>4 DEF BeginRead, None
<1>5. CASE ReadTimeout
  <2>1. reading \in Gens /\ reading # None
    BY <1>5 DEF ReadTimeout, Gens, None
  <2>2. /\ abort' \in [Gens -> {"no", "running", "done"}]
        /\ \A h \in 1 .. gen : h # session => abort'[h] = "done"
        /\ \A h \in Gens : h > gen => abort'[h] = "no"
    BY <1>5, <2>1 DEF ReadTimeout, BeginAbort, Gens
  <2> QED BY <1>5, <2>1, <2>2 DEF ReadTimeout
<1>6. CASE BeginSeek \/ BeginClose
  <2>1. closed' \in BOOLEAN
    <3>1. closed' = TRUE \/ closed' = closed
      BY <1>6, Zenon DEF BeginSeek, BeginClose
    <3> QED BY <3>1
  <2>2. StopLocked /\ UNCHANGED <<gen, session>>
    BY <1>6 DEF BeginSeek, BeginClose
  <2>3. /\ abort' \in [Gens -> {"no", "running", "done"}]
        /\ \A h \in 1 .. gen : h # session => abort'[h] = "done"
        /\ \A h \in Gens : h > gen => abort'[h] = "no"
    BY <2>2, StopStep
  <2> QED BY <1>6, <2>1, <2>3 DEF BeginSeek, BeginClose
<1>7. CASE SeekStopped \/ EndClose
  <2>1. \A g \in 1 .. gen : abort[g] = "done"
    BY <1>7 DEF SeekStopped, EndClose, Stopped, Gens
  <2>2. session' = None /\ UNCHANGED <<gen, reading, reader, abort, closed>>
    BY <1>7 DEF SeekStopped, EndClose
  <2>3. session' \in 0 .. gen'
    BY <2>2 DEF Gens, None
  <2>4. (ctl = "seek" /\ ctl' = "restart") \/ (ctl = "close" /\ ctl' = "idle")
    BY <1>7 DEF SeekStopped, EndClose
  <2> QED BY <2>1, <2>2, <2>3, <2>4
<1>8. CASE Restart
  BY <1>8 DEF Restart, Gens, None, loopVars
<1>9. CASE UNCHANGED vars
  BY <1>9 DEF vars
<1> QED
  BY <1>1, <1>2, <1>3, <1>4, <1>5, <1>6, <1>7, <1>8, <1>9 DEF Next, Stream, SeekOrClose

\* A process that nobody has begun to abort is the current one, and after Close every
\* process has been reaped, whoever aborts it and in whatever order (pipe.go: pipeOwner,
\* abort). It does not depend on opMu.
THEOREM ProcessesReaped == Spec => []NoOrphan
<1>1. Init => Life
  BY InitLife
<1>2. Life /\ [Next]_vars => Life'
  BY LifeStep
<1>3. Life => NoOrphan
  BY DEF Life, LifeType, Owned, NoOrphan, Gens, None
<1> QED BY <1>1, <1>2, <1>3, PTL DEF Spec

-----------------------------------------------------------------------------
(* Runs of the file, cut and joined. *)

LEMMA Elements ==
  ASSUME NEW S, NEW q \in Seq(S)
  PROVE  Len(q) \in Nat /\ \A i \in 1 .. Len(q) : q[i] \in S
OBVIOUS

LEMMA CutRun ==
  ASSUME NEW q \in FrameSeq, NEW p \in Nat, NEW n \in 0 .. Len(q), Run(q, p)
  PROVE  /\ SubSeq(q, 1, n) \in FrameSeq /\ Len(SubSeq(q, 1, n)) = n
         /\ SubSeq(q, n + 1, Len(q)) \in FrameSeq /\ Len(SubSeq(q, n + 1, Len(q))) = Len(q) - n
         /\ Run(SubSeq(q, 1, n), p) /\ Run(SubSeq(q, n + 1, Len(q)), p + n)
<1> USE DEF FrameSeq
<1>1. Len(q) \in Nat /\ n \in Nat /\ n <= Len(q) /\ \A i \in 1 .. Len(q) : q[i] \in 0 .. Total
  <2>1. q \in Seq(0 .. Total)
    OBVIOUS
  <2>2. Len(q) \in Nat /\ \A i \in 1 .. Len(q) : q[i] \in 0 .. Total
    BY <2>1, Elements
  <2> QED BY <2>2
<1>2. SubSeq(q, 1, n) \in FrameSeq /\ Len(SubSeq(q, 1, n)) = n
      /\ \A i \in 1 .. n : SubSeq(q, 1, n)[i] = q[i]
  <2>1. 1 \in Int /\ n \in Int /\ \A i \in 1 .. n : q[i] \in 0 .. Total
    BY <1>1
  <2>2. /\ SubSeq(q, 1, n) \in Seq(0 .. Total)
        /\ Len(SubSeq(q, 1, n)) = IF 1 <= n THEN n - 1 + 1 ELSE 0
        /\ \A i \in 1 .. n - 1 + 1 : SubSeq(q, 1, n)[i] = q[1 + i - 1]
    BY <2>1, SubSeqProperties
  <2>3. n - 1 + 1 = n /\ (\A i \in 1 .. n : 1 + i - 1 = i) /\ (~(1 <= n) => n = 0)
    BY <1>1
  <2> QED BY <2>2, <2>3
<1>3. SubSeq(q, n + 1, Len(q)) \in FrameSeq /\ Len(SubSeq(q, n + 1, Len(q))) = Len(q) - n
      /\ \A i \in 1 .. Len(q) - n : SubSeq(q, n + 1, Len(q))[i] = q[n + i]
  <2>1. n + 1 \in Int /\ Len(q) \in Int /\ \A i \in n + 1 .. Len(q) : q[i] \in 0 .. Total
    BY <1>1
  <2>2. /\ SubSeq(q, n + 1, Len(q)) \in Seq(0 .. Total)
        /\ Len(SubSeq(q, n + 1, Len(q))) = IF n + 1 <= Len(q) THEN Len(q) - (n + 1) + 1 ELSE 0
        /\ \A i \in 1 .. Len(q) - (n + 1) + 1 : SubSeq(q, n + 1, Len(q))[i] = q[n + 1 + i - 1]
    BY <2>1, SubSeqProperties
  <2>3. /\ Len(q) - (n + 1) + 1 = Len(q) - n
        /\ \A i \in 1 .. Len(q) - n : n + 1 + i - 1 = n + i
        /\ ~(n + 1 <= Len(q)) => Len(q) - n = 0
    BY <1>1
  <2> QED BY <2>2, <2>3
<1>4. Run(SubSeq(q, 1, n), p)
  BY <1>1, <1>2 DEF Run
<1>5. Run(SubSeq(q, n + 1, Len(q)), p + n)
  <2> SUFFICES ASSUME NEW i \in 1 .. Len(q) - n PROVE SubSeq(q, n + 1, Len(q))[i] = p + n + i - 1
    BY <1>3 DEF Run
  <2>1. n + i \in 1 .. Len(q) /\ p + (n + i) - 1 = p + n + i - 1
    BY <1>1
  <2>2. q[n + i] = p + (n + i) - 1
    BY <2>1 DEF Run
  <2> QED BY <1>3, <2>1, <2>2
<1> QED BY <1>2, <1>3, <1>4, <1>5

LEMMA JoinRun ==
  ASSUME NEW a \in FrameSeq, NEW b \in FrameSeq, NEW p \in Nat, Run(a, p), Run(b, p + Len(a))
  PROVE  a \o b \in FrameSeq /\ Len(a \o b) = Len(a) + Len(b) /\ Run(a \o b, p)
<1> USE DEF FrameSeq
<1>1. /\ a \o b \in FrameSeq /\ Len(a \o b) = Len(a) + Len(b) /\ Len(a) \in Nat /\ Len(b) \in Nat
      /\ \A i \in 1 .. Len(a) + Len(b) : (a \o b)[i] = IF i <= Len(a) THEN a[i] ELSE b[i - Len(a)]
  OBVIOUS
<1>2. ASSUME NEW i \in 1 .. Len(a) + Len(b) PROVE (a \o b)[i] = p + i - 1
  <2>1. CASE i <= Len(a)
    BY <1>1, <2>1 DEF Run
  <2>2. CASE ~(i <= Len(a))
    <3>1. i - Len(a) \in 1 .. Len(b) /\ p + Len(a) + (i - Len(a)) - 1 = p + i - 1
      BY <1>1, <2>2
    <3> QED BY <1>1, <2>2, <3>1 DEF Run
  <2> QED BY <2>1, <2>2
<1> QED BY <1>1, <1>2 DEF Run

LEMMA FramesRun ==
  ASSUME NEW p \in Nat, NEW n \in Nat, p + n <= Total
  PROVE  Frames(p, n) \in FrameSeq /\ Len(Frames(p, n)) = n /\ Run(Frames(p, n), p)
<1>1. \A i \in 1 .. n : p + i - 1 \in 0 .. Total
  BY PipeAssumption
<1> QED BY <1>1 DEF Frames, Run, FrameSeq

LEMMA LeastOf ==
  ASSUME NEW a \in Nat, NEW b \in Nat
  PROVE  Least(a, b) \in Nat /\ Least(a, b) <= a /\ Least(a, b) <= b /\ Least(a, b) \in {a, b}
BY DEF Least

-----------------------------------------------------------------------------
(* What is heard is the file from Position() on. *)

LoopType ==
  /\ loop \in [Gens -> {"none", "read", "send", "exit"}]
  /\ src \in [Gens -> 0 .. Total]
  /\ chunk \in [Gens -> FrameSeq] /\ last \in [Gens -> BOOLEAN]
  /\ chan \in [Gens -> Seq(FrameSeq)] /\ \A g \in Gens : Len(chan[g]) <= ChunkCap
ReadType ==
  /\ readBuf \in [Gens -> FrameSeq]
  /\ acc \in FrameSeq /\ filled \in 0 .. StreamFrames
  /\ target \in 0 .. Total /\ pos \in 0 .. Total /\ buf \in FrameSeq

LEMMA TypeParts == TypeOK <=> LifeType /\ LoopType /\ ReadType
BY DEF TypeOK, LifeType, LoopType, ReadType

LEMMA InitSound == Init => TypeOK /\ Sound
<1> SUFFICES ASSUME Init PROVE TypeOK /\ Sound
  OBVIOUS
<1>1. LifeType
  BY InitLife DEF Life
<1>2. /\ <<>> \in FrameSeq /\ <<>> \in Seq(FrameSeq)
      /\ gen = 1 /\ session = 1 /\ session \in Gens
  BY PipeAssumption DEF Init, FrameSeq, Gens
<1>3. LoopType /\ ReadType
  BY <1>2, PipeAssumption DEF Init, LoopType, ReadType, Gens
<1>4. \A g \in Gens : Looping(g)
  BY <1>2 DEF Init, Looping, Gens
<1>5. Unbroken(session) /\ Complete(session)
  BY <1>2 DEF Init, Unbroken, Complete, Run, Ends
<1>6. Alone /\ Reading /\ Run(buf, pos) /\ pos + Len(buf) <= Total
  BY PipeAssumption DEF Init, Alone, Reading, Run
<1> QED BY <1>1, <1>3, <1>4, <1>5, <1>6, TypeParts DEF Sound

\* Lengths and places are numbers.
LEMMA Places ==
  ASSUME LoopType, ReadType, NEW g \in Gens, Unbroken(g)
  PROVE  /\ src[g] \in Nat /\ pos \in Nat
         /\ Len(buf) \in Nat /\ Len(acc) \in Nat /\ Len(readBuf[g]) \in Nat /\ Len(chunk[g]) \in Nat
         /\ Len(chan[g]) \in Nat
         /\ \A i \in 1 .. Len(chan[g]) : chan[g][i] \in FrameSeq /\ Len(chan[g][i]) \in Nat \ {0}
         /\ \A i \in 0 .. Len(chan[g]) : Ends(g, i) \in Nat
<1> USE PipeAssumption DEF LoopType, ReadType
<1>1. /\ src[g] \in Nat /\ pos \in Nat
      /\ Len(buf) \in Nat /\ Len(acc) \in Nat /\ Len(readBuf[g]) \in Nat /\ Len(chunk[g]) \in Nat
      /\ chan[g] \in Seq(FrameSeq)
  BY DEF FrameSeq
<1>2. ASSUME NEW i \in 1 .. Len(chan[g])
      PROVE  chan[g][i] \in FrameSeq /\ Len(chan[g][i]) \in Nat \ {0} /\ chan[g][i][1] \in Nat
  <2>1. chan[g][i] \in FrameSeq /\ chan[g][i] # <<>>
    BY <1>1, Elements DEF Unbroken
  <2>2. Len(chan[g][i]) \in Nat \ {0}
    BY <2>1 DEF FrameSeq
  <2>3. 1 \in 1 .. Len(chan[g][i])
    BY <2>2
  <2>4. chan[g][i][1] \in 0 .. Total
    BY <2>1, <2>3, Elements DEF FrameSeq
  <2> QED BY <2>1, <2>2, <2>4
<1>3. ASSUME NEW i \in 0 .. Len(chan[g]) PROVE Ends(g, i) \in Nat
  <2>1. CASE i = 0
    BY <1>1, <2>1 DEF Ends
  <2>2. CASE i \in 1 .. Len(chan[g])
    <3>1. i # 0
      BY <2>2
    <3> QED BY <1>2, <2>2, <3>1 DEF Ends
  <2> QED BY <1>1, <2>1, <2>2
<1> QED BY <1>1, <1>2, <1>3

\* A generation whose pieces stay where they are.
LEMMA Kept ==
  ASSUME NEW g \in Gens, Unbroken(g), Complete(g),
         chan'[g] = chan[g], chunk'[g] = chunk[g], loop'[g] = loop[g], src'[g] = src[g],
         readBuf'[g] = readBuf[g], UNCHANGED <<pos, buf, acc>>, abort'[g] = "no" => abort[g] = "no"
  PROVE  Unbroken(g)' /\ Complete(g)'
<1>1. \A i : Ends(g, i)' = Ends(g, i)
  BY DEF Ends
<1>2. Unbroken(g)'
  BY <1>1 DEF Unbroken
<1>3. Complete(g)'
  BY <1>1 DEF Complete
<1> QED BY <1>2, <1>3

LEMMA LoopReadStep ==
  ASSUME TypeOK, Life, Sound, NEW g \in Gens, LoopRead(g)
  PROVE  LoopType' /\ ReadType' /\ Sound'
<1> USE PipeAssumption DEF readerVars, ctlVars
<1>0. LifeType /\ LoopType /\ ReadType
  BY TypeParts
<1>1. PICK k \in 0 .. Least(ChunkFrames, Total - src[g]) :
       /\ chunk' = [chunk EXCEPT ![g] = Frames(src[g], k)]
       /\ src' = [src EXCEPT ![g] = @ + k]
       /\ last' = [last EXCEPT ![g] = k < ChunkFrames]
       /\ loop' = [loop EXCEPT ![g] = IF k = 0 THEN "exit" ELSE "send"]
  BY DEF LoopRead
<1>2. k \in Nat /\ src[g] \in Nat /\ src[g] + k <= Total
  <2>1. Total - src[g] \in Nat /\ src[g] \in Nat
    BY <1>0 DEF LoopType
  <2>2. k \in Nat /\ k <= Total - src[g]
    <3>1. ChunkFrames \in Nat
      OBVIOUS
    <3>2. Least(ChunkFrames, Total - src[g]) \in Nat /\ Least(ChunkFrames, Total - src[g]) <= Total - src[g]
      BY <2>1, <3>1, LeastOf
    <3> QED BY <2>1, <3>2
  <2> QED BY <2>1, <2>2
<1>3. /\ Frames(src[g], k) \in FrameSeq /\ Len(Frames(src[g], k)) = k
      /\ Run(Frames(src[g], k), src[g])
  BY <1>2, FramesRun
<1>4. loop[g] = "read" /\ UNCHANGED <<chan, abort, readBuf, readerVars, ctlVars, pos, buf>>
  BY DEF LoopRead
<1>5. LoopType' /\ ReadType'
  BY <1>0, <1>1, <1>2, <1>3, <1>4 DEF LoopType, ReadType
<1>6. /\ chunk'[g] = Frames(src[g], k) /\ src'[g] = src[g] + k
      /\ loop'[g] = IF k = 0 THEN "exit" ELSE "send"
      /\ \A h \in Gens \ {g} : chunk'[h] = chunk[h] /\ src'[h] = src[h] /\ loop'[h] = loop[h]
  BY <1>0, <1>1 DEF LoopType
<1>7. \A h \in Gens : Looping(h)'
  <2>1. chunk'[g] # <<>> <=> k # 0
    BY <1>2, <1>3, <1>6 DEF FrameSeq
  <2>2. \A h \in Gens : Looping(h)
    BY DEF Sound
  <2> QED BY <1>4, <1>6, <2>1, <2>2 DEF Looping
<1>8. Alone' /\ Reading' /\ Run(buf, pos)' /\ (pos + Len(buf) <= Total)'
  BY <1>4 DEF Sound, Alone, Reading
<1>9. ASSUME session # None PROVE Unbroken(session)' /\ Complete(session)'
  <2>1. session \in Gens /\ Unbroken(session) /\ Complete(session)
    BY <1>0, <1>9 DEF LifeType, Sound, Gens, None
  <2>2. CASE session # g
    BY <1>4, <1>6, <2>1, <2>2, Kept
  <2>3. CASE session = g
    <3>1. \A i : Ends(g, i)' = Ends(g, i)
      BY <1>4 DEF Ends
    <3>2. chunk[g] = <<>> /\ Len(chunk[g]) = 0 /\ chan[g] \in Seq(FrameSeq) /\ Len(chan[g]) \in Nat
      BY <1>0, <1>4 DEF Sound, Looping, LoopType
    <3>3. Ends(g, Len(chan[g])) + 0 = src[g]
      BY <1>4, <2>1, <2>3, <3>2 DEF Complete
    <3>4. /\ \A i \in 0 .. Len(chan[g]) : Ends(g, i) <= src[g] /\ Ends(g, i) \in Nat
          /\ Ends(g, Len(chan[g])) = src[g]
      <4>1. \A i \in 0 .. Len(chan[g]) : Ends(g, i) <= src[g] /\ Ends(g, i) \in Nat
        BY <1>0, <2>1, <2>3, Places DEF Unbroken
      <4> QED BY <3>2, <3>3, <4>1
    <3>5. Unbroken(g)'
      <4>1. \A i \in 0 .. Len(chan'[g]) : Ends(g, i)' <= src'[g]
        BY <1>2, <1>4, <1>6, <3>1, <3>4
      <4>2. Run(chunk[g], Ends(g, Len(chan[g])))'
        <5>1. Run(chunk'[g], Ends(g, Len(chan[g])))
          BY <1>3, <1>6, <3>4
        <5>2. Ends(g, Len(chan[g]))' = Ends(g, Len(chan[g]))
          BY <1>4 DEF Ends
        <5> QED BY <5>1, <5>2
      <4> QED BY <1>4, <2>1, <2>3, <3>1, <4>1, <4>2 DEF Unbroken
    <3>6. Complete(g)'
      <4>1. Len(chunk'[g]) = k /\ src'[g] = src[g] + k
        BY <1>3, <1>6
      <4>2. Ends(g, Len(chan[g]))' = Ends(g, Len(chan[g]))
        BY <1>4 DEF Ends
      <4> QED BY <3>4, <4>1, <4>2 DEF Complete
    <3> QED BY <1>4, <2>3, <3>5, <3>6
  <2> QED BY <2>2, <2>3
<1> QED BY <1>4, <1>5, <1>7, <1>8, <1>9 DEF Sound

LEMMA LoopSendStep ==
  ASSUME TypeOK, Life, Sound, NEW g \in Gens, LoopSend(g)
  PROVE  LoopType' /\ ReadType' /\ Sound'
<1> USE PipeAssumption DEF readerVars, ctlVars
<1>0. LifeType /\ LoopType /\ ReadType
  BY TypeParts
<1>1. /\ loop[g] = "send" /\ UNCHANGED <<src, last, abort, readBuf, readerVars, ctlVars, pos, buf>>
      /\ chunk' = [chunk EXCEPT ![g] = <<>>]
      /\ \/ /\ Len(chan[g]) < ChunkCap
            /\ chan' = [chan EXCEPT ![g] = Append(@, chunk[g])]
            /\ loop' = [loop EXCEPT ![g] = IF last[g] THEN "exit" ELSE "read"]
         \/ /\ abort[g] # "no" /\ loop' = [loop EXCEPT ![g] = "exit"] /\ UNCHANGED chan
  BY DEF LoopSend
<1>2. chan[g] \in Seq(FrameSeq) /\ chunk[g] \in FrameSeq /\ <<>> \in FrameSeq
  BY <1>0 DEF LoopType, FrameSeq
<1>3. /\ chunk'[g] = <<>> /\ loop'[g] \in {"read", "exit"}
      /\ \/ chan'[g] = Append(chan[g], chunk[g])
         \/ chan'[g] = chan[g] /\ abort[g] # "no" /\ loop'[g] = "exit"
      /\ \A h \in Gens \ {g} : chunk'[h] = chunk[h] /\ chan'[h] = chan[h] /\ loop'[h] = loop[h]
  BY <1>0, <1>1 DEF LoopType
<1>4. LoopType' /\ ReadType'
  <2>1. loop' \in [Gens -> {"none", "read", "send", "exit"}] /\ chunk' \in [Gens -> FrameSeq]
    BY <1>0, <1>1, <1>2 DEF LoopType
  <2>2. chan' \in [Gens -> Seq(FrameSeq)] /\ \A h \in Gens : Len(chan'[h]) <= ChunkCap
    <3>1. CASE UNCHANGED chan
      BY <1>0, <3>1 DEF LoopType
    <3>2. CASE Len(chan[g]) < ChunkCap /\ chan' = [chan EXCEPT ![g] = Append(@, chunk[g])]
      <4>1. Append(chan[g], chunk[g]) \in Seq(FrameSeq) /\ Len(Append(chan[g], chunk[g])) <= ChunkCap
        BY <1>2, <3>2
      <4> QED BY <1>0, <3>2, <4>1 DEF LoopType
    <3> QED BY <1>1, <3>1, <3>2
  <2> QED BY <1>0, <1>1, <2>1, <2>2 DEF LoopType, ReadType
<1>5. \A h \in Gens : Looping(h)'
  <2>1. \A h \in Gens : Looping(h)
    BY DEF Sound
  <2> QED BY <1>1, <1>3, <2>1 DEF Looping
<1>6. Alone' /\ Reading' /\ Run(buf, pos)' /\ (pos + Len(buf) <= Total)'
  BY <1>1 DEF Sound, Alone, Reading
<1>7. ASSUME session # None PROVE Unbroken(session)' /\ Complete(session)'
  <2>1. session \in Gens /\ Unbroken(session) /\ Complete(session)
    BY <1>0, <1>7 DEF LifeType, Sound, Gens, None
  <2>2. CASE session # g
    BY <1>1, <1>3, <2>1, <2>2, Kept
  <2>3. CASE session = g /\ chan'[g] = chan[g] /\ abort[g] # "no" /\ loop'[g] = "exit"
    <3>1. \A i : Ends(g, i)' = Ends(g, i)
      BY <1>1, <2>3 DEF Ends
    <3>2. Run(chunk[g], Ends(g, Len(chan[g])))'
      BY <1>3 DEF Run
    <3>3. Unbroken(g)'
      BY <1>1, <2>1, <2>3, <3>1, <3>2 DEF Unbroken
    <3> QED BY <1>1, <2>3, <3>3 DEF Complete
  <2>4. CASE session = g /\ chan'[g] = Append(chan[g], chunk[g])
    <3> SUFFICES ASSUME NEW n, n = Len(chan[g]) PROVE Unbroken(session)' /\ Complete(session)'
      OBVIOUS
    <3>1. /\ Len(chan'[g]) = n + 1 /\ chan'[g][n + 1] = chunk[g] /\ n \in Nat
          /\ \A i \in 1 .. n : chan'[g][i] = chan[g][i]
      BY <1>2, <2>4
    <3>2. \A i \in 0 .. n : Ends(g, i)' = Ends(g, i)
      BY <1>1, <3>1 DEF Ends
    <3>3. /\ chunk[g] # <<>> /\ Len(chunk[g]) \in Nat \ {0} /\ Run(chunk[g], Ends(g, n))
          /\ Ends(g, n) \in Nat /\ Ends(g, n) + Len(chunk[g]) = src[g]
      <4>1. chunk[g] # <<>>
        BY <1>1 DEF Sound, Looping
      <4>2. Len(chunk[g]) \in Nat \ {0}
        BY <1>2, <4>1 DEF FrameSeq
      <4>3. Ends(g, n) + Len(chunk[g]) = src[g]
        BY <1>1, <2>1, <2>4 DEF Complete
      <4>4. \A i \in 0 .. Len(chan[g]) : Ends(g, i) \in Nat
        BY <1>0, <2>1, <2>4, Places
      <4>5. Ends(g, n) \in Nat
        BY <3>1, <4>4
      <4>6. Run(chunk[g], Ends(g, n))
        BY <2>1, <2>4 DEF Unbroken
      <4> QED BY <4>1, <4>2, <4>3, <4>5, <4>6
    <3>4. Ends(g, n + 1)' = src[g]
      <4>1. chunk[g][1] = Ends(g, n) + 1 - 1
        BY <3>3 DEF Run
      <4>2. n + 1 # 0
        BY <3>1
      <4>3. Ends(g, n + 1)' = chunk[g][1] + Len(chunk[g])
        BY <3>1, <4>2 DEF Ends
      <4> QED BY <3>3, <4>1, <4>3
    <3>5. ASSUME NEW i \in 1 .. n + 1 PROVE chan'[g][i] # <<>> /\ Run(chan'[g][i], Ends(g, i - 1)')
      <4>1. i - 1 \in 0 .. n /\ (i \in 1 .. n \/ i = n + 1)
        BY <3>1
      <4>2. CASE i \in 1 .. n
        BY <2>1, <2>4, <3>1, <3>2, <4>1, <4>2 DEF Unbroken
      <4>3. CASE i = n + 1
        <5>1. i - 1 = n
          BY <3>1, <4>3
        <5> QED BY <3>1, <3>2, <3>3, <4>1, <4>3, <5>1
      <4> QED BY <4>1, <4>2, <4>3
    <3>6. ASSUME NEW i \in 0 .. n + 1 PROVE Ends(g, i)' <= src[g]
      <4>1. src[g] \in Nat /\ (i \in 0 .. n \/ i = n + 1)
        BY <1>0, <3>1 DEF LoopType
      <4>2. CASE i \in 0 .. n
        BY <2>1, <2>4, <3>2, <4>2 DEF Unbroken
      <4>3. CASE i = n + 1
        BY <3>4, <4>1, <4>3
      <4> QED BY <4>1, <4>2, <4>3
    <3>7. Run(chunk[g], Ends(g, Len(chan[g])))'
      BY <1>3 DEF Run
    <3>8. Unbroken(g)'
      BY <1>1, <2>1, <2>4, <3>1, <3>5, <3>6, <3>7 DEF Unbroken
    <3>9. Complete(g)'
      <4>1. Ends(g, Len(chan[g]))' = src[g] /\ Len(chunk'[g]) = 0 /\ src[g] + 0 = src[g]
        <5>1. Len(chunk'[g]) = 0 /\ src[g] \in Nat
          BY <1>0, <1>3 DEF LoopType
        <5>2. Ends(g, Len(chan[g]))' = Ends(g, n + 1)'
          BY <3>1 DEF Ends
        <5> QED BY <3>4, <5>1, <5>2
      <4> QED BY <1>1, <4>1 DEF Complete
    <3> QED BY <1>1, <2>4, <3>8, <3>9
  <2> QED BY <1>3, <2>2, <2>3, <2>4
<1> QED BY <1>1, <1>4, <1>5, <1>6, <1>7 DEF Sound

\* A step of the reader or of Seek: the loops stay where they are.
LEMMA LoopsStay ==
  ASSUME LoopType, \A g \in Gens : Looping(g), UNCHANGED <<loopVars, gen>>,
         \A g \in Gens : g > gen => readBuf'[g] = <<>> /\ chan'[g] = <<>>
  PROVE  \A g \in Gens : Looping(g)'
BY DEF Looping, loopVars

LEMMA CopyStep ==
  ASSUME TypeOK, Life, Sound, Copy
  PROVE  LoopType' /\ ReadType' /\ Sound'
<1> USE PipeAssumption DEF loopVars, ctlVars
<1>0. LifeType /\ LoopType /\ ReadType
  BY TypeParts
<1> DEFINE n == Least(StreamFrames - filled, Len(buf))
<1>1. /\ reader = "fill" /\ filled' = filled + n /\ pos' = pos + n /\ buf' = SubSeq(buf, n + 1, Len(buf))
      /\ UNCHANGED <<loopVars, chan, abort, readBuf, reader, reading, acc, ctlVars>>
  BY DEF Copy
<1>2. /\ buf \in FrameSeq /\ Len(buf) \in Nat /\ pos \in Nat /\ filled \in Nat /\ filled <= StreamFrames
      /\ StreamFrames - filled \in Nat
  BY <1>0 DEF ReadType, FrameSeq
<1>3. n \in Nat /\ n <= StreamFrames - filled /\ n <= Len(buf)
  BY <1>2, LeastOf
<1> HIDE DEF n
<1>4. n \in 0 .. Len(buf) /\ Run(buf, pos) /\ pos + Len(buf) <= Total
  BY <1>2, <1>3 DEF Sound
<1>5. buf' \in FrameSeq /\ Len(buf') = Len(buf) - n /\ Run(buf', pos')
  BY <1>1, <1>2, <1>4, CutRun
<1>6. pos' + Len(buf') = pos + Len(buf) /\ pos' \in 0 .. Total /\ filled' \in 0 .. StreamFrames
  <2>1. pos' + Len(buf') = (pos + n) + (Len(buf) - n)
    BY <1>1, <1>5
  <2>2. pos + n \in 0 .. Total /\ filled + n \in 0 .. StreamFrames /\ (pos + n) + (Len(buf) - n) = pos + Len(buf)
    BY <1>2, <1>3, <1>4
  <2> QED BY <1>1, <2>1, <2>2
<1>7. LoopType' /\ ReadType'
  BY <1>0, <1>1, <1>5, <1>6 DEF LoopType, ReadType
<1>8. ASSUME session # None PROVE Unbroken(session)' /\ Complete(session)'
  <2>1. \A i : Ends(session, i)' = Ends(session, i)
    BY <1>1, <1>6 DEF Ends
  <2>2. Unbroken(session) /\ Complete(session)
    BY <1>8 DEF Sound
  <2>3. Unbroken(session)'
    BY <1>1, <1>6, <2>1, <2>2 DEF Unbroken
  <2> QED BY <1>1, <2>1, <2>2, <2>3 DEF Complete
<1>9. \A g \in Gens : Looping(g)'
  BY <1>1 DEF Sound, Looping
<1> QED BY <1>1, <1>4, <1>5, <1>6, <1>7, <1>8, <1>9 DEF Sound, Alone, Reading

LEMMA ReadSize == ReadFrames \in Nat \ {0}
BY PipeAssumption DEF ReadFrames, Least

LEMMA BeginReadStep ==
  ASSUME TypeOK, Life, Sound, BeginRead
  PROVE  LoopType' /\ ReadType' /\ Sound'
<1> USE PipeAssumption DEF loopVars, ctlVars
<1>0. LifeType /\ LoopType /\ ReadType
  BY TypeParts
<1>1. /\ reader = "fill" /\ buf = <<>> /\ acc = <<>> /\ ctl = "idle" /\ reading' = session
      /\ UNCHANGED <<loopVars, chan, abort, filled, ctlVars, pos, buf>>
  BY DEF BeginRead, OwnerFree, Sound, Reading
<1>2. CASE session = None
  <2>1. reader' = "idle" /\ UNCHANGED <<acc, readBuf>>
    BY <1>2 DEF BeginRead
  <2> QED BY <1>0, <1>1, <1>2, <2>1 DEF LoopType, ReadType, Sound, Alone, Reading, Looping
<1>3. CASE session # None
  <2> DEFINE n == Least(ReadFrames, Len(readBuf[session]))
  <2>1. /\ acc' = SubSeq(readBuf[session], 1, n)
        /\ readBuf' = [readBuf EXCEPT ![session] = SubSeq(@, n + 1, Len(@))]
        /\ reader' = IF n = ReadFrames THEN "return" ELSE "drain"
    BY <1>3 DEF BeginRead
  <2>2. session \in Gens /\ session <= gen /\ readBuf[session] \in FrameSeq /\ Unbroken(session) /\ Complete(session)
    BY <1>0, <1>3 DEF LifeType, ReadType, Sound, Gens, None
  <2>3. Len(readBuf[session]) \in Nat
    BY <2>2 DEF FrameSeq
  <2>4. n \in 0 .. Len(readBuf[session]) /\ n <= ReadFrames /\ (n # ReadFrames => n = Len(readBuf[session]))
    <3>1. ReadFrames \in Nat
      BY ReadSize
    <3> HIDE DEF ReadFrames
    <3>2. n \in Nat /\ n <= ReadFrames /\ n <= Len(readBuf[session]) /\ n \in {ReadFrames, Len(readBuf[session])}
      BY <2>3, <3>1, LeastOf
    <3> QED BY <2>3, <3>2
  <2> HIDE DEF n
  <2>5. pos + Len(buf) = pos /\ pos + Len(buf) + Len(acc) = pos /\ pos \in Nat
    BY <1>0, <1>1 DEF ReadType
  <2>6. Run(readBuf[session], pos)
    BY <2>2, <2>5 DEF Unbroken
  <2>7. /\ acc' \in FrameSeq /\ Len(acc') = n /\ Run(acc', pos)
        /\ readBuf' \in [Gens -> FrameSeq]
        /\ readBuf'[session] \in FrameSeq /\ Len(readBuf'[session]) = Len(readBuf[session]) - n
        /\ Run(readBuf'[session], pos + n)
    <3>1. /\ SubSeq(readBuf[session], 1, n) \in FrameSeq /\ Len(SubSeq(readBuf[session], 1, n)) = n
          /\ SubSeq(readBuf[session], n + 1, Len(readBuf[session])) \in FrameSeq
          /\ Len(SubSeq(readBuf[session], n + 1, Len(readBuf[session]))) = Len(readBuf[session]) - n
          /\ Run(SubSeq(readBuf[session], 1, n), pos)
          /\ Run(SubSeq(readBuf[session], n + 1, Len(readBuf[session])), pos + n)
      <4> DEFINE q == readBuf[session]
      <4>1. q \in FrameSeq /\ n \in 0 .. Len(q) /\ pos \in Nat /\ Run(q, pos)
        BY <2>2, <2>4, <2>5, <2>6
      <4> HIDE DEF q
      <4>2. /\ SubSeq(q, 1, n) \in FrameSeq /\ Len(SubSeq(q, 1, n)) = n
            /\ SubSeq(q, n + 1, Len(q)) \in FrameSeq /\ Len(SubSeq(q, n + 1, Len(q))) = Len(q) - n
            /\ Run(SubSeq(q, 1, n), pos) /\ Run(SubSeq(q, n + 1, Len(q)), pos + n)
        BY <4>1, CutRun
      <4> QED BY <4>2 DEF q
    <3>2. readBuf'[session] = SubSeq(readBuf[session], n + 1, Len(readBuf[session]))
      BY <1>0, <2>1, <2>2 DEF ReadType
    <3>3. readBuf' \in [Gens -> FrameSeq]
      BY <1>0, <2>1, <3>1 DEF ReadType
    <3> QED BY <2>1, <3>1, <3>2, <3>3
  <2>8. LoopType' /\ ReadType'
    BY <1>0, <1>1, <2>7 DEF LoopType, ReadType
  <2>9. /\ pos' + Len(buf') = pos /\ pos' + Len(buf') + Len(acc') = pos + n
        /\ pos' + Len(buf') + Len(acc') + Len(readBuf'[session]) = pos + Len(buf) + Len(acc) + Len(readBuf[session])
    <3>1. /\ pos' = pos /\ Len(buf') = 0 /\ Len(buf) = 0 /\ Len(acc) = 0
          /\ Len(acc') = n /\ Len(readBuf'[session]) = Len(readBuf[session]) - n
      BY <1>1, <2>7
    <3>2. /\ pos + 0 = pos /\ pos + 0 + n = pos + n
          /\ pos + 0 + n + (Len(readBuf[session]) - n) = pos + 0 + 0 + Len(readBuf[session])
      <4> DEFINE l == Len(readBuf[session])
      <4>1. pos \in Nat /\ l \in Nat /\ n \in 0 .. l
        BY <2>3, <2>4, <2>5
      <4> HIDE DEF l
      <4>2. pos + 0 = pos /\ pos + 0 + n = pos + n /\ pos + 0 + n + (l - n) = pos + 0 + 0 + l
        BY <4>1
      <4> QED BY <4>2 DEF l

    <3> QED BY <3>1, <3>2
  <2>10. \A i : Ends(session, i)' = Ends(session, i)
    BY <1>1, <2>9 DEF Ends
  <2>11. Unbroken(session)' /\ Complete(session)'
    <3>1. Unbroken(session)'
      BY <1>1, <2>2, <2>7, <2>9, <2>10 DEF Unbroken
    <3> QED BY <1>1, <2>2, <2>10, <3>1 DEF Complete
  <2>12. \A g \in Gens : Looping(g)'
    <3>1. \A g \in Gens : g > gen => readBuf'[g] = readBuf[g]
      BY <1>0, <2>1, <2>2 DEF ReadType, LifeType, Gens
    <3> QED BY <1>1, <3>1 DEF Sound, Looping
  <2>13. Alone' /\ Reading'
    <3>1. reader' = "drain" => readBuf'[session] = <<>> /\ Len(acc') < ReadFrames
      BY <2>1, <2>3, <2>4, <2>7, ReadSize DEF FrameSeq
    <3> QED BY <1>1, <1>3, <2>1, <3>1 DEF Alone, Reading
  <2> QED BY <1>1, <2>8, <2>11, <2>12, <2>13 DEF Sound
<1> QED BY <1>2, <1>3

LEMMA DrainStep ==
  ASSUME TypeOK, Life, Sound, Drain
  PROVE  LoopType' /\ ReadType' /\ Sound'
<1> USE PipeAssumption DEF loopVars, ctlVars
<1>0. LifeType /\ LoopType /\ ReadType
  BY TypeParts
<1>1. /\ reader = "drain" /\ reading = session /\ session # None /\ ctl = "idle"
      /\ buf = <<>> /\ readBuf[session] = <<>> /\ Len(acc) < ReadFrames
      /\ session \in Gens /\ session <= gen /\ Unbroken(session) /\ Complete(session)
      /\ \A g \in Gens : Looping(g)
  BY <1>0 DEF Drain, LifeType, Sound, Alone, Reading, Gens, None
<1> SUFFICES ASSUME NEW s, s = session PROVE LoopType' /\ ReadType' /\ Sound'
  OBVIOUS
<1> DEFINE c == Head(chan[s])
           n == Least(ReadFrames - Len(acc), Len(c))
<1>2. /\ chan[s] # <<>>
      /\ chan' = [chan EXCEPT ![s] = Tail(@)]
      /\ acc' = acc \o SubSeq(c, 1, n)
      /\ readBuf' = IF n < Len(c) THEN [readBuf EXCEPT ![s] = Rest(c, n)] ELSE readBuf
      /\ reader' = IF Len(acc) + n = ReadFrames THEN "return" ELSE "drain"
      /\ UNCHANGED <<loopVars, abort, reading, filled, ctlVars, pos, buf>>
  BY <1>1 DEF Drain
<1>3. /\ chan[s] \in Seq(FrameSeq) /\ Len(chan[s]) \in Nat \ {0} /\ c = chan[s][1]
      /\ chan'[s] = Tail(chan[s]) /\ Tail(chan[s]) \in Seq(FrameSeq)
      /\ Len(chan'[s]) = Len(chan[s]) - 1
      /\ \A i \in 1 .. Len(chan[s]) - 1 : chan'[s][i] = chan[s][i + 1]
      /\ \A g \in Gens \ {s} : chan'[g] = chan[g]
  <2>1. /\ chan[s] \in Seq(FrameSeq) /\ chan[s] # <<>> /\ chan'[s] = Tail(chan[s])
        /\ \A g \in Gens \ {s} : chan'[g] = chan[g]
    BY <1>0, <1>1, <1>2 DEF LoopType
  <2>2. /\ Len(chan[s]) \in Nat \ {0} /\ c = chan[s][1]
    BY <2>1
  <2>3. /\ Tail(chan[s]) \in Seq(FrameSeq) /\ Len(Tail(chan[s])) = Len(chan[s]) - 1
        /\ \A i \in 1 .. Len(Tail(chan[s])) : Tail(chan[s])[i] = chan[s][i + 1]
    BY <2>1, HeadTailProperties
  <2> HIDE DEF c
  <2> QED BY <2>1, <2>2, <2>3
<1>4. /\ c \in FrameSeq /\ Len(c) \in Nat \ {0} /\ pos \in Nat /\ acc \in FrameSeq /\ Len(acc) \in Nat
      /\ \A i \in 0 .. Len(chan[s]) : Ends(s, i) \in Nat
  <2>1. 1 \in 1 .. Len(chan[s])
    BY <1>3
  <2>2. acc \in FrameSeq
    BY <1>0 DEF ReadType
  <2> HIDE DEF c, n
  <2>3. c \in FrameSeq /\ Len(c) \in Nat \ {0} /\ pos \in Nat /\ Len(acc) \in Nat
    BY <1>0, <1>1, <1>3, <2>1, Places
  <2>4. \A i \in 0 .. Len(chan[s]) : Ends(s, i) \in Nat
    BY <1>0, <1>1, Places
  <2> QED BY <2>2, <2>3, <2>4
<1>5. /\ n \in Nat /\ n <= Len(c) /\ Len(acc) + n <= ReadFrames

      /\ n < Len(c) => Len(acc) + n = ReadFrames
  <2>1. ReadFrames - Len(acc) \in Nat /\ ReadFrames \in Nat /\ Len(c) \in Nat
    BY <1>1, <1>4, ReadSize
  <2>2. n \in Nat /\ n <= ReadFrames - Len(acc) /\ n <= Len(c) /\ n \in {ReadFrames - Len(acc), Len(c)}
    BY <2>1, LeastOf
  <2> HIDE DEF n, c, ReadFrames
  <2> QED BY <1>4, <2>1, <2>2
<1> HIDE DEF n, c
\* The chunk starts where what was read ends.
<1>6. Run(acc, pos) /\ Run(c, pos + Len(acc)) /\ Ends(s, 0) = pos + Len(acc) /\ c[1] = pos + Len(acc)
  <2>1. Len(buf) = 0 /\ Len(readBuf[s]) = 0
    BY <1>1
  <2>2. pos + 0 = pos /\ pos + 0 + Len(acc) + 0 = pos + Len(acc)
    BY <1>4
  <2>3. Run(acc, pos) /\ Ends(s, 0) = pos + Len(acc)
    BY <1>1, <2>1, <2>2 DEF Unbroken, Ends
  <2>4. Run(chan[s][1], Ends(s, 1 - 1))
    BY <1>1, <1>3 DEF Unbroken
  <2>5. Run(c, pos + Len(acc))
    BY <1>3, <2>3, <2>4
  <2>6. c[1] = pos + Len(acc) + 1 - 1
    BY <1>4, <2>5 DEF Run
  <2> QED BY <1>4, <2>3, <2>5, <2>6
<1>7. /\ SubSeq(c, 1, n) \in FrameSeq /\ Len(SubSeq(c, 1, n)) = n /\ Run(SubSeq(c, 1, n), pos + Len(acc))
      /\ Rest(c, n) \in FrameSeq /\ Len(Rest(c, n)) = Len(c) - n /\ Run(Rest(c, n), pos + Len(acc) + n)
  <2>1. n \in 0 .. Len(c) /\ pos + Len(acc) \in Nat
    BY <1>4, <1>5
  <2> QED BY <1>4, <1>6, <2>1, CutRun DEF Rest
<1>8. acc' \in FrameSeq /\ Len(acc') = Len(acc) + n /\ Run(acc', pos)
  BY <1>2, <1>4, <1>6, <1>7, JoinRun
<1>9. /\ readBuf' \in [Gens -> FrameSeq]
      /\ readBuf'[s] \in FrameSeq /\ Len(readBuf'[s]) = Len(c) - n /\ Run(readBuf'[s], pos + Len(acc) + n)
      /\ \A g \in Gens \ {s} : readBuf'[g] = readBuf[g]
  <2>1. CASE n < Len(c)
    <3>1. readBuf' = [readBuf EXCEPT ![s] = Rest(c, n)]
      BY <1>2, <2>1
    <3> QED BY <1>0, <1>1, <1>7, <3>1 DEF ReadType
  <2>2. CASE n = Len(c)
    <3>1. readBuf' = readBuf /\ Len(c) - n = 0 /\ readBuf'[s] = <<>>
      BY <1>1, <1>2, <1>4, <2>2
    <3> QED BY <1>0, <3>1 DEF ReadType, Run, FrameSeq
  <2> QED BY <1>4, <1>5, <2>1, <2>2
<1>10. LoopType' /\ ReadType'
  <2>1. chan' \in [Gens -> Seq(FrameSeq)] /\ \A g \in Gens : Len(chan'[g]) <= ChunkCap
    <3>1. chan' \in [Gens -> Seq(FrameSeq)]
      BY <1>0, <1>2, <1>3 DEF LoopType
    <3>2. Len(chan[s]) <= ChunkCap /\ \A g \in Gens : Len(chan[g]) <= ChunkCap
      BY <1>0, <1>1 DEF LoopType
    <3>3. Len(chan[s]) - 1 <= ChunkCap
      BY <1>3, <3>2
    <3> QED BY <1>3, <3>1, <3>2, <3>3
  <2> QED BY <1>0, <1>2, <1>8, <1>9, <2>1 DEF LoopType, ReadType
\* What was the end of the chunk is where the rest of the queue starts.
<1>11. \A i \in 0 .. Len(chan'[s]) : Ends(s, i)' = Ends(s, i + 1)
  <2> SUFFICES ASSUME NEW i \in 0 .. Len(chan'[s]) PROVE Ends(s, i)' = Ends(s, i + 1)
    OBVIOUS
  <2>1. CASE i = 0
    <3>1. Ends(s, i)' = pos + 0 + (Len(acc) + n) + (Len(c) - n)
      BY <1>1, <1>2, <1>8, <1>9, <2>1 DEF Ends
    <3>2. Ends(s, i + 1) = c[1] + Len(c)
      BY <1>3, <2>1 DEF Ends
    <3>3. \A p, a, l \in Nat : \A m \in 0 .. l : p + 0 + (a + m) + (l - m) = p + a + l
      OBVIOUS
    <3>4. n \in 0 .. Len(c) /\ Len(c) \in Nat
      BY <1>4, <1>5
    <3> QED BY <1>4, <1>6, <3>1, <3>2, <3>3, <3>4
  <2>2. CASE i # 0
    <3>1. i \in 1 .. Len(chan[s]) - 1 /\ i + 1 # 0
      BY <1>3, <2>2
    <3> QED BY <1>3, <2>2, <3>1 DEF Ends
  <2> QED BY <2>1, <2>2
<1>12. Unbroken(s)'
  <2>1. Run(acc', pos + Len(buf)) /\ Run(readBuf'[s], pos + Len(buf) + Len(acc'))
    <3>1. pos + Len(buf) = pos /\ pos + (Len(acc) + n) = pos + Len(acc) + n
      BY <1>1, <1>4, <1>5
    <3> QED BY <1>8, <1>9, <3>1
  <2>2. ASSUME NEW i \in 1 .. Len(chan'[s]) PROVE chan'[s][i] # <<>> /\ Run(chan'[s][i], Ends(s, i - 1)')
    <3>1. /\ i \in 1 .. Len(chan[s]) - 1 /\ i + 1 \in 1 .. Len(chan[s]) /\ i - 1 \in 0 .. Len(chan'[s])
          /\ (i + 1) - 1 = (i - 1) + 1
      BY <1>3
    <3>2. chan[s][i + 1] # <<>> /\ Run(chan[s][i + 1], Ends(s, (i + 1) - 1))
      BY <1>1, <3>1 DEF Unbroken
    <3> QED BY <1>3, <1>11, <3>1, <3>2
  <2>3. ASSUME NEW m, m = Len(chan'[s]) PROVE Run(chunk'[s], Ends(s, m)')
    <3>1. m \in 0 .. Len(chan'[s]) /\ m + 1 = Len(chan[s])
      BY <1>3, <2>3
    <3> QED BY <1>1, <1>2, <1>11, <3>1 DEF Unbroken
  <2>4. ASSUME NEW i \in 0 .. Len(chan'[s]) PROVE Ends(s, i)' <= src[s]
    <3>1. i + 1 \in 0 .. Len(chan[s])
      BY <1>3
    <3> QED BY <1>1, <1>11, <3>1 DEF Unbroken
  <2>5. \A m : m = Len(chan'[s]) => Ends(s, m)' = Ends(s, Len(chan[s]))'
    BY DEF Ends
  <2> QED BY <1>2, <2>1, <2>2, <2>3, <2>4, <2>5 DEF Unbroken
<1>13. Complete(s)'
  <2>1. Ends(s, Len(chan[s]))' = Ends(s, Len(chan[s]))
    <3> SUFFICES ASSUME NEW m, m = Len(chan'[s]) PROVE Ends(s, m)' = Ends(s, Len(chan[s]))
      BY DEF Ends
    <3>1. m \in 0 .. Len(chan'[s]) /\ m + 1 = Len(chan[s])
      BY <1>3
    <3> QED BY <1>11, <3>1
  <2> QED BY <1>1, <1>2, <2>1 DEF Complete
<1>14. \A g \in Gens : Looping(g)'
  <2>1. \A g \in Gens : g > gen => readBuf'[g] = readBuf[g] /\ chan'[g] = chan[g]
    BY <1>0, <1>1, <1>3, <1>9 DEF LifeType, Gens
  <2> QED BY <1>1, <1>2, <2>1 DEF Looping
<1>15. Alone' /\ Reading'
  <2>1. reader' = "drain" => readBuf'[s] = <<>> /\ Len(acc') < ReadFrames
    <3> SUFFICES ASSUME Len(acc) + n # ReadFrames PROVE readBuf'[s] = <<>> /\ Len(acc') < ReadFrames
      BY <1>2
    <3>1. ReadFrames \in Nat
      BY ReadSize
    <3> HIDE DEF ReadFrames
    <3>2. Len(acc) + n < ReadFrames /\ ~(n < Len(c))
      BY <1>4, <1>5, <3>1
    <3> QED BY <1>1, <1>2, <1>8, <3>2
  <2> QED BY <1>1, <1>2, <2>1 DEF Alone, Reading
<1> QED BY <1>1, <1>2, <1>10, <1>12, <1>13, <1>14, <1>15 DEF Sound

LEMMA EndReadStep ==
  ASSUME TypeOK, Life, Sound, EndRead
  PROVE  LoopType' /\ ReadType' /\ Sound'
<1> USE PipeAssumption DEF loopVars, ctlVars
<1>0. LifeType /\ LoopType /\ ReadType
  BY TypeParts
<1>1. /\ reader = "return" /\ reading = session /\ session # None /\ ctl = "idle" /\ buf = <<>>
      /\ session \in Gens /\ Unbroken(session) /\ Complete(session)
      /\ \A g \in Gens : Looping(g)
  BY <1>0 DEF EndRead, LifeType, Sound, Alone, Reading, Gens, None
<1>2. /\ buf' = acc /\ acc' = <<>> /\ reader' = IF acc = <<>> THEN "idle" ELSE "fill"
      /\ UNCHANGED <<loopVars, chan, abort, readBuf, reading, filled, ctlVars, pos>>
  BY DEF EndRead
<1>3. /\ pos \in Nat /\ acc \in FrameSeq /\ Len(acc) \in Nat /\ Len(readBuf[session]) \in Nat /\ src[session] \in 0 .. Total
      /\ Len(buf) = 0 /\ Len(acc') = 0
  BY <1>0, <1>1, <1>2, Places DEF ReadType, LoopType
<1>4. /\ pos + 0 = pos /\ pos + Len(acc) + 0 = pos + 0 + Len(acc)
      /\ pos + Len(acc) + 0 + Len(readBuf[session]) = pos + 0 + Len(acc) + Len(readBuf[session])
  BY <1>3
<1>5. \A i : Ends(session, i)' = Ends(session, i)
  BY <1>2, <1>3, <1>4 DEF Ends
<1>6. Run(buf, pos)' /\ Run(acc, pos + Len(buf))' /\ Run(readBuf[session], pos + Len(buf) + Len(acc))'
  <2>1. Run(acc, pos + 0) /\ Run(readBuf[session], pos + 0 + Len(acc))
    BY <1>1, <1>3 DEF Unbroken
  <2>2. Run(acc', pos' + Len(buf'))
    BY <1>2 DEF Run
  <2> QED BY <1>2, <1>3, <1>4, <2>1, <2>2
<1>7. Unbroken(session)' /\ Complete(session)'
  <2>1. Unbroken(session)'
    BY <1>1, <1>2, <1>5, <1>6 DEF Unbroken
  <2> QED BY <1>1, <1>2, <1>5, <2>1 DEF Complete
<1>8. (pos + Len(buf) <= Total)'
  <2>1. Ends(session, 0) <= src[session] /\ Ends(session, 0) = pos + 0 + Len(acc) + Len(readBuf[session])
    <3>1. 0 \in 0 .. Len(chan[session])
      BY <1>0, <1>1, Places
    <3> QED BY <1>1, <1>3, <3>1 DEF Unbroken, Ends
  <2>2. pos + 0 + Len(acc) + Len(readBuf[session]) <= Total
    <3>1. pos + 0 + Len(acc) + Len(readBuf[session]) \in Nat
      <4>1. \A p, a, r \in Nat : p + 0 + a + r \in Nat
        OBVIOUS
      <4> QED BY <1>3, <4>1, Zenon
    <3>2. \A x, y, z \in Nat : x <= y /\ y <= z => x <= z
      OBVIOUS
    <3>3. src[session] \in Nat /\ src[session] <= Total /\ Total \in Nat
      BY <1>3
    <3> QED BY <2>1, <3>1, <3>2, <3>3
  <2>3. pos + Len(acc) <= Total
    <3>1. \A p, a, r \in Nat : p + 0 + a + r <= Total => p + a <= Total
      OBVIOUS
    <3> QED BY <1>3, <2>2, <3>1
  <2> QED BY <1>2, <2>3
<1>9. LoopType' /\ ReadType'
  BY <1>0, <1>2 DEF LoopType, ReadType, FrameSeq
<1>10. Alone' /\ Reading' /\ \A g \in Gens : Looping(g)'
  BY <1>1, <1>2 DEF Alone, Reading, Looping
<1> QED BY <1>2, <1>6, <1>7, <1>8, <1>9, <1>10 DEF Sound

LEMMA RestartStep ==
  ASSUME Serialised, TypeOK, Life, Sound, Restart
  PROVE  LoopType' /\ ReadType' /\ Sound'
<1> USE PipeAssumption DEF readerVars
<1>0. LifeType /\ LoopType /\ ReadType
  BY TypeParts
<1>1. /\ ctl = "restart" /\ session = None /\ gen < MaxGen /\ gen \in Nat /\ gen + 1 \in Gens
      /\ reader = "idle" /\ acc = <<>> /\ \A g \in Gens : Looping(g)
  BY <1>0 DEF Restart, Life, Owned, LifeType, Sound, Alone, Reading, Gens
<1>2. /\ ctl' = "idle" /\ UNCHANGED <<chunk, last, chan, abort, readBuf, readerVars, target, closed>>
  BY DEF Restart
<1>3. CASE UNCHANGED <<gen, session, loop, src, pos, buf>>
  BY <1>0, <1>1, <1>2, <1>3 DEF LoopType, ReadType, Sound, Alone, Reading, Looping
<1>4. CASE /\ gen' = gen + 1 /\ session' = gen + 1
           /\ loop' = [loop EXCEPT ![gen + 1] = "read"]
           /\ src' = [src EXCEPT ![gen + 1] = target]
           /\ pos' = target /\ buf' = <<>>
  <2> SUFFICES ASSUME NEW s, s = gen + 1 PROVE LoopType' /\ ReadType' /\ Sound'
    OBVIOUS
  <2>1. /\ target \in 0 .. Total /\ target \in Nat /\ <<>> \in FrameSeq
        /\ loop'[s] = "read" /\ src'[s] = target /\ \A g \in Gens \ {s} : loop'[g] = loop[g]
    BY <1>0, <1>1, <1>4 DEF LoopType, ReadType, FrameSeq
  <2>2. LoopType' /\ ReadType'
    BY <1>0, <1>1, <1>2, <1>4, <2>1 DEF LoopType, ReadType
  <2>3. readBuf'[s] = <<>> /\ chan'[s] = <<>> /\ chunk'[s] = <<>> /\ acc' = <<>>
    BY <1>1, <1>2 DEF Looping
  <2>4. \A g \in Gens : Looping(g)'
    BY <1>1, <1>2, <1>4, <2>1, <2>3 DEF Looping, Gens
  <2>5. Ends(s, 0)' = target
    BY <1>4, <2>1, <2>3 DEF Ends
  <2>6. Unbroken(s)'
    <3>1. \A i \in 0 .. Len(chan'[s]) : i = 0
      BY <2>3
    <3>2. Run(acc, pos + Len(buf))' /\ Run(readBuf[s], pos + Len(buf) + Len(acc))' /\ Run(chunk[s], Ends(s, Len(chan[s])))'
      BY <2>3 DEF Run
    <3> QED BY <2>1, <2>3, <2>5, <3>1, <3>2 DEF Unbroken
  <2>7. Complete(s)'
    <3>1. Ends(s, Len(chan[s]))' = Ends(s, 0)'
      BY <2>3 DEF Ends
    <3> QED BY <2>1, <2>3, <2>5, <3>1 DEF Complete
  <2>8. Run(buf, pos)' /\ (pos + Len(buf) <= Total)'
    BY <1>4, <2>1 DEF Run
  <2>9. Alone' /\ Reading'
    BY <1>1, <1>2, <1>4 DEF Alone, Reading
  <2> QED BY <1>4, <2>2, <2>4, <2>6, <2>7, <2>8, <2>9 DEF Sound
<1> QED BY <1>3, <1>4 DEF Restart

\* The other steps leave every piece where it is.
LEMMA QuietStep ==
  ASSUME Serialised, TypeOK, Life, Sound,
         \/ \E g \in Gens : Reap(g)
         \/ BeginStream \/ EndStream \/ DrainEnds \/ ReadTimeout \/ ReadAborted
         \/ BeginSeek \/ BeginClose \/ SeekStopped \/ EndClose
         \/ UNCHANGED vars
  PROVE  LoopType' /\ ReadType' /\ Sound'
<1> USE PipeAssumption DEF vars, loopVars, readerVars, ctlVars
<1>0. LifeType /\ LoopType /\ ReadType
  BY TypeParts
<1>1. UNCHANGED <<loopVars, chan, readBuf, acc, gen, pos, buf>>
  BY DEF Reap, BeginStream, EndStream, DrainEnds, ReadTimeout, ReadAborted, BeginSeek, BeginClose,
     SeekStopped, EndClose
<1>2. \A g \in Gens : abort'[g] = "no" => abort[g] = "no"
  <2>1. \/ UNCHANGED abort
        \/ \E g \in Gens : abort' = [abort EXCEPT ![g] = "done"] \/ BeginAbort(g)
    <3>1. ReadTimeout => reading \in Gens
      BY <1>0 DEF ReadTimeout, Sound, Alone, LifeType, Gens, None
    <3>2. StopLocked => UNCHANGED abort \/ (session \in Gens /\ BeginAbort(session))
      <4>1. session = None \/ session \in Gens
        BY <1>0 DEF LifeType, Gens, None
      <4> QED BY <4>1 DEF StopLocked
    <3> QED BY <3>1, <3>2 DEF Reap, BeginStream, EndStream, DrainEnds, ReadTimeout, ReadAborted,
              BeginSeek, BeginClose, SeekStopped, EndClose
  <2> QED BY <1>0, <2>1 DEF BeginAbort, LifeType
<1>3. session' \in {session, None}
  BY DEF Reap, BeginStream, EndStream, DrainEnds, ReadTimeout, ReadAborted, BeginSeek, BeginClose,
     SeekStopped, EndClose
<1>4. LoopType' /\ ReadType'
  <2>1. filled' \in 0 .. StreamFrames /\ target' \in 0 .. Total
    BY <1>0 DEF ReadType, Reap, BeginStream, EndStream, DrainEnds, ReadTimeout, ReadAborted, BeginSeek, BeginClose,
       SeekStopped, EndClose
  <2> QED BY <1>0, <1>1, <2>1 DEF LoopType, ReadType
<1>5. ASSUME session' # None PROVE Unbroken(session)' /\ Complete(session)'
  <2>1. session' = session /\ session # None /\ session \in Gens
    BY <1>0, <1>3, <1>5 DEF LifeType, Gens, None
  <2>2. Unbroken(session) /\ Complete(session)
    BY <2>1 DEF Sound
  <2>3. ASSUME NEW s, s = session PROVE Unbroken(s)' /\ Complete(s)'
    BY <1>1, <1>2, <2>1, <2>2, <2>3, Kept
  <2> QED BY <2>1, <2>3
<1>6. Alone' /\ Reading'
  <2>1. CASE \E g \in Gens : Reap(g)
    BY <2>1 DEF Sound, Alone, Reading, Reap
  <2>2. CASE BeginStream \/ EndStream \/ DrainEnds \/ ReadTimeout \/ ReadAborted
    BY <2>2 DEF Sound, Alone, Reading, BeginStream, EndStream, DrainEnds, ReadTimeout, ReadAborted, Locked
  <2>3. CASE BeginSeek \/ BeginClose \/ SeekStopped \/ EndClose
    BY <2>3 DEF Sound, Alone, Reading, BeginSeek, BeginClose, SeekStopped, EndClose, Locked
  <2>4. CASE UNCHANGED vars
    BY <2>4 DEF Sound, Alone, Reading
  <2> QED BY <2>1, <2>2, <2>3, <2>4
<1>7. (\A g \in Gens : Looping(g))' /\ Run(buf, pos)' /\ (pos + Len(buf) <= Total)'
  BY <1>1 DEF Sound, Looping
<1> QED BY <1>4, <1>5, <1>6, <1>7 DEF Sound

LEMMA SoundStep ==
  ASSUME Serialised, IInv, [Next]_vars
  PROVE  IInv'
<1>1. Life'
  BY LifeStep DEF IInv
<1>2. LoopType' /\ ReadType' /\ Sound'
  BY LoopReadStep, LoopSendStep, CopyStep, BeginReadStep, DrainStep, EndReadStep, RestartStep, QuietStep
     DEF IInv, Next, ReadLoop, Stream, SeekOrClose
<1>3. TypeOK'
  BY <1>1, <1>2, TypeParts, PTL DEF Life
<1> QED BY <1>1, <1>2, <1>3 DEF IInv

\* With opMu, what Stream copies is the file from Position() on, without a gap, a repetition
\* or a piece from elsewhere, and unless a generation was aborted nothing of it is lost,
\* for every size of file, chunk, buffer and queue (stream.go, pipe.go).
THEOREM HeardInPlace == ASSUME Serialised PROVE Spec => []SoundInPlace
<1>1. Init => IInv
  BY InitLife, InitSound DEF IInv
<1>2. IInv /\ [Next]_vars => IInv'
  BY SoundStep
<1>3. IInv => SoundInPlace
  <2> SUFFICES ASSUME TypeOK, Life, Sound PROVE PositionTrue /\ NothingLost
    BY DEF IInv, SoundInPlace
  <2>0. LifeType /\ LoopType /\ ReadType
    BY TypeParts
  <2>1. Run(buf, pos)
    BY DEF Sound
  <2>2. ASSUME session # None
        PROVE  /\ Run(Held, pos)
               /\ \A i \in 1 .. Len(Chunks) : Chunks[i] # <<>> /\ Run(Chunks[i], After(i - 1))
               /\ abort[session] = "no" => After(Len(Chunks)) = src[session]
    <3>1. session \in Gens /\ Unbroken(session) /\ Complete(session)
      <4>1. session \in Gens
        BY <2>0, <2>2, PipeAssumption DEF LifeType, Gens, None
      <4> QED BY <2>2, <4>1 DEF Sound
    <3>2. /\ buf \in FrameSeq /\ acc \in FrameSeq /\ readBuf[session] \in FrameSeq /\ pos \in Nat
          /\ chan[session] \in Seq(FrameSeq) /\ chunk[session] \in FrameSeq
      BY <2>0, <3>1, PipeAssumption DEF LoopType, ReadType
    <3>3. Run(Held, pos) /\ Len(Held) = Len(buf) + Len(acc) + Len(readBuf[session])
      <4>1. buf \o acc \in FrameSeq /\ Len(buf \o acc) = Len(buf) + Len(acc) /\ Run(buf \o acc, pos)
        BY <2>1, <3>1, <3>2, JoinRun DEF Unbroken
      <4>2. Run(readBuf[session], pos + Len(buf \o acc))
        <5>1. pos + (Len(buf) + Len(acc)) = pos + Len(buf) + Len(acc)
          BY <2>0, <3>1, <3>2, Places
        <5> QED BY <3>1, <4>1, <5>1 DEF Unbroken
      <4>3. /\ Run((buf \o acc) \o readBuf[session], pos)
            /\ Len((buf \o acc) \o readBuf[session]) = Len(buf \o acc) + Len(readBuf[session])
        BY <3>2, <4>1, <4>2, JoinRun
      <4> QED BY <4>1, <4>3 DEF Held
    <3> DEFINE m == Len(chan[session])
    <3>4. m \in Nat /\ \A i \in 0 .. m : Ends(session, i) \in Nat
      BY <2>0, <3>1, Places
    <3>5. /\ \A i \in 1 .. m : Chunks[i] = chan[session][i]
          /\ chunk[session] = <<>> => Len(Chunks) = m
          /\ chunk[session] # <<>> => Len(Chunks) = m + 1 /\ Chunks[m + 1] = chunk[session]
      BY <3>2 DEF Chunks
    <3>6. \A i \in 0 .. m : After(i) = Ends(session, i)
      <4>1. \A p, a, b, d \in Nat : p + (a + b + d) = p + a + b + d
        OBVIOUS
      <4>2. pos \in Nat /\ Len(buf) \in Nat /\ Len(acc) \in Nat /\ Len(readBuf[session]) \in Nat
        BY <2>0, <3>1, Places
      <4>3. After(0) = Ends(session, 0)
        <5>1. After(0) = pos + (Len(buf) + Len(acc) + Len(readBuf[session]))
          BY <3>3 DEF After
        <5>2. Ends(session, 0) = pos + Len(buf) + Len(acc) + Len(readBuf[session])
          BY DEF Ends
        <5>3. pos + (Len(buf) + Len(acc) + Len(readBuf[session])) = pos + Len(buf) + Len(acc) + Len(readBuf[session])
          <6> DEFINE a == Len(buf)
                     b == Len(acc)
                     d == Len(readBuf[session])
          <6>1. pos \in Nat /\ a \in Nat /\ b \in Nat /\ d \in Nat
            BY <4>2
          <6> HIDE DEF a, b, d
          <6>2. pos + (a + b + d) = pos + a + b + d
            BY <6>1
          <6> QED BY <6>2 DEF a, b, d
        <5> QED BY <5>1, <5>2, <5>3
      <4>4. ASSUME NEW i \in 1 .. m PROVE After(i) = Ends(session, i)
        BY <3>4, <3>5 DEF After, Ends
      <4>5. \A i \in 0 .. m : i = 0 \/ i \in 1 .. m
        BY <3>4
      <4> QED BY <4>3, <4>4, <4>5
    <3>7. ASSUME NEW i \in 1 .. Len(Chunks) PROVE Chunks[i] # <<>> /\ Run(Chunks[i], After(i - 1))
      <4>1. CASE i \in 1 .. m
        <5>1. i - 1 \in 0 .. m
          BY <3>4, <4>1
        <5> QED BY <3>1, <3>5, <3>6, <4>1, <5>1 DEF Unbroken
      <4>2. CASE i \notin 1 .. m
        <5>1. chunk[session] # <<>> /\ i = m + 1 /\ i - 1 = m /\ m \in 0 .. m
          BY <3>4, <3>5, <4>2
        <5> QED BY <3>1, <3>5, <3>6, <5>1 DEF Unbroken
      <4> QED BY <4>1, <4>2
    <3>8. ASSUME abort[session] = "no" PROVE After(Len(Chunks)) = src[session]
      <4>1. Ends(session, m) + Len(chunk[session]) = src[session] /\ Ends(session, m) \in Nat /\ m \in 0 .. m
        BY <3>1, <3>4, <3>8 DEF Complete
      <4>2. CASE chunk[session] = <<>>
        BY <3>5, <3>6, <4>1, <4>2
      <4>3. CASE chunk[session] # <<>>
        <5>1. Len(chunk[session]) \in Nat \ {0}
          BY <3>2, <4>3 DEF FrameSeq
        <5>2. chunk[session][1] = Ends(session, m) + 1 - 1
          BY <3>1, <5>1 DEF Unbroken, Run
        <5>3. Len(Chunks) = m + 1 /\ Len(Chunks) # 0 /\ Chunks[Len(Chunks)] = chunk[session]
          BY <3>4, <3>5, <4>3
        <5> QED BY <4>1, <5>1, <5>2, <5>3 DEF After
      <4> QED BY <4>2, <4>3
    <3> QED BY <3>3, <3>7, <3>8
  <2> QED BY <2>1, <2>2 DEF PositionTrue, NothingLost
<1> QED BY <1>1, <1>2, <1>3, PTL DEF Spec

-----------------------------------------------------------------------------
(* Induction over the natural numbers, from the least elements of their sets: the    *)
(* recursive functions that run through frames, turns or calls have a value at each. *)

LEMMA NatSets ==
  ASSUME NEW S, 0 \in S, \A n \in Nat : n \in S => n + 1 \in S
  PROVE  Nat \subseteq S
<1> DEFINE T == Nat \ S
<1> SUFFICES ASSUME T # {} PROVE FALSE
  OBVIOUS
<1>1. PICK x \in T : \A y \in T : ~ (<<y, x>> \in OpToRel(<, Nat))
  BY NatLessThanWellFounded, WFMin
<1>2. \A y \in T : ~ (y < x)
  BY <1>1 DEF OpToRel
<1> QED BY <1>2

LEMMA Stays ==
  ASSUME NEW n \in Nat, NEW T, NEW u, u[0] \in T, \A i \in 1 .. n : u[i - 1] \in T => u[i] \in T
  PROVE  \A i \in 0 .. n : u[i] \in T
<1> DEFINE S == {i \in Nat : i <= n => u[i] \in T}
<1>1. 0 \in S
  OBVIOUS
<1>2. ASSUME NEW i \in Nat, i \in S PROVE i + 1 \in S
  <2> SUFFICES ASSUME i + 1 <= n PROVE u[i + 1] \in T
    OBVIOUS
  <2>1. i + 1 \in 1 .. n /\ (i + 1) - 1 = i /\ u[i] \in T
    BY <1>2
  <2> QED BY <2>1
<1>3. Nat \subseteq S
  <2> HIDE DEF S
  <2> QED BY <1>1, <1>2, NatSets
<1> QED BY <1>3

Follows(f, n, T, base, step) ==
  /\ f \in [0 .. n -> T] /\ f[0] = base
  /\ \A i \in 1 .. n : f[i] = step[i][f[i - 1]]

LEMMA Recursion ==
  ASSUME NEW n \in Nat, NEW T, NEW base \in T, NEW step \in [1 .. n -> [T -> T]]
  PROVE  \E f : Follows(f, n, T, base, step)
<1> DEFINE Good(m) == \E f \in [0 .. m -> T] :
                        f[0] = base /\ \A i \in 1 .. m : f[i] = step[i][f[i - 1]]
           S == {m \in Nat : m <= n => Good(m)}
<1>1. Good(0)
  <2> DEFINE f == [i \in 0 .. 0 |-> base]
  <2>1. f \in [0 .. 0 -> T] /\ f[0] = base
    OBVIOUS
  <2>2. \A i \in 1 .. 0 : f[i] = step[i][f[i - 1]]
    OBVIOUS
  <2> HIDE DEF f
  <2> QED BY <2>1, <2>2
<1>2. ASSUME NEW m \in Nat, Good(m), m + 1 <= n
      PROVE  Good(m + 1)
  <2>1. PICK f \in [0 .. m -> T] : f[0] = base /\ \A i \in 1 .. m : f[i] = step[i][f[i - 1]]
    BY <1>2
  <2> DEFINE g == [i \in 0 .. m + 1 |-> IF i = m + 1 THEN step[m + 1][f[m]] ELSE f[i]]
  <2>2. f[m] \in T /\ m + 1 \in 1 .. n
    BY <1>2, <2>1
  <2>3. step[m + 1][f[m]] \in T
    BY <2>2
  <2>4. g \in [0 .. m + 1 -> T] /\ g[0] = base
    BY <2>1, <2>3
  <2>5. ASSUME NEW i \in 1 .. m + 1 PROVE g[i] = step[i][g[i - 1]]
    <3>1. CASE i = m + 1
      <4>1. g[i] = step[m + 1][f[m]] /\ g[i - 1] = f[m]
        BY <3>1
      <4> QED BY <3>1, <4>1
    <3>2. CASE i # m + 1
      <4>1. g[i] = f[i] /\ g[i - 1] = f[i - 1] /\ i \in 1 .. m
        BY <3>2
      <4> QED BY <2>1, <4>1
    <3> QED BY <3>1, <3>2
  <2> HIDE DEF g
  <2> QED BY <2>4, <2>5
<1>3. Nat \subseteq S
  <2>1. 0 \in S
    BY <1>1
  <2>2. \A m \in Nat : m \in S => m + 1 \in S
    <3> HIDE DEF Good
    <3> QED BY <1>2
  <2> HIDE DEF S
  <2> QED BY <2>1, <2>2, NatSets
<1>4. Good(n)
  <2> HIDE DEF Good
  <2> QED BY <1>3
<1> QED BY <1>4 DEF Follows

-----------------------------------------------------------------------------
(* The samples of a song, and the places of its frames among them. *)

Pairs == Nat \X Nat

LEMMA Sums ==
  ASSUME NEW lens \in Seq(Nat)
  PROVE  /\ SumLens(lens, 0) = 0
         /\ \A i \in 1 .. Len(lens) : SumLens(lens, i) = SumLens(lens, i - 1) + lens[i]
         /\ \A i \in 0 .. Len(lens) : SumLens(lens, i) \in Nat
<1> DEFINE n == Len(lens)
           T == Nat
           step == [i \in 1 .. n |-> [x \in T |-> x + lens[i]]]
           u == CHOOSE f : f = [i \in 0 .. n |-> IF i = 0 THEN 0 ELSE f[i - 1] + lens[i]]
<1>1. n \in Nat /\ \A i \in 1 .. n : lens[i] \in Nat
  OBVIOUS
<1>2. step \in [1 .. n -> [T -> T]] /\ \A i \in 1 .. n, x \in T : step[i][x] = x + lens[i]
  <2> HIDE DEF n
  <2> QED BY <1>1
<1>3. PICK f : Follows(f, n, T, 0, step)
  <2>1. 0 \in T
    OBVIOUS
  <2> HIDE DEF n, T, step
  <2> QED BY <1>1, <1>2, <2>1, Recursion
<1>4. f = [i \in 0 .. n |-> IF i = 0 THEN 0 ELSE f[i - 1] + lens[i]]
  <2> HIDE DEF step, n
  <2>1. f \in [0 .. n -> T] /\ \A i \in 1 .. n : f[i - 1] \in T
    BY <1>1, <1>3 DEF Follows
  <2>2. \A i \in 1 .. n : f[i] = f[i - 1] + lens[i]
    BY <1>2, <1>3, <2>1 DEF Follows
  <2> QED BY <1>1, <1>3, <2>1, <2>2 DEF Follows
<1>5. u = [i \in 0 .. n |-> IF i = 0 THEN 0 ELSE u[i - 1] + lens[i]]
  BY <1>4
<1>6. \A i : SumLens(lens, i) = u[i]
  BY Zenon DEF SumLens
<1> HIDE DEF u, n
<1>7. u[0] = 0 /\ \A i \in 1 .. n : u[i] = u[i - 1] + lens[i]
  BY <1>1, <1>5
<1>8. \A i \in 0 .. n : u[i] \in T
  <2>1. u[0] \in T /\ \A i \in 1 .. n : u[i - 1] \in T => u[i] \in T
    BY <1>1, <1>7
  <2> HIDE DEF T
  <2> QED BY <1>1, <2>1, Stays
<1> QED BY <1>6, <1>7, <1>8 DEF n

LEMMA DecodedType ==
  ASSUME NEW song, song.lens \in Seq(Nat), NEW i \in 1 .. Len(song.lens)
  PROVE  /\ Decoded(song, i) \in Seq(Pairs)
         /\ i \notin song.bad => Len(Decoded(song, i)) = song.lens[i]
<1>1. PICK n \in Nat : n = song.lens[i]
  OBVIOUS
<1>2. i \in Nat
  OBVIOUS
<1>3. CASE i \in song.bad
  BY <1>3 DEF Decoded
<1>4. CASE i \notin song.bad
  <2>1. Decoded(song, i) = [k \in 1 .. n |-> <<i, k>>]
    BY <1>1, <1>4 DEF Decoded
  <2>2. [k \in 1 .. n |-> <<i, k>>] \in Seq(Pairs) /\ Len([k \in 1 .. n |-> <<i, k>>]) = n
    BY <1>2 DEF Pairs
  <2> QED BY <1>1, <2>1, <2>2
<1> QED BY <1>3, <1>4

LEMMA Upto ==
  ASSUME NEW song, song.lens \in Seq(Nat)
  PROVE  /\ SamplesUpto(song, 0) = <<>>
         /\ \A i \in 1 .. Len(song.lens) :
              SamplesUpto(song, i) = SamplesUpto(song, i - 1) \o Decoded(song, i)
         /\ \A i \in 0 .. Len(song.lens) : SamplesUpto(song, i) \in Seq(Pairs)
<1> DEFINE n == Len(song.lens)
           T == Seq(Pairs)
           d(i) == Decoded(song, i)
           step == [i \in 1 .. n |-> [x \in T |-> x \o d(i)]]
           u == CHOOSE f : f = [i \in 0 .. n |-> IF i = 0 THEN <<>> ELSE f[i - 1] \o Decoded(song, i)]
<1>1. n \in Nat /\ <<>> \in T /\ \A i \in 1 .. n, x \in T : x \o d(i) \in T
  <2>1. n \in Nat /\ <<>> \in T
    OBVIOUS
  <2>2. \A i \in 1 .. n : d(i) \in T
    BY DecodedType
  <2> HIDE DEF n, d
  <2> QED BY <2>1, <2>2
<1>2. step \in [1 .. n -> [T -> T]] /\ \A i \in 1 .. n, x \in T : step[i][x] = x \o d(i)
  <2> HIDE DEF n, d, T
  <2> QED BY <1>1
<1>3. PICK f : Follows(f, n, T, <<>>, step)
  <2> HIDE DEF n, T, step
  <2> QED BY <1>1, <1>2, Recursion
<1>4. f = [i \in 0 .. n |-> IF i = 0 THEN <<>> ELSE f[i - 1] \o d(i)]
  <2> HIDE DEF step, n, T, d
  <2>1. f \in [0 .. n -> T] /\ \A i \in 1 .. n : f[i - 1] \in T
    BY <1>1, <1>3 DEF Follows
  <2>2. \A i \in 1 .. n : f[i] = f[i - 1] \o d(i)
    BY <1>2, <1>3, <2>1 DEF Follows
  <2> QED BY <1>1, <1>3, <2>1, <2>2, SMTT(30) DEF Follows
<1>5. u = [i \in 0 .. n |-> IF i = 0 THEN <<>> ELSE u[i - 1] \o d(i)]
  BY <1>4
<1>6. \A i : SamplesUpto(song, i) = u[i]
  BY Zenon DEF SamplesUpto
<1> HIDE DEF u, n, d, T
<1>7. u[0] = <<>> /\ \A i \in 1 .. n : u[i] = u[i - 1] \o d(i)
  <2>1. 0 \in 0 .. n /\ \A i \in 1 .. n : i \in 0 .. n /\ i # 0
    BY <1>1
  <2> QED BY <1>5, <2>1
<1>8. \A i \in 0 .. n : u[i] \in T
  <2>1. u[0] \in T /\ \A i \in 1 .. n : u[i - 1] \in T => u[i] \in T
    BY <1>1, <1>7
  <2> QED BY <1>1, <2>1, Stays
<1> QED BY <1>6, <1>7, <1>8 DEF n, d, T

LEMMA EarlierFrames ==
  ASSUME NEW song, song.lens \in Seq(Nat), NEW i \in 0 .. Len(song.lens)
  PROVE  /\ Len(SamplesUpto(song, i)) <= Len(Samples(song))
         /\ \A k \in 1 .. Len(SamplesUpto(song, i)) : Samples(song)[k] = SamplesUpto(song, i)[k]
<1> DEFINE n == Len(song.lens)
           U(j) == SamplesUpto(song, j)
           Good(j) == Len(U(i)) <= Len(U(j)) /\ \A k \in 1 .. Len(U(i)) : U(j)[k] = U(i)[k]
           S == {j \in Nat : i + j <= n => Good(i + j)}
<1>1. n \in Nat /\ i \in Nat /\ i <= n
  OBVIOUS
<1>2. \A j \in 0 .. n : U(j) \in Seq(Pairs) /\ Len(U(j)) \in Nat
  BY Upto
<1>3. 0 \in S
  <2>1. Good(i)
    BY <1>2
  <2> HIDE DEF Good
  <2> QED BY <1>1, <2>1
<1>4. ASSUME NEW j \in Nat, j \in S PROVE j + 1 \in S
  <2> SUFFICES ASSUME i + (j + 1) <= n PROVE Good(i + (j + 1))
    OBVIOUS
  <2> DEFINE m == i + (j + 1)
  <2>1. m \in 1 .. n /\ m - 1 = i + j /\ m - 1 \in 0 .. n
    BY <1>1
  <2> HIDE DEF n
  <2>2. Good(m - 1)
    BY <1>4, <2>1
  <2>3. U(m) = U(m - 1) \o Decoded(song, m) /\ Decoded(song, m) \in Seq(Pairs)
    BY <2>1, Upto, DecodedType DEF n
  <2> HIDE DEF m, U
  <2>4. /\ Len(U(m)) = Len(U(m - 1)) + Len(Decoded(song, m)) /\ Len(Decoded(song, m)) \in Nat
        /\ \A k \in 1 .. Len(U(m - 1)) : U(m)[k] = U(m - 1)[k]
    BY <1>2, <2>1, <2>3, ConcatProperties
  <2>5. Good(m)
    BY <1>2, <1>1, <2>1, <2>2, <2>4
  <2> QED BY <2>5 DEF m
<1>5. Nat \subseteq S
  <2> HIDE DEF S
  <2> QED BY <1>3, <1>4, NatSets
<1>6. Good(n)
  <2> HIDE DEF Good
  <2>1. n - i \in Nat /\ i + (n - i) = n
    BY <1>1
  <2>2. n - i \in S
    BY <1>5, <2>1
  <2> QED BY <1>1, <2>1, <2>2
<1> QED BY <1>6 DEF Samples

\* The samples of a frame are heard behind those of the frames before it.
LEMMA FrameAmongSamples ==
  ASSUME NEW song, song.lens \in Seq(Nat), NEW i \in 1 .. Len(song.lens)
  PROVE  /\ Len(SamplesUpto(song, i)) = Len(SamplesUpto(song, i - 1)) + Len(Decoded(song, i))
         /\ \A k \in 1 .. Len(Decoded(song, i)) :
              Samples(song)[Len(SamplesUpto(song, i - 1)) + k] = Decoded(song, i)[k]
<1> DEFINE U(j) == SamplesUpto(song, j)
           d == Decoded(song, i)
           a == Len(U(i - 1))
<1>1. i \in 0 .. Len(song.lens) /\ i - 1 \in 0 .. Len(song.lens)
  OBVIOUS
<1>2. U(i) = U(i - 1) \o d /\ U(i - 1) \in Seq(Pairs) /\ d \in Seq(Pairs)
  BY <1>1, Upto, DecodedType
<1>3. \A k \in 1 .. Len(U(i)) : Samples(song)[k] = U(i)[k]
  BY <1>1, EarlierFrames
<1> HIDE DEF U, d
<1>4. /\ Len(U(i)) = a + Len(d) /\ a \in Nat /\ Len(d) \in Nat
      /\ \A k \in 1 .. a + Len(d) : U(i)[k] = IF k <= a THEN U(i - 1)[k] ELSE d[k - a]
  BY <1>2, ConcatProperties
<1> HIDE DEF a
<1>5. ASSUME NEW k \in 1 .. Len(d) PROVE Samples(song)[a + k] = d[k]
  <2>1. a + k \in 1 .. a + Len(d) /\ ~(a + k <= a) /\ (a + k) - a = k
    BY <1>4
  <2> QED BY <1>3, <1>4, <2>1
<1> QED BY <1>4, <1>5 DEF U, d, a

-----------------------------------------------------------------------------
(* A decoder that keeps its place (Streams), while it is read. *)

States == [at : Nat, frame : Nat, buf : Seq(Pairs), pos : Nat, out : Seq(Pairs), ended : BOOLEAN]

\* What is left of the frame in hand is what follows the position, and the next frame
\* follows that.
Placed(song, s) ==
  /\ s \in States /\ s.frame \in 1 .. Len(song.lens) + 1 /\ s.pos <= Len(s.buf)
  /\ s.at + (Len(s.buf) - s.pos) = Len(SamplesUpto(song, s.frame - 1))
  /\ \A k \in s.pos + 1 .. Len(s.buf) : s.buf[k] = Samples(song)[s.at + k - s.pos]

\* A read that began at from has given what follows it, and ended only at the end.
Given(song, from, needed, s) ==
  /\ Len(s.out) <= needed /\ s.at = from + Len(s.out)
  /\ \A k \in 1 .. Len(s.out) : s.out[k] = Samples(song)[from + k]
  /\ s.ended => Len(s.out) < needed /\ s.at = Len(Samples(song))

LEMMA MinOfTwo ==
  ASSUME NEW a \in Int, NEW b \in Int
  PROVE  Min({a, b}) = IF a <= b THEN a ELSE b
<1>1. \E x \in {a, b} : \A y \in {a, b} : x =< y
  <2>1. CASE a <= b
    BY <2>1
  <2>2. CASE ~(a <= b)
    BY <2>2
  <2> QED BY <2>1, <2>2
<1>2. Min({a, b}) \in {a, b} /\ \A y \in {a, b} : Min({a, b}) =< y
  BY <1>1 DEF Min
<1> QED BY <1>2

\* Copying moves some samples of the frame in hand to the output, as many as fit.
Copied(s, needed, r, n) ==
  /\ n >= 1 /\ n <= needed - Len(s.out) /\ n <= Len(s.buf) - s.pos
  /\ r \in States /\ r.pos = s.pos + n /\ r.at = s.at + n
  /\ r.buf = s.buf /\ r.frame = s.frame /\ r.ended = s.ended
  /\ Len(r.out) = Len(s.out) + n
  /\ \A k \in 1 .. Len(s.out) : r.out[k] = s.out[k]
  /\ \A k \in 1 .. n : r.out[Len(s.out) + k] = s.buf[s.pos + k]

LEMMA CopyMoves ==
  ASSUME NEW s \in States, NEW needed \in Nat, s.pos < Len(s.buf), Len(s.out) < needed,
         NEW r, r = CopyToOutput(s, needed)
  PROVE  \E n \in Nat : Copied(s, needed, r, n)
<1>1. /\ s \in States /\ s.buf \in Seq(Pairs) /\ s.out \in Seq(Pairs)
      /\ s.pos \in Nat /\ s.at \in Nat
  BY DEF States
<1>2. PICK b \in Seq(Pairs), o \in Seq(Pairs), p \in Nat, a \in Nat :
        b = s.buf /\ o = s.out /\ p = s.pos /\ a = s.at
  BY <1>1
<1> DEFINE n == Min({needed - Len(o), Len(b) - p})
           x == SubSeq(b, p + 1, p + n)
<1>3. Len(b) \in Nat /\ Len(o) \in Nat /\ p < Len(b) /\ Len(o) < needed
  BY <1>2
<1>4. n \in Nat /\ n >= 1 /\ n <= needed - Len(o) /\ n <= Len(b) - p
  <2>1. needed - Len(o) \in Int /\ Len(b) - p \in Int
    BY <1>3
  <2>2. n = IF needed - Len(o) <= Len(b) - p THEN needed - Len(o) ELSE Len(b) - p
    BY <2>1, MinOfTwo
  <2> HIDE DEF n
  <2> QED BY <1>3, <2>2
<1>5. r = [s EXCEPT !.out = o \o x, !.pos = p + n, !.at = a + n]
  BY <1>2 DEF CopyToOutput
<1> HIDE DEF n
<1>6. x \in Seq(Pairs) /\ Len(x) = n /\ \A k \in 1 .. n : x[k] = b[p + k]
  <2>1. p + 1 \in Int /\ p + n \in Int /\ \A i \in p + 1 .. p + n : b[i] \in Pairs
    <3>1. \A i \in p + 1 .. p + n : i \in 1 .. Len(b)
      BY <1>3, <1>4
    <3> QED BY <1>4, <3>1, ElementOfSeq
  <2>2. /\ x \in Seq(Pairs)
        /\ Len(x) = IF p + 1 <= p + n THEN (p + n) - (p + 1) + 1 ELSE 0
        /\ \A k \in 1 .. (p + n) - (p + 1) + 1 : x[k] = b[p + 1 + k - 1]
    BY <2>1, SubSeqProperties
  <2>3. p + 1 <= p + n /\ (p + n) - (p + 1) + 1 = n /\ \A k \in 1 .. n : p + 1 + k - 1 = p + k
    BY <1>4
  <2> HIDE DEF x
  <2> QED BY <2>2, <2>3
<1> HIDE DEF x
<1>7. /\ o \o x \in Seq(Pairs) /\ Len(o \o x) = Len(o) + n
      /\ \A k \in 1 .. Len(o) + n : (o \o x)[k] = IF k <= Len(o) THEN o[k] ELSE x[k - Len(o)]
  BY <1>6, ConcatProperties
<1>8. PICK q \in Seq(Pairs) : q = o \o x
  BY <1>7
<1>9. /\ r \in States /\ r.out = q /\ r.pos = p + n /\ r.at = a + n
      /\ r.buf = b /\ r.frame = s.frame /\ r.ended = s.ended
  <2>1. PICK p1 \in Nat, a1 \in Nat : p1 = p + n /\ a1 = a + n
    BY <1>4
  <2>2. r = [s EXCEPT !.out = q, !.pos = p1, !.at = a1]
    BY <1>5, <1>8, <2>1
  <2>3. /\ r \in States /\ r.out = q /\ r.pos = p1 /\ r.at = a1
        /\ r.buf = s.buf /\ r.frame = s.frame /\ r.ended = s.ended
    BY <1>1, <2>2 DEF States
  <2> QED BY <1>2, <2>1, <2>3
<1>10. /\ Len(q) = Len(o) + n
       /\ \A k \in 1 .. Len(o) : q[k] = o[k]
       /\ \A k \in 1 .. n : q[Len(o) + k] = b[p + k]
  <2>1. \A k \in 1 .. Len(o) : k \in 1 .. Len(o) + n /\ k <= Len(o)
    BY <1>3, <1>4
  <2>2. \A k \in 1 .. n : /\ Len(o) + k \in 1 .. Len(o) + n /\ ~(Len(o) + k <= Len(o))
                          /\ (Len(o) + k) - Len(o) = k
    BY <1>3, <1>4
  <2> QED BY <1>6, <1>7, <1>8, <2>1, <2>2
<1> QED BY <1>2, <1>4, <1>9, <1>10 DEF Copied

\* What a read that began at from has given, and what is left of the frame in hand, are
\* what X tells of their positions.
ReadSoFar(X, from, needed, s) ==
  /\ s \in States /\ s.pos <= Len(s.buf) /\ Len(s.out) <= needed /\ s.at = from + Len(s.out)
  /\ \A k \in 1 .. Len(s.out) : s.out[k] = X[from + k]
  /\ \A k \in s.pos + 1 .. Len(s.buf) : s.buf[k] = X[s.at + k - s.pos]

SameFrame(s, r) ==
  /\ r.at + (Len(r.buf) - r.pos) = s.at + (Len(s.buf) - s.pos)
  /\ r.buf = s.buf /\ r.frame = s.frame /\ r.ended = s.ended

LEMMA CopyGives ==
  ASSUME NEW X, NEW from \in Nat, NEW needed \in Nat, NEW s, ReadSoFar(X, from, needed, s),
         s.pos < Len(s.buf), Len(s.out) < needed,
         NEW r, r = CopyToOutput(s, needed)
  PROVE  ReadSoFar(X, from, needed, r) /\ Len(r.out) > Len(s.out) /\ SameFrame(s, r)
<1>1. PICK n \in Nat : Copied(s, needed, r, n)
  BY CopyMoves DEF ReadSoFar
<1>2. PICK a \in Nat, p \in Nat, lo \in Nat, lb \in Nat :
        a = s.at /\ p = s.pos /\ lo = Len(s.out) /\ lb = Len(s.buf)
  BY DEF ReadSoFar, States
<1>3. a = from + lo /\ n >= 1 /\ n <= needed - lo /\ n <= lb - p
  BY <1>1, <1>2 DEF Copied, ReadSoFar
<1>4. /\ r \in States /\ r.pos = p + n /\ r.at = a + n /\ Len(r.out) = lo + n
      /\ r.buf = s.buf /\ Len(r.buf) = lb /\ r.frame = s.frame /\ r.ended = s.ended
  BY <1>1, <1>2 DEF Copied
<1>5. \A k \in p + 1 .. lb : s.buf[k] = X[a + k - p]
  BY <1>2 DEF ReadSoFar
<1>6. ASSUME NEW k \in p + n + 1 .. lb PROVE s.buf[k] = X[(a + n) + k - (p + n)]
  <2>1. k \in p + 1 .. lb
    BY <1>3
  <2>2. (a + n) + k - (p + n) = a + k - p
    BY <1>3
  <2> QED BY <1>5, <2>1, <2>2
<1>7. ASSUME NEW k \in 1 .. lo + n PROVE r.out[k] = X[from + k]
  <2>1. CASE k <= lo
    <3>1. k \in 1 .. lo /\ \A i \in 1 .. lo : r.out[i] = s.out[i] /\ s.out[i] = X[from + i]
      BY <1>1, <1>2, <2>1 DEF Copied, ReadSoFar
    <3> QED BY <3>1
  <2>2. CASE ~(k <= lo)
    <3>1. PICK j \in 1 .. n : k = lo + j
      <4>1. k - lo \in 1 .. n /\ k = lo + (k - lo)
        BY <2>2
      <4> QED BY <4>1
    <3>2. r.out[lo + j] = s.buf[p + j]
      BY <1>1, <1>2 DEF Copied
    <3>3. p + j \in p + 1 .. lb
      BY <1>3
    <3>4. a + (p + j) - p = from + (lo + j)
      BY <1>3
    <3> QED BY <1>5, <3>1, <3>2, <3>3, <3>4
  <2> QED BY <2>1, <2>2
<1>8. /\ lo + n <= needed /\ lo + n > lo /\ p + n <= lb
      /\ a + n = from + (lo + n) /\ (a + n) + (lb - (p + n)) = a + (lb - p)
  BY <1>3
<1> QED BY <1>2, <1>4, <1>6, <1>7, <1>8 DEF ReadSoFar, SameFrame

LEMMA CopyKeeps ==
  ASSUME NEW song, NEW from \in Nat, NEW needed \in Nat, NEW s,
         Placed(song, s), Given(song, from, needed, s),
         s.pos < Len(s.buf), Len(s.out) # needed, ~s.ended,
         NEW r, r = CopyToOutput(s, needed)
  PROVE  /\ Placed(song, r) /\ Given(song, from, needed, r)
         /\ r.frame = s.frame /\ Len(r.out) > Len(s.out)
<1>1. s \in States /\ s.out \in Seq(Pairs) /\ s.frame \in 1 .. Len(song.lens) + 1
  BY DEF Placed, States
<1>2. Len(s.out) < needed
  <2>1. Len(s.out) \in Nat /\ Len(s.out) <= needed
    BY <1>1 DEF Given
  <2> QED BY <2>1
<1>3. ReadSoFar(Samples(song), from, needed, s)
  BY DEF ReadSoFar, Placed, Given
<1>4. /\ ReadSoFar(Samples(song), from, needed, r) /\ Len(r.out) > Len(s.out)
      /\ r.at + (Len(r.buf) - r.pos) = s.at + (Len(s.buf) - s.pos)
      /\ r.frame = s.frame /\ r.ended = s.ended
  <2>1. ReadSoFar(Samples(song), from, needed, r) /\ Len(r.out) > Len(s.out) /\ SameFrame(s, r)
    BY <1>2, <1>3, CopyGives
  <2> QED BY <2>1 DEF SameFrame
<1>5. Placed(song, r)
  BY <1>1, <1>4 DEF Placed, ReadSoFar
<1>6. Given(song, from, needed, r)
  BY <1>4 DEF Given, ReadSoFar
<1> QED BY <1>4, <1>5, <1>6

LEMMA NextKeeps ==
  ASSUME NEW song, song.lens \in Seq(Nat), song.kind # "alac",
         NEW from \in Nat, NEW needed \in Nat, NEW s,
         Placed(song, s), Given(song, from, needed, s),
         ~(s.pos < Len(s.buf)), Len(s.out) # needed, ~s.ended,
         NEW r, r = NextFrame(song, s)
  PROVE  /\ Placed(song, r) /\ Given(song, from, needed, r)
         /\ Len(r.out) = Len(s.out) /\ (r.ended \/ r.frame > s.frame)
<1> DEFINE N == Len(song.lens)
<1>1. /\ s \in States /\ s.buf \in Seq(Pairs) /\ s.out \in Seq(Pairs)
      /\ s.pos \in Nat /\ s.at \in Nat /\ s.frame \in 1 .. N + 1 /\ N \in Nat
  BY DEF Placed, States
<1>2. Len(s.out) < needed
  <2>1. Len(s.out) \in Nat /\ Len(s.out) <= needed
    BY <1>1 DEF Given
  <2> QED BY <2>1
<1>3. PICK i \in 1 .. N + 1 : i = s.frame
  BY <1>1
<1>4. s.at = Len(SamplesUpto(song, i - 1))
  <2>1. Len(s.buf) \in Nat /\ s.pos <= Len(s.buf)
    BY <1>1 DEF Placed
  <2>2. s.at + (Len(s.buf) - s.pos) = Len(SamplesUpto(song, i - 1))
    BY <1>3 DEF Placed
  <2>3. Len(s.buf) - s.pos = 0
    BY <1>1, <2>1
  <2> QED BY <1>1, <2>2, <2>3
<1>5. r = IF i > N THEN [s EXCEPT !.ended = TRUE]
          ELSE IF i \in song.bad THEN [s EXCEPT !.frame = i + 1]
          ELSE [s EXCEPT !.buf = Decoded(song, i), !.pos = 0, !.frame = i + 1]
  BY <1>3 DEF NextFrame, FrameIndex
<1>6. CASE i > N
  <2>1. r = [s EXCEPT !.ended = TRUE]
    BY <1>5, <1>6
  <2>2. /\ r \in States /\ r.out = s.out /\ r.pos = s.pos /\ r.at = s.at
        /\ r.buf = s.buf /\ r.frame = s.frame /\ r.ended = TRUE
    BY <1>1, <2>1 DEF States
  <2>3. s.at = Len(Samples(song))
    <3>1. i - 1 = N
      BY <1>1, <1>6
    <3> QED BY <1>4, <3>1 DEF Samples
  <2>4. Placed(song, r)
    BY <2>2 DEF Placed
  <2>5. Given(song, from, needed, r)
    BY <1>2, <2>2, <2>3 DEF Given
  <2> QED BY <2>2, <2>4, <2>5
<1>7. CASE ~(i > N) /\ i \in song.bad
  <2>1. r = [s EXCEPT !.frame = i + 1]
    BY <1>5, <1>7
  <2>2. i \in 1 .. N /\ i + 1 \in 1 .. N + 1 /\ i + 1 \in Nat /\ (i + 1) - 1 = i /\ i + 1 > i
    BY <1>1, <1>7
  <2>3. /\ r \in States /\ r.out = s.out /\ r.pos = s.pos /\ r.at = s.at
        /\ r.buf = s.buf /\ r.frame = i + 1 /\ r.ended = s.ended
    <3>1. PICK j \in Nat : j = i + 1
      BY <2>2
    <3>2. r = [s EXCEPT !.frame = j]
      BY <2>1, <3>1
    <3> QED BY <1>1, <3>1, <3>2 DEF States
  <2>4. SamplesUpto(song, i) = SamplesUpto(song, i - 1)
    <3>1. Decoded(song, i) = <<>>
      BY <1>7 DEF Decoded
    <3>2. SamplesUpto(song, i) = SamplesUpto(song, i - 1) \o <<>>
      BY <2>2, <3>1, Upto
    <3>3. SamplesUpto(song, i - 1) \in Seq(Pairs)
      <4>1. i - 1 \in 0 .. N
        BY <2>2
      <4> QED BY <4>1, Upto
    <3> QED BY <3>2, <3>3, ConcatEmptySeq
  <2>5. Placed(song, r)
    BY <1>3, <2>2, <2>3, <2>4 DEF Placed
  <2>6. Given(song, from, needed, r)
    BY <2>3 DEF Given
  <2> QED BY <1>3, <2>2, <2>3, <2>5, <2>6
<1>8. CASE ~(i > N) /\ i \notin song.bad
  <2>1. r = [s EXCEPT !.buf = Decoded(song, i), !.pos = 0, !.frame = i + 1]
    BY <1>5, <1>8
  <2>2. i \in 1 .. N /\ i + 1 \in 1 .. N + 1 /\ i + 1 \in Nat /\ (i + 1) - 1 = i /\ i + 1 > i
    BY <1>1, <1>8
  <2>3. PICK d \in Seq(Pairs) : d = Decoded(song, i)
    BY <2>2, DecodedType
  <2>4. /\ r \in States /\ r.out = s.out /\ r.pos = 0 /\ r.at = s.at
        /\ r.buf = d /\ r.frame = i + 1 /\ r.ended = s.ended
    <3>1. PICK j \in Nat, none \in Nat : j = i + 1 /\ none = 0
      BY <2>2
    <3>2. r = [s EXCEPT !.buf = d, !.pos = none, !.frame = j]
      BY <2>1, <2>3, <3>1
    <3>3. /\ r \in States /\ r.out = s.out /\ r.pos = none /\ r.at = s.at
          /\ r.buf = d /\ r.frame = j /\ r.ended = s.ended
      BY <1>1, <3>2 DEF States
    <3> QED BY <3>1, <3>3
  <2>5. PICK a \in Nat : a = s.at
    BY <1>1
  <2>6. Len(SamplesUpto(song, i)) = a + Len(d) /\ \A k \in 1 .. Len(d) : Samples(song)[a + k] = d[k]
    BY <1>4, <2>2, <2>3, <2>5, FrameAmongSamples, SMTT(30)
  <2>7. Placed(song, r)
    <3>1. a + (Len(d) - 0) = Len(SamplesUpto(song, (i + 1) - 1)) /\ 0 <= Len(d)
      BY <2>2, <2>6
    <3>2. ASSUME NEW k \in 0 + 1 .. Len(d) PROVE d[k] = Samples(song)[a + k - 0]
      BY <2>6
    <3> QED BY <2>2, <2>4, <2>5, <3>1, <3>2 DEF Placed
  <2>8. Given(song, from, needed, r)
    BY <2>4 DEF Given
  <2> QED BY <1>3, <2>2, <2>4, <2>7, <2>8
<1> QED BY <1>6, <1>7, <1>8

\* The states between the turns of a read, all of them of one set T that no turn leaves.
Turns(song, before, needed, T, u) ==
  /\ u[0] = [before EXCEPT !.out = <<>>, !.ended = FALSE]
  /\ \A n \in 1 .. 2 * (needed + Len(song.lens)) : u[n] = Turn(song, u[n - 1], needed)
  /\ \A n \in 0 .. 2 * (needed + Len(song.lens)) : u[n] \in T
  /\ Streamed(song, before, needed) = u[2 * (needed + Len(song.lens))]

LEMMA TurnsOfRead ==
  ASSUME NEW song, Len(song.lens) \in Nat, NEW needed \in Nat, NEW before, NEW T,
         [before EXCEPT !.out = <<>>, !.ended = FALSE] \in T,
         \A s \in T : Turn(song, s, needed) \in T
  PROVE  \E u : Turns(song, before, needed, T, u)
<1> DEFINE M == 2 * (needed + Len(song.lens))
           first == [before EXCEPT !.out = <<>>, !.ended = FALSE]
           next(s) == Turn(song, s, needed)
           step == [i \in 1 .. M |-> [s \in T |-> next(s)]]
           u == CHOOSE f : f = [n \in 0 .. M |-> IF n = 0 THEN first ELSE next(f[n - 1])]
<1>1. M \in Nat /\ first \in T
  OBVIOUS
<1>2. step \in [1 .. M -> [T -> T]] /\ \A i \in 1 .. M, s \in T : step[i][s] = next(s)
  <2> HIDE DEF M
  <2> QED OBVIOUS
<1>3. PICK f : Follows(f, M, T, first, step)
  <2> HIDE DEF M, step, first
  <2> QED BY <1>1, <1>2, Recursion
<1>4. f = [n \in 0 .. M |-> IF n = 0 THEN first ELSE next(f[n - 1])]
  <2> HIDE DEF step, M, next, first
  <2>1. f \in [0 .. M -> T] /\ \A n \in 1 .. M : f[n - 1] \in T
    BY <1>1, <1>3 DEF Follows
  <2>2. \A n \in 1 .. M : f[n] = next(f[n - 1])
    BY <1>2, <1>3, <2>1 DEF Follows
  <2> QED BY <1>1, <1>3, <2>1, <2>2 DEF Follows
<1>5. u = [n \in 0 .. M |-> IF n = 0 THEN first ELSE next(u[n - 1])]
  <2> HIDE DEF M, next, first
  <2> QED BY <1>4
<1>6. Streamed(song, before, needed) = u[M]
  BY Zenon DEF Streamed
<1> HIDE DEF u, M, first
<1>7. u[0] = first /\ \A n \in 1 .. M : u[n] = next(u[n - 1])
  <2> HIDE DEF next
  <2>1. 0 \in 0 .. M /\ \A n \in 1 .. M : n \in 0 .. M /\ n # 0
    BY <1>1
  <2> QED BY <1>5, <2>1
<1>8. \A n \in 0 .. M : u[n] \in T
  <2>1. u[0] \in T /\ \A n \in 1 .. M : u[n - 1] \in T => u[n] \in T
    BY <1>1, <1>7
  <2> QED BY <1>1, <2>1, Stays
<1> QED BY <1>6, <1>7, <1>8 DEF Turns, M, first

\* A read begins with nothing given.
LEMMA ReadBegins ==
  ASSUME NEW before \in States, NEW r, r = [before EXCEPT !.out = <<>>, !.ended = FALSE]
  PROVE  /\ r \in States /\ r.out = <<>> /\ Len(r.out) = 0 /\ r.pos = before.pos /\ r.at = before.at
         /\ r.buf = before.buf /\ r.frame = before.frame /\ r.ended = FALSE
<1>1. PICK e \in Seq(Pairs) : e = <<>>
  BY EmptySeq
<1>2. r = [before EXCEPT !.out = e, !.ended = FALSE]
  BY <1>1
<1>3. /\ r \in States /\ r.out = e /\ r.pos = before.pos /\ r.at = before.at
      /\ r.buf = before.buf /\ r.frame = before.frame /\ r.ended = FALSE
  BY <1>2 DEF States
<1> QED BY <1>1, <1>3

LEMMA ReadKeeps ==
  ASSUME NEW song, song.lens \in Seq(Nat), song.kind # "alac", NEW needed \in Nat,
         NEW before, Placed(song, before),
         NEW r, r = Streamed(song, before, needed)
  PROVE  /\ Placed(song, r) /\ Given(song, before.at, needed, r)
         /\ r.ended \/ Len(r.out) = needed
<1> DEFINE N == Len(song.lens)
           M == 2 * (needed + N)
           first == [before EXCEPT !.out = <<>>, !.ended = FALSE]
           T == {s \in States : Placed(song, s) /\ Given(song, before.at, needed, s)}
           next(s) == Turn(song, s, needed)
<1>1. before \in States /\ before.at \in Nat /\ N \in Nat /\ M \in Nat /\ before.frame \in 1 .. N + 1
  BY SMTT(30) DEF Placed, States
<1>2. first \in T /\ first.frame >= 1
  <2>1. /\ first \in States /\ first.out = <<>> /\ Len(first.out) = 0
        /\ first.pos = before.pos /\ first.at = before.at
        /\ first.buf = before.buf /\ first.frame = before.frame /\ first.ended = FALSE
    BY <1>1, ReadBegins
  <2> HIDE DEF first
  <2>2. Placed(song, first)
    BY <2>1 DEF Placed
  <2>3. before.at = before.at + 0 /\ 0 <= needed /\ 1 .. 0 = {}
    BY <1>1
  <2>4. Given(song, before.at, needed, first)
    BY <2>1, <2>3 DEF Given
  <2> QED BY <1>1, <2>1, <2>2, <2>4
<1>3. ASSUME NEW s \in T
      PROVE  /\ next(s) \in T
             /\ \/ Len(s.out) = needed \/ s.ended
                \/ next(s).ended
                \/ next(s).frame >= s.frame /\ Len(next(s).out) > Len(s.out)
                \/ next(s).frame > s.frame /\ Len(next(s).out) = Len(s.out)
  <2>1. CASE Len(s.out) = needed \/ s.ended
    BY <2>1 DEF Turn
  <2>2. CASE ~(Len(s.out) = needed \/ s.ended) /\ s.pos < Len(s.buf)
    <3>1. next(s) = CopyToOutput(s, needed)
      BY <2>2 DEF Turn
    <3> HIDE DEF next
    <3>2. /\ Placed(song, next(s)) /\ Given(song, before.at, needed, next(s))
          /\ next(s).frame = s.frame /\ Len(next(s).out) > Len(s.out)
      BY <1>1, <2>2, <3>1, CopyKeeps, ZenonT(40)
    <3>3. s.frame >= s.frame /\ next(s) \in States
      BY <3>2 DEF Placed, States
    <3> QED BY <3>2, <3>3
  <2>3. CASE ~(Len(s.out) = needed \/ s.ended) /\ ~(s.pos < Len(s.buf))
    <3>1. next(s) = NextFrame(song, s)
      BY <2>3 DEF Turn
    <3> HIDE DEF next
    <3>2. /\ Placed(song, next(s)) /\ Given(song, before.at, needed, next(s))
          /\ Len(next(s).out) = Len(s.out) /\ (next(s).ended \/ next(s).frame > s.frame)
      BY <1>1, <2>3, <3>1, NextKeeps
    <3>3. next(s) \in States
      BY <3>2 DEF Placed
    <3> QED BY <3>2, <3>3
  <2> QED BY <2>1, <2>2, <2>3
<1>4. PICK u : Turns(song, before, needed, T, u)
  <2>1. \A s \in T : Turn(song, s, needed) \in T
    BY <1>3
  <2> HIDE DEF T
  <2> QED BY <1>1, <1>2, <2>1, TurnsOfRead
<1> HIDE DEF T, first
<1>5. /\ u[0] = first /\ \A n \in 1 .. M : u[n] = next(u[n - 1])
      /\ \A n \in 0 .. M : u[n] \in T
      /\ Streamed(song, before, needed) = u[M]
  BY <1>4 DEF Turns, first
<1> HIDE DEF M, next
<1>6. ASSUME NEW s \in T
      PROVE  /\ Len(s.out) \in Nat /\ Len(s.out) <= needed /\ s.frame \in Nat /\ s.frame <= N + 1
             /\ Placed(song, s) /\ Given(song, before.at, needed, s)
  BY <1>1 DEF T, Placed, Given, States
\* Each turn gives a sample or takes a frame, until the read is over.
<1> DEFINE Over(s) == Len(s.out) = needed \/ s.ended
           S == {n \in Nat : n <= M => Over(u[n]) \/ Len(u[n].out) + u[n].frame >= n + 1}
<1>7. 0 \in S
  <2>1. u[0] \in T /\ u[0].frame >= 1
    BY <1>2, <1>5
  <2> QED BY <1>6, <2>1
<1>8. ASSUME NEW n \in Nat, n \in S PROVE n + 1 \in S
  <2> SUFFICES ASSUME n + 1 <= M
               PROVE  Over(u[n + 1]) \/ Len(u[n + 1].out) + u[n + 1].frame >= (n + 1) + 1
    OBVIOUS
  <2>1. n \in 0 .. M /\ n + 1 \in 1 .. M /\ n + 1 \in 0 .. M /\ (n + 1) - 1 = n /\ n <= M
    BY <1>1
  <2>2. u[n + 1] = next(u[n]) /\ u[n] \in T /\ u[n + 1] \in T
    BY <1>5, <2>1
  <2>3. CASE Over(u[n])
    BY <2>2, <2>3 DEF next, Turn
  <2>4. CASE ~Over(u[n])
    <3>1. Len(u[n].out) + u[n].frame >= n + 1
      BY <1>8, <2>1, <2>4
    <3>2. \/ Over(u[n + 1])
          \/ u[n + 1].frame >= u[n].frame /\ Len(u[n + 1].out) > Len(u[n].out)
          \/ u[n + 1].frame > u[n].frame /\ Len(u[n + 1].out) = Len(u[n].out)
      BY <1>3, <2>2, <2>4
    <3>3. PICK a \in Nat, b \in Nat, c \in Nat, d \in Nat :
            /\ a = Len(u[n].out) /\ b = u[n].frame
            /\ c = Len(u[n + 1].out) /\ d = u[n + 1].frame
      BY <1>6, <2>2
    <3>4. CASE ~Over(u[n + 1])
      <4>1. a + b >= n + 1 /\ ((d >= b /\ c > a) \/ (d > b /\ c = a))
        BY <3>1, <3>2, <3>3, <3>4
      <4>2. c + d >= (n + 1) + 1
        BY <4>1
      <4> QED BY <3>3, <4>2
    <3> QED BY <3>4
  <2> QED BY <2>3, <2>4
<1>9. Nat \subseteq S
  <2> HIDE DEF S
  <2> QED BY <1>7, <1>8, NatSets
<1>10. u[M] \in T
  BY <1>1, <1>5
<1>11. Over(u[M])
  <2> SUFFICES ASSUME ~Over(u[M]) PROVE FALSE
    OBVIOUS
  <2>1. Len(u[M].out) + u[M].frame >= M + 1
    BY <1>1, <1>9
  <2>2. Len(u[M].out) < needed /\ u[M].frame <= N + 1 /\ Len(u[M].out) \in Nat /\ u[M].frame \in Nat
    BY <1>6, <1>10
  <2>3. M + 1 >= needed + N + 1
    BY <1>1 DEF M
  <2>4. PICK a \in Nat, b \in Nat : a = Len(u[M].out) /\ b = u[M].frame
    BY <2>2
  <2>5. a + b >= M + 1 /\ a < needed /\ b <= N + 1
    BY <2>1, <2>2, <2>4
  <2> QED BY <1>1, <2>3, <2>5
<1> QED BY <1>5, <1>6, <1>10, <1>11

-----------------------------------------------------------------------------
(* Seeking, and a sequence of calls. *)

\* A song as MP2 and Opus open it: frames that are not empty, and the length they report.
\* Only an Opus packet can fail to decode in its place.
IsFramed(song) ==
  /\ song.lens \in Seq(Nat \ {0}) /\ song.lens # <<>>
  /\ \/ song.kind = "mp2" /\ song.total = MP2Length(song.lens) /\ song.bad = {}
     \/ song.kind = "opus" /\ \E skip \in Nat : song.total = OpusLength(song.lens, skip)

\* Reads of so many samples, and seeks to anywhere.
AreCalls(calls) ==
  /\ calls \in Seq([seek : BOOLEAN, n : Int])
  /\ \A i \in 1 .. Len(calls) : calls[i].seek \/ calls[i].n \in Nat

LEMMA MinOf ==
  ASSUME NEW S, S \subseteq Nat, S # {}
  PROVE  Min(S) \in S /\ \A y \in S : Min(S) <= y
<1>1. PICK m \in S : \A k \in S : ~ (<<k, m>> \in OpToRel(<, Nat))
  BY NatLessThanWellFounded, WFMin
<1>2. \A k \in S : ~ (k < m)
  BY <1>1 DEF OpToRel
<1>3. \E x \in S : \A y \in S : x =< y
  BY <1>2
<1> QED BY <1>3 DEF Min

LEMMA MaxOfTwo ==
  ASSUME NEW a \in Int, NEW b \in Int
  PROVE  Max({a, b}) = IF a >= b THEN a ELSE b
<1>1. \E x \in {a, b} : \A y \in {a, b} : x >= y
  <2>1. CASE a >= b
    BY <2>1
  <2>2. CASE ~(a >= b)
    BY <2>2
  <2> QED BY <2>1, <2>2
<1>2. Max({a, b}) \in {a, b} /\ \A y \in {a, b} : Max({a, b}) >= y
  BY <1>1 DEF Max
<1> QED BY <1>2

LEMMA FramedSong ==
  ASSUME NEW song, IsFramed(song)
  PROVE  /\ song.lens \in Seq(Nat) /\ Len(song.lens) \in Nat \ {0} /\ song.kind # "alac"
         /\ SumLens(song.lens, Len(song.lens)) \in Nat \ {0}
         /\ song.total \in Int /\ song.total <= SumLens(song.lens, Len(song.lens))
<1> DEFINE N == Len(song.lens)
           all == SumLens(song.lens, N)
<1>1. song.lens \in Seq(Nat) /\ N \in Nat \ {0} /\ song.kind # "alac"
  <2>1. song.lens \in Seq(Nat \ {0}) /\ song.lens # <<>>
    BY DEF IsFramed
  <2>2. song.lens \in Seq(Nat)
    BY <2>1, SeqMonotonic
  <2>3. N \in Nat \ {0}
    BY <2>1, EmptySeq
  <2> QED BY <2>2, <2>3 DEF IsFramed
<1>2. all \in Nat \ {0}
  <2>1. N \in 1 .. N /\ N - 1 \in 0 .. N
    BY <1>1
  <2>2. song.lens[N] \in Nat \ {0}
    <3>1. song.lens \in Seq(Nat \ {0})
      BY DEF IsFramed
    <3> QED BY <2>1, <3>1, ElementOfSeq
  <2>3. all = SumLens(song.lens, N - 1) + song.lens[N] /\ SumLens(song.lens, N - 1) \in Nat
    BY <1>1, <2>1, Sums
  <2> HIDE DEF all, N
  <2> QED BY <2>2, <2>3
<1>3. song.total \in Int /\ song.total <= all
  <2> HIDE DEF all
  <2>1. CASE song.kind = "mp2"
    <3>1. song.total = all
      BY <2>1 DEF IsFramed, MP2Length, all
    <3> QED BY <1>2, <3>1
  <2>2. CASE song.kind # "mp2"
    <3>1. PICK skip \in Nat : song.total = OpusLength(song.lens, skip)
      BY <2>2 DEF IsFramed
    <3>2. song.total = IF all - skip <= 0 THEN (all - skip) + all ELSE all - skip
      BY <3>1 DEF OpusLength, all
    <3> QED BY <1>2, <3>2
  <2> QED BY <2>1, <2>2
<1> QED BY <1>1, <1>2, <1>3

LEMMA SumsAreLengths ==
  ASSUME NEW song, song.lens \in Seq(Nat), song.bad = {}
  PROVE  \A i \in 0 .. Len(song.lens) : Len(SamplesUpto(song, i)) = SumLens(song.lens, i)
<1> DEFINE N == Len(song.lens)
           U(i) == Len(SamplesUpto(song, i))
           V(i) == SumLens(song.lens, i)
           S == {i \in Nat : i <= N => U(i) = V(i)}
<1>1. 0 \in S
  BY Upto, Sums
<1>2. ASSUME NEW i \in Nat, i \in S PROVE i + 1 \in S
  <2> SUFFICES ASSUME i + 1 <= N PROVE U(i + 1) = V(i + 1)
    OBVIOUS
  <2>1. i + 1 \in 1 .. N /\ (i + 1) - 1 = i /\ i <= N
    OBVIOUS
  <2>2. U(i + 1) = U(i) + song.lens[i + 1]
    <3>1. U(i + 1) = U(i) + Len(Decoded(song, i + 1)) /\ i + 1 \notin song.bad
      BY <2>1, FrameAmongSamples
    <3> QED BY <2>1, <3>1, DecodedType
  <2>3. V(i + 1) = V(i) + song.lens[i + 1]
    BY <2>1, Sums
  <2> HIDE DEF U, V
  <2> QED BY <1>2, <2>1, <2>2, <2>3
<1>3. Nat \subseteq S
  <2> HIDE DEF S
  <2> QED BY <1>1, <1>2, NatSets
<1> QED BY <1>3

LEMMA ClampedType ==
  ASSUME NEW song, song.total \in Int, NEW to \in Int, NEW p, p = Clamped(song, to)
  PROVE  p \in Nat /\ (p = 0 \/ p <= song.total)
<1>1. PICK m \in Int : m = Min({to, song.total}) /\ m <= song.total
  BY MinOfTwo
<1>2. p = Max({0, m}) /\ 0 \in Int
  BY <1>1 DEF Clamped
<1>3. p = IF 0 >= m THEN 0 ELSE m
  BY <1>2, MaxOfTwo
<1> QED BY <1>1, <1>3

LEMMA SeekKeeps ==
  ASSUME NEW song, IsFramed(song), song.bad = {}, NEW to \in Int,
         NEW s, Placed(song, s), NEW r, r = Seek(song, s, to)
  PROVE  Placed(song, r)
<1> DEFINE N == Len(song.lens)
           V(i) == SumLens(song.lens, i)
           p == Clamped(song, to)
           over == {i \in DOMAIN song.lens : V(i) > p}
           frame == FrameOf(song, p)
           start == IF frame > N THEN song.total ELSE V(frame - 1)
<1>1. /\ song.lens \in Seq(Nat) /\ N \in Nat \ {0} /\ V(N) \in Nat \ {0}
      /\ song.total \in Int /\ song.total <= V(N) /\ DOMAIN song.lens = 1 .. N
  BY FramedSong
<1>2. p \in Nat /\ (p = 0 \/ p <= song.total)
  BY <1>1, ClampedType
<1>3. frame = IF over = {} THEN N + 1 ELSE Min(over)
  BY DEF FrameOf
<1> HIDE DEF p, frame
<1>4. /\ frame \in 1 .. N + 1
      /\ frame > N => song.total = V(N)
  <2>1. CASE over = {}
    <3>1. ~(V(N) > p)
      BY <1>1, <2>1
    <3> HIDE DEF V
    <3>2. p = song.total /\ song.total = V(N)
      BY <1>1, <1>2, <3>1
    <3> QED BY <1>1, <1>3, <2>1, <3>2
  <2>2. CASE over # {}
    <3>1. over \subseteq 1 .. N /\ over \subseteq Nat
      BY <1>1
    <3> HIDE DEF over
    <3>2. Min(over) \in over
      BY <2>2, <3>1, MinOf
    <3>3. PICK m \in 1 .. N : m = frame
      BY <1>3, <2>2, <3>1, <3>2
    <3>4. m \in 1 .. N + 1 /\ ~(m > N)
      BY <1>1
    <3> QED BY <3>3, <3>4
  <2> QED BY <2>1, <2>2
<1>5. start \in Nat /\ start = Len(SamplesUpto(song, frame - 1))
  <2>1. \A i \in 0 .. N : Len(SamplesUpto(song, i)) = V(i) /\ V(i) \in Nat
    BY <1>1, SumsAreLengths, Sums
  <2> HIDE DEF V
  <2>2. CASE frame > N
    <3>1. frame - 1 = N /\ start = V(N) /\ N \in 0 .. N
      BY <1>1, <1>4, <2>2
    <3> QED BY <2>1, <3>1
  <2>3. CASE ~(frame > N)
    <3>1. frame - 1 \in 0 .. N /\ start = V(frame - 1)
      BY <1>1, <1>4, <2>3
    <3> QED BY <2>1, <3>1
  <2> QED BY <2>2, <2>3
<1>6. Seek(song, s, to) = ResetBuffer([s EXCEPT !.frame = frame, !.at = start])
  BY <1>1, FramedSong DEF Seek, SeekFrame, p, frame
<1> HIDE DEF start
<1>7. PICK e \in Seq(Pairs), none \in Nat : e = <<>> /\ none = 0
  <2>1. <<>> \in Seq(Pairs)
    BY EmptySeq
  <2> QED BY <2>1
<1>8. r = [[s EXCEPT !.frame = frame, !.at = start] EXCEPT !.buf = e, !.pos = none]
  BY <1>6, <1>7 DEF ResetBuffer
<1>9. r \in States /\ r.frame = frame /\ r.at = start /\ r.buf = e /\ r.pos = none
  <2>1. s \in States /\ frame \in Nat
    BY <1>1, <1>4 DEF Placed
  <2> QED BY <1>5, <1>8, <2>1 DEF States
<1>10. Len(e) = 0 /\ start + (0 - 0) = start /\ 0 + 1 .. 0 = {}
  BY <1>5, <1>7
<1> QED BY <1>4, <1>5, <1>7, <1>9, <1>10 DEF Placed

LEMMA CallsKeep ==
  ASSUME NEW song, IsFramed(song), NEW calls, AreCalls(calls),
         song.bad = {} \/ \A i \in 1 .. Len(calls) : ~calls[i].seek
  PROVE  Placed(song, AfterCalls(song, calls))
<1> DEFINE n == Len(calls)
           T == {s \in States : Placed(song, s)}
           c(i) == calls[i]
           step == [i \in 1 .. n |-> [s \in T |-> Call(song, s, c(i))]]
           u == CHOOSE f : f = [i \in 0 .. n |-> IF i = 0 THEN Opened ELSE Call(song, f[i - 1], calls[i])]
<1>1. n \in Nat /\ song.lens \in Seq(Nat) /\ Len(song.lens) \in Nat \ {0} /\ song.kind # "alac"
  BY FramedSong DEF AreCalls
<1>2. Opened \in T
  <2>1. PICK e \in Seq(Pairs) : e = <<>>
    BY EmptySeq
  <2>2. Opened = [at |-> 0, frame |-> 1, buf |-> e, pos |-> 0, out |-> e, ended |-> FALSE]
    BY <2>1 DEF Opened
  <2>3. /\ Opened \in States /\ Opened.at = 0 /\ Opened.frame = 1 /\ Opened.buf = e
        /\ Opened.pos = 0
    BY <2>2 DEF States
  <2>4. SamplesUpto(song, 0) = <<>> /\ Len(e) = 0 /\ 0 + (0 - 0) = 0 /\ 1 - 1 = 0 /\ 0 + 1 .. 0 = {}
    BY <1>1, <2>1, Upto
  <2>5. 1 \in 1 .. Len(song.lens) + 1
    BY <1>1
  <2>6. Opened.at + (Len(Opened.buf) - Opened.pos) = Len(SamplesUpto(song, Opened.frame - 1))
    BY <2>1, <2>3, <2>4
  <2>7. Opened.pos + 1 .. Len(Opened.buf) = {} /\ Opened.pos <= Len(Opened.buf)
    BY <2>3, <2>4
  <2> QED BY <2>3, <2>5, <2>6, <2>7 DEF Placed
<1>3. ASSUME NEW i \in 1 .. n, NEW s \in T PROVE Call(song, s, c(i)) \in T
  <2>1. c(i) \in [seek : BOOLEAN, n : Int]
    BY ElementOfSeq DEF AreCalls
  <2>2. c(i).n \in Int
    BY <2>1
  <2>3. CASE c(i).seek
    <3>1. song.bad = {} /\ Call(song, s, c(i)) = Seek(song, s, c(i).n)
      BY <2>3 DEF Call
    <3>2. Placed(song, Call(song, s, c(i)))
      BY <2>2, <3>1, SeekKeeps
    <3> QED BY <3>2 DEF Placed
  <2>4. CASE ~c(i).seek
    <3>1. c(i).n \in Nat /\ Call(song, s, c(i)) = Streamed(song, s, c(i).n)
      BY <2>4 DEF Call, AreCalls
    <3>2. Placed(song, Call(song, s, c(i)))
      BY <1>1, <3>1, ReadKeeps
    <3> QED BY <3>2 DEF Placed
  <2> QED BY <2>3, <2>4
<1>4. step \in [1 .. n -> [T -> T]] /\ \A i \in 1 .. n, s \in T : step[i][s] = Call(song, s, c(i))
  <2> HIDE DEF n, T, c
  <2> QED BY <1>3
<1>5. PICK f : Follows(f, n, T, Opened, step)
  <2> HIDE DEF n, T, step
  <2> QED BY <1>1, <1>2, <1>4, Recursion
<1>6. f = [i \in 0 .. n |-> IF i = 0 THEN Opened ELSE Call(song, f[i - 1], c(i))]
  <2> HIDE DEF step, n, T, c
  <2>1. f \in [0 .. n -> T] /\ \A i \in 1 .. n : f[i - 1] \in T
    BY <1>1, <1>5 DEF Follows
  <2>2. \A i \in 1 .. n : f[i] = Call(song, f[i - 1], c(i))
    BY <1>4, <1>5, <2>1 DEF Follows
  <2> QED BY <1>1, <1>5, <2>1, <2>2 DEF Follows
<1>7. u = [i \in 0 .. n |-> IF i = 0 THEN Opened ELSE Call(song, u[i - 1], c(i))]
  BY <1>6
<1>8. AfterCalls(song, calls) = u[n]
  BY Zenon DEF AfterCalls
<1> HIDE DEF u, n, T, c
<1>9. u[0] = Opened /\ \A i \in 1 .. n : u[i] = Call(song, u[i - 1], c(i))
  <2>1. 0 \in 0 .. n /\ \A i \in 1 .. n : i \in 0 .. n /\ i # 0
    BY <1>1
  <2> QED BY <1>7, <2>1
<1>10. \A i \in 0 .. n : u[i] \in T
  <2>1. u[0] \in T /\ \A i \in 1 .. n : u[i - 1] \in T => u[i] \in T
    BY <1>2, <1>3, <1>9
  <2> QED BY <1>1, <2>1, Stays
<1>11. n \in 0 .. n
  BY <1>1
<1> QED BY <1>8, <1>10, <1>11 DEF T

\* Whatever was read and sought before, the next read of an MP2 or Opus song, with any
\* frames, gives the samples that follow the position, every one and in order, and fewer
\* only where the song ends (mp2stream, opusstream, streamcore). Packets of an Opus song
\* may fail to decode in their place as long as nothing was sought.
THEOREM EveryFrameIsHeard ==
  ASSUME NEW song, IsFramed(song), NEW calls, AreCalls(calls),
         song.bad = {} \/ \A i \in 1 .. Len(calls) : ~calls[i].seek,
         NEW n \in Nat
  PROVE  ReadsOn(song, calls, n)
<1> DEFINE s == AfterCalls(song, calls)
           r == Streamed(song, s, n)
           want == SubSeq(Samples(song), s.at + 1, Min({s.at + n, Len(Samples(song))}))
<1>1. Placed(song, s) /\ s.at \in Nat
  <2>1. Placed(song, s)
    BY CallsKeep
  <2> QED BY <2>1 DEF Placed, States
<1>2. song.lens \in Seq(Nat) /\ song.kind # "alac" /\ Len(song.lens) \in Nat
  BY FramedSong
<1> HIDE DEF s
<1>3. Placed(song, r) /\ Given(song, s.at, n, r) /\ (r.ended \/ Len(r.out) = n)
  BY <1>1, <1>2, ReadKeeps
<1> HIDE DEF r
<1>4. PICK q \in Seq(Pairs), at \in Nat : q = r.out /\ at = s.at
  BY <1>1, <1>3 DEF Placed, States
<1>5. PICK all \in Seq(Pairs) : all = Samples(song)
  <2>1. Len(song.lens) \in 0 .. Len(song.lens)
    BY <1>2
  <2> QED BY <1>2, <2>1, Upto DEF Samples
<1>6. PICK L \in Nat, lq \in Nat : L = Len(all) /\ lq = Len(q)
  OBVIOUS
<1>7. lq <= n /\ r.at = at + lq /\ r.at <= L /\ r.ended \in BOOLEAN
  <2>1. lq <= n /\ r.at = at + lq
    BY <1>3, <1>4, <1>6 DEF Given
  <2>2. r \in States /\ r.frame \in 1 .. Len(song.lens) + 1
    BY <1>3 DEF Placed
  <2>3. r.frame - 1 \in 0 .. Len(song.lens)
    BY <1>2, <2>2
  <2>4. Len(SamplesUpto(song, r.frame - 1)) <= L
    BY <1>2, <1>5, <1>6, <2>3, EarlierFrames
  <2>5. PICK at1 \in Nat, pos1 \in Nat, lb \in Nat : at1 = r.at /\ pos1 = r.pos /\ lb = Len(r.buf)
    BY <2>2 DEF States
  <2>6. pos1 <= lb /\ at1 + (lb - pos1) <= L
    BY <1>3, <2>4, <2>5 DEF Placed
  <2>7. at1 <= L
    BY <2>5, <2>6
  <2> QED BY <2>1, <2>2, <2>5, <2>7 DEF States
<1>8. \A k \in 1 .. lq : q[k] = all[at + k]
  BY <1>3, <1>4, <1>5, <1>6 DEF Given
<1>9. (r.ended => lq < n /\ at + lq = L) /\ (~r.ended => lq = n)
  BY <1>3, <1>4, <1>5, <1>6, <1>7 DEF Given
<1>10. Min({at + n, L}) = at + lq
  <2>1. Min({at + n, L}) = IF at + n <= L THEN at + n ELSE L
    BY <1>6, MinOfTwo
  <2> QED BY <1>6, <1>7, <1>9, <2>1
<1>11. want = SubSeq(all, at + 1, at + lq)
  BY <1>4, <1>5, <1>6, <1>10
<1>12. want \in Seq(Pairs) /\ Len(want) = lq /\ \A k \in 1 .. lq : want[k] = all[at + k]
  <2>1. at + 1 \in Int /\ at + lq \in Int /\ \A i \in at + 1 .. at + lq : all[i] \in Pairs
    <3>1. \A i \in at + 1 .. at + lq : i \in 1 .. Len(all)
      BY <1>6, <1>7
    <3> QED BY <1>6, <3>1, ElementOfSeq
  <2> HIDE DEF want
  <2>2. /\ want \in Seq(Pairs)
        /\ Len(want) = IF at + 1 <= at + lq THEN (at + lq) - (at + 1) + 1 ELSE 0
        /\ \A k \in 1 .. (at + lq) - (at + 1) + 1 : want[k] = all[at + 1 + k - 1]
    BY <1>11, <2>1, SubSeqProperties
  <2>3. /\ (at + lq) - (at + 1) + 1 = lq /\ (~(at + 1 <= at + lq) => lq = 0)
        /\ \A k \in 1 .. lq : at + 1 + k - 1 = at + k
    OBVIOUS
  <2> QED BY <2>2, <2>3
<1> HIDE DEF want
<1>13. q = want
  BY <1>6, <1>8, <1>12, SeqEqual
<1>14. r.out = want /\ r.at = s.at + Len(want) /\ r.ended = (Len(want) < n)
  <2>1. r.ended = (lq < n)
    BY <1>7, <1>9
  <2> QED BY <1>4, <1>7, <1>12, <1>13, <2>1
<1> QED BY <1>14 DEF ReadsOn, s, r, want

-----------------------------------------------------------------------------
(* ALAC: the frame is found from the position. *)

LEMMA Quotient ==
  ASSUME NEW d \in Nat \ {0}, NEW j \in Nat, NEW k \in 0 .. d - 1
  PROVE  (d * j + k) \div d = j /\ (d * j + k) % d = k
OBVIOUS

LEMMA Euclid ==
  ASSUME NEW d \in Nat \ {0}, NEW a \in Nat
  PROVE  a \div d \in Nat /\ \E r \in 0 .. d - 1 : a = d * (a \div d) + r
<1>1. a \div d \in Nat
  <2>1. a \div d \in Int
    OBVIOUS
  <2>2. a \div d >= 0
    OBVIOUS
  <2> QED BY <2>1, <2>2
<1>2. PICK q \in Nat : q = a \div d
  BY <1>1
<1>3. d * q <= a /\ a < d * q + d
  BY <1>2
<1>4. a - d * q \in 0 .. d - 1 /\ a = d * q + (a - d * q)
  BY <1>3
<1> QED BY <1>2, <1>4

LEMMA Below ==
  ASSUME NEW d \in Nat \ {0}, NEW a \in Nat, NEW n \in Nat
  PROVE  a \div d < n <=> a < d * n
OBVIOUS

\* A song as ALAC opens it: frames that are full but for the last, and a length that counts
\* them alike, by the time table or as full.
IsALAC(song) ==
  /\ song.kind = "alac" /\ song.bad = {} /\ song.full \in Nat \ {0}
  /\ song.lens \in Seq(Nat \ {0}) /\ song.lens # <<>>
  /\ \A i \in 1 .. Len(song.lens) - 1 : song.lens[i] = song.full
  /\ song.lens[Len(song.lens)] <= song.full
  /\ \E perSample \in Nat : song.total = ALACLength(song.lens, perSample, song.full)

\* After a seek to p, so many samples are whole frames.
Whole(song, p, b) ==
  LET N == Len(song.lens)
      before == song.full * (N - (p \div song.full + 1))
  IN  IF p < song.full * N
      THEN \/ b < before /\ \E j \in Nat : b = song.full * j
           \/ b < before + song.full + song.lens[N] /\ \E m \in Nat : b = before + song.lens[N] * m
      ELSE b = 0

\* What is heard after a seek to p.
HeardFrom(song, p) == HeardOfALAC(song, p \div song.full + 1)

LEMMA ALACSong ==
  ASSUME NEW song, IsALAC(song)
  PROVE  \E full \in Nat \ {0}, N \in Nat \ {0}, short \in Nat \ {0} :
           /\ full = song.full /\ N = Len(song.lens) /\ short = song.lens[N] /\ short <= full
           /\ \A i \in 1 .. N - 1 : song.lens[i] = full
<1>1. song.lens \in Seq(Nat \ {0}) /\ song.lens # <<>> /\ song.full \in Nat \ {0}
  BY DEF IsALAC
<1>2. PICK N \in Nat \ {0} : N = Len(song.lens)
  BY <1>1, EmptySeq
<1>3. song.lens[N] \in Nat \ {0}
  <2>1. N \in 1 .. Len(song.lens)
    BY <1>2
  <2> QED BY <1>1, <2>1, ElementOfSeq
<1> QED BY <1>1, <1>2, <1>3 DEF IsALAC

\* The frame a seek to p starts with, and how many samples come before the last frame.
StartsAt(full, N, p, q, r, c) ==
  p = full * q + r /\ q = p \div full /\ c = N - (q + 1) /\ q + 1 + c = N

LEMMA StartOfALAC ==
  ASSUME NEW full \in Nat \ {0}, NEW N \in Nat \ {0}, NEW p \in Nat, p < full * N
  PROVE  \E q \in Nat, r \in 0 .. full - 1, c \in Nat : StartsAt(full, N, p, q, r, c)
<1>1. PICK q \in Nat, r \in 0 .. full - 1 : q = p \div full /\ p = full * q + r
  BY Euclid
<1>2. q < N
  BY <1>1, Below
<1>3. N - (q + 1) \in Nat /\ q + 1 + (N - (q + 1)) = N
  BY <1>2
<1> QED BY <1>1, <1>3 DEF StartsAt

LEMMA HeardType ==
  ASSUME NEW song, IsALAC(song), NEW p \in Nat, p < song.full * Len(song.lens)
  PROVE  /\ HeardFrom(song, p) \in Seq(Pairs)
         /\ \A b \in Nat : Whole(song, p, b) => b <= Len(HeardFrom(song, p))
<1>1. PICK full \in Nat \ {0}, N \in Nat \ {0}, short \in Nat \ {0} :
        /\ full = song.full /\ N = Len(song.lens) /\ short = song.lens[N] /\ short <= full
        /\ \A i \in 1 .. N - 1 : song.lens[i] = full
  BY ALACSong
<1>2. PICK q \in Nat, r \in 0 .. full - 1, c \in Nat :
        p = full * q + r /\ q = p \div full /\ c = N - (q + 1) /\ q + 1 + c = N
  <2>1. p < full * N
    BY <1>1
  <2>2. PICK q \in Nat, r \in 0 .. full - 1, c \in Nat : StartsAt(full, N, p, q, r, c)
    BY <2>1, StartOfALAC
  <2> QED BY <2>2 DEF StartsAt
<1>3. PICK before \in Nat : before = full * c
  OBVIOUS
<1>4. PICK n \in Nat : n = before + full + short - 1
  <2>1. before + full + short - 1 \in Nat
    OBVIOUS
  <2> QED BY <2>1
<1> DEFINE x(k) == IF k <= before THEN <<(q + 1) + (k - 1) \div full, ((k - 1) % full) + 1>>
                   ELSE <<N, ((k - before - 1) % short) + 1>>
<1>5. HeardFrom(song, p) = [k \in 1 .. n |-> x(k)]
  BY <1>1, <1>2, <1>3, <1>4 DEF HeardFrom, HeardOfALAC
<1>6. ASSUME NEW k \in 1 .. n PROVE x(k) \in Pairs
  <2>1. CASE k <= before
    <3>1. k - 1 \in Nat
      OBVIOUS
    <3>2. (k - 1) \div full \in Nat
      BY <3>1, Euclid
    <3>3. (k - 1) % full \in Nat
      BY <3>1
    <3> QED BY <2>1, <3>2, <3>3 DEF Pairs
  <2>2. CASE ~(k <= before)
    <3>1. k - before - 1 \in Nat
      BY <2>2
    <3>2. (k - before - 1) % short \in Nat
      BY <3>1
    <3> QED BY <2>2, <3>2 DEF Pairs
  <2> QED BY <2>1, <2>2
<1> HIDE DEF x
<1>7. HeardFrom(song, p) \in Seq(Pairs) /\ Len(HeardFrom(song, p)) = n
  BY <1>5, <1>6
<1>8. ASSUME NEW b \in Nat, Whole(song, p, b) PROVE b <= n
  <2>1. b < before \/ b < before + full + short
    BY <1>1, <1>2, <1>3, <1>8 DEF Whole
  <2> QED BY <1>4, <2>1
<1> QED BY <1>7, <1>8

LEMMA WholeAtFirst ==
  ASSUME NEW song, IsALAC(song), NEW p \in Nat
  PROVE  Whole(song, p, 0)
<1>1. PICK full \in Nat \ {0}, N \in Nat \ {0}, short \in Nat \ {0} :
        /\ full = song.full /\ N = Len(song.lens) /\ short = song.lens[N] /\ short <= full
        /\ \A i \in 1 .. N - 1 : song.lens[i] = full
  BY ALACSong
<1>2. CASE p < full * N
  <2>1. PICK q \in Nat, r \in 0 .. full - 1, c \in Nat :
          p = full * q + r /\ q = p \div full /\ c = N - (q + 1) /\ q + 1 + c = N
    <3>1. PICK q \in Nat, r \in 0 .. full - 1, c \in Nat : StartsAt(full, N, p, q, r, c)
      BY <1>2, StartOfALAC
    <3> QED BY <3>1 DEF StartsAt
  <2>2. PICK before \in Nat : before = full * c
    OBVIOUS
  <2>3. \/ 0 < before /\ \E j \in Nat : 0 = full * j
        \/ 0 < before + full + short /\ \E m \in Nat : 0 = before + short * m
    <3>1. full * 0 = 0 /\ short * 0 = 0 /\ 0 \in Nat
      OBVIOUS
    <3>2. CASE before = 0
      <4>1. 0 < before + full + short /\ 0 = before + short * 0
        BY <3>2
      <4> QED BY <3>1, <4>1
    <3>3. CASE before # 0
      <4>1. 0 < before
        BY <3>3
      <4> QED BY <3>1, <4>1
    <3> QED BY <3>2, <3>3
  <2> QED BY <1>1, <1>2, <2>1, <2>2, <2>3 DEF Whole
<1>3. CASE ~(p < full * N)
  BY <1>1, <1>3 DEF Whole
<1> QED BY <1>2, <1>3

\* Behind whole frames the decoder takes the frame that is to be heard next.
\* After the whole frames of so many samples the frame i is heard, and whole.
FrameNext(song, p, h, i) ==
  /\ i \in 1 .. Len(song.lens) /\ Whole(song, p, h + song.lens[i])
  /\ \A k \in 1 .. song.lens[i] : HeardFrom(song, p)[h + k] = <<i, k>>

LEMMA NextWhole ==
  ASSUME NEW song, IsALAC(song), NEW p \in Nat, NEW h \in Nat, Whole(song, p, h),
         NEW i, i = (p + h) \div song.full + 1, i <= Len(song.lens)
  PROVE  FrameNext(song, p, h, i)
<1>1. PICK full \in Nat \ {0}, N \in Nat \ {0}, short \in Nat \ {0} :
        /\ full = song.full /\ N = Len(song.lens) /\ short = song.lens[N] /\ short <= full
        /\ \A j \in 1 .. N - 1 : song.lens[j] = full
  BY ALACSong
<1>2. (p + h) \div full \in Nat /\ (p + h) \div full < N
  <2>1. p + h \in Nat
    OBVIOUS
  <2>2. (p + h) \div full \in Nat
    BY <2>1, Euclid
  <2> QED BY <1>1, <2>2
<1>3. p + h < full * N
  <2>1. p + h \in Nat
    OBVIOUS
  <2> QED BY <1>2, <2>1, Below
<1>4. p < full * N
  <2>1. PICK e \in Nat : e = full * N
    OBVIOUS
  <2> QED BY <1>3, <2>1
<1>5. PICK q \in Nat, r \in 0 .. full - 1, c \in Nat :
        p = full * q + r /\ q = p \div full /\ c = N - (q + 1) /\ q + 1 + c = N
  <2>1. p < full * N
    BY <1>1, <1>4
  <2>2. PICK q \in Nat, r \in 0 .. full - 1, c \in Nat : StartsAt(full, N, p, q, r, c)
    BY <2>1, StartOfALAC
  <2> QED BY <2>2 DEF StartsAt
<1>6. PICK before \in Nat : before = full * c
  OBVIOUS
<1>7. PICK n \in Nat : n = before + full + short - 1
  <2>1. before + full + short - 1 \in Nat
    OBVIOUS
  <2> QED BY <2>1
<1>8. \A k \in 1 .. n : HeardFrom(song, p)[k] =
        IF k <= before THEN <<(q + 1) + (k - 1) \div full, ((k - 1) % full) + 1>>
        ELSE <<N, ((k - before - 1) % short) + 1>>
  BY <1>1, <1>5, <1>6, <1>7 DEF HeardFrom, HeardOfALAC
<1>9. \A b : Whole(song, p, b) <=>
        \/ b < before /\ \E j \in Nat : b = full * j
        \/ b < before + full + short /\ \E m \in Nat : b = before + short * m
  BY <1>1, <1>4, <1>5, <1>6 DEF Whole
<1>10. CASE h < before /\ \E j \in Nat : h = full * j
  <2>1. PICK j \in Nat : h = full * j
    BY <1>10
  <2>2. j < c /\ full * (j + 1) = h + full /\ h + full <= before
    <3>1. full * j < full * c
      BY <1>6, <1>10, <2>1
    <3>2. j < c
      BY <3>1
    <3>3. full * (j + 1) <= full * c
      BY <3>2
    <3>4. full * (j + 1) = full * j + full
      OBVIOUS
    <3> QED BY <1>6, <2>1, <3>2, <3>3, <3>4
  <2>3. i = q + j + 1 /\ i \in 1 .. N - 1
    <3>1. full * (q + j) = full * q + full * j
      OBVIOUS
    <3>2. PICK a \in Nat, b \in Nat, d \in Nat : a = full * q /\ b = full * j /\ d = full * (q + j)
      OBVIOUS
    <3>3. p + h = full * (q + j) + r
      BY <1>5, <2>1, <3>1, <3>2, SMTT(30)
    <3>4. PICK e \in Nat : e = q + j
      OBVIOUS
    <3>5. (p + h) \div full = e
      BY <3>3, <3>4, Quotient
    <3>6. i = e + 1
      BY <1>1, <3>5
    <3>7. q + 1 + c = N /\ j < c
      BY <1>5, <2>2
    <3> QED BY <3>4, <3>6, <3>7
  <2>4. song.lens[i] = full
    BY <1>1, <2>3
  <2>5. Whole(song, p, h + full)
    <3>1. CASE h + full < before
      <4>1. j + 1 \in Nat
        OBVIOUS
      <4> QED BY <1>9, <2>2, <3>1, <4>1
    <3>2. CASE ~(h + full < before)
      <4>1. h + full = before + short * 0 /\ h + full < before + full + short /\ 0 \in Nat
        BY <2>2, <3>2
      <4> QED BY <1>9, <4>1
    <3> QED BY <3>1, <3>2
  <2>6. ASSUME NEW k \in 1 .. full PROVE HeardFrom(song, p)[h + k] = <<i, k>>
    <3>1. h + k \in 1 .. n /\ h + k <= before
      BY <1>7, <2>2
    <3>2. (h + k) - 1 = full * j + (k - 1) /\ k - 1 \in 0 .. full - 1
      BY <2>1
    <3>3. ((h + k) - 1) \div full = j /\ ((h + k) - 1) % full = k - 1
      BY <3>2, Quotient
    <3>4. (q + 1) + j = i /\ (k - 1) + 1 = k
      BY <2>3
    <3>5. HeardFrom(song, p)[h + k] = <<(q + 1) + ((h + k) - 1) \div full, (((h + k) - 1) % full) + 1>>
      BY <1>8, <3>1
    <3> QED BY <3>3, <3>4, <3>5
  <2>7. i \in 1 .. Len(song.lens)
    BY <1>1, <2>3
  <2> QED BY <2>4, <2>5, <2>6, <2>7 DEF FrameNext
<1>11. CASE h < before + full + short /\ \E m \in Nat : h = before + short * m
  <2>1. PICK m \in Nat : h = before + short * m
    BY <1>11
  <2>2. PICK l \in Nat : l = short * m /\ h = before + l
    BY <2>1
  <2>3. p + h = full * (N - 1) + (r + l) /\ r + l < full
    <3>1. full * q + full * c = full * (N - 1)
      <4>1. q + c = N - 1
        BY <1>5
      <4>2. full * (q + c) = full * q + full * c
        OBVIOUS
      <4> QED BY <4>1, <4>2
    <3>2. full * (N - 1) + full = full * N
      OBVIOUS
    <3>3. PICK w \in Nat : w = full * (N - 1)
      OBVIOUS
    <3>6. PICK a \in Nat : a = full * q /\ a + before = w
      BY <1>6, <3>1, <3>3
    <3>4. p + h = w + (r + l)
      BY <1>5, <2>2, <3>6
    <3>5. p + h < w + full
      BY <1>3, <3>2, <3>3
    <3> QED BY <3>3, <3>4, <3>5
  <2>4. i = N
    <3>1. PICK x \in Nat, b \in Nat, e \in 0 .. full - 1 : x = p + h /\ b = N - 1 /\ e = r + l
      <4>1. N - 1 \in Nat /\ r + l \in 0 .. full - 1 /\ p + h \in Nat
        BY <2>3
      <4> QED BY <4>1
    <3>2. x = full * b + e
      BY <2>3, <3>1
    <3>3. x \div full = b
      BY <3>2, Quotient
    <3>4. b + 1 = N
      BY <3>1
    <3> QED BY <1>1, <3>1, <3>3, <3>4
  <2>5. song.lens[i] = short /\ i \in 1 .. Len(song.lens)
    BY <1>1, <2>4
  <2>6. Whole(song, p, h + short)
    <3>1. h + short = before + short * (m + 1) /\ m + 1 \in Nat
      BY <2>1
    <3>2. h + short < before + full + short
      BY <2>2, <2>3
    <3> QED BY <1>9, <3>1, <3>2
  <2>7. ASSUME NEW k \in 1 .. short PROVE HeardFrom(song, p)[h + k] = <<i, k>>
    <3>1. h + k \in 1 .. n /\ ~(h + k <= before)
      BY <1>7, <2>2, <2>3
    <3>2. PICK x \in Int, e \in 0 .. short - 1 :
            x = (h + k) - before - 1 /\ e = k - 1 /\ x = short * m + e
      <4>1. (h + k) - before - 1 = short * m + (k - 1) /\ k - 1 \in 0 .. short - 1
        BY <2>1
      <4> QED BY <4>1
    <3>6. x % short = e
      <4>1. (short * m + e) % short = e
        BY Quotient
      <4> QED BY <3>2, <4>1
    <3>3. ((h + k) - before - 1) % short = k - 1
      BY <3>2, <3>6
    <3>4. HeardFrom(song, p)[h + k] = <<N, (((h + k) - before - 1) % short) + 1>>
      BY <1>8, <3>1
    <3>5. (k - 1) + 1 = k
      OBVIOUS
    <3> QED BY <2>4, <3>3, <3>4, <3>5
  <2> QED BY <2>5, <2>6, <2>7 DEF FrameNext
<1> QED BY <1>9, <1>10, <1>11

\* What X of ReadSoFar is here: what is heard, by the position, that counts from p.
ByPosition(song, p) == [j \in Nat |-> HeardFrom(song, p)[j - p]]

\* A read that began when so many samples had been heard: it ends only past the last frame.
Sounding(song, p, heard, needed, s) ==
  /\ ReadSoFar(ByPosition(song, p), p + heard, needed, s)
  /\ Whole(song, p, heard + Len(s.out) + (Len(s.buf) - s.pos))
  /\ s.ended => s.at >= song.full * Len(song.lens)

\* After so many samples, as some read left it.
LeftBy(song, p, heard, s) ==
  /\ s \in States
  /\ \E since \in Nat, asked \in Nat :
       since + Len(s.out) = heard /\ Sounding(song, p, since, asked, s)

LEMMA ALACCopy ==
  ASSUME NEW song, NEW p \in Nat, NEW heard \in Nat, NEW needed \in Nat, NEW s,
         Sounding(song, p, heard, needed, s),
         s.pos < Len(s.buf), Len(s.out) # needed, ~s.ended,
         NEW r, r = CopyToOutput(s, needed)
  PROVE  Sounding(song, p, heard, needed, r) /\ Len(r.out) > Len(s.out)
<1>1. ReadSoFar(ByPosition(song, p), p + heard, needed, s) /\ p + heard \in Nat
  BY DEF Sounding
<1>2. PICK lo \in Nat, lb \in Nat, po \in Nat : lo = Len(s.out) /\ lb = Len(s.buf) /\ po = s.pos
  BY <1>1 DEF ReadSoFar, States
<1>3. Len(s.out) < needed
  BY <1>1, <1>2 DEF ReadSoFar
<1>4. /\ ReadSoFar(ByPosition(song, p), p + heard, needed, r)
      /\ Len(r.out) > Len(s.out) /\ SameFrame(s, r)
  BY <1>1, <1>3, CopyGives
<1>5. heard + Len(r.out) + (Len(r.buf) - r.pos) = heard + Len(s.out) + (Len(s.buf) - s.pos)
  <2>1. PICK mo \in Nat, mb \in Nat, mp \in Nat : mo = Len(r.out) /\ mb = Len(r.buf) /\ mp = r.pos
    BY <1>4 DEF ReadSoFar, States
  <2>2. (p + heard + mo) + (mb - mp) = (p + heard + lo) + (lb - po)
    BY <1>1, <1>2, <1>4, <2>1 DEF ReadSoFar, SameFrame
  <2>3. heard + mo + (mb - mp) = heard + lo + (lb - po)
    BY <2>2
  <2> QED BY <1>2, <2>1, <2>3
<1>6. Whole(song, p, heard + Len(r.out) + (Len(r.buf) - r.pos))
  BY <1>5 DEF Sounding
<1>7. ~r.ended
  BY <1>4 DEF SameFrame
<1> QED BY <1>4, <1>6, <1>7 DEF Sounding

LEMMA ALACNext ==
  ASSUME NEW song, IsALAC(song), NEW p \in Nat, NEW heard \in Nat, NEW needed \in Nat, NEW s,
         Sounding(song, p, heard, needed, s),
         ~(s.pos < Len(s.buf)), Len(s.out) # needed, ~s.ended,
         NEW r, r = NextFrame(song, s)
  PROVE  /\ Sounding(song, p, heard, needed, r) /\ Len(r.out) = Len(s.out)
         /\ r.ended \/ r.pos < Len(r.buf)
<1>1. /\ s \in States /\ s.pos <= Len(s.buf) /\ Len(s.out) <= needed /\ s.at = p + heard + Len(s.out)
      /\ \A k \in 1 .. Len(s.out) : s.out[k] = ByPosition(song, p)[p + heard + k]
  BY DEF Sounding, ReadSoFar
<1>2. PICK lo \in Nat, lb \in Nat, po \in Nat : lo = Len(s.out) /\ lb = Len(s.buf) /\ po = s.pos
  BY <1>1, SMTT(30) DEF States
<1>3. PICK h \in Nat : h = heard + lo
  OBVIOUS
<1>4. Whole(song, p, h) /\ s.at = p + h
  <2>1. heard + lo + (lb - po) = h
    <3>1. po <= lb /\ ~(po < lb)
      BY <1>1, <1>2
    <3> QED BY <1>3, <3>1
  <2>2. s.at = p + h
    <3>1. p + heard + lo = p + h
      BY <1>3
    <3> QED BY <1>1, <1>2, <3>1
  <2> QED BY <1>2, <2>1, <2>2 DEF Sounding
<1>5. PICK full \in Nat \ {0}, N \in Nat \ {0}, short \in Nat \ {0} :
        /\ full = song.full /\ N = Len(song.lens) /\ short = song.lens[N] /\ short <= full
        /\ \A i \in 1 .. N - 1 : song.lens[i] = full
  BY ALACSong
<1>6. PICK i \in Nat : i = (p + h) \div full + 1 /\ (i > N => p + h >= full * N)
  <2>1. p + h \in Nat
    OBVIOUS
  <2>2. (p + h) \div full \in Nat
    BY <2>1, Euclid
  <2>3. (p + h) \div full < N <=> p + h < full * N
    BY <2>1, Below
  <2>4. PICK q \in Nat, e \in Nat : q = (p + h) \div full /\ e = full * N
    BY <2>2
  <2>5. q < N <=> p + h < e
    BY <2>3, <2>4
  <2>6. q + 1 > N => p + h >= e
    BY <2>5
  <2>7. q + 1 \in Nat
    OBVIOUS
  <2> QED BY <2>4, <2>6, <2>7
<1>7. r = IF i > N THEN [s EXCEPT !.ended = TRUE]
          ELSE [s EXCEPT !.buf = Decoded(song, i), !.pos = 0, !.frame = i + 1]
  BY <1>4, <1>5, <1>6 DEF NextFrame, FrameIndex, IsALAC
<1>8. CASE i > N
  <2>1. r = [s EXCEPT !.ended = TRUE]
    BY <1>7, <1>8
  <2>2. /\ r \in States /\ r.out = s.out /\ r.pos = s.pos /\ r.at = s.at
        /\ r.buf = s.buf /\ r.frame = s.frame /\ r.ended = TRUE
    BY <1>1, <2>1 DEF States
  <2>3. ReadSoFar(ByPosition(song, p), p + heard, needed, r)
    BY <2>2, ZenonT(40) DEF Sounding, ReadSoFar
  <2>4. r.at >= song.full * Len(song.lens)
    BY <1>4, <1>5, <1>6, <1>8, <2>2
  <2>5. Whole(song, p, heard + Len(r.out) + (Len(r.buf) - r.pos))
    BY <2>2 DEF Sounding
  <2> QED BY <2>2, <2>3, <2>4, <2>5 DEF Sounding
<1>9. CASE ~(i > N)
  <2>1. i <= Len(song.lens) /\ i = (p + h) \div song.full + 1
    BY <1>5, <1>6, <1>9
  <2>2. /\ i \in 1 .. Len(song.lens) /\ Whole(song, p, h + song.lens[i])
        /\ \A k \in 1 .. song.lens[i] : HeardFrom(song, p)[h + k] = <<i, k>>
    <3>1. FrameNext(song, p, h, i)
      BY <1>4, <2>1, NextWhole
    <3> QED BY <3>1 DEF FrameNext
  <2>3. PICK n \in Nat \ {0} : n = song.lens[i]
    <3>1. song.lens \in Seq(Nat \ {0})
      BY DEF IsALAC
    <3> QED BY <2>2, <3>1, ElementOfSeq
  <2>4. PICK d \in Seq(Pairs) : d = Decoded(song, i) /\ Len(d) = n /\ \A k \in 1 .. n : d[k] = <<i, k>>
    <3>1. Decoded(song, i) = [k \in 1 .. n |-> <<i, k>>]
      BY <2>3 DEF Decoded, IsALAC
    <3>2. [k \in 1 .. n |-> <<i, k>>] \in Seq(Pairs) /\ Len([k \in 1 .. n |-> <<i, k>>]) = n
      BY DEF Pairs
    <3> QED BY <3>1, <3>2
  <2>5. PICK j \in Nat, none \in Nat : j = i + 1 /\ none = 0
    OBVIOUS
  <2>6. r = [s EXCEPT !.buf = d, !.pos = none, !.frame = j]
    BY <1>7, <1>9, <2>4, <2>5
  <2>7. /\ r \in States /\ r.out = s.out /\ r.pos = none /\ r.at = s.at
        /\ r.buf = d /\ r.frame = j /\ r.ended = s.ended
    BY <1>1, <2>6 DEF States
  <2>8. ASSUME NEW k \in 1 .. n PROVE d[k] = ByPosition(song, p)[(p + h) + k - 0]
    <3>1. (p + h) + k - 0 \in Nat /\ ((p + h) + k - 0) - p = h + k
      OBVIOUS
    <3>2. ByPosition(song, p)[(p + h) + k - 0] = HeardFrom(song, p)[((p + h) + k - 0) - p]
      BY <3>1 DEF ByPosition
    <3>3. HeardFrom(song, p)[h + k] = <<i, k>>
      BY <2>2, <2>3
    <3> QED BY <2>4, <3>1, <3>2, <3>3
  <2>9. ReadSoFar(ByPosition(song, p), p + heard, needed, r)
    <3>1. 0 <= n /\ none = 0 /\ none + 1 = 1
      BY <2>5
    <3>2. r.pos <= Len(r.buf)
      BY <2>4, <2>7, <3>1
    <3>3. ASSUME NEW k \in r.pos + 1 .. Len(r.buf)
          PROVE  r.buf[k] = ByPosition(song, p)[r.at + k - r.pos]
      <4>1. k \in 1 .. n
        BY <2>4, <2>7, <3>1, <3>3
      <4>2. r.at = p + h /\ r.pos = 0 /\ r.buf = d
        BY <1>4, <2>5, <2>7
      <4> QED BY <2>8, <4>1, <4>2
    <3> QED BY <1>1, <2>7, <3>2, <3>3 DEF ReadSoFar
  <2>10. Whole(song, p, heard + Len(r.out) + (Len(r.buf) - r.pos))
    <3>1. heard + lo + (n - 0) = h + n
      BY <1>3
    <3> QED BY <1>2, <2>2, <2>3, <2>4, <2>5, <2>7, <3>1
  <2>11. r.pos < Len(r.buf) /\ ~r.ended
    BY <2>4, <2>5, <2>7
  <2> QED BY <2>7, <2>9, <2>10, <2>11 DEF Sounding
<1> QED BY <1>8, <1>9

\* Each turn gives a sample or takes a frame, of which it then gives a sample, so that the
\* turns of a read are enough.
LEMMA ALACRead ==
  ASSUME NEW song, IsALAC(song), NEW p \in Nat, NEW heard \in Nat, NEW needed \in Nat,
         NEW before, LeftBy(song, p, heard, before),
         NEW r, r = Streamed(song, before, needed)
  PROVE  Sounding(song, p, heard, needed, r) /\ (r.ended \/ Len(r.out) = needed)
<1> DEFINE N == Len(song.lens)
           M == 2 * (needed + N)
           first == [before EXCEPT !.out = <<>>, !.ended = FALSE]
           T == {s \in States : Sounding(song, p, heard, needed, s)}
           next(s) == Turn(song, s, needed)
           Over(s) == Len(s.out) = needed \/ s.ended
           left(s) == IF s.pos < Len(s.buf) THEN 1 ELSE 0
           done(s) == 2 * Len(s.out) + left(s)
<1>1. N \in Nat \ {0} /\ M \in Nat
  <2>1. N \in Nat \ {0}
    BY ALACSong
  <2> HIDE DEF N
  <2> QED BY <2>1
<1>2. first \in T
  <2> PICK since \in Nat, asked \in Nat :
        since + Len(before.out) = heard /\ Sounding(song, p, since, asked, before)
    BY DEF LeftBy
  <2>1. /\ before \in States /\ before.pos <= Len(before.buf)
        /\ \A k \in before.pos + 1 .. Len(before.buf) :
             before.buf[k] = ByPosition(song, p)[before.at + k - before.pos]
    BY DEF Sounding, ReadSoFar
  <2>2. PICK lo \in Nat : lo = Len(before.out)
    <3>1. before.out \in Seq(Pairs)
      BY <2>1, SMTT(30) DEF States
    <3> QED BY <3>1
  <2>3. since + lo = heard + 0
    BY <2>2
  <2>4. before.at = p + heard + 0
    <3>1. before.at = (p + since) + Len(before.out)
      BY DEF Sounding, ReadSoFar
    <3>2. (p + since) + lo = p + heard + 0
      BY <2>3
    <3> QED BY <2>2, <3>1, <3>2
  <2>5. /\ first \in States /\ first.out = <<>> /\ Len(first.out) = 0
        /\ first.pos = before.pos /\ first.at = before.at
        /\ first.buf = before.buf /\ first.frame = before.frame /\ first.ended = FALSE
    BY <2>1, ReadBegins
  <2> HIDE DEF first
  <2>6. 0 <= needed /\ 1 .. 0 = {}
    OBVIOUS
  <2>7. ReadSoFar(ByPosition(song, p), p + heard, needed, first)
    BY <2>1, <2>4, <2>5, <2>6 DEF ReadSoFar
  <2>8. Whole(song, p, heard + 0 + (Len(before.buf) - before.pos))
    <3>1. Whole(song, p, since + Len(before.out) + (Len(before.buf) - before.pos))
      BY DEF Sounding
    <3> QED BY <2>2, <2>3, <3>1
  <2> QED BY <2>5, <2>7, <2>8 DEF Sounding
<1>3. ASSUME NEW s \in T
      PROVE  /\ next(s) \in T
             /\ \/ Over(s)
                \/ next(s).ended
                \/ Len(next(s).out) > Len(s.out)
                \/ Len(next(s).out) = Len(s.out) /\ ~(s.pos < Len(s.buf))
                   /\ next(s).pos < Len(next(s).buf)
  <2>1. CASE Over(s)
    BY <2>1 DEF Turn
  <2>2. CASE ~Over(s) /\ s.pos < Len(s.buf)
    <3>1. next(s) = CopyToOutput(s, needed)
      BY <2>2 DEF Turn
    <3> HIDE DEF next
    <3>2. Sounding(song, p, heard, needed, next(s)) /\ Len(next(s).out) > Len(s.out)
      BY <2>2, <3>1, ALACCopy
    <3>3. next(s) \in States
      BY <3>2 DEF Sounding, ReadSoFar
    <3> QED BY <3>2, <3>3
  <2>3. CASE ~Over(s) /\ ~(s.pos < Len(s.buf))
    <3>1. next(s) = NextFrame(song, s)
      BY <2>3 DEF Turn
    <3> HIDE DEF next
    <3>2. /\ Sounding(song, p, heard, needed, next(s)) /\ Len(next(s).out) = Len(s.out)
          /\ next(s).ended \/ next(s).pos < Len(next(s).buf)
      BY <2>3, <3>1, ALACNext
    <3>3. next(s) \in States
      BY <3>2 DEF Sounding, ReadSoFar
    <3> QED BY <2>3, <3>2, <3>3
  <2> QED BY <2>1, <2>2, <2>3
<1>4. PICK u : Turns(song, before, needed, T, u)
  <2>1. \A s \in T : Turn(song, s, needed) \in T
    BY <1>3
  <2> HIDE DEF T
  <2> QED BY <1>1, <1>2, <2>1, TurnsOfRead
<1> HIDE DEF T, first
<1>5. /\ u[0] = first /\ \A n \in 1 .. M : u[n] = next(u[n - 1])
      /\ \A n \in 0 .. M : u[n] \in T
      /\ Streamed(song, before, needed) = u[M]
  BY <1>4 DEF Turns, first
<1> HIDE DEF M, next
<1>6. ASSUME NEW s \in T
      PROVE  /\ Len(s.out) \in Nat /\ Len(s.out) <= needed /\ s.pos \in Nat /\ Len(s.buf) \in Nat
             /\ Sounding(song, p, heard, needed, s)
  <2>1. Sounding(song, p, heard, needed, s) /\ s \in States /\ Len(s.out) <= needed
    BY DEF T, Sounding, ReadSoFar
  <2>2. s.out \in Seq(Pairs) /\ s.buf \in Seq(Pairs) /\ s.pos \in Nat
    BY <2>1 DEF States
  <2> QED BY <2>1, <2>2
<1>7. ASSUME NEW s \in T, ~Over(s), ~Over(next(s))
      PROVE  done(s) \in Nat /\ done(next(s)) \in Nat /\ done(next(s)) > done(s)
  <2>1. next(s) \in T
    BY <1>3
  <2>2. PICK a \in Nat, b \in Nat : a = Len(s.out) /\ b = Len(next(s).out)
    BY <1>6, <2>1
  <2>3. PICK v \in 0 .. 1, w \in 0 .. 1 : v = left(s) /\ w = left(next(s))
    OBVIOUS
  <2>4. b > a \/ (b = a /\ v = 0 /\ w = 1)
    BY <1>3, <1>7, <2>2, <2>3
  <2>5. 2 * b + w > 2 * a + v
    BY <2>4
  <2>6. done(s) = 2 * a + v /\ done(next(s)) = 2 * b + w
    BY <2>2, <2>3
  <2> HIDE DEF done
  <2> QED BY <2>5, <2>6
<1> DEFINE S == {n \in Nat : n <= M => Over(u[n]) \/ done(u[n]) >= n}
<1>8. 0 \in S
  <2>1. u[0] \in T
    BY <1>2, <1>5
  <2>2. done(u[0]) \in Nat
    <3>1. PICK a \in Nat, v \in 0 .. 1 : a = Len(u[0].out) /\ v = left(u[0])
      BY <1>6, <2>1, SMTT(30)
    <3>2. done(u[0]) = 2 * a + v
      BY <3>1
    <3> HIDE DEF done
    <3>3. 2 * a + v \in Nat
      OBVIOUS
    <3> QED BY <3>2, <3>3
  <2> HIDE DEF done
  <2> QED BY <2>2
<1> HIDE DEF done
<1>9. ASSUME NEW n \in Nat, n \in S PROVE n + 1 \in S
  <2> SUFFICES ASSUME n + 1 <= M PROVE Over(u[n + 1]) \/ done(u[n + 1]) >= n + 1
    OBVIOUS
  <2>1. n \in 0 .. M /\ n + 1 \in 1 .. M /\ n + 1 \in 0 .. M /\ (n + 1) - 1 = n /\ n <= M
    BY <1>1
  <2>2. u[n + 1] = next(u[n]) /\ u[n] \in T /\ u[n + 1] \in T
    BY <1>5, <2>1
  <2>3. CASE Over(u[n])
    BY <2>2, <2>3 DEF next, Turn
  <2>4. CASE ~Over(u[n])
    <3>1. done(u[n]) >= n
      BY <1>9, <2>1, <2>4
    <3>2. CASE ~Over(u[n + 1])
      <4>1. done(u[n]) \in Nat /\ done(u[n + 1]) \in Nat /\ done(u[n + 1]) > done(u[n])
        BY <1>7, <2>2, <2>4, <3>2
      <4> QED BY <3>1, <4>1
    <3> QED BY <3>2
  <2> QED BY <2>3, <2>4
<1>10. Nat \subseteq S
  <2> HIDE DEF S
  <2> QED BY <1>8, <1>9, NatSets
<1>11. u[M] \in T
  BY <1>1, <1>5
<1>12. Over(u[M])
  <2> SUFFICES ASSUME ~Over(u[M]) PROVE FALSE
    OBVIOUS
  <2>1. done(u[M]) >= M
    BY <1>1, <1>10
  <2>2. PICK a \in Nat : a = Len(u[M].out) /\ a < needed
    BY <1>6, <1>11
  <2>3. PICK v \in 0 .. 1 : v = left(u[M])
    OBVIOUS
  <2>4. 2 * a + v >= M /\ M = 2 * (needed + N)
    BY <2>1, <2>2, <2>3 DEF M, done
  <2>5. PICK b \in Nat : b = N /\ b > 0
    BY <1>1
  <2>6. 2 * a + v >= 2 * (needed + b)
    BY <2>4, <2>5
  <2> QED BY <2>2, <2>5, <2>6
<1> QED BY <1>5, <1>6, <1>11, <1>12

\* After a seek to p: the decoder as the last read left it, and what the reads gave, which
\* is what is heard from there.
HeardSoFar(song, p, s, out) ==
  /\ out \in Seq(Pairs) /\ LeftBy(song, p, Len(out), s)
  /\ \A k \in 1 .. Len(out) : out[k] = HeardFrom(song, p)[k]

LEMMA ALACReadOn ==
  ASSUME NEW song, IsALAC(song), NEW p \in Nat, NEW n \in Nat, NEW before, NEW out,
         HeardSoFar(song, p, before, out),
         NEW s, s = Streamed(song, before, n), NEW after, after = out \o s.out
  PROVE  /\ HeardSoFar(song, p, s, after)
         /\ Len(s.out) = n \/ s.at >= song.full * Len(song.lens)
<1>1. out \in Seq(Pairs)
  BY DEF HeardSoFar
<1>2. PICK heard \in Nat : heard = Len(out)
  BY <1>1
<1>3. LeftBy(song, p, heard, before)
  BY <1>2 DEF HeardSoFar
<1>4. Sounding(song, p, heard, n, s) /\ (s.ended \/ Len(s.out) = n)
  BY <1>3, ALACRead
<1>6. /\ s \in States
      /\ \A k \in 1 .. Len(s.out) : s.out[k] = ByPosition(song, p)[p + heard + k]
  BY <1>4 DEF Sounding, ReadSoFar
<1>7. PICK o \in Seq(Pairs), m \in Nat : o = s.out /\ m = Len(o)
  <2>1. s.out \in Seq(Pairs)
    BY <1>6 DEF States
  <2> QED BY <2>1
<1>8. /\ after \in Seq(Pairs) /\ Len(after) = heard + m
      /\ \A k \in 1 .. heard + m : after[k] = IF k <= heard THEN out[k] ELSE o[k - heard]
  <2>1. after = out \o o
    BY <1>7
  <2>2. /\ out \o o \in Seq(Pairs) /\ Len(out \o o) = Len(out) + Len(o)
        /\ \A k \in 1 .. Len(out) + Len(o) :
             (out \o o)[k] = IF k <= Len(out) THEN out[k] ELSE o[k - Len(out)]
    BY <1>1, <1>7, ConcatProperties
  <2> QED BY <1>2, <1>7, <2>1, <2>2
<1>9. ASSUME NEW k \in 1 .. Len(after) PROVE after[k] = HeardFrom(song, p)[k]
  <2>1. k \in 1 .. heard + m
    BY <1>8
  <2>2. CASE k <= heard
    <3>1. k \in 1 .. Len(out)
      BY <1>2, <2>1, <2>2
    <3> QED BY <1>8, <2>1, <2>2, <3>1 DEF HeardSoFar
  <2>3. CASE ~(k <= heard)
    <3>1. PICK j \in Nat : j = k - heard /\ j \in 1 .. m
      <4>1. k - heard \in Nat /\ k - heard \in 1 .. m
        BY <2>1, <2>3
      <4> QED BY <4>1
    <3>2. p + heard + j \in Nat /\ (p + heard + j) - p = k
      BY <2>1, <3>1
    <3>3. ByPosition(song, p)[p + heard + j] = HeardFrom(song, p)[(p + heard + j) - p]
      BY <3>2 DEF ByPosition
    <3>4. o[j] = ByPosition(song, p)[p + heard + j]
      BY <1>6, <1>7, <3>1
    <3>5. after[k] = o[j]
      BY <1>8, <2>1, <2>3, <3>1
    <3> QED BY <3>2, <3>3, <3>4, <3>5
  <2> QED BY <2>2, <2>3
<1>10. heard + Len(s.out) = Len(after)
  BY <1>7, <1>8
<1>11. Len(s.out) = n \/ s.at >= song.full * Len(song.lens)
  BY <1>4 DEF Sounding
<1>12. LeftBy(song, p, Len(after), s)
  BY <1>4, <1>6, <1>8, <1>10 DEF LeftBy
<1> QED BY <1>8, <1>9, <1>11, <1>12 DEF HeardSoFar

LEMMA ALACBegins ==
  ASSUME NEW song, IsALAC(song), NEW to \in Int, NEW p \in Nat, p = Clamped(song, to),
         NEW e \in Seq(Pairs), e = <<>>,
         NEW s, s = Seek(song, Opened, to)
  PROVE  HeardSoFar(song, p, s, e)
<1>1. PICK none \in Nat, one \in Nat : none = 0 /\ one = 1
  OBVIOUS
<1>2. Len(e) = 0
  OBVIOUS
<1>3. PICK o : o = [at |-> none, frame |-> one, buf |-> e, pos |-> none, out |-> e, ended |-> FALSE]
  OBVIOUS
<1>4. s = [[o EXCEPT !.at = p] EXCEPT !.buf = e, !.pos = none]
  <2>1. Opened = o
    BY <1>1, <1>3 DEF Opened
  <2>2. Seek(song, Opened, to) = ResetBuffer([Opened EXCEPT !.at = p])
    BY DEF Seek, SeekSample, IsALAC
  <2> QED BY <1>1, <2>1, <2>2 DEF ResetBuffer
<1>5. /\ s \in States /\ s.at = p /\ s.buf = e /\ s.pos = none
      /\ s.out = e /\ s.ended = FALSE
  <2>1. o \in States /\ o.out = e /\ o.ended = FALSE
    BY <1>3 DEF States
  <2> QED BY <1>4, <2>1 DEF States
<1>6. 0 - 0 = 0 /\ p + 0 + 0 = p /\ p + 0 = p /\ 0 <= 0 /\ 1 .. 0 = {} /\ 0 + 1 .. 0 = {}
  OBVIOUS
<1>7. ReadSoFar(ByPosition(song, p), p + 0, 0, s)
  BY <1>1, <1>2, <1>5, <1>6 DEF ReadSoFar
<1>8. Whole(song, p, 0 + Len(s.out) + (Len(s.buf) - s.pos))
  <2>1. 0 + 0 + (0 - 0) = 0
    OBVIOUS
  <2> QED BY <1>1, <1>2, <1>5, <2>1, WholeAtFirst
<1>9. Sounding(song, p, 0, 0, s)
  BY <1>5, <1>7, <1>8 DEF Sounding
<1>10. 0 + Len(s.out) = Len(e)
  BY <1>2, <1>5
<1>11. 1 .. Len(e) = {}
  BY <1>2
<1>12. LeftBy(song, p, Len(e), s)
  BY <1>5, <1>9, <1>10 DEF LeftBy
<1> QED BY <1>11, <1>12 DEF HeardSoFar

\* What was heard so far, as the property has it.
LEMMA HeardIsPrefix ==
  ASSUME NEW song, IsALAC(song), NEW p \in Nat, NEW s, NEW out, HeardSoFar(song, p, s, out)
  PROVE  /\ s.at = p + Len(out)
         /\ IF p < song.full * Len(song.lens) THEN IsPrefix(out, HeardFrom(song, p)) ELSE out = <<>>
<1>1. s \in States /\ out \in Seq(Pairs)
  BY DEF HeardSoFar, LeftBy
<1>2. PICK n \in Nat : n = Len(out)
  BY <1>1
<1>3. PICK since \in Nat, asked \in Nat :
        since + Len(s.out) = n /\ Sounding(song, p, since, asked, s)
  BY <1>2 DEF HeardSoFar, LeftBy
<1>4. PICK lo \in Nat, lb \in Nat, po \in Nat : lo = Len(s.out) /\ lb = Len(s.buf) /\ po = s.pos
  BY <1>1 DEF States
<1>5. since + lo = n
  BY <1>3, <1>4
<1>6. s.at = p + n
  <2>1. s.at = (p + since) + lo
    BY <1>3, <1>4 DEF Sounding, ReadSoFar
  <2>2. (p + since) + lo = p + n
    BY <1>5
  <2> QED BY <2>1, <2>2
<1>7. PICK b \in Nat : Whole(song, p, b) /\ n <= b
  <2>1. po <= lb
    BY <1>3, <1>4 DEF Sounding, ReadSoFar
  <2>2. Whole(song, p, since + lo + (lb - po))
    BY <1>3, <1>4 DEF Sounding
  <2>3. since + lo + (lb - po) \in Nat /\ n <= since + lo + (lb - po)
    BY <1>5, <2>1
  <2> QED BY <2>2, <2>3
<1>8. CASE p < song.full * Len(song.lens)
  <2>1. PICK X \in Seq(Pairs) : X = HeardFrom(song, p) /\ n <= Len(X)
    <3>1. HeardFrom(song, p) \in Seq(Pairs) /\ b <= Len(HeardFrom(song, p))
      BY <1>7, <1>8, HeardType
    <3>2. PICK l \in Nat : l = Len(HeardFrom(song, p))
      BY <3>1
    <3>3. n <= l
      BY <1>7, <3>1, <3>2
    <3> QED BY <3>1, <3>2, <3>3
  <2>2. \A k \in 1 .. n : out[k] \in Pairs /\ X[k] \in Pairs /\ out[k] = X[k]
    <3>1. \A k \in 1 .. n : k \in 1 .. Len(out) /\ k \in 1 .. Len(X)
      BY <1>2, <2>1
    <3>2. \A k \in 1 .. n : out[k] \in Pairs /\ X[k] \in Pairs
      BY <1>1, <2>1, <3>1, ElementOfSeq
    <3> QED BY <1>2, <2>1, <3>2 DEF HeardSoFar
  <2>3. PICK v \in Seq(Pairs) : v = SubSeq(out, 1, n)
    <3>1. SubSeq(out, 1, n) \in Seq(Pairs)
      BY <2>2, SubSeqProperties
    <3> QED BY <3>1
  <2>4. PICK w \in Seq(Pairs) : w = SubSeq(X, 1, n)
    <3>1. SubSeq(X, 1, n) \in Seq(Pairs)
      BY <2>2, SubSeqProperties
    <3> QED BY <3>1
  <2>5. Len(v) = n /\ \A k \in 1 .. n : v[k] = out[k]
    <3>1. Len(SubSeq(out, 1, n)) = (IF 1 <= n THEN n - 1 + 1 ELSE 0)
      BY <2>2, SubSeqProperties
    <3>2. \A k \in 1 .. n - 1 + 1 : SubSeq(out, 1, n)[k] = out[1 + k - 1]
      BY <2>2, SubSeqProperties
    <3>3. n - 1 + 1 = n /\ \A k \in 1 .. n : 1 + k - 1 = k
      OBVIOUS
    <3> QED BY <2>3, <3>1, <3>2, <3>3
  <2>6. Len(w) = n /\ \A k \in 1 .. n : w[k] = X[k]
    <3>1. Len(SubSeq(X, 1, n)) = (IF 1 <= n THEN n - 1 + 1 ELSE 0)
      BY <2>2, SubSeqProperties
    <3>2. \A k \in 1 .. n - 1 + 1 : SubSeq(X, 1, n)[k] = X[1 + k - 1]
      BY <2>2, SubSeqProperties
    <3>3. n - 1 + 1 = n /\ \A k \in 1 .. n : 1 + k - 1 = k
      OBVIOUS
    <3> QED BY <2>4, <3>1, <3>2, <3>3
  <2>7. v = w
    BY <2>2, <2>5, <2>6, SeqEqual
  <2>8. IsPrefix(out, X)
    BY <1>2, <2>1, <2>3, <2>4, <2>7 DEF IsPrefix
  <2> QED BY <1>2, <1>6, <1>8, <2>1, <2>8
<1>9. CASE ~(p < song.full * Len(song.lens))
  <2>1. b = 0
    BY <1>7, <1>9 DEF Whole
  <2>2. Len(out) = 0
    BY <1>2, <1>7, <2>1
  <2>3. out = <<>>
    BY <1>1, <2>2, EmptySeq
  <2> QED BY <1>2, <1>6, <1>9, <2>3
<1> QED BY <1>8, <1>9

\* Whatever is sought to and however much is then read at a time, an ALAC song whose frames
\* all decode is heard from the start of the frame the sample is in, frame after frame;
\* the position is ahead of the sound by what was sought into the frame, and a short last
\* frame is heard again for as long as the position is short of a full one. A read gives
\* fewer than it was asked for only when the position is past the last frame (alacstream).
THEOREM EveryALACFrameIsHeard ==
  ASSUME NEW song, IsALAC(song), NEW to \in Int, NEW reads, reads \in Seq(Nat)
  PROVE  ReadsOnALAC(song, to, reads)
<1> DEFINE n == Len(reads)
           T == {h \in [s : States, out : Seq(Pairs)] : HeardSoFar(song, Clamped(song, to), h.s, h.out)}
           base == [s |-> Seek(song, Opened, to), out |-> <<>>]
           next(h, i) == LET s == Streamed(song, h.s, reads[i])
                         IN  [s |-> s, out |-> h.out \o s.out]
           step == [i \in 1 .. n |-> [h \in T |-> next(h, i)]]
           u == CHOOSE f : f = [i \in 0 .. n |-> IF i = 0 THEN base ELSE next(f[i - 1], i)]
<1>1. PICK p \in Nat : p = Clamped(song, to)
  <2>1. song.total \in Int
    <3>1. PICK N \in Nat : N = Len(song.lens)
      BY DEF IsALAC
    <3>2. PICK perSample \in Nat : song.total = (IF perSample > 0 THEN perSample ELSE song.full) * N
      BY <3>1 DEF IsALAC, ALACLength
    <3>3. song.full \in Nat
      BY DEF IsALAC
    <3> QED BY <3>2, <3>3
  <2> QED BY <2>1, ClampedType
<1>2. n \in Nat /\ \A i \in 1 .. n : reads[i] \in Nat
  BY ElementOfSeq
<1>3. base \in T
  <2>1. PICK e \in Seq(Pairs) : e = <<>>
    BY EmptySeq
  <2>2. PICK s : s = Seek(song, Opened, to)
    OBVIOUS
  <2>3. HeardSoFar(song, p, s, e)
    BY <1>1, <2>1, <2>2, ALACBegins
  <2>4. s \in States
    BY <2>3 DEF HeardSoFar, LeftBy
  <2>5. base = [s |-> s, out |-> e]
    BY <2>1, <2>2
  <2> HIDE DEF base
  <2>6. base \in [s : States, out : Seq(Pairs)] /\ base.s = s /\ base.out = e
    BY <2>4, <2>5
  <2> QED BY <1>1, <2>3, <2>6
<1>4. ASSUME NEW h \in T, NEW i \in 1 .. n
      PROVE  /\ next(h, i) \in T
             /\ \/ Len(next(h, i).s.out) = reads[i]
                \/ next(h, i).s.at >= song.full * Len(song.lens)
  <2>1. PICK m \in Nat : m = reads[i]
    BY <1>2
  <2>2. HeardSoFar(song, p, h.s, h.out)
    BY <1>1
  <2>3. PICK s, out : s = Streamed(song, h.s, m) /\ out = h.out \o s.out
    OBVIOUS
  <2>4. /\ HeardSoFar(song, p, s, out)
        /\ Len(s.out) = m \/ s.at >= song.full * Len(song.lens)
    BY <2>2, <2>3, ALACReadOn, ZenonT(40)
  <2>5. s \in States /\ out \in Seq(Pairs)
    BY <2>4 DEF HeardSoFar, LeftBy
  <2>6. next(h, i) = [s |-> s, out |-> out]
    BY <2>1, <2>3
  <2> HIDE DEF next
  <2>7. next(h, i) \in [s : States, out : Seq(Pairs)] /\ next(h, i).s = s /\ next(h, i).out = out
    BY <2>5, <2>6
  <2> QED BY <1>1, <2>1, <2>4, <2>7
<1>5. step \in [1 .. n -> [T -> T]] /\ \A i \in 1 .. n, h \in T : step[i][h] = next(h, i)
  <2> HIDE DEF n, T, next
  <2> QED BY <1>4
<1>6. PICK f : Follows(f, n, T, base, step)
  <2> HIDE DEF n, T, step, base
  <2> QED BY <1>2, <1>3, <1>5, Recursion
<1>7. f = [i \in 0 .. n |-> IF i = 0 THEN base ELSE next(f[i - 1], i)]
  <2> HIDE DEF step, n, T, next, base
  <2>1. f \in [0 .. n -> T] /\ \A i \in 1 .. n : f[i - 1] \in T
    BY <1>2, <1>6 DEF Follows
  <2>2. \A i \in 1 .. n : f[i] = next(f[i - 1], i)
    BY <1>5, <1>6, <2>1 DEF Follows
  <2> QED BY <1>2, <1>6, <2>1, <2>2 DEF Follows
<1>8. u = [i \in 0 .. n |-> IF i = 0 THEN base ELSE next(u[i - 1], i)]
  <2> HIDE DEF n, next, base
  <2> QED BY <1>7
<1>9. HeardAfter(song, to, reads) = u[n]
  BY Zenon DEF HeardAfter
<1> HIDE DEF u, n, T, next, base
<1>10. u[0] = base /\ \A i \in 1 .. n : u[i] = next(u[i - 1], i)
  <2>1. 0 \in 0 .. n /\ \A i \in 1 .. n : i \in 0 .. n /\ i # 0
    BY <1>2
  <2> QED BY <1>8, <2>1
<1>11. \A i \in 0 .. n : u[i] \in T
  <2>1. u[0] \in T /\ \A i \in 1 .. n : u[i - 1] \in T => u[i] \in T
    BY <1>3, <1>4, <1>10
  <2> QED BY <1>2, <2>1, Stays
<1>12. PICK all : all = HeardAfter(song, to, reads) /\ all = u[n] /\ all \in T
  BY <1>2, <1>9, <1>11
<1>13. reads = <<>> \/ Len(all.s.out) = reads[n] \/ all.s.at >= song.full * Len(song.lens)
  <2>1. CASE n = 0
    BY <2>1, EmptySeq DEF n
  <2>2. CASE n # 0
    <3>1. n \in 1 .. n /\ n - 1 \in 0 .. n
      BY <1>2, <2>2
    <3>2. u[n - 1] \in T /\ all = next(u[n - 1], n)
      BY <1>10, <1>11, <1>12, <3>1
    <3> QED BY <1>4, <3>1, <3>2
  <2> QED BY <2>1, <2>2
<1>14. HeardSoFar(song, p, all.s, all.out)
  BY <1>1, <1>12 DEF T
<1>15. PICK s, out : s = all.s /\ out = all.out /\ HeardSoFar(song, p, s, out)
  BY <1>14
<1>16. /\ s.at = p + Len(out)
       /\ IF p < song.full * Len(song.lens) THEN IsPrefix(out, HeardFrom(song, p)) ELSE out = <<>>
  BY <1>15, HeardIsPrefix
<1>17. FirstLost(song, p \div song.full + 1) = Len(song.lens) + 1
  <2>1. song.bad = {} /\ Len(song.lens) \in Nat
    BY DEF IsALAC
  <2>2. PICK N \in Nat : N = Len(song.lens) + 1
    BY <2>1
  <2>3. FirstLost(song, p \div song.full + 1) = Min({N})
    BY <2>1, <2>2 DEF FirstLost
  <2>4. Min({N}) = CHOOSE x \in {N} : \A y \in {N} : x <= y
    BY Zenon DEF Min
  <2>5. \E x \in {N} : \A y \in {N} : x <= y
    BY <2>2
  <2>6. (CHOOSE x \in {N} : \A y \in {N} : x <= y) \in {N}
    BY <2>5
  <2> QED BY <2>2, <2>3, <2>4, <2>6
<1>18. song.full * (FirstLost(song, p \div song.full + 1) - 1) = song.full * Len(song.lens)
  <2>1. PICK N \in Nat : N = Len(song.lens)
    BY DEF IsALAC
  <2>2. (N + 1) - 1 = N
    OBVIOUS
  <2> QED BY <1>17, <2>1, <2>2
<1>19. \A k \in DOMAIN all.out : all.out[k][1] \notin song.bad
  BY DEF IsALAC
<1> QED BY <1>1, <1>12, <1>13, <1>15, <1>16, <1>18, <1>19 DEF ReadsOnALAC, HeardFrom, Last, n

=============================================================================
