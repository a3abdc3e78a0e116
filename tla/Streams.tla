------------------------------ MODULE Streams ------------------------------
(* The decoders that keep their place themselves: MP2 and Opus, which hold the whole
   file as frames, and ALAC, which finds its frame from the position
   (src/internal/audio/format: streamcore, mp2stream, opusstream, alacstream). Pure
   functions of a song and of the calls made of the decoder; the calls are serialised
   by the player (Player).

   A song is a record: kind; lens, the lengths of its frames as they decode; full, the
   length an ALAC frame has unless it is the last; bad, the frames that do not decode in
   their place: Opus packets that did when the file was opened, ALAC frames that cannot be
   read; total, what Len says. A sample is a pair of its frame and its place in it. *)
EXTENDS Integers, Sequences, FiniteSetsExt, SequencesExt

\* How long the first n frames are together.
SumLens(lens, n) ==
  LET sum[i \in 0 .. Len(lens)] == IF i = 0 THEN 0 ELSE sum[i - 1] + lens[i]
  IN  sum[n]

Decoded(song, frame) ==
  IF frame \in song.bad THEN <<>> ELSE [k \in 1 .. song.lens[frame] |-> <<frame, k>>]

\* Len. Opus: what the last page says, less the samples to skip at the start; where that
\* leaves nothing the packets are counted on top of it.
MP2Length(lens) == SumLens(lens, Len(lens))

OpusLength(lens, skip) ==
  LET said == SumLens(lens, Len(lens)) - skip
  IN  IF said <= 0 THEN said + SumLens(lens, Len(lens)) ELSE said

\* ALAC: as if every frame were like the first, as the time table has it, or full.
ALACLength(lens, perSample, full) == (IF perSample > 0 THEN perSample ELSE full) * Len(lens)

Opened == [at |-> 0, frame |-> 1, buf |-> <<>>, pos |-> 0, out |-> <<>>, ended |-> FALSE]

--------------------------------------------------------------------------
(* Stream *)

\* What fits of what is left of the decoded frame.
CopyToOutput(s, needed) ==
  LET n == Min({needed - Len(s.out), Len(s.buf) - s.pos})
  IN  [s EXCEPT !.out = @ \o SubSeq(s.buf, s.pos + 1, s.pos + n), !.pos = @ + n, !.at = @ + n]

FrameIndex(song, s) == IF song.kind = "alac" THEN s.at \div song.full + 1 ELSE s.frame

\* An Opus packet that does not decode is passed over, the buffer stays as it is; an ALAC
\* frame that does not ends the song.
NextFrame(song, s) ==
  LET i == FrameIndex(song, s)
  IN  IF i > Len(song.lens) \/ (song.kind = "alac" /\ i \in song.bad) THEN [s EXCEPT !.ended = TRUE]
      ELSE IF i \in song.bad THEN [s EXCEPT !.frame = i + 1]
      ELSE [s EXCEPT !.buf = Decoded(song, i), !.pos = 0, !.frame = i + 1]

Turn(song, s, needed) ==
  IF Len(s.out) = needed \/ s.ended THEN s
  ELSE IF s.pos < Len(s.buf) THEN CopyToOutput(s, needed)
  ELSE NextFrame(song, s)

\* Stream(samples): one turn of its loop after another, until the caller has what it
\* needs or the song ends. Asked at the end it gives nothing, and says so.
Streamed(song, before, needed) ==
  LET turns[n \in 0 .. 2 * (needed + Len(song.lens))] ==
        IF n = 0 THEN [before EXCEPT !.out = <<>>, !.ended = FALSE]
        ELSE Turn(song, turns[n - 1], needed)
  IN  turns[2 * (needed + Len(song.lens))]

--------------------------------------------------------------------------
(* Seek *)

ResetNothing(s) == s
ResetBuffer(s) == [s EXCEPT !.buf = <<>>, !.pos = 0]

\* The frame the sample is in, counting the frames' lengths; one past the last if none.
FrameOf(song, p) ==
  LET over == {i \in DOMAIN song.lens : SumLens(song.lens, i) > p}
  IN  IF over = {} THEN Len(song.lens) + 1 ELSE Min(over)

\* MP2 and Opus go to the start of the frame.
SeekFrame(song, s, p) ==
  LET frame == FrameOf(song, p)
      start == IF frame > Len(song.lens) THEN song.total ELSE SumLens(song.lens, frame - 1)
  IN  ResetBuffer([s EXCEPT !.frame = frame, !.at = start])

\* ALAC goes to the sample, in name.
SeekSample(s, p) == ResetBuffer([s EXCEPT !.at = p])

Clamped(song, to) == Max({0, Min({to, song.total})})

Seek(song, s, to) ==
  IF song.kind = "alac" THEN SeekSample(s, Clamped(song, to)) ELSE SeekFrame(song, s, Clamped(song, to))

\* A call: [seek |-> TRUE, n |-> where] or [seek |-> FALSE, n |-> how many].
Call(song, s, call) == IF call.seek THEN Seek(song, s, call.n) ELSE Streamed(song, s, call.n)

AfterCalls(song, calls) ==
  LET after[i \in 0 .. Len(calls)] == IF i = 0 THEN Opened ELSE Call(song, after[i - 1], calls[i])
  IN  after[Len(calls)]

--------------------------------------------------------------------------
(* What these functions are for *)

SamplesUpto(song, frame) ==
  LET upto[i \in 0 .. Len(song.lens)] == IF i = 0 THEN <<>> ELSE upto[i - 1] \o Decoded(song, i)
  IN  upto[frame]

Samples(song) == SamplesUpto(song, Len(song.lens))

\* What is heard of an ALAC song from a frame on: frame after frame, of which all but the
\* last are full, and a short last one again for as long as the position is short of a
\* full one.
HeardOfALAC(song, frame) ==
  LET last == Len(song.lens)
      short == song.lens[last]
      before == song.full * (last - frame)
  IN  [k \in 1 .. before + song.full + short - 1 |->
         IF k <= before THEN <<frame + (k - 1) \div song.full, ((k - 1) % song.full) + 1>>
         ELSE <<last, ((k - before - 1) % short) + 1>>]

\* Whatever was read and sought before (calls), the next read of n samples gives the n
\* that follow the position, every one and in order; fewer only where the song ends, and
\* none only at the end, which alone stops the player (Stream, Seek, CopyToOutput). A
\* packet that does not decode is skipped; the position then counts what was heard.
ReadsOn(song, calls, n) ==
  LET s == AfterCalls(song, calls)
      r == Streamed(song, s, n)
      want == SubSeq(Samples(song), s.at + 1, Min({s.at + n, Len(Samples(song))}))
  IN  r.out = want /\ r.at = s.at + Len(want) /\ r.ended = (Len(want) < n)

\* Where a decoder is after a seek and these reads, and all they gave.
HeardAfter(song, to, reads) ==
  LET heard[i \in 0 .. Len(reads)] ==
        IF i = 0 THEN [s |-> Seek(song, Opened, to), out |-> <<>>]
        ELSE LET s == Streamed(song, heard[i - 1].s, reads[i])
             IN  [s |-> s, out |-> heard[i - 1].out \o s.out]
  IN  heard[Len(reads)]

\* The first frame from there on that does not decode, or one past the last.
FirstLost(song, frame) == Min({Len(song.lens) + 1} \cup {i \in song.bad : i >= frame})

\* ALAC: after a seek the whole frame is heard, and the position is ahead of the sound by
\* what was sought into it; a short last frame is heard again. A read gives fewer than it
\* was asked for only when the position is past the last frame, or past the last one
\* before a frame that does not decode, of which nothing is heard.
ReadsOnALAC(song, to, reads) ==
  LET p == Clamped(song, to)
      all == HeardAfter(song, to, reads)
      end == song.full * (FirstLost(song, p \div song.full + 1) - 1)
  IN  /\ IF p < end THEN IsPrefix(all.out, HeardOfALAC(song, p \div song.full + 1)) ELSE all.out = <<>>
      /\ \A k \in DOMAIN all.out : all.out[k][1] \notin song.bad
      /\ all.s.at = p + Len(all.out)
      /\ reads = <<>> \/ Len(all.s.out) = Last(reads) \/ all.s.at >= end
=============================================================================
