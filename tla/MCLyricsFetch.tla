---------------------------- MODULE MCLyricsFetch ----------------------------
\* LyricsOnScreen with the values TLC gives its constants (the LyricsFetch_*.cfg files).
EXTENDS LyricsOnScreen

InOrder(n, Kind) ==
  {lines \in [1 .. n -> Kind] : \A i \in 1 .. n - 1 : lines[i].time <= lines[i + 1].time}

\* Lines that start together, overlap, end early, or "end" before they start.
Voices == [time : 0 .. 2, end : 0 .. 3, agent : {NoAgent, "v1"}, text : {"la"}, rows : {1}]
\* Lines held for long.
Holds == [time : 0 .. 3, end : {0, 2, 3, 4}, agent : {NoAgent}, text : {"la"}, rows : {1}]
\* Lines that are blank, or wrap.
Blocks == {line \in [time : 0 .. 2, end : 0 .. 3, agent : {NoAgent}, text : {"la"}, rows : 0 .. 2] :
             line.end \in {0, line.time + 1}}

\* Every song of up to three lines, sung by two voices or one of them, or of four held ones.
SmallSongs == UNION {InOrder(n, Voices) : n \in 0 .. 3} \cup UNION {InOrder(n, Holds) : n \in 1 .. 4}
SmallBlocks == UNION {InOrder(n, Blocks) : n \in 1 .. 3}

Everyone == {NoAgent, "v1"}
FirstMoments == 0 .. 4
SmallHeights == 1 .. 5
AllOrOne == 0 .. 1
=============================================================================
