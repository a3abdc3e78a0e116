----------------------------- MODULE MCPlayback -----------------------------
\* Playback with the values TLC gives its constants (the Playback*.cfg files).
EXTENDS Playback

\* Every track has the same title and artist: two recordings of one song.
OneTitle == [t \in 0 .. MaxTrack |-> IF t = 0 THEN "" ELSE "song"]
=============================================================================
