----------------------------- MODULE MCTrackLoad -----------------------------
\* TrackLoad with the values TLC gives its constants (the TrackLoad_*.cfg files).
EXTENDS TrackLoad, TLC
=============================================================================
