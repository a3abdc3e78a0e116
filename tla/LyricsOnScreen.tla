---------------------------- MODULE LyricsOnScreen ----------------------------
(***************************************************************************)
(* The lyrics of a track on screen: what LyricsFetch found, as Lyrics      *)
(* shows it.  Once a track has lyrics they may be any of the songs, seen   *)
(* at any moment, with any filter and in a panel of any size.              *)
(***************************************************************************)
EXTENDS LyricsFetch, Lyrics

CONSTANTS
  Songs,       \* what is sung, and sent to the overlay
  PanelSongs,  \* what is laid out in the panel
  Filters,     \* the agent asked for, NoAgent for all
  Moments,
  Heights,     \* of the panel
  Contexts,    \* the cap on the lines around the current ones, 0 for none
  Threshold    \* the gap that is counted down

\* A song in the order of its times, none before 0 (contract C8). The parsers sort, but
\* for parseSYLT, which keeps the order of the frame, and keep a time before 0 that an LRC,
\* QRC or YRC file writes: such songs are left out.
LineType == [time : Nat, end : Int, agent : STRING, text : STRING, rows : Nat]
OrderedSong(lines) ==
  /\ lines \in Seq(LineType)
  /\ \A i, j \in DOMAIN lines : i < j => lines[i].time <= lines[j].time

ASSUME ScreenAssumption ==
  /\ \A lines \in Songs \cup PanelSongs : OrderedSong(lines)
  /\ Moments \subseteq Int /\ Heights \subseteq Nat /\ Contexts \subseteq Nat

EverySongSung ==
  \A lines \in Songs, filter \in Filters, e \in Moments : SungRight(lines, filter, e)

EverySongSent ==
  \A lines \in Songs, e \in Moments : OverlayRight(lines, e)

EverySongShown ==
  \A lines \in PanelSongs, filter \in Filters, e \in Moments, height \in Heights, context \in Contexts :
    PanelRight(lines, filter, e, height, context, Threshold)

\* Ordered lyrics of a track have as active exactly the lines being sung, at every moment
\* and whatever lines overlap, wherever the file left the ends out (ActiveLines,
\* UpdateLyricIndex), and they are on screen: the panel's box shows the current lines and a
\* piece of the song around them without a hole, full if the song can fill it
\* (panelWindow), and the overlay is sent every line it needs, in a gap too
\* (buildLyricLinesJSON).
LyricsFollowSong == lyrics # None => EverySongSung /\ EverySongShown /\ EverySongSent
=============================================================================
