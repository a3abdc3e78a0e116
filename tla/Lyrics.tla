------------------------------- MODULE Lyrics -------------------------------
(***************************************************************************)
(* Which lyric lines are sung, and which rows of them are on screen:       *)
(* internal/lyrics/types.go, AudioState.UpdateLyricIndex, the panel        *)
(* (lyrics_panel_window.go, lyrics_panel_format.go) and the lines the      *)
(* overlay of the GUI gets (buildLyricLinesJSON).                          *)
(*                                                                         *)
(* These are functions of the lines, the agent filter and the time.  A     *)
(* line is a record [time, end, agent, text, rows]: rows is the height its *)
(* text takes once wrapped, and a blank line has none.  Lines are known by *)
(* their index, in the order the parser left them, which is that of their  *)
(* times but for SYLT frames (LyricsOnScreen).                             *)
(***************************************************************************)
EXTENDS Integers, SequencesExt

Dots == <<0, 1>>    \* the row of the countdown
Blank == <<-1, 0>>  \* an empty row of the panel
NoAgent == ""

Top(rows, n) == IF n < Len(rows) THEN SubSeq(rows, 1, n) ELSE rows
Bottom(rows, n) == IF n < Len(rows) THEN SubSeq(rows, Len(rows) - n + 1, Len(rows)) ELSE rows

Bounded(line) == line.end > line.time
Matches(line, filter) == filter = NoAgent \/ line.agent = filter

-----------------------------------------------------------------------------
(* Data. *)

\* A bug: a line is limited by the next one, also when they start together.
ActiveLimitsNext(lines) ==
  [i \in DOMAIN lines |-> IF i < Len(lines) THEN lines[i + 1].time ELSE -1]

\* activeLimits: the backward pass keeps the time of the next line that starts later.
ActiveLimits(lines) ==
  LET n == Len(lines)
      next[i \in 1 .. n] ==
        IF i = n THEN -1
        ELSE IF lines[i + 1].time > lines[i].time THEN lines[i + 1].time ELSE next[i + 1] IN
  next

\* ActiveLines, as the indices of its lines.
ActiveLines(lines, filter, e) ==
  LET limits == ActiveLimits(lines) IN
  {i \in DOMAIN lines :
     /\ Matches(lines[i], filter)
     /\ lines[i].time <= e
     /\ IF Bounded(lines[i]) THEN e < lines[i].end ELSE limits[i] < 0 \/ e < limits[i]}

\* VisibleLines.
VisibleLines(lines, filter) ==
  LET visible[i \in 0 .. Len(lines)] ==
        IF i = 0 THEN <<>>
        ELSE IF Matches(lines[i], filter) /\ lines[i].rows > 0 THEN Append(visible[i - 1], i)
        ELSE visible[i - 1] IN
  visible[Len(lines)]

\* UpdateLyricIndex: the index of a line sung alone, of the line waited for when none is
\* sung (one past the end for none), and how long the wait is.
LyricIndex(lines, filter, e) ==
  LET active == ActiveLines(lines, filter, e)
      later == {i \in DOMAIN lines : lines[i].time > e /\ Matches(lines[i], filter)}
      next == IF later = {} THEN Len(lines) + 1 ELSE Min(later)
      start == IF next = 1 THEN 0
               ELSE IF lines[next - 1].end <= 0 THEN lines[next - 1].time ELSE lines[next - 1].end IN
  [alone |-> IF Cardinality(active) = 1
             THEN Min({i \in DOMAIN lines : \E a \in active : lines[i].time = lines[a].time /\ lines[i].text = lines[a].text})
             ELSE 0,
   next |-> IF active = {} THEN next ELSE 0,
   gap |-> IF active = {} /\ later # {} THEN lines[next].time - start ELSE 0]

\* lyricCountdownDots: there is a line to wait for, longer than the threshold.
Counts(lines, filter, e, threshold) ==
  LyricIndex(lines, filter, e).gap > threshold

-----------------------------------------------------------------------------
(* The panel. *)

\* lineIsActive.
LineIsActive(lines, i, active) ==
  \E a \in active : lines[a].time = lines[i].time /\ lines[a].text = lines[i].text

\* panelCurrent, as positions in the visible lines.
PanelCurrent(lines, visible, filter, e) ==
  LET active == ActiveLines(lines, filter, e)
      sung == {p \in DOMAIN visible : LineIsActive(lines, visible[p], active)}
      started == {p \in DOMAIN visible : lines[visible[p]].time <= e} IN
  IF sung # {} THEN [first |-> Min(sung), last |-> Max(sung), sung |-> TRUE]
  ELSE IF started # {} THEN [first |-> Max(started), last |-> Max(started), sung |-> FALSE]
  ELSE [first |-> 1, last |-> 1, sung |-> FALSE]

\* panelLineRows: a line has one row after the other.
LineRows(lines, i) == [k \in 1 .. lines[i].rows |-> <<i, k>>]
GroupRows(lines, visible, first, last) ==
  FlattenSeq([p \in 1 .. last - first + 1 |-> LineRows(lines, visible[first + p - 1])])

\* fitAnchor.
FitAnchor(target, height, cur) ==
  LET fitted == IF target > height - cur THEN height - cur ELSE target IN
  IF fitted < 0 THEN 0 ELSE fitted

\* anchorRows: a third down, unless a side is too short to fill its share.
AnchorRows(height, context, cur, above, below) ==
  LET target == FitAnchor(height \div 3, height, cur)
      top == IF above < target THEN above ELSE target
      bottom == IF above + cur + below >= height /\ below < height - top - cur
                THEN height - cur - below ELSE top IN
  IF context > 0 THEN target ELSE FitAnchor(bottom, height, cur)

\* collectRows: whole lines away from the group, until the cap or the box is reached.
CollectRows(lines, visible, start, dir, height, context) ==
  LET available == IF dir > 0 THEN Len(visible) - start + 1 ELSE start
      cap == IF context > 0 /\ context < available THEN context ELSE available
      Taken(n) == IF dir > 0 THEN GroupRows(lines, visible, start, start + n - 1)
                  ELSE GroupRows(lines, visible, start - n + 1, start)
      enough == {n \in 0 .. cap : Len(Taken(n)) >= height} IN
  Taken(IF enough = {} THEN cap ELSE Min(enough))

\* The current group, and the countdown under it, or over the first line of the song.
CurrentRows(lines, visible, at, counts, e) ==
  LET group == GroupRows(lines, visible, at.first, at.last) IN
  IF at.sung \/ ~counts THEN group
  ELSE IF lines[visible[at.first]].time > e THEN <<Dots>> \o group ELSE Append(group, Dots)

\* panelWindow, of a box with room.
PanelWindow(lines, filter, e, height, context, threshold) ==
  LET visible == VisibleLines(lines, filter) IN
  IF visible = <<>> THEN [r \in 1 .. height |-> Blank]
  ELSE LET at == PanelCurrent(lines, visible, filter, e)
           rows == CurrentRows(lines, visible, at, Counts(lines, filter, e, threshold), e)
           cur == Top(rows, height)
           above == CollectRows(lines, visible, at.first - 1, -1, height, context)
           below == CollectRows(lines, visible, at.last + 1, 1, height, context)
           anchor == AnchorRows(height, context, Len(cur), Len(above), Len(below))
           upper == Bottom(above, anchor)
           lower == Top(below, height - anchor - Len(cur))
           shown == upper \o cur \o lower
           gap == anchor - Len(upper) IN
       [r \in 1 .. height |-> IF r - gap \in DOMAIN shown THEN shown[r - gap] ELSE Blank]

-----------------------------------------------------------------------------
(* The overlay. *)

\* The starting times of the lines that ended last.
EndedLast(lines, e) ==
  LET ended == {i \in DOMAIN lines : Bounded(lines[i]) /\ lines[i].end <= e} IN
  {lines[i].time : i \in {j \in ended : \A k \in ended : lines[k].end <= lines[j].end}}

\* buildLyricLinesJSON: the lines sung and the two starting times before and after
\* them, of every agent; in a gap also the lines that ended last.
OverlayLines(lines, e) ==
  LET active == {lines[i].time : i \in ActiveLines(lines, NoAgent, e)}
      all == {lines[i].time : i \in DOMAIN lines}
      earlier == {t \in all : t < Min(active)}
      \* the last time the walk backwards added
      reached == IF earlier # {} THEN Max(earlier) ELSE Max(active)
      times == IF active = {} THEN all ELSE active \cup earlier \cup {t \in all : t > reached}
      Rank(t) == Cardinality({u \in times : u < t})
      first == IF active = {} THEN Cardinality({t \in times : t <= e}) ELSE Rank(Min(active))
      last == IF active = {} THEN first - 1 ELSE Rank(Max(active))
      near == {t \in times : Rank(t) \in first - 2 .. last + 2} IN
  {i \in DOMAIN lines :
     \/ lines[i].time \in near
     \/ active = {} /\ lines[i].time \in EndedLast(lines, e)}

-----------------------------------------------------------------------------
(* Properties. *)

\* A line is sung from its time on: until its end if it has one, else until the time of
\* any line that starts later; lines that start together never cut each other off.
SungRight(lines, filter, e) ==
  ActiveLines(lines, filter, e) =
    {i \in DOMAIN lines :
       /\ Matches(lines[i], filter) /\ lines[i].time <= e
       /\ IF Bounded(lines[i]) THEN e < lines[i].end
          ELSE \A j \in DOMAIN lines : lines[j].time > lines[i].time => lines[j].time > e}

\* The panel shows one piece of the song, in order and without holes, from row gap + 1 on
\* and of the song from row k + 1 on, with the current group in it; and "every row that has
\* a lyric line to show is filled": a song with enough lines leaves no row blank unless the
\* context is capped.
PanelRight(lines, filter, e, height, context, threshold) ==
  LET visible == VisibleLines(lines, filter)
      window == PanelWindow(lines, filter, e, height, context, threshold)
      at == PanelCurrent(lines, visible, filter, e)
      before == GroupRows(lines, visible, 1, at.first - 1)
      group == CurrentRows(lines, visible, at, Counts(lines, filter, e, threshold), e)
      song == before \o group \o GroupRows(lines, visible, at.last + 1, Len(visible)) IN
  visible # <<>> =>
    \E gap \in 0 .. height : \E shown \in 0 .. height - gap, k \in 0 .. Len(before) :
      /\ k + shown <= Len(song)
      /\ \A r \in 1 .. height :
           window[r] = IF r \in gap + 1 .. gap + shown THEN song[k + r - gap] ELSE Blank
      /\ Len(before) + Len(Top(group, height)) <= k + shown
      /\ context = 0 /\ Len(song) >= height => shown = height

\* The overlay gets every line sung, whoever sings; the lines of the two times next to
\* them on each side; and in a gap every voice that ended last, however long it was held.
OverlayRight(lines, e) ==
  LET sent == OverlayLines(lines, e)
      active == ActiveLines(lines, NoAgent, e)
      Times(low, high) == {lines[i].time : i \in {j \in DOMAIN lines : lines[j].time > low /\ lines[j].time < high}}
      first == IF active = {} THEN e + 1 ELSE Min({lines[i].time : i \in active})
      last == IF active = {} THEN e ELSE Max({lines[i].time : i \in active}) IN
  /\ active \subseteq sent
  /\ \A i \in DOMAIN lines :
       \/ i \in sent
       \/ lines[i].time > last /\ Cardinality(Times(last, lines[i].time)) >= 2
       \/ lines[i].time < first /\ Cardinality(Times(lines[i].time, first)) >= 2
       \/ lines[i].time >= first /\ lines[i].time <= last
  /\ active = {} =>
       \A i \in DOMAIN lines \ sent : Bounded(lines[i]) /\ lines[i].end <= e =>
         \E j \in sent : Bounded(lines[j]) /\ lines[j].end <= e /\ lines[j].end > lines[i].end
=============================================================================
