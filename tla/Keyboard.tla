------------------------------- MODULE Keyboard -------------------------------
\* The keys of normal mode, and what they mean while an animation is over the page
\* (ui/keyboard_normal.go), with the entry to command mode and the commands that
\* concern what is on the screen. The text of the command line is CommandLine's.
EXTENDS Animation

CONSTANT Gui             \* hosted by the window

ASSUME GuiAssumption == Gui \in BOOLEAN

NextFocus == [tabs |-> "content", content |-> "footer", footer |-> "tabs"]

\* UI.Mode, UI.Focus, QuitConfirm, and whether the program runs. SavedFocus is left
\* out: no key of command mode moves the focus, so leaving it restores what is there.
VARIABLE ui

vars == <<animVars, ui>>

TypeOK ==
  /\ AnimTypeOK
  /\ ui \in [mode : {"normal", "command"}, focus : DOMAIN NextFocus,
             confirm : BOOLEAN, running : BOOLEAN]

Init ==
  /\ AnimInit
  /\ ui = [mode |-> "normal", focus |-> "content", confirm |-> FALSE,
           running |-> TRUE]

Normal == ui.running /\ ui.mode = "normal"

-------------------------------------------------------------------------------
\* Tier 0: an animation that is showing takes Enter at a warning and Escape, and is
\* closed by whatever goes to a tab.
Atop(acts) == IF anim.visible THEN acts ELSE UNCHANGED animVars

Leave == Atop(AnimClose)

PressEnter == Normal /\ anim.visible /\ Approve /\ UNCHANGED ui

PressEscape ==
  /\ Normal
  /\ IF anim.visible
       THEN AnimClose /\ UNCHANGED ui
       ELSE ui' = [ui EXCEPT !.confirm = FALSE] /\ UNCHANGED animVars

\* Which page comes up makes no difference to the animation: a turn through the tabs.
GoToTab == Normal /\ Leave /\ UNCHANGED ui

PressTabKey == GoToTab

PressArrow == ui.focus = "tabs" /\ GoToTab

-------------------------------------------------------------------------------
\* Tiers 1 and 3.
PressSpace == Normal /\ TogglePlayback /\ UNCHANGED ui

PressCommand ==
  /\ Normal
  /\ ui' = [ui EXCEPT !.mode = "command"]
  /\ UNCHANGED animVars

PressCycle ==
  /\ Normal
  /\ ui' = [ui EXCEPT !.focus = NextFocus[@]]
  /\ UNCHANGED animVars

\* ctrl+c and q are not for a hosted program, whose window asks.
PressQuit ==
  /\ ui.running /\ ~Gui
  /\ ui' = [ui EXCEPT !.running = FALSE]
  /\ UNCHANGED animVars

PressQ ==
  /\ Normal /\ ~Gui
  /\ ui' = IF ui.confirm THEN [ui EXCEPT !.running = FALSE]
                         ELSE [ui EXCEPT !.confirm = TRUE]
  /\ UNCHANGED animVars

-------------------------------------------------------------------------------
\* Command mode: Escape and every command end it.
Command == ui.running /\ ui.mode = "command"
BackToNormal == [ui EXCEPT !.mode = "normal"]

LeaveCommand == Command /\ ui' = BackToNormal /\ UNCHANGED animVars

CommandAnim == Command /\ ui' = BackToNormal /\ AnimToggle

CommandOpen == Command /\ ui' = BackToNormal /\ \E p \in Path : LoadTrack(p)

CommandQuit ==
  /\ Command
  /\ ui' = [BackToNormal EXCEPT !.running = FALSE]
  /\ UNCHANGED animVars

\* A file dropped on the window or written to standard input.
Drop == ui.running /\ (\E p \in Path : LoadTrack(p)) /\ UNCHANGED ui

-------------------------------------------------------------------------------
Press == PressEnter \/ PressEscape \/ PressTabKey \/ PressArrow \/ PressSpace
         \/ PressCommand \/ PressCycle \/ PressQuit \/ PressQ

Execute == LeaveCommand \/ CommandAnim \/ CommandOpen \/ CommandQuit

Event == ui.running /\ UNCHANGED ui
         /\ (HandleAnimLoaded \/ AnimSync \/ HandleAudioLoaded \/ LoadTrackFailed)

World == ui.running /\ UNCHANGED ui /\ (Resize \/ BatteryChanges)

Next == (Press \/ Execute \/ Drop \/ Event \/ World) /\ anim'.generation <= MaxGen

Spec == Init /\ [][Next]_vars

\* The program lives on, and so do its goroutines and the tick.
FairSpec == Spec /\ WF_vars(ui.running /\ UNCHANGED ui /\ HandleAnimLoaded
                            /\ anim'.generation <= MaxGen)

-------------------------------------------------------------------------------
\* The surface is about the track that plays: the animation shown, the load that
\* waits behind the battery warning and the one under way are all of that track, and
\* while the warning stands nothing is being read. A result that arrives late, for a
\* track replaced or a surface closed since, changes none of it (anim/load.go: Apply).
SurfaceFollowsTrack ==
  /\ anim.player # 0 => anim.path = track
  /\ anim.held => /\ anim.pending = track /\ anim.player = 0 /\ ~anim.loading
                  /\ \A c \in commands : c.generation # anim.generation
  /\ anim.loading => \E c \in commands : /\ c.generation = anim.generation
                                         /\ c.path = track

\* Nothing flashes before somebody has chosen to see it: what fails the gate is
\* neither drawn nor runs its clock unless Enter was pressed at its own warning. And
\* no player but the one on the surface runs a clock, so none wakes the program for
\* a surface nobody draws (anim.go: Close).
NothingFlashesUnasked ==
  /\ clocks \subseteq {anim.player}
  /\ anim.player \in clocks \/ FrameDrawn =>
       anim.visible /\ (Fails(Sidecar[anim.path]) => anim.player \in chosen)

\* A frame that is drawn has the size of its area or of the animation, whatever was
\* resized while it was loading, gated or paused, unless the player refused that very
\* size (anim.go: Fits, Sync).
FrameFits == FrameDrawn => Fit(area) \in {anim.sized, anim.failed}

\* What is on the page is of this track and of this size (anim.go, load.go). Every
\* variable keeps its type meanwhile.
SurfaceTrue == TypeOK /\ SurfaceFollowsTrack /\ FrameFits

\* The loading indicator goes away: by the result, or by what closes the surface.
LoadingEnds == anim.loading ~> (~anim.loading \/ ~ui.running)

=============================================================================
