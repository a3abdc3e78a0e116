------------------------------ MODULE Animation ------------------------------
\* The animation of a track (internal/anim and its use in internal/ui): a sidecar
\* file is read in the background, stands behind up to two warnings, and is drawn
\* over the page the user is on. Tracks are replaced meanwhile, the terminal is
\* resized, and results of loads that lost arrive late.
EXTENDS Naturals, FiniteSets

CONSTANTS
  Path,        \* the tracks there are
  None,        \* not a track
  Sidecar,     \* what lies beside each of them: a function on Path
  MaxGen       \* bound on the surface's generation

\* A sidecar is missing, cannot be parsed, is calm, declares that it flashes, or
\* flashes without declaring it.
SidecarKind == {"none", "broken", "calm", "declared", "undeclared"}
GateMode == {"either", "declared", "off"}

ASSUME SidecarAssumption == Sidecar \in [Path -> SidecarKind]
ASSUME NoneAssumption == None \notin Path
ASSUME MaxGenAssumption == MaxGen \in Nat

\* The size of every animation, and the sizes of the area it may get: less and more
\* than it needs.
View == 2
Area == {1, 3}

VARIABLES
  config,      \* auto, immediate (track_switch_mode) and gate: fixed for a run
  battery,     \* what the system would answer now: low or fine
  area,        \* the content area of the layout plan
  track,       \* Audio.Player.Path(), None without a player
  isPlaying,   \* Audio.IsPlaying
  replacing,   \* the path of the pending load
  anim,        \* anim.State
  clocks,      \* generations of the players whose clock runs
  commands,    \* loads whose LoadedMsg has not been handled
  intent,      \* followTrackAnimation and heldTrackAnimation
  chosen       \* history: generations the viewer let through the flashing gate

animVars == <<config, battery, area, track, isPlaying, replacing, anim, clocks,
              commands, intent, chosen>>

\* A surface nobody opened; Close keeps only the answer and counts the generation.
\* The load that is held is pending, for the area it was asked for.
Idle ==
  [visible |-> FALSE, loading |-> FALSE, gated |-> FALSE, held |-> FALSE,
   pending |-> None, asked |-> 0, player |-> 0, path |-> None, flashes |-> FALSE,
   columns |-> 0, sized |-> 0, failed |-> 0, answered |-> FALSE, generation |-> 0]

Fit(areaW) == IF areaW < View THEN areaW ELSE View

AnimTypeOK ==
  /\ config \in [auto : BOOLEAN, immediate : BOOLEAN, gate : GateMode]
  /\ battery \in {"low", "fine"} /\ area \in Area /\ isPlaying \in BOOLEAN
  /\ {track, replacing} \subseteq Path \cup {None}
  /\ anim \in [visible : BOOLEAN, loading : BOOLEAN, gated : BOOLEAN, held : BOOLEAN,
               pending : Path \cup {None}, asked : {0} \cup Area, player : Nat,
               path : Path \cup {None}, flashes : BOOLEAN, columns : {0} \cup Area, sized : 0 .. View,
               failed : 0 .. View, answered : BOOLEAN, generation : Nat]
  /\ clocks \subseteq Nat /\ chosen \subseteq Nat
  /\ commands \subseteq [generation : Nat, path : Path, columns : Area]
  /\ intent \in [follow : BOOLEAN, held : BOOLEAN]

AnimInit ==
  /\ config \in [auto : BOOLEAN, immediate : BOOLEAN, gate : GateMode]
  /\ battery \in {"low", "fine"}
  /\ area = 3
  /\ track = None
  /\ isPlaying = FALSE
  /\ replacing = None
  /\ anim = Idle
  /\ clocks = {}
  /\ commands = {}
  /\ intent = [follow |-> FALSE, held |-> FALSE]
  /\ chosen = {}

-------------------------------------------------------------------------------
\* The surface's own operations, as functions on its state.

Closed(s) == [Idle EXCEPT !.answered = s.answered, !.generation = s.generation + 1]

ClocksLeft(s) == clocks

\* Close pauses the player it lets go; a surface without one has no clock to stop.
ClocksClosed(s) == clocks \ {s.player}

Held(s, path) ==
  [Closed(s) EXCEPT !.held = TRUE, !.pending = path, !.asked = area, !.visible = TRUE]

\* LoadFor: the surface keeps whatever it shows until the load is applied.
Loading(s) ==
  [s EXCEPT !.held = FALSE, !.pending = None, !.asked = 0, !.failed = 0, !.loading = TRUE,
            !.generation = @ + 1]

LoadCommand(s, path, columns) ==
  [generation |-> s.generation + 1, path |-> path, columns |-> columns]

\* LowBattery asks the system each time, until the question has been answered.
LowBattery(s) == ~s.answered /\ battery = "low"

\* The gate acts on the file's own check, and in the strictest mode on the analysis
\* of its frames, which the other modes do not make.
Fails(kind) ==
  \/ kind = "declared" /\ config.gate # "off"
  \/ kind = "undeclared" /\ config.gate = "either"

Readable(kind) == kind \notin {"none", "broken"}

StartLoad(s, path, columns) ==
  /\ anim' = Loading(s)
  /\ commands' = commands \cup {LoadCommand(s, path, columns)}

-------------------------------------------------------------------------------
\* The command :anim.
AnimToggle ==
  \/ anim.loading /\ UNCHANGED animVars
  \/ /\ ~anim.loading /\ anim.visible
     /\ anim' = Closed(anim)
     /\ clocks' = ClocksClosed(anim)
     /\ UNCHANGED <<config, battery, area, track, isPlaying, replacing, commands,
                    intent, chosen>>
  \/ /\ ~anim.loading /\ ~anim.visible
     /\ track = None
     /\ UNCHANGED animVars
  \/ /\ ~anim.loading /\ ~anim.visible
     /\ track # None
     /\ IF LowBattery(anim)
          THEN /\ anim' = Held(anim, track)
               /\ clocks' = ClocksClosed(anim)
               /\ UNCHANGED commands
          ELSE StartLoad(anim, track, area) /\ UNCHANGED clocks
     /\ UNCHANGED <<config, battery, area, track, isPlaying, replacing, intent,
                    chosen>>

\* Enter at a warning: the load that was held is made, for the area it was held with,
\* the player that was gated is started.
Approve ==
  /\ anim.held \/ anim.gated
  /\ IF anim.held
       THEN /\ StartLoad([anim EXCEPT !.answered = TRUE], anim.pending, anim.asked)
            /\ UNCHANGED <<clocks, chosen>>
       ELSE /\ anim' = [anim EXCEPT !.gated = FALSE]
            /\ clocks' = clocks \cup {anim.player}
            /\ chosen' = chosen \cup {anim.player}
            /\ UNCHANGED commands
  /\ UNCHANGED <<config, battery, area, track, isPlaying, replacing, intent>>

AnimClose ==
  /\ anim' = Closed(anim)
  /\ clocks' = ClocksClosed(anim)
  /\ UNCHANGED <<config, battery, area, track, isPlaying, replacing, commands,
                 intent, chosen>>

-------------------------------------------------------------------------------
\* Messages and ticks.

CurrentAlways(c) == TRUE

\* A result older than the newest LoadFor or Close is dropped.
Current(c) == c.generation = anim.generation

AppliedHere(c) ==
  [anim EXCEPT !.loading = FALSE, !.path = c.path, !.visible = Readable(Sidecar[c.path]),
     !.player = IF Readable(Sidecar[c.path]) THEN c.generation ELSE 0,
     !.gated = Fails(Sidecar[c.path]), !.columns = area, !.sized = Fit(c.columns)]

Applied(c) ==
  LET kind == Sidecar[c.path]
      base == [anim EXCEPT !.loading = FALSE, !.path = c.path, !.flashes = FALSE,
                           !.player = 0, !.gated = FALSE,
                           !.columns = IF Readable(kind) THEN c.columns ELSE 0,
                           !.sized = IF Readable(kind) THEN Fit(c.columns) ELSE 0]
  IN  IF Readable(kind)
        THEN [base EXCEPT !.visible = TRUE, !.player = c.generation,
                          !.flashes = kind \in {"declared", "undeclared"},
                          !.gated = Fails(kind)]
        ELSE [base EXCEPT !.visible = FALSE]

HandleReadable ==
  \E c \in commands :
    /\ Readable(Sidecar[c.path])
    /\ commands' = commands \ {c}
    /\ anim' = IF Current(c) THEN Applied(c) ELSE anim
    /\ UNCHANGED <<config, battery, area, track, isPlaying, replacing, clocks, intent,
                   chosen>>

\* handleAnimLoaded.
HandleAnimLoaded ==
  \E c \in commands :
    /\ commands' = commands \ {c}
    /\ IF Current(c)
         THEN /\ anim' = Applied(c)
              /\ clocks' = IF Readable(Sidecar[c.path]) /\ ~Fails(Sidecar[c.path])
                             THEN clocks \cup {c.generation} ELSE clocks
         ELSE UNCHANGED <<anim, clocks>>
    /\ UNCHANGED <<config, battery, area, track, isPlaying, replacing, intent,
                   chosen>>

\* Sync, on every tick: the box and the clock follow the layout and the audio. The
\* player may refuse a size; the box it has is then kept.
AnimSync ==
  /\ anim.visible /\ anim.player # 0 /\ ~anim.gated
  /\ \E refused \in BOOLEAN :
       LET box == Fit(area)
           resized == box # anim.sized
       IN  /\ refused => resized
           /\ anim' = [anim EXCEPT !.columns = area,
                                   !.sized = IF resized /\ ~refused THEN box ELSE @,
                                   !.failed = IF refused THEN box ELSE @]
  /\ clocks' = IF isPlaying THEN clocks \cup {anim.player} ELSE clocks \ {anim.player}
  /\ UNCHANGED <<config, battery, area, track, isPlaying, replacing, commands,
                 intent, chosen>>

Resize ==
  /\ area' \in Area
  /\ UNCHANGED <<config, battery, track, isPlaying, replacing, anim, clocks,
                 commands, intent, chosen>>

BatteryChanges ==
  /\ battery' \in {"low", "fine"}
  /\ UNCHANGED <<config, area, track, isPlaying, replacing, anim, clocks,
                 commands, intent, chosen>>

TogglePlayback ==
  /\ track # None
  /\ isPlaying' = ~isPlaying
  /\ UNCHANGED <<config, battery, area, track, replacing, anim, clocks,
                 commands, intent, chosen>>

-------------------------------------------------------------------------------
\* Tracks. TrackLoad has the loads in full; here the newest one is accepted or
\* fails, at any time.

\* handleLoadTrack: an immediate switch closes the surface and keeps what it was
\* wanted for.
LoadTrack(path) ==
  /\ replacing' = path
  /\ IF config.immediate
       THEN /\ intent' = [intent EXCEPT
                 !.follow = @ \/ anim.visible \/ config.auto \/ anim.loading,
                 !.held = @ \/ anim.held]
            /\ anim' = Closed(anim)
            /\ clocks' = ClocksClosed(anim)
            /\ track' = None
            /\ isPlaying' = FALSE
       ELSE UNCHANGED <<intent, anim, clocks, track, isPlaying>>
  /\ UNCHANGED <<config, battery, area, commands, chosen>>

LoadTrackFailed ==
  /\ replacing # None
  /\ replacing' = None
  /\ UNCHANGED <<config, battery, area, track, isPlaying, anim, clocks, commands,
                 intent, chosen>>

\* loadTrackAnimation: a load that merely follows the track stands down on a low
\* battery, unless the old track's one was waiting for an answer.
FollowTrack ==
  LET follow == intent.follow \/ anim.visible \/ config.auto \/ anim.loading
      held == intent.held \/ anim.held
      s == Closed(anim)
  IN  /\ intent' = [follow |-> FALSE, held |-> FALSE]
      /\ clocks' = ClocksClosed(anim)
      /\ \/ /\ ~follow \/ (LowBattery(s) /\ ~held)
            /\ anim' = s
            /\ UNCHANGED commands
         \/ /\ follow /\ LowBattery(s) /\ held
            /\ anim' = Held(s, replacing)
            /\ UNCHANGED commands
         \/ /\ follow /\ ~LowBattery(s)
            /\ StartLoad(s, replacing, area)

HandleAudioLoaded ==
  /\ replacing # None
  /\ track' = replacing
  /\ replacing' = None
  /\ isPlaying' = TRUE
  /\ FollowTrack
  /\ UNCHANGED <<config, battery, area, chosen>>

-------------------------------------------------------------------------------
\* What is on the screen: animBody and animFrame.

\* A frame is drawn only by a surface synced for the area the page has now.
FrameDrawn ==
  /\ anim.visible /\ ~anim.loading /\ ~anim.held /\ ~anim.gated
  /\ anim.columns = area
  /\ anim.player # 0
=============================================================================
