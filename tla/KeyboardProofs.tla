--------------------------- MODULE KeyboardProofs ---------------------------
(***************************************************************************)
(* Theorems about Keyboard and the Animation it drives, for any tracks,    *)
(* whatever lies beside them, and any sequence of keys, drops, late        *)
(* results, resizes and ticks; about CommandLine, the text the keys of     *)
(* command mode write, for any commands, limits and pastes; about Drop,    *)
(* what becomes of the names of dropped files, whatever they are; and      *)
(* about Config, what becomes of the settings of any file over any runs.   *)
(***************************************************************************)
EXTENDS Keyboard, LineFiles, SequenceTheorems, WellFoundedInduction, TLAPS

Surface ==
  [visible : BOOLEAN, loading : BOOLEAN, gated : BOOLEAN, held : BOOLEAN,
   pending : Path \cup {None}, asked : {0} \cup Area, player : Nat, path : Path \cup {None},
   flashes : BOOLEAN, columns : {0} \cup Area, sized : 0 .. View,
   failed : 0 .. View, answered : BOOLEAN, generation : Nat]
LoadType == [generation : Nat, path : Path, columns : Area]

-----------------------------------------------------------------------------
(* Keyboard: its inductive invariant. *)

\* What the surface shows, holds or reads is of the track that plays, and it does one of
\* the three; a player it has drew its frames for the area it noted, or refused to.
Coherent ==
  /\ anim.player # 0 => /\ anim.path = track /\ anim.visible /\ ~anim.loading /\ ~anim.held
                        /\ Fit(anim.columns) \in {anim.sized, anim.failed}
  /\ anim.held => anim.pending = track /\ track \in Path /\ anim.asked \in Area /\ ~anim.loading
  /\ anim.gated => anim.player # 0
  /\ anim.loading => \E c \in commands : c.generation = anim.generation

\* The loads under way have generations of their own. The surface is not ahead of the
\* newest exactly as long as it waits for it, and it is for this track.
Newest ==
  /\ \A c \in commands : 0 < c.generation /\ c.generation <= anim.generation
  /\ \A c \in commands : c.generation = anim.generation => c.path = track /\ anim.loading
  /\ \A c, d \in commands : c.generation = d.generation => c = d

\* A player behind the gate has no clock, and leaves it by being chosen.
Gate ==
  /\ clocks \subseteq {anim.player} /\ 0 \notin clocks
  /\ anim.gated => clocks = {}
  /\ anim.player # 0 /\ ~anim.gated /\ Fails(Sidecar[anim.path]) => anim.player \in chosen

IInv == TypeOK /\ Coherent /\ Newest /\ Gate

-----------------------------------------------------------------------------
(* What the operations make of a surface. *)

LEMMA FitType == \A a \in {0} \cup Area : Fit(a) \in 0 .. View
BY DEF Fit, Area, View

LEMMA ClosedSurface ==
  ASSUME NEW s \in Surface
  PROVE  /\ Closed(s) \in Surface
         /\ Closed(s).player = 0 /\ ~Closed(s).held /\ ~Closed(s).gated /\ ~Closed(s).loading
         /\ Closed(s).generation = s.generation + 1
<1>1. Idle \in Surface /\ Idle.player = 0 /\ ~Idle.held /\ ~Idle.gated /\ ~Idle.loading
  BY DEF Idle, Surface, View
<1>2. s.answered \in BOOLEAN /\ s.generation + 1 \in Nat
  BY DEF Surface
<1> QED BY <1>1, <1>2 DEF Closed, Surface

LEMMA HeldSurface ==
  ASSUME NEW s \in Surface, NEW p \in Path, area \in Area
  PROVE  /\ Held(s, p) \in Surface
         /\ Held(s, p).player = 0 /\ Held(s, p).held /\ Held(s, p).pending = p
         /\ Held(s, p).asked \in Area
         /\ ~Held(s, p).gated /\ ~Held(s, p).loading
         /\ Held(s, p).generation = s.generation + 1
<1> DEFINE t == Closed(s)
<1>1. /\ t \in Surface /\ t.player = 0 /\ ~t.gated /\ ~t.loading
      /\ t.generation = s.generation + 1
  BY ClosedSurface
<1>2. Held(s, p) = [t EXCEPT !.held = TRUE, !.pending = p, !.asked = area, !.visible = TRUE]
  BY DEF Held
<1> HIDE DEF t
<1> QED BY <1>1, <1>2 DEF Surface

LEMMA LoadingSurface ==
  ASSUME NEW s \in Surface
  PROVE  /\ Loading(s) \in Surface
         /\ Loading(s).player = s.player /\ ~Loading(s).held /\ Loading(s).gated = s.gated
         /\ Loading(s).loading
         /\ Loading(s).generation = s.generation + 1
<1>1. s.generation \in Nat /\ s.generation + 1 \in Nat /\ 0 \in 0 .. View
  BY DEF Surface, View
<1> DEFINE g == s.generation + 1
<1>2. Loading(s) = [s EXCEPT !.held = FALSE, !.pending = None, !.asked = 0, !.failed = 0,
                             !.loading = TRUE, !.generation = g]
  BY DEF Loading
<1>3. g \in Nat
  BY <1>1
<1> HIDE DEF g
<1>4. /\ Loading(s).player = s.player /\ ~Loading(s).held /\ Loading(s).gated = s.gated
      /\ Loading(s).loading
      /\ Loading(s).generation = g
  BY <1>2 DEF Surface
<1>5. Loading(s) \in Surface
  BY <1>1, <1>2, <1>3 DEF Surface
<1> QED BY <1>4, <1>5 DEF g

\* The surface is left without a player, and without a clock; it waits for no load.
LEMMA CloseStep ==
  ASSUME IInv, anim' \in Surface, anim'.player = 0, ~anim'.gated, ~anim'.loading,
         anim'.generation = anim.generation + 1 \/ anim'.generation = anim.generation + 2,
         anim'.held => anim'.pending = track' /\ track' \in Path /\ anim'.asked \in Area,
         clocks' = ClocksClosed(anim), commands' = commands
  PROVE  Coherent' /\ Newest' /\ Gate' /\ clocks' \subseteq Nat
<1>0. anim \in Surface /\ clocks \subseteq Nat /\ commands \subseteq LoadType
  BY DEF IInv, TypeOK, AnimTypeOK, Surface, LoadType
<1>1. clocks' = {}
  BY DEF IInv, Gate, ClocksClosed
<1>2. Coherent' /\ Gate'
  BY <1>1 DEF Coherent, Gate
<1>3. Newest'
  <2>1. \A c \in commands : c.generation \in Nat
    BY <1>0 DEF LoadType
  <2>2. anim.generation \in Nat
    BY <1>0 DEF Surface
  <2> QED BY <2>1, <2>2 DEF IInv, Newest
<1> QED BY <1>1, <1>2, <1>3

\* A load of the track is started, on a surface without a player.
LEMMA LoadStep ==
  ASSUME IInv, NEW s \in Surface, NEW p \in Path, NEW a \in Area, StartLoad(s, p, a), p = track',
         s.player = 0, ~s.gated,
         s.generation = anim.generation \/ s.generation = anim.generation + 1,
         clocks' = {}
  PROVE  /\ Coherent' /\ Newest' /\ Gate'
         /\ anim' \in Surface /\ clocks' \subseteq Nat /\ commands' \subseteq LoadType
<1> DEFINE c == LoadCommand(s, p, a)
<1>0. /\ anim \in Surface /\ commands \subseteq LoadType
      /\ anim.generation \in Nat /\ s.generation \in Nat
  BY DEF IInv, TypeOK, AnimTypeOK, Surface, LoadType
<1>1. c \in LoadType /\ c.generation = s.generation + 1 /\ c.path = p
  BY <1>0 DEF LoadCommand, LoadType
<1>2. anim' = Loading(s) /\ commands' = commands \cup {c}
  BY DEF StartLoad
<1> HIDE DEF c
<1>3. /\ anim' \in Surface /\ anim'.player = 0 /\ ~anim'.held /\ ~anim'.gated /\ anim'.loading
      /\ anim'.generation = s.generation + 1
  BY <1>2, LoadingSurface
<1>4. commands' \subseteq LoadType
  BY <1>0, <1>1, <1>2
<1>5. \A d \in commands : d.generation \in Nat /\ 0 < d.generation /\ d.generation < s.generation + 1
  <2>1. \A d \in commands : d.generation \in Nat
    BY <1>0 DEF LoadType
  <2> QED BY <1>0, <2>1 DEF IInv, Newest
<1>6. Newest'
  <2>1. \A d \in commands' : d = c \/ d \in commands
    BY <1>2
  <2>2. \A d \in commands : d.generation # c.generation
    BY <1>0, <1>1, <1>5
  <2>3. \A d \in commands' : 0 < d.generation /\ d.generation <= anim'.generation
    <3>1. 0 < c.generation /\ c.generation <= anim'.generation
      BY <1>0, <1>1, <1>3
    <3>2. \A d \in commands : 0 < d.generation /\ d.generation <= anim'.generation
      BY <1>0, <1>3, <1>5
    <3> QED BY <2>1, <3>1, <3>2
  <2>4. \A d \in commands' : d.generation = anim'.generation => d.path = track' /\ anim'.loading
    BY <1>1, <1>3, <2>1, <2>2
  <2>5. \A d, e \in commands' : d.generation = e.generation => d = e
    BY <2>1, <2>2 DEF IInv, Newest
  <2> QED BY <2>3, <2>4, <2>5 DEF Newest
<1>7. Coherent'
  BY <1>1, <1>2, <1>3 DEF Coherent
<1>8. Gate'
  BY <1>3 DEF Gate
<1> QED BY <1>3, <1>4, <1>6, <1>7, <1>8

-----------------------------------------------------------------------------
(* The operations of the animation. *)

Kept == AnimTypeOK /\ Coherent /\ Newest /\ Gate

\* What changes nothing on the surface: a resize that no tick has seen yet, the battery,
\* pausing, a load that fails.
LEMMA QuietStep ==
  ASSUME IInv, UNCHANGED <<config, track, anim, clocks, commands, intent, chosen>>,
         battery' \in {"low", "fine"}, area' \in Area, isPlaying' \in BOOLEAN,
         replacing' \in Path \cup {None}
  PROVE  Kept'
<1>1. AnimTypeOK'
  BY DEF IInv, TypeOK, AnimTypeOK
<1>2. Coherent' /\ Newest' /\ Gate'
  <2>1. UNCHANGED anim /\ UNCHANGED track /\ UNCHANGED commands /\ UNCHANGED clocks /\ UNCHANGED chosen
        /\ UNCHANGED config
    OBVIOUS
  <2>2. Fails(Sidecar[anim.path])' = Fails(Sidecar[anim.path])
    BY <2>1 DEF Fails
  <2> QED BY <2>1, <2>2 DEF IInv, Coherent, Newest, Gate
<1> QED BY <1>1, <1>2 DEF Kept

\* Whatever the surface was showing or waiting for.
LEMMA AnimCloseStep ==
  ASSUME IInv, AnimClose PROVE Kept'
<1>0. anim \in Surface
  BY DEF IInv, TypeOK, AnimTypeOK, Surface
<1>1. /\ anim' \in Surface /\ anim'.player = 0 /\ ~anim'.held /\ ~anim'.gated /\ ~anim'.loading
      /\ anim'.generation = anim.generation + 1
      /\ clocks' = ClocksClosed(anim) /\ commands' = commands
  BY <1>0, ClosedSurface DEF AnimClose
<1>2. Coherent' /\ Newest' /\ Gate' /\ clocks' \subseteq Nat
  BY <1>1, CloseStep
<1>3. AnimTypeOK'
  BY <1>1, <1>2 DEF AnimClose, IInv, TypeOK, AnimTypeOK, Surface
<1> QED BY <1>2, <1>3 DEF Kept

\* The command :anim: the surface is closed, held at the battery's warning, or loaded.
LEMMA AnimToggleStep ==
  ASSUME IInv, AnimToggle PROVE Kept'
<1>0. anim \in Surface /\ clocks \subseteq Nat /\ area \in Area
  BY DEF IInv, TypeOK, AnimTypeOK, Surface
<1>1. CASE UNCHANGED animVars
  BY <1>1, QuietStep DEF animVars, IInv, TypeOK, AnimTypeOK
<1>2. CASE AnimClose
  BY <1>2, AnimCloseStep
<1>3. CASE /\ ~anim.loading /\ ~anim.visible /\ track # None
           /\ anim' = Held(anim, track) /\ clocks' = ClocksClosed(anim)
           /\ UNCHANGED <<config, battery, area, track, isPlaying, replacing, commands, intent, chosen>>
  <2>1. track \in Path
    BY <1>3 DEF IInv, TypeOK, AnimTypeOK
  <2>2. /\ anim' \in Surface /\ anim'.player = 0 /\ ~anim'.gated /\ ~anim'.loading
        /\ anim'.generation = anim.generation + 1
        /\ anim'.held => anim'.pending = track' /\ track' \in Path /\ anim'.asked \in Area
    BY <1>0, <1>3, <2>1, HeldSurface
  <2>3. Coherent' /\ Newest' /\ Gate' /\ clocks' \subseteq Nat
    BY <1>3, <2>2, CloseStep
  <2>4. AnimTypeOK'
    BY <1>3, <2>2, <2>3 DEF IInv, TypeOK, AnimTypeOK, Surface
  <2> QED BY <2>3, <2>4 DEF Kept
<1>4. CASE /\ ~anim.loading /\ ~anim.visible /\ track # None
           /\ StartLoad(anim, track, area)
           /\ UNCHANGED <<config, battery, area, track, isPlaying, replacing, clocks, intent, chosen>>
  <2>1. track \in Path
    BY <1>4 DEF IInv, TypeOK, AnimTypeOK
  <2>2. anim.player = 0 /\ ~anim.gated /\ clocks = {}
    BY <1>4 DEF IInv, Coherent, Gate
  <2>3. /\ Coherent' /\ Newest' /\ Gate'
        /\ anim' \in Surface /\ clocks' \subseteq Nat /\ commands' \subseteq LoadType
    <3>1. track' = track /\ clocks' = {}
      BY <1>4, <2>2
    <3> SUFFICES ASSUME NEW p, p = track
                 PROVE  /\ Coherent' /\ Newest' /\ Gate'
                        /\ anim' \in Surface /\ clocks' \subseteq Nat /\ commands' \subseteq LoadType
      OBVIOUS
    <3> QED BY <1>0, <1>4, <2>1, <2>2, <3>1, LoadStep
  <2>4. AnimTypeOK'
    BY <1>4, <2>3 DEF IInv, TypeOK, AnimTypeOK, Surface, LoadType
  <2> QED BY <2>3, <2>4 DEF Kept
<1> QED BY <1>1, <1>2, <1>3, <1>4 DEF AnimToggle, AnimClose

\* Enter at a warning: the load that was held is made, or the player that was gated is
\* chosen and its clock runs.
LEMMA ApproveStep ==
  ASSUME IInv, Approve PROVE Kept'
<1>0. anim \in Surface /\ clocks \subseteq Nat
  BY DEF IInv, TypeOK, AnimTypeOK, Surface
<1>f. UNCHANGED <<config, battery, area, track, isPlaying, replacing, intent>>
  BY DEF Approve
<1>1. CASE /\ anim.held /\ StartLoad([anim EXCEPT !.answered = TRUE], anim.pending, anim.asked)
           /\ UNCHANGED <<clocks, chosen>>
  <2> DEFINE s == [anim EXCEPT !.answered = TRUE]
  <2>1. s \in Surface /\ s.player = anim.player /\ s.gated = anim.gated /\ s.generation = anim.generation
    BY <1>0 DEF Surface
  <2>2. anim.pending = track /\ track \in Path /\ anim.player = 0 /\ ~anim.gated /\ clocks = {}
    BY <1>1 DEF IInv, Coherent, Gate
  <2>3. anim.asked \in Area /\ StartLoad(s, anim.pending, anim.asked)
    BY <1>1 DEF IInv, Coherent
  <2> HIDE DEF s
  <2>4. /\ Coherent' /\ Newest' /\ Gate'
        /\ anim' \in Surface /\ clocks' \subseteq Nat /\ commands' \subseteq LoadType
    <3> SUFFICES ASSUME NEW p, p = anim.pending, NEW a \in Area, StartLoad(s, p, a)
                 PROVE  /\ Coherent' /\ Newest' /\ Gate'
                        /\ anim' \in Surface /\ clocks' \subseteq Nat /\ commands' \subseteq LoadType
      BY <2>3
    <3>1. track' = p /\ clocks' = {} /\ p \in Path
      BY <1>1, <1>f, <2>2
    <3> QED BY <2>1, <2>2, <2>3, <3>1, LoadStep
  <2>5. AnimTypeOK'
    BY <1>1, <1>f, <2>4 DEF IInv, TypeOK, AnimTypeOK, Surface, LoadType
  <2> QED BY <2>4, <2>5 DEF Kept
<1>2. CASE /\ anim.gated /\ anim' = [anim EXCEPT !.gated = FALSE]
           /\ clocks' = clocks \cup {anim.player} /\ chosen' = chosen \cup {anim.player}
           /\ UNCHANGED commands
  <2>1. /\ anim' \in Surface /\ ~anim'.gated
        /\ anim'.player = anim.player /\ anim'.path = anim.path /\ anim'.visible = anim.visible
        /\ anim'.loading = anim.loading /\ anim'.held = anim.held /\ anim'.pending = anim.pending
        /\ anim'.asked = anim.asked
        /\ anim'.columns = anim.columns /\ anim'.sized = anim.sized /\ anim'.failed = anim.failed
        /\ anim'.generation = anim.generation
    BY <1>0, <1>2 DEF Surface
  <2>2. anim.player # 0 /\ clocks = {} /\ anim.player \in Nat
    BY <1>0, <1>2 DEF IInv, Coherent, Gate, Surface
  <2>3. Coherent' /\ Newest'
    BY <1>2, <1>f, <2>1 DEF IInv, Coherent, Newest
  <2>4. Gate'
    BY <1>2, <2>1, <2>2 DEF Gate
  <2>5. AnimTypeOK'
    BY <1>2, <1>f, <2>1, <2>2 DEF IInv, TypeOK, AnimTypeOK, Surface
  <2> QED BY <2>3, <2>4, <2>5 DEF Kept
<1> QED BY <1>1, <1>2 DEF Approve

\* What a result makes of the surface.
LEMMA AppliedSurface ==
  ASSUME anim \in Surface, NEW c \in LoadType, Sidecar[c.path] \in SidecarKind
  PROVE  /\ Applied(c) \in Surface
         /\ Applied(c).path = c.path /\ ~Applied(c).loading /\ Applied(c).held = anim.held
         /\ Applied(c).generation = anim.generation /\ Applied(c).failed = anim.failed
         /\ Readable(Sidecar[c.path]) =>
              /\ Applied(c).player = c.generation /\ Applied(c).visible
              /\ Applied(c).gated = Fails(Sidecar[c.path])
              /\ Applied(c).columns = c.columns /\ Applied(c).sized = Fit(c.columns)
         /\ ~Readable(Sidecar[c.path]) => Applied(c).player = 0 /\ ~Applied(c).gated
<1> DEFINE kind == Sidecar[c.path]
           base == [anim EXCEPT !.loading = FALSE, !.path = c.path, !.flashes = FALSE,
                                !.player = 0, !.gated = FALSE,
                                !.columns = IF Readable(kind) THEN c.columns ELSE 0,
                                !.sized = IF Readable(kind) THEN Fit(c.columns) ELSE 0]
           flash == kind \in {"declared", "undeclared"}
           fails == Fails(kind)
<1>1. c.generation \in Nat /\ c.path \in Path /\ c.columns \in {0} \cup Area /\ Fit(c.columns) \in 0 .. View
  BY FitType DEF LoadType
<1>2. flash \in BOOLEAN /\ fails \in BOOLEAN
  BY DEF Fails
<1>3. Applied(c) = IF Readable(kind)
                     THEN [base EXCEPT !.visible = TRUE, !.player = c.generation,
                                       !.flashes = flash, !.gated = fails]
                     ELSE [base EXCEPT !.visible = FALSE]
  BY DEF Applied
<1>4. CASE Readable(kind)
  <2> HIDE DEF flash, fails
  <2>1. base = [anim EXCEPT !.loading = FALSE, !.path = c.path, !.flashes = FALSE,
                            !.player = 0, !.gated = FALSE,
                            !.columns = c.columns, !.sized = Fit(c.columns)]
    BY <1>4
  <2> HIDE DEF base
  <2>2. Applied(c) = [base EXCEPT !.visible = TRUE, !.player = c.generation,
                                  !.flashes = flash, !.gated = fails]
    BY <1>3, <1>4
  <2>3. base \in Surface /\ base.path = c.path /\ ~base.loading /\ base.held = anim.held
        /\ base.generation = anim.generation /\ base.failed = anim.failed
        /\ base.columns = c.columns /\ base.sized = Fit(c.columns)
    BY <1>1, <2>1 DEF Surface
  <2>4. /\ Applied(c) \in Surface
        /\ Applied(c).path = c.path /\ ~Applied(c).loading /\ Applied(c).held = anim.held
        /\ Applied(c).generation = anim.generation /\ Applied(c).failed = anim.failed
        /\ Applied(c).player = c.generation /\ Applied(c).visible
        /\ Applied(c).gated = fails
        /\ Applied(c).columns = c.columns /\ Applied(c).sized = Fit(c.columns)
    <3>1. Applied(c) \in Surface
      BY <1>1, <1>2, <2>2, <2>3 DEF Surface
    <3>2. /\ Applied(c).player = c.generation /\ Applied(c).visible /\ Applied(c).gated = fails
      BY <2>2, <2>3 DEF Surface
    <3>3. /\ Applied(c).path = base.path /\ Applied(c).loading = base.loading
          /\ Applied(c).held = base.held
          /\ Applied(c).generation = base.generation /\ Applied(c).failed = base.failed
          /\ Applied(c).columns = base.columns /\ Applied(c).sized = base.sized
      BY <2>2, <2>3 DEF Surface
    <3> QED BY <2>3, <3>1, <3>2, <3>3
  <2> QED BY <1>4, <2>4 DEF fails
<1>5. CASE ~Readable(kind)
  <2>1. base = [anim EXCEPT !.loading = FALSE, !.path = c.path, !.flashes = FALSE,
                            !.player = 0, !.gated = FALSE, !.columns = 0, !.sized = 0]
    BY <1>5
  <2> HIDE DEF base, flash, fails
  <2>2. Applied(c) = [base EXCEPT !.visible = FALSE]
    BY <1>3, <1>5
  <2>3. base \in Surface /\ base.path = c.path /\ ~base.loading /\ base.held = anim.held
        /\ base.generation = anim.generation /\ base.failed = anim.failed
        /\ base.player = 0 /\ ~base.gated
    <3>1. 0 \in 0 .. View
      BY DEF View
    <3> QED BY <1>1, <2>1, <3>1 DEF Surface
  <2>4. /\ Applied(c) \in Surface
        /\ Applied(c).path = c.path /\ ~Applied(c).loading /\ Applied(c).held = anim.held
        /\ Applied(c).generation = anim.generation /\ Applied(c).failed = anim.failed
        /\ Applied(c).player = 0 /\ ~Applied(c).gated
    BY <2>2, <2>3 DEF Surface
  <2> QED BY <1>5, <2>4
<1> QED BY <1>4, <1>5

\* A result arrives: of the newest load, and then it is for this track and the surface
\* waits for it; or late, and then it is dropped.
LEMMA HandleAnimLoadedStep ==
  ASSUME IInv, HandleAnimLoaded PROVE Kept'
<1>0. anim \in Surface /\ clocks \subseteq Nat /\ commands \subseteq LoadType
  BY DEF IInv, TypeOK, AnimTypeOK, Surface, LoadType
<1>1. PICK c \in commands :
        /\ commands' = commands \ {c}
        /\ IF Current(c)
             THEN /\ anim' = Applied(c)
                  /\ clocks' = IF Readable(Sidecar[c.path]) /\ ~Fails(Sidecar[c.path])
                                 THEN clocks \cup {c.generation} ELSE clocks
             ELSE UNCHANGED <<anim, clocks>>
        /\ UNCHANGED <<config, battery, area, track, isPlaying, replacing, intent, chosen>>
  BY DEF HandleAnimLoaded
<1>2. c \in LoadType /\ Sidecar[c.path] \in SidecarKind /\ c.columns \in Area
  BY <1>0, SidecarAssumption DEF LoadType
<1>3. CASE ~Current(c)
  <2>1. UNCHANGED <<anim, clocks, track, chosen, config>>
    BY <1>1, <1>3
  <2>2. Coherent' /\ Newest'
    BY <1>1, <1>3, <2>1 DEF IInv, Coherent, Newest, Current
  <2>3. Gate'
    <3>1. Fails(Sidecar[anim.path])' = Fails(Sidecar[anim.path])
      BY <2>1 DEF Fails
    <3> QED BY <2>1, <3>1 DEF IInv, Gate
  <2>4. AnimTypeOK'
    BY <1>1, <2>1 DEF IInv, TypeOK, AnimTypeOK
  <2> QED BY <2>2, <2>3, <2>4 DEF Kept
<1>4. CASE Current(c)
  <2>1. anim' = Applied(c) /\ c.generation = anim.generation
    BY <1>1, <1>4 DEF Current
  <2>2. /\ anim.loading /\ c.path = track /\ anim.player = 0 /\ ~anim.held
        /\ clocks = {} /\ 0 < c.generation /\ c.generation \in Nat
    BY <1>0, <1>2, <2>1 DEF IInv, Coherent, Newest, Gate, LoadType
  <2>3. /\ anim' \in Surface /\ anim'.path = c.path /\ ~anim'.loading /\ ~anim'.held
        /\ anim'.generation = anim.generation
        /\ Readable(Sidecar[c.path]) =>
             /\ anim'.player = c.generation /\ anim'.visible
             /\ anim'.gated = Fails(Sidecar[c.path])
             /\ anim'.columns = c.columns /\ anim'.sized = Fit(c.columns)
        /\ ~Readable(Sidecar[c.path]) => anim'.player = 0 /\ ~anim'.gated
    BY <1>0, <1>2, <2>1, <2>2, AppliedSurface
  <2>4. Coherent'
    BY <1>1, <2>2, <2>3 DEF Coherent
  <2>5. Newest'
    BY <1>1, <2>1, <2>3 DEF IInv, Newest
  <2>6. clocks' = IF Readable(Sidecar[c.path]) /\ ~Fails(Sidecar[c.path]) THEN {c.generation} ELSE {}
    BY <1>1, <1>4, <2>2
  <2>7. Gate'
    <3>1. Fails(Sidecar[anim.path])' = Fails(Sidecar[c.path])
      BY <1>1, <2>3 DEF Fails
    <3>2. CASE Readable(Sidecar[c.path])
      BY <2>2, <2>3, <2>6, <3>1, <3>2 DEF Gate
    <3>3. CASE ~Readable(Sidecar[c.path])
      BY <2>3, <2>6, <3>3 DEF Gate
    <3> QED BY <3>2, <3>3
  <2>8. AnimTypeOK'
    <3>1. clocks' \subseteq Nat
      BY <2>2, <2>6
    <3> QED BY <1>1, <2>3, <3>1 DEF IInv, TypeOK, AnimTypeOK, Surface
  <2> QED BY <2>4, <2>5, <2>7, <2>8 DEF Kept
<1> QED BY <1>3, <1>4

\* A tick: the box and the clock of a player that passed the gate.
LEMMA AnimSyncStep ==
  ASSUME IInv, AnimSync PROVE Kept'
<1>0. anim \in Surface /\ clocks \subseteq Nat /\ area \in Area /\ Fit(area) \in 0 .. View
  BY FitType DEF IInv, TypeOK, AnimTypeOK, Surface
<1>1. /\ anim.visible /\ anim.player # 0 /\ ~anim.gated
      /\ clocks' = IF isPlaying THEN clocks \cup {anim.player} ELSE clocks \ {anim.player}
      /\ UNCHANGED <<config, battery, area, track, isPlaying, replacing, commands, intent, chosen>>
  BY DEF AnimSync
<1>2. PICK sized, failed :
        /\ anim' = [anim EXCEPT !.columns = area, !.sized = sized, !.failed = failed]
        /\ sized \in {anim.sized, Fit(area)} /\ failed \in {anim.failed, Fit(area)}
        /\ Fit(area) \in {sized, failed}
  <2>1. PICK refused \in BOOLEAN :
          /\ refused => Fit(area) # anim.sized
          /\ anim' = [anim EXCEPT !.columns = area,
                        !.sized = IF Fit(area) # anim.sized /\ ~refused THEN Fit(area) ELSE @,
                        !.failed = IF refused THEN Fit(area) ELSE @]
    BY DEF AnimSync
  <2> DEFINE sized == IF Fit(area) # anim.sized /\ ~refused THEN Fit(area) ELSE anim.sized
             failed == IF refused THEN Fit(area) ELSE anim.failed
  <2>2. anim' = [anim EXCEPT !.columns = area, !.sized = sized, !.failed = failed]
    BY <2>1
  <2>3. /\ sized \in {anim.sized, Fit(area)} /\ failed \in {anim.failed, Fit(area)}
        /\ Fit(area) \in {sized, failed}
    BY <2>1
  <2> HIDE DEF sized, failed
  <2> QED BY <2>2, <2>3
<1>3. /\ anim' \in Surface /\ anim'.columns = area /\ anim'.sized = sized /\ anim'.failed = failed
      /\ anim'.player = anim.player /\ anim'.path = anim.path /\ anim'.visible = anim.visible
      /\ anim'.loading = anim.loading /\ anim'.held = anim.held /\ anim'.pending = anim.pending
      /\ anim'.asked = anim.asked
      /\ anim'.gated = anim.gated /\ anim'.generation = anim.generation
  BY <1>0, <1>2 DEF Surface
<1>4. Coherent' /\ Newest'
  BY <1>1, <1>2, <1>3 DEF IInv, Coherent, Newest
<1>5. Gate'
  <2>1. Fails(Sidecar[anim.path])' = Fails(Sidecar[anim.path])
    BY <1>1, <1>3 DEF Fails
  <2>2. clocks' \subseteq {anim.player} /\ 0 \notin clocks'
    BY <1>1 DEF IInv, Gate
  <2> QED BY <1>1, <1>3, <2>1, <2>2 DEF IInv, Gate
<1>6. AnimTypeOK'
  <2>1. clocks' \subseteq Nat
    BY <1>0, <1>1 DEF Surface
  <2> QED BY <1>1, <1>3, <2>1 DEF IInv, TypeOK, AnimTypeOK, Surface
<1> QED BY <1>4, <1>5, <1>6 DEF Kept

\* A track is asked for: at once, and then the surface goes with the track, or when it is
\* ready.
LEMMA LoadTrackStep ==
  ASSUME IInv, NEW p \in Path, LoadTrack(p) PROVE Kept'
<1>0. anim \in Surface
  BY DEF IInv, TypeOK, AnimTypeOK, Surface
<1>1. replacing' = p /\ UNCHANGED <<config, battery, area, commands, chosen>>
  BY DEF LoadTrack
<1>2. CASE /\ anim' = Closed(anim) /\ clocks' = ClocksClosed(anim)
           /\ track' = None /\ isPlaying' = FALSE
           /\ intent' = [intent EXCEPT !.follow = @ \/ anim.visible \/ config.auto \/ anim.loading,
                                       !.held = @ \/ anim.held]
  <2>1. /\ anim' \in Surface /\ anim'.player = 0 /\ ~anim'.held /\ ~anim'.gated /\ ~anim'.loading
        /\ anim'.generation = anim.generation + 1
    BY <1>0, <1>2, ClosedSurface
  <2>2. Coherent' /\ Newest' /\ Gate' /\ clocks' \subseteq Nat
    BY <1>1, <1>2, <2>1, CloseStep
  <2>3. intent' \in [follow : BOOLEAN, held : BOOLEAN]
    <3>1. intent \in [follow : BOOLEAN, held : BOOLEAN]
      BY DEF IInv, TypeOK, AnimTypeOK
    <3>2. PICK a \in BOOLEAN, b \in BOOLEAN : intent' = [intent EXCEPT !.follow = a, !.held = b]
      BY <1>2
    <3> QED BY <3>1, <3>2
  <2>4. AnimTypeOK'
    BY <1>1, <1>2, <2>1, <2>2, <2>3 DEF IInv, TypeOK, AnimTypeOK, Surface
  <2> QED BY <2>2, <2>4 DEF Kept
<1>3. CASE UNCHANGED <<intent, anim, clocks, track, isPlaying>>
  BY <1>1, <1>3, QuietStep DEF IInv, TypeOK, AnimTypeOK
<1> QED BY <1>2, <1>3 DEF LoadTrack

\* A track is adopted: the surface of the one before is closed, and what it was for
\* decides whether another is read, held, or left alone.
LEMMA HandleAudioLoadedStep ==
  ASSUME IInv, HandleAudioLoaded PROVE Kept'
<1> DEFINE s == Closed(anim)
<1>0. anim \in Surface /\ clocks \subseteq Nat /\ anim.generation \in Nat /\ area \in Area
  BY DEF IInv, TypeOK, AnimTypeOK, Surface
<1>1. /\ replacing \in Path /\ track' = replacing /\ replacing' = None /\ isPlaying' = TRUE
      /\ UNCHANGED <<config, battery, area, chosen>>
      /\ intent' = [follow |-> FALSE, held |-> FALSE]
      /\ clocks' = ClocksClosed(anim)
  BY DEF HandleAudioLoaded, FollowTrack, IInv, TypeOK, AnimTypeOK
<1>2. \/ anim' = s /\ UNCHANGED commands
      \/ anim' = Held(s, replacing) /\ UNCHANGED commands
      \/ StartLoad(s, replacing, area)
  BY DEF HandleAudioLoaded, FollowTrack
<1>3. /\ s \in Surface /\ s.player = 0 /\ ~s.held /\ ~s.gated /\ ~s.loading
      /\ s.generation = anim.generation + 1
  BY <1>0, ClosedSurface
<1> HIDE DEF s
<1>4. clocks' = {}
  BY <1>1 DEF IInv, Gate, ClocksClosed
<1>5. CASE anim' = s /\ UNCHANGED commands
  <2>1. Coherent' /\ Newest' /\ Gate' /\ clocks' \subseteq Nat
    BY <1>1, <1>3, <1>5, CloseStep
  <2> QED BY <1>1, <1>3, <1>5, <2>1 DEF Kept, IInv, TypeOK, AnimTypeOK, Surface
<1>6. CASE anim' = Held(s, replacing) /\ UNCHANGED commands
  <2>1. /\ anim' \in Surface /\ anim'.player = 0 /\ ~anim'.gated /\ ~anim'.loading
        /\ anim'.pending = replacing /\ anim'.asked \in Area /\ anim'.generation = s.generation + 1
    BY <1>0, <1>1, <1>3, <1>6, HeldSurface
  <2>2. anim'.generation = anim.generation + 2
    BY <1>0, <1>3, <2>1
  <2>3. Coherent' /\ Newest' /\ Gate' /\ clocks' \subseteq Nat
    BY <1>1, <1>6, <2>1, <2>2, CloseStep
  <2> QED BY <1>1, <1>6, <2>1, <2>3 DEF Kept, IInv, TypeOK, AnimTypeOK, Surface
<1>7. CASE StartLoad(s, replacing, area)
  <2>1. /\ Coherent' /\ Newest' /\ Gate'
        /\ anim' \in Surface /\ clocks' \subseteq Nat /\ commands' \subseteq LoadType
    BY <1>0, <1>1, <1>3, <1>4, <1>7, LoadStep
  <2> QED BY <1>1, <2>1 DEF Kept, IInv, TypeOK, AnimTypeOK, Surface, LoadType
<1> QED BY <1>2, <1>5, <1>6, <1>7

-----------------------------------------------------------------------------
(* What holds of every run. *)

\* The program starts with a surface nobody opened.
LEMMA InitInv == Init => IInv
<1> SUFFICES ASSUME Init PROVE IInv
  OBVIOUS
<1>1. AnimInit
  BY DEF Init
<1>2. anim = Idle /\ Idle \in Surface /\ Idle.player = 0 /\ ~Idle.held /\ ~Idle.gated /\ ~Idle.loading
  BY <1>1 DEF AnimInit, Idle, Surface, View
<1>3. AnimTypeOK
  BY <1>1, <1>2 DEF AnimInit, AnimTypeOK, Surface, Area
<1>4. ui \in [mode : {"normal", "command"}, focus : DOMAIN NextFocus, confirm : BOOLEAN, running : BOOLEAN]
  BY DEF Init, NextFocus
<1>5. Coherent /\ Newest /\ Gate
  BY <1>1, <1>2 DEF AnimInit, Coherent, Newest, Gate
<1> QED BY <1>3, <1>4, <1>5 DEF IInv, TypeOK

\* Every key, command, event and turn of the world, in either mode.
LEMMA InvStep ==
  ASSUME IInv, [Next]_vars PROVE IInv'
<1> DEFINE Ui == [mode : {"normal", "command"}, focus : DOMAIN NextFocus, confirm : BOOLEAN, running : BOOLEAN]
<1>0. ui \in Ui /\ AnimTypeOK
  BY DEF IInv, TypeOK
<1>1. /\ ui.confirm \in BOOLEAN
      /\ NextFocus[ui.focus] \in DOMAIN NextFocus
  BY <1>0 DEF NextFocus
<1>2. ui' \in Ui
  <2>1. BackToNormal \in Ui /\ [BackToNormal EXCEPT !.running = FALSE] \in Ui
    BY <1>0 DEF BackToNormal
  <2>2. /\ [ui EXCEPT !.confirm = FALSE] \in Ui /\ [ui EXCEPT !.confirm = TRUE] \in Ui
        /\ [ui EXCEPT !.mode = "command"] \in Ui /\ [ui EXCEPT !.running = FALSE] \in Ui
    BY <1>0
  <2>3. [ui EXCEPT !.focus = NextFocus[@]] \in Ui
    BY <1>0, <1>1
  <2>4. \/ UNCHANGED ui
        \/ ui' \in {BackToNormal, [BackToNormal EXCEPT !.running = FALSE],
                    [ui EXCEPT !.confirm = FALSE], [ui EXCEPT !.confirm = TRUE],
                    [ui EXCEPT !.mode = "command"], [ui EXCEPT !.running = FALSE],
                    [ui EXCEPT !.focus = NextFocus[@]]}
    BY DEF Next, vars, Press, Execute, Event, World, PressEnter, PressEscape, GoToTab, PressTabKey,
           PressArrow, PressSpace, PressCommand, PressCycle, PressQuit, PressQ,
           LeaveCommand, CommandAnim, CommandOpen, CommandQuit, Drop
  <2> HIDE DEF Ui
  <2> QED BY <1>0, <2>1, <2>2, <2>3, <2>4
<1>3. \/ UNCHANGED animVars \/ AnimClose \/ Approve \/ TogglePlayback \/ AnimToggle
      \/ (\E p \in Path : LoadTrack(p)) \/ HandleAnimLoaded \/ AnimSync \/ HandleAudioLoaded
      \/ LoadTrackFailed \/ Resize \/ BatteryChanges
  BY DEF Next, vars, Press, Execute, Event, World, PressEnter, PressEscape, GoToTab, PressTabKey,
         PressArrow, PressSpace, PressCommand, PressCycle, PressQuit, PressQ,
         LeaveCommand, CommandAnim, CommandOpen, CommandQuit, Drop, Leave, Atop
<1>4. ASSUME \/ UNCHANGED animVars \/ TogglePlayback \/ LoadTrackFailed \/ Resize \/ BatteryChanges
      PROVE  Kept'
  BY <1>0, <1>4, QuietStep
     DEF animVars, TogglePlayback, LoadTrackFailed, Resize, BatteryChanges, AnimTypeOK
<1>5. Kept'
  BY <1>3, <1>4, AnimCloseStep, ApproveStep, AnimToggleStep, LoadTrackStep, HandleAnimLoadedStep,
     AnimSyncStep, HandleAudioLoadedStep
<1> QED BY <1>2, <1>5 DEF Kept, IInv, TypeOK

\* The invariant holds of every state of every run.
LEMMA Invariance == Spec => []IInv
BY InitInv, InvStep, PTL DEF Spec

\* The surface is about the track that plays and about the area it is drawn in, whatever
\* was loading, held or gated when the track, the layout or the answer changed.
THEOREM SurfaceIsTrue == Spec => []SurfaceTrue
<1>1. IInv => SurfaceFollowsTrack
  BY DEF IInv, Coherent, Newest, SurfaceFollowsTrack
<1>2. IInv => FrameFits
  BY DEF IInv, Coherent, FrameFits, FrameDrawn
<1>3. IInv => SurfaceTrue
  BY <1>1, <1>2 DEF IInv, SurfaceTrue
<1> QED BY <1>3, Invariance, PTL

\* No frame of an animation that fails the gate is drawn and no clock runs for one, unless
\* Enter was pressed at the warning of that very player; nor does a clock run for a player
\* that left the surface.
THEOREM NothingFlashes == Spec => []NothingFlashesUnasked
<1>1. IInv => NothingFlashesUnasked
  BY DEF IInv, Coherent, Gate, NothingFlashesUnasked, FrameDrawn
<1> QED BY <1>1, Invariance, PTL

-----------------------------------------------------------------------------
(* Induction over the natural numbers, from the least elements of their sets: the       *)
(* recursive functions that run through a sequence have a value at each of its places.  *)

LEMMA NatSets ==
  ASSUME NEW S, 0 \in S, \A n \in Nat : n \in S => n + 1 \in S
  PROVE  Nat \subseteq S
<1> DEFINE T == Nat \ S
<1> SUFFICES ASSUME T # {} PROVE FALSE
  OBVIOUS
<1>1. PICK x \in T : \A y \in T : ~ (<<y, x>> \in OpToRel(<, Nat))
  BY NatLessThanWellFounded, WFMin
<1>2. \A y \in T : ~ (y < x)
  BY <1>1 DEF OpToRel
<1> QED BY <1>2

LEMMA Stays ==
  ASSUME NEW n \in Nat, NEW T, NEW u, u[0] \in T, \A i \in 1 .. n : u[i - 1] \in T => u[i] \in T
  PROVE  \A i \in 0 .. n : u[i] \in T
<1> DEFINE S == {i \in Nat : i <= n => u[i] \in T}
<1>1. 0 \in S
  OBVIOUS
<1>2. ASSUME NEW i \in Nat, i \in S PROVE i + 1 \in S
  <2> SUFFICES ASSUME i + 1 <= n PROVE u[i + 1] \in T
    OBVIOUS
  <2>1. i + 1 \in 1 .. n /\ (i + 1) - 1 = i /\ u[i] \in T
    BY <1>2
  <2> QED BY <2>1
<1>3. Nat \subseteq S
  <2> HIDE DEF S
  <2> QED BY <1>1, <1>2, NatSets
<1> QED BY <1>3

Follows(f, n, T, base, step) ==
  /\ f \in [0 .. n -> T] /\ f[0] = base
  /\ \A i \in 1 .. n : f[i] = step[i][f[i - 1]]

LEMMA Recursion ==
  ASSUME NEW n \in Nat, NEW T, NEW base \in T, NEW step \in [1 .. n -> [T -> T]]
  PROVE  \E f : Follows(f, n, T, base, step)
<1> DEFINE Good(m) == \E f \in [0 .. m -> T] :
                        f[0] = base /\ \A i \in 1 .. m : f[i] = step[i][f[i - 1]]
           S == {m \in Nat : m <= n => Good(m)}
<1>1. Good(0)
  <2> DEFINE f == [i \in 0 .. 0 |-> base]
  <2>1. f \in [0 .. 0 -> T] /\ f[0] = base
    OBVIOUS
  <2>2. \A i \in 1 .. 0 : f[i] = step[i][f[i - 1]]
    OBVIOUS
  <2> HIDE DEF f
  <2> QED BY <2>1, <2>2
<1>2. ASSUME NEW m \in Nat, Good(m), m + 1 <= n
      PROVE  Good(m + 1)
  <2>1. PICK f \in [0 .. m -> T] : f[0] = base /\ \A i \in 1 .. m : f[i] = step[i][f[i - 1]]
    BY <1>2
  <2> DEFINE g == [i \in 0 .. m + 1 |-> IF i = m + 1 THEN step[m + 1][f[m]] ELSE f[i]]
  <2>2. f[m] \in T /\ m + 1 \in 1 .. n
    BY <1>2, <2>1
  <2>3. step[m + 1][f[m]] \in T
    BY <2>2
  <2>4. g \in [0 .. m + 1 -> T] /\ g[0] = base
    BY <2>1, <2>3
  <2>5. ASSUME NEW i \in 1 .. m + 1 PROVE g[i] = step[i][g[i - 1]]
    <3>1. CASE i = m + 1
      <4>1. g[i] = step[m + 1][f[m]] /\ g[i - 1] = f[m]
        BY <3>1
      <4> QED BY <3>1, <4>1
    <3>2. CASE i # m + 1
      <4>1. g[i] = f[i] /\ g[i - 1] = f[i - 1] /\ i \in 1 .. m
        BY <3>2
      <4> QED BY <2>1, <4>1
    <3> QED BY <3>1, <3>2
  <2> HIDE DEF g
  <2> QED BY <2>4, <2>5
<1>3. Nat \subseteq S
  <2>1. 0 \in S
    BY <1>1
  <2>2. \A m \in Nat : m \in S => m + 1 \in S
    <3> HIDE DEF Good
    <3> QED BY <1>2
  <2> HIDE DEF S
  <2> QED BY <2>1, <2>2, NatSets
<1>4. Good(n)
  <2> HIDE DEF Good
  <2> QED BY <1>3
<1> QED BY <1>4 DEF Follows

LEMMA Least ==
  ASSUME NEW S, S \subseteq Nat, S # {}
  PROVE  \E m \in S : \A k \in S : m <= k
<1>1. PICK m \in S : \A k \in S : ~ (<<k, m>> \in OpToRel(<, Nat))
  BY NatLessThanWellFounded, WFMin
<1>2. \A k \in S : ~ (k < m)
  BY <1>1 DEF OpToRel
<1> QED BY <1>2

LEMMA Greatest ==
  ASSUME NEW n \in Nat, NEW S, S \subseteq 0 .. n, S # {}
  PROVE  \E m \in S : \A k \in S : k <= m
<1> DEFINE T == {k \in 0 .. n : n - k \in S}
<1>1. T \subseteq Nat /\ T # {}
  <2>1. PICK k \in S : TRUE
    OBVIOUS
  <2>2. n - k \in T
    BY <2>1
  <2>3. T \subseteq Nat
    OBVIOUS
  <2> HIDE DEF T
  <2> QED BY <2>2, <2>3
<1>2. PICK m \in T : \A k \in T : m <= k
  <2> HIDE DEF T
  <2> QED BY <1>1, Least
<1>3. ASSUME NEW k \in S PROVE k <= n - m
  <2>1. n - k \in T /\ k \in Int /\ n - k \in Int
    OBVIOUS
  <2>2. m \in Int
    OBVIOUS
  <2> HIDE DEF T
  <2>3. m <= n - k
    BY <1>2, <2>1
  <2> QED BY <2>1, <2>2, <2>3
<1>4. n - m \in S
  OBVIOUS
<1> QED BY <1>3, <1>4

-----------------------------------------------------------------------------
(* The types of CommandLine's operators. *)

\* Lines the input takes, texts that fit into one, and rounds of completions.
Lines == {in \in [value : Text, cursor : Nat] :
            in.cursor <= Len(in.value) /\ Len(in.value) <= CharLimit}
ShortText == {t \in Text : Len(t) <= CharLimit}
Rounds == [candidates : Seq(Text), first : Nat, last : Nat, index : Nat]

LEMMA WordStartType ==
  ASSUME NEW value \in Text, NEW cursor \in 0 .. Len(value)
  PROVE  WordStart(value, cursor) \in 0 .. cursor
<1> DEFINE S == {i \in 0 .. cursor : ~Inside(value, i)}
<1>1. 0 \in S
  BY DEF Inside, Text
<1>2. PICK m \in S : \A k \in S : k <= m
  <2>1. S \subseteq 0 .. cursor /\ S # {} /\ cursor \in Nat
    BY <1>1
  <2> HIDE DEF S
  <2> QED BY <2>1, Greatest
<1>3. \A j \in m + 1 .. cursor : Inside(value, j)
  <2> SUFFICES ASSUME NEW j \in m + 1 .. cursor, ~Inside(value, j) PROVE FALSE
    OBVIOUS
  <2>1. j \in S /\ m \in 0 .. cursor
    OBVIOUS
  <2> QED BY <1>2, <2>1
<1> QED BY <1>2, <1>3 DEF WordStart

LEMMA PickedType ==
  ASSUME NEW A, NEW seq \in Seq(A), NEW places
  PROVE  Picked(seq, places) \in Seq(A) /\ Len(Picked(seq, places)) <= Len(seq)
<1> DEFINE n == Len(seq)
           T == Seq(A)
           next(i, x) == IF i \in places THEN Append(x, seq[i]) ELSE x
           step == [i \in 1 .. n |-> [x \in T |-> next(i, x)]]
           u == CHOOSE f : f = [i \in 0 .. n |-> IF i = 0 THEN <<>>
                                  ELSE IF i \in places THEN Append(f[i - 1], seq[i]) ELSE f[i - 1]]
<1>1. n \in Nat /\ <<>> \in T
  OBVIOUS
<1>2. \A i \in 1 .. n, x \in T : next(i, x) \in T /\ Len(next(i, x)) <= Len(x) + 1
  OBVIOUS
<1>3. step \in [1 .. n -> [T -> T]] /\ \A i \in 1 .. n, x \in T : step[i][x] = next(i, x)
  <2> HIDE DEF next
  <2> QED BY <1>2
<1>4. PICK f : Follows(f, n, T, <<>>, step)
  <2> HIDE DEF n, T, step
  <2> QED BY <1>1, <1>3, Recursion
<1>5. f = [i \in 0 .. n |-> IF i = 0 THEN <<>> ELSE next(i, f[i - 1])]
  <2> HIDE DEF step, next, T, n
  <2>1. f \in [0 .. n -> T] /\ f[0] = <<>>
    BY <1>4 DEF Follows
  <2>2. \A i \in 1 .. n : f[i] = next(i, f[i - 1])
    BY <1>1, <1>3, <1>4 DEF Follows
  <2> QED BY <1>1, <2>1, <2>2
<1>6. u = [i \in 0 .. n |-> IF i = 0 THEN <<>> ELSE next(i, u[i - 1])]
  BY <1>5
<1>7. Picked(seq, places) = u[n]
  BY Zenon DEF Picked
<1> HIDE DEF u, next
<1> DEFINE S == {i \in Nat : i <= n => u[i] \in T /\ Len(u[i]) <= i}
<1>8. 0 \in S
  BY <1>1, <1>6
<1>9. ASSUME NEW i \in Nat, i \in S PROVE i + 1 \in S
  <2> SUFFICES ASSUME i + 1 <= n PROVE u[i + 1] \in T /\ Len(u[i + 1]) <= i + 1
    OBVIOUS
  <2>1. u[i + 1] = next(i + 1, u[i])
    BY <1>6
  <2>2. u[i] \in T /\ Len(u[i]) <= i
    BY <1>9
  <2> QED BY <1>2, <2>1, <2>2
<1>10. Nat \subseteq S
  <2> HIDE DEF S
  <2> QED BY <1>8, <1>9, NatSets
<1> QED BY <1>1, <1>7, <1>10

LEMMA CandidatesType ==
  ASSUME LineConstants, NEW before, NEW prefix
  PROVE  CandidatesFor(before, prefix) \in Seq(Text)
<1>1. ASSUME NEW words \in Seq(Text) PROVE WithPrefix(words, prefix) \in Seq(Text)
  BY PickedType DEF WithPrefix
<1>2. Names \in Seq(Text)
  <2>1. \A i \in 1 .. Len(Table) : Table[i].name \in Text
    <3> SUFFICES ASSUME NEW i \in 1 .. Len(Table) PROVE Table[i].name \in Text
      OBVIOUS
    <3>1. Table[i] \in CommandType
      BY DEF LineConstants
    <3> QED BY <3>1 DEF CommandType
  <2>2. Len(Table) \in Nat /\ DOMAIN Table = 1 .. Len(Table)
    BY DEF LineConstants
  <2> QED BY <2>1, <2>2 DEF Names
<1> DEFINE spec == Picked(Table, {i \in DOMAIN Table : Table[i].name = before[1]})
<1>3. spec \in Seq(CommandType)
  BY PickedType DEF LineConstants
<1>4. ASSUME spec # <<>> PROVE spec[1].args \in Seq(Text)
  <2> HIDE DEF spec
  <2>1. spec[1] \in CommandType
    BY <1>3, <1>4
  <2> QED BY <2>1 DEF CommandType
<1>5. <<>> \in Seq(Text)
  OBVIOUS
<1> HIDE DEF spec
<1> QED BY <1>1, <1>2, <1>4, <1>5 DEF CandidatesFor, spec

LEMMA LineType ==
  ASSUME NEW value \in Text, NEW cursor \in Nat,
         cursor <= Len(value), Len(value) <= CharLimit
  PROVE  [value |-> value, cursor |-> cursor] \in Lines
BY DEF Lines

LEMMA LinesHave ==
  ASSUME NEW in \in Lines
  PROVE  /\ in = [value |-> in.value, cursor |-> in.cursor]
         /\ in.value \in Text /\ in.cursor \in 0 .. Len(in.value) /\ Len(in.value) \in Nat
         /\ Len(in.value) <= CharLimit
BY DEF Lines, Text

LEMMA RoundType ==
  ASSUME LineConstants, NEW in \in Lines
  PROVE  /\ Round(in) \in Rounds
         /\ Round(in).first <= Round(in).last /\ Round(in).last <= Len(in.value)
         /\ Round(in).index = 0
<1> DEFINE start == WordStart(in.value, in.cursor)
           words == CandidatesFor(Fields(SubSeq(in.value, 1, start)),
                                  SubSeq(in.value, start + 1, in.cursor))
<1>1. start \in 0 .. in.cursor /\ in.cursor \in Nat /\ in.cursor <= Len(in.value)
  BY LinesHave, WordStartType
<1>2. words \in Seq(Text)
  BY CandidatesType
<1>3. Round(in) = [candidates |-> words, first |-> start, last |-> in.cursor, index |-> 0]
  BY DEF Round
<1> HIDE DEF start, words
<1> QED BY <1>1, <1>2, <1>3 DEF Rounds

\* A text with the part from first to last replaced by a word.
Spliced(value, first, last, word) ==
  SubSeq(value, 1, first) \o word \o SubSeq(value, last + 1, Len(value))

LEMMA Replaced ==
  ASSUME NEW value \in Text, NEW first \in Nat, NEW last \in Nat, NEW word \in Text,
         first <= last, last <= Len(value)
  PROVE  LET new == Spliced(value, first, last, word)
         IN  /\ new \in Text
             /\ Len(new) = first + Len(word) + (Len(value) - last)
             /\ SubSeq(new, 1, first) = SubSeq(value, 1, first)
             /\ SubSeq(new, first + Len(word) + 1, Len(new))
                  = SubSeq(value, last + 1, Len(value))
<1> DEFINE head == SubSeq(value, 1, first)
           tail == SubSeq(value, last + 1, Len(value))
           front == head \o word
           new == front \o tail
<1>1. Len(value) \in Nat /\ Len(word) \in Nat /\ word \in Seq(Char) /\ value \in Seq(Char)
  BY DEF Text
<1>2. /\ head \in Seq(Char) /\ Len(head) = first
      /\ \A i \in 1 .. first : head[i] = value[i]
  BY <1>1
<1>3. tail \in Seq(Char) /\ Len(tail) = Len(value) - last
  BY <1>1
<1> HIDE DEF head, tail
<1>4. /\ front \in Seq(Char) /\ Len(front) = first + Len(word)
      /\ \A i \in 1 .. first : front[i] = head[i]
  BY <1>1, <1>2
<1> HIDE DEF front
<1>5. /\ \A i \in 1 .. first : new[i] = head[i]
      /\ \A i \in 1 .. Len(tail) : new[first + Len(word) + i] = tail[i]
  <2>1. \A i \in 1 .. Len(front) + Len(tail) :
          new[i] = IF i <= Len(front) THEN front[i] ELSE tail[i - Len(front)]
    BY <1>3, <1>4, ConcatProperties
  <2>2. Len(front) \in Nat /\ Len(tail) \in Nat
    BY <1>3, <1>4
  <2> HIDE DEF new
  <2>3. ASSUME NEW i \in 1 .. first PROVE new[i] = head[i]
    BY <1>1, <1>4, <2>1, <2>2
  <2>4. ASSUME NEW i \in 1 .. Len(tail) PROVE new[first + Len(word) + i] = tail[i]
    <3> DEFINE k == first + Len(word) + i
    <3>1. k \in 1 .. Len(front) + Len(tail) /\ ~(k <= Len(front)) /\ k - Len(front) = i
      BY <1>1, <1>4, <2>2
    <3> HIDE DEF k
    <3>2. new[k] = tail[k - Len(front)]
      BY <2>1, <3>1
    <3>3. new[k] = tail[i]
      BY <3>1, <3>2
    <3> QED BY <3>3 DEF k
  <2> QED BY <2>3, <2>4
<1>6. new \in Seq(Char) /\ Len(new) = first + Len(word) + Len(tail)
  <2>1. front \in Seq(Char) /\ tail \in Seq(Char)
    BY <1>3, <1>4
  <2>2. Len(new) = Len(front) + Len(tail) /\ new \in Seq(Char)
    BY <2>1, ConcatProperties
  <2> HIDE DEF new
  <2> QED BY <1>4, <2>2
<1> HIDE DEF new
<1>7. SubSeq(new, 1, first) = head
  <2>1. SubSeq(new, 1, first) \in Seq(Char) /\ Len(SubSeq(new, 1, first)) = first
    BY <1>1, <1>3, <1>6
  <2>2. ASSUME NEW i \in 1 .. first PROVE SubSeq(new, 1, first)[i] = head[i]
    BY <1>1, <1>3, <1>5, <1>6
  <2> QED BY <1>2, <2>1, <2>2, SeqEqual
<1>8. SubSeq(new, first + Len(word) + 1, Len(new)) = tail
  <2> DEFINE back == SubSeq(new, first + Len(word) + 1, Len(new))
  <2>1. back \in Seq(Char) /\ Len(back) = Len(tail)
    BY <1>1, <1>3, <1>6
  <2>2. ASSUME NEW i \in 1 .. Len(tail) PROVE back[i] = tail[i]
    <3>1. back[i] = new[first + Len(word) + i]
      BY <1>1, <1>3, <1>6
    <3>2. new[first + Len(word) + i] = tail[i]
      BY <1>5
    <3> QED BY <3>1, <3>2
  <2> HIDE DEF back
  <2>3. back = tail
    BY <1>3, <2>1, <2>2, SeqEqual
  <2> QED BY <2>3 DEF back
<1>9. new = Spliced(value, first, last, word)
  BY DEF new, front, head, tail, Spliced
<1> QED BY <1>3, <1>6, <1>7, <1>8, <1>9 DEF head, tail, Text

LEMMA AcceptedText ==
  ASSUME NEW value \in Text, NEW first \in Nat, NEW last \in Nat, NEW word \in Text,
         first <= last, last <= Len(value)
  PROVE  Accepted(value, first, last, word).value \in Text
<1>1. Spliced(value, first, last, word) \in Text
  BY Replaced
<1> QED BY <1>1 DEF Accepted, Spliced

LEMMA AcceptedLine ==
  ASSUME NEW value \in Text, NEW first \in Nat, NEW last \in Nat, NEW word \in Text,
         first <= last, last <= Len(value),
         Len(Accepted(value, first, last, word).value) <= CharLimit
  PROVE  Accepted(value, first, last, word) \in Lines
<1> DEFINE new == Spliced(value, first, last, word)
<1>1. new \in Text /\ Len(new) = first + Len(word) + (Len(value) - last)
  BY Replaced
<1>2. Accepted(value, first, last, word) = [value |-> new, cursor |-> first + Len(word)]
  BY DEF Accepted, Spliced
<1>3. Len(value) \in Nat /\ Len(word) \in Nat
  BY DEF Text
<1> HIDE DEF new
<1>4. Len(new) <= CharLimit
  BY <1>2
<1> QED BY <1>1, <1>2, <1>3, <1>4, LineType

\* The second choice of a round replaces the first and nothing else.
LEMMA AcceptedTwice ==
  ASSUME NEW value \in Text, NEW first \in Nat, NEW last \in Nat,
         NEW word \in Text, NEW other, first <= last, last <= Len(value)
  PROVE  Accepted(Accepted(value, first, last, word).value, first, first + Len(word), other)
           = Accepted(value, first, last, other)
<1> DEFINE new == Spliced(value, first, last, word)
<1>1. SubSeq(new, 1, first) = SubSeq(value, 1, first)
  BY Replaced
<1>2. SubSeq(new, first + Len(word) + 1, Len(new)) = SubSeq(value, last + 1, Len(value))
  BY Replaced
<1>3. Accepted(value, first, last, word).value = new
  BY DEF Accepted, Spliced
<1> HIDE DEF new
<1> QED BY <1>1, <1>2, <1>3 DEF Accepted

LEMMA InsertedLine ==
  ASSUME LineConstants, NEW in \in Lines, NEW text \in Text,
         Len(in.value) + Len(text) <= CharLimit
  PROVE  Inserted(in, text) \in Lines
<1>1. PICK value \in Text, at \in Nat : in.value = value /\ in.cursor = at /\ at <= Len(value)
  BY LinesHave
<1> DEFINE new == Spliced(value, at, at, text)
<1>2. new \in Text /\ Len(new) = at + Len(text) + (Len(value) - at)
  <2>1. at <= at /\ at <= Len(value)
    BY <1>1
  <2> QED BY <2>1, Replaced
<1>3. Inserted(in, text) = [value |-> new, cursor |-> at + Len(text)]
  BY <1>1 DEF Inserted, Spliced
<1>4. Len(value) \in Nat /\ Len(text) \in Nat /\ CharLimit \in Nat
  BY DEF LineConstants, Text
<1>5. Len(value) + Len(text) <= CharLimit
  BY <1>1
<1> HIDE DEF new
<1>6. at + Len(text) \in Nat /\ at + Len(text) <= Len(new) /\ Len(new) <= CharLimit
  BY <1>1, <1>2, <1>4, <1>5
<1> QED BY <1>2, <1>3, <1>6, LineType

LEMMA RemoveAtType ==
  ASSUME NEW S, NEW seq \in Seq(S), NEW i \in 1 .. Len(seq)
  PROVE  RemoveAt(seq, i) \in Seq(S) /\ Len(RemoveAt(seq, i)) = Len(seq) - 1
<1> DEFINE head == SubSeq(seq, 1, i - 1)
           tail == SubSeq(seq, i + 1, Len(seq))
<1>1. head \in Seq(S) /\ Len(head) = i - 1
  OBVIOUS
<1>2. tail \in Seq(S) /\ Len(tail) = Len(seq) - i
  OBVIOUS
<1>3. RemoveAt(seq, i) = head \o tail
  BY DEF RemoveAt
<1> HIDE DEF head, tail
<1> QED BY <1>1, <1>2, <1>3

LEMMA KeystrokesType ==
  ASSUME LineConstants, NEW in \in Lines, NEW key \in Keystrokes(in)
  PROVE  key \in Lines
<1>1. /\ in = [value |-> in.value, cursor |-> in.cursor]
      /\ in.value \in Text /\ in.cursor \in 0 .. Len(in.value) /\ Len(in.value) \in Nat
      /\ Len(in.value) <= CharLimit /\ CharLimit \in Nat
  BY LinesHave DEF LineConstants
<1>2. CASE \E c \in IF Len(in.value) < CharLimit THEN Char ELSE {} : key = Inserted(in, <<c>>)
  <2>1. PICK c \in Char : key = Inserted(in, <<c>>) /\ Len(in.value) < CharLimit
    BY <1>2
  <2>2. <<c>> \in Text /\ Len(<<c>>) = 1
    BY DEF Text
  <2>3. Len(in.value) + Len(<<c>>) <= CharLimit
    BY <1>1, <2>1, <2>2
  <2> QED BY <2>1, <2>2, <2>3, InsertedLine
<1>3. CASE in.cursor # 0 /\ key = [value |-> RemoveAt(in.value, in.cursor),
                                   cursor |-> in.cursor - 1]
  <2>1. /\ RemoveAt(in.value, in.cursor) \in Text
        /\ Len(RemoveAt(in.value, in.cursor)) = Len(in.value) - 1
    BY <1>1, <1>3, RemoveAtType DEF Text
  <2>2. in.cursor - 1 \in Nat /\ in.cursor - 1 <= Len(in.value) - 1
    BY <1>1, <1>3
  <2> QED BY <1>1, <1>3, <2>1, <2>2, LineType
<1>4. CASE \E c \in {0, Len(in.value)} : key = [in EXCEPT !.cursor = c]
  <2>1. PICK c \in {0, Len(in.value)} : key = [value |-> in.value, cursor |-> c]
    BY <1>1, <1>4
  <2> QED BY <1>1, <2>1, LineType
<1>5. CASE in.cursor # 0 /\ key = [in EXCEPT !.cursor = in.cursor - 1]
  <2>1. key = [value |-> in.value, cursor |-> in.cursor - 1]
    BY <1>1, <1>5
  <2>2. in.cursor - 1 \in Nat /\ in.cursor - 1 <= Len(in.value)
    BY <1>1, <1>5
  <2> QED BY <1>1, <2>1, <2>2, LineType
<1> QED BY <1>2, <1>3, <1>4, <1>5 DEF Keystrokes

\* What handlePaste has after some of the paths: a line that may be the one typed, and that
\* is the line before as long as nothing went in.
PasteStates == [in : Lines, notice : {"", TooLong}, changed : BOOLEAN]

LEMMA PastedType ==
  ASSUME LineConstants, NEW s \in PasteStates, NEW path \in Text
  PROVE  Pasted(s, path) \in PasteStates
<1> DEFINE text == (IF Inside(s.in.value, s.in.cursor) THEN <<Space>> ELSE <<>>) \o path
<1>1. text \in Text
  BY DEF Text, LineConstants
<1>2. s.in \in Lines
  BY DEF PasteStates
<1>3. CASE Len(s.in.value) + Len(text) > CharLimit
  <2>1. Pasted(s, path) = [s EXCEPT !.notice = TooLong]
    BY <1>3 DEF Pasted
  <2> QED BY <2>1 DEF PasteStates
<1>4. CASE ~(Len(s.in.value) + Len(text) > CharLimit)
  <2>1. Pasted(s, path) = [in |-> Inserted(s.in, text), notice |-> "", changed |-> TRUE]
    BY <1>4 DEF Pasted
  <2>2. Len(s.in.value) + Len(text) <= CharLimit
    <3>1. Len(s.in.value) \in Nat /\ Len(text) \in Nat /\ CharLimit \in Nat
      BY <1>1, <1>2, LinesHave DEF Text, LineConstants
    <3> HIDE DEF text
    <3> QED BY <1>4, <3>1
  <2>3. Inserted(s.in, text) \in Lines
    BY <1>1, <1>2, <2>2, InsertedLine
  <2> HIDE DEF text
  <2> DEFINE line == Inserted(s.in, text)
  <2>4. [in |-> line, notice |-> "", changed |-> TRUE] \in PasteStates
    <3>1. line \in Lines
      BY <2>3
    <3> HIDE DEF line
    <3> QED BY <3>1 DEF PasteStates
  <2> QED BY <2>1, <2>4
<1> QED BY <1>3, <1>4

LEMMA AllPastedType ==
  ASSUME LineConstants, NEW paths \in Seq(Text), input \in Lines
  PROVE  AllPasted(paths) \in PasteStates
<1> DEFINE n == Len(paths)
           first == [in |-> input, notice |-> "", changed |-> FALSE]
           step == [i \in 1 .. n |-> [s \in PasteStates |-> Pasted(s, paths[i])]]
           u == CHOOSE f : f = [i \in 0 .. n |-> IF i = 0
                                  THEN [in |-> input, notice |-> "", changed |-> FALSE]
                                  ELSE Pasted(f[i - 1], paths[i])]
<1>1. n \in Nat /\ first \in PasteStates
  BY DEF PasteStates
<1>2. \A i \in 1 .. n : \A s \in PasteStates : Pasted(s, paths[i]) \in PasteStates
  BY PastedType
<1>3. /\ step \in [1 .. n -> [PasteStates -> PasteStates]]
      /\ \A i \in 1 .. n, s \in PasteStates : step[i][s] = Pasted(s, paths[i])
  BY <1>2
<1>4. PICK f : Follows(f, n, PasteStates, first, step)
  <2> HIDE DEF n, first, step
  <2> QED BY <1>1, <1>3, Recursion
<1>5. f = [i \in 0 .. n |-> IF i = 0 THEN first ELSE Pasted(f[i - 1], paths[i])]
  <2> HIDE DEF step, first, n
  <2>1. f \in [0 .. n -> PasteStates] /\ f[0] = first
    BY <1>4 DEF Follows
  <2>2. \A i \in 1 .. n : f[i] = Pasted(f[i - 1], paths[i])
    BY <1>1, <1>3, <1>4 DEF Follows
  <2> QED BY <1>1, <2>1, <2>2
<1>6. u = [i \in 0 .. n |-> IF i = 0 THEN first ELSE Pasted(u[i - 1], paths[i])]
  BY <1>5
<1>7. AllPasted(paths) = u[n]
  BY Zenon DEF AllPasted
<1> HIDE DEF u, first
<1> DEFINE S == {i \in Nat : i <= n => u[i] \in PasteStates}
<1>8. 0 \in S
  BY <1>1, <1>6
<1>9. ASSUME NEW i \in Nat, i \in S PROVE i + 1 \in S
  <2> SUFFICES ASSUME i + 1 <= n PROVE u[i + 1] \in PasteStates
    OBVIOUS
  <2>1. u[i + 1] = Pasted(u[i], paths[i + 1])
    BY <1>6
  <2>2. u[i] \in PasteStates /\ i + 1 \in 1 .. n
    BY <1>9
  <2> QED BY <1>2, <2>1, <2>2
<1>10. Nat \subseteq S
  <2> HIDE DEF S
  <2> QED BY <1>8, <1>9, NatSets
<1> QED BY <1>1, <1>7, <1>10

LEMMA TrimmedType ==
  ASSUME NEW value \in Text
  PROVE  Trimmed(value) \in Text /\ Len(Trimmed(value)) <= Len(value)
<1> DEFINE kept == {i \in DOMAIN value : value[i] # Space}
<1>1. Len(value) \in Nat /\ DOMAIN value = 1 .. Len(value) /\ value \in Seq(Char)
  BY DEF Text
<1>2. CASE kept = {}
  <2>1. Trimmed(value) = <<>>
    BY <1>2 DEF Trimmed
  <2> QED BY <1>1, <2>1 DEF Text
<1>3. CASE kept # {}
  <2> DEFINE low == CHOOSE i \in kept : \A j \in kept : i <= j
             high == CHOOSE i \in kept : \A j \in kept : j <= i
  <2>1. kept \subseteq 0 .. Len(value) /\ kept \subseteq 1 .. Len(value)
    BY <1>1
  <2>2. Trimmed(value) = SubSeq(value, low, high)
    BY <1>3 DEF Trimmed
  <2> HIDE DEF kept
  <2>3. low \in kept
    <3>1. kept \subseteq Nat
      BY <1>1, <2>1
    <3> QED BY <1>3, <3>1, Least
  <2>4. high \in kept
    BY <1>1, <1>3, <2>1, Greatest
  <2>5. low \in 1 .. Len(value) /\ high \in 1 .. Len(value)
    BY <2>1, <2>3, <2>4
  <2> HIDE DEF low, high
  <2> QED BY <1>1, <2>2, <2>5 DEF Text
<1> QED BY <1>2, <1>3

LEMMA LoadedType ==
  ASSUME LineConstants, NEW lines \in Seq(ShortText), Len(lines) <= MaxHistory
  PROVE  Loaded(lines) \in Seq(ShortText) /\ Len(Loaded(lines)) <= MaxHistory
<1> DEFINE texts == [i \in DOMAIN lines |-> Trimmed(lines[i])]
           all == Picked(texts, {i \in DOMAIN lines : Trimmed(lines[i]) # <<>>})
<1>1. texts \in Seq(ShortText) /\ Len(texts) = Len(lines)
  <2>1. ASSUME NEW i \in 1 .. Len(lines) PROVE Trimmed(lines[i]) \in ShortText
    <3>1. lines[i] \in ShortText
      OBVIOUS
    <3>2. lines[i] \in Text /\ Len(lines[i]) <= CharLimit
      BY <3>1 DEF ShortText
    <3>3. Trimmed(lines[i]) \in Text /\ Len(Trimmed(lines[i])) <= Len(lines[i])
      BY <3>2, TrimmedType
    <3>4. Len(lines[i]) \in Int /\ Len(Trimmed(lines[i])) \in Int /\ CharLimit \in Int
      BY <3>2, <3>3 DEF Text, LineConstants
    <3> QED BY <3>2, <3>3, <3>4 DEF ShortText
  <2>2. Len(lines) \in Nat /\ DOMAIN lines = 1 .. Len(lines)
    OBVIOUS
  <2> QED BY <2>1, <2>2
<1> HIDE DEF texts
<1>2. all \in Seq(ShortText) /\ Len(all) <= Len(lines)
  BY <1>1, PickedType
<1>3. Loaded(lines) = IF MaxHistory > 0 /\ Len(all) > MaxHistory
                        THEN SubSeq(all, Len(all) - MaxHistory + 1, Len(all)) ELSE all
  BY DEF Loaded, texts
<1> HIDE DEF all
<1>4. Len(all) <= MaxHistory /\ Len(all) \in Int /\ MaxHistory \in Int
  BY <1>2 DEF LineConstants
<1> QED BY <1>2, <1>3, <1>4

LEMMA RememberedType ==
  ASSUME LineConstants, NEW text \in ShortText,
         history \in Seq(ShortText), Len(history) <= MaxHistory
  PROVE  Remembered(text) \in Seq(ShortText) /\ Len(Remembered(text)) <= MaxHistory
<1> DEFINE places == {i \in 1 .. Len(history) : history[i] = text}
           at == SelectInSeq(history, LAMBDA h : h = text)
           others == IF at = 0 THEN history ELSE RemoveAt(history, at)
           all == Append(others, text)
<1>1. at = 0 \/ at \in 1 .. Len(history)
  <2>1. at = IF places # {} THEN Min(places) ELSE 0
    BY DEF SelectInSeq
  <2>2. ASSUME places # {} PROVE Min(places) \in places
    <3>1. places \subseteq Nat
      OBVIOUS
    <3> HIDE DEF places
    <3> QED BY <2>2, <3>1, Least DEF Min
  <2> QED BY <2>1, <2>2
<1>2. others \in Seq(ShortText) /\ Len(others) <= MaxHistory
  <2>1. Len(history) \in Nat /\ MaxHistory \in Nat
    BY DEF LineConstants
  <2> HIDE DEF at
  <2> QED BY <1>1, <2>1, RemoveAtType
<1>3. Remembered(text) = IF Len(all) > MaxHistory THEN Tail(all) ELSE all
  BY DEF Remembered
<1> HIDE DEF others
<1>4. all \in Seq(ShortText) /\ Len(all) = Len(others) + 1 /\ Len(others) \in Nat
  BY <1>2
<1>5. all # <<>> /\ Tail(all) \in Seq(ShortText) /\ Len(Tail(all)) = Len(all) - 1
  BY <1>4
<1> HIDE DEF all
<1>6. MaxHistory \in Nat
  BY DEF LineConstants
<1> QED BY <1>2, <1>3, <1>4, <1>5, <1>6

-----------------------------------------------------------------------------
(* CommandLine: its inductive invariant. *)

\* A round is the one for the line it was begun with, but for what was chosen: its word
\* starts where that line's starts, and ends with the cursor of that line or, once one
\* was chosen, with the choice.
RoundOfTyped ==
  LET at == Round(typed)
  IN  InCommand => /\ round.first = at.first
                   /\ round.last = IF round.index = 0 THEN at.last
                                   ELSE at.first + Len(round.candidates[round.index])

\* The line, its round and where that began: a line within the limit, a choice that is on
\* its list, and only what was typed and chosen in it.
LineFits ==
  /\ input \in Lines /\ typed \in Lines
  /\ round \in Rounds /\ round.index <= Len(round.candidates)
  /\ RoundOfTyped /\ CompletionTrue

\* The history, the place in it and its file: what is recalled fits into the line.
HistoryFits ==
  /\ history \in Seq(ShortText) /\ disk \in Seq(ShortText)
  /\ place \in Nat /\ place <= Len(history)
  /\ Len(history) <= MaxHistory /\ Len(disk) <= MaxHistory

\* Outside the command line there is neither a line nor one a round was begun with.
NoLine == mode = "normal" => typed = Empty /\ input = Empty /\ round = NoRound /\ notice = ""

LineInv == mode \in {"normal", "command"} /\ LineFits /\ HistoryFits /\ NoLine

LEMMA EmptyLine ==
  ASSUME LineConstants
  PROVE  Empty \in Lines /\ NoRound \in Rounds /\ NoRound.index = 0
<1>1. <<>> \in Text /\ Len(<<>>) = 0 /\ <<>> \in Seq(Text)
  BY DEF Text
<1>2. 0 <= CharLimit
  BY DEF LineConstants
<1>3. Empty \in Lines
  <2>1. 0 \in Nat /\ 0 <= 0
    OBVIOUS
  <2> QED BY <1>1, <1>2, <2>1, LineType DEF Empty
<1>4. NoRound \in Rounds /\ NoRound.index = 0
  BY <1>1 DEF NoRound, Rounds
<1> QED BY <1>3, <1>4

LEMMA AtEndLine ==
  ASSUME NEW value \in ShortText
  PROVE  AtEnd(value) \in Lines
<1>1. value \in Text /\ Len(value) \in Nat /\ Len(value) <= CharLimit /\ Len(value) <= Len(value)
  BY DEF ShortText, Text
<1> QED BY <1>1, LineType DEF AtEnd

LEMMA TurnType ==
  ASSUME NEW total \in Nat, total > 0, NEW index \in 0 .. total, NEW delta \in {1, -1}
  PROVE  Turn(index, delta, total) \in 1 .. total
<1>1. CASE index = 0
  BY <1>1 DEF Turn
<1>2. CASE index # 0
  <2>1. index + delta + total - 1 \in Nat
    BY <1>2
  <2>2. (index + delta + total - 1) % total \in 0 .. total - 1
    BY <2>1
  <2> QED BY <1>2, <2>2 DEF Turn
<1> QED BY <1>1, <1>2

-----------------------------------------------------------------------------
(* The steps of CommandLine, by what they do to the line. *)

LEMMA EditFits ==
  ASSUME LineConstants, NEW in \in Lines, Edit(in)
  PROVE  LineFits'
<1>1. input' = in /\ round' = Round(in) /\ typed' = in
  BY DEF Edit
<1>2. Round(in) \in Rounds /\ Round(in).index = 0
  BY RoundType
<1>3. input' \in Lines /\ typed' \in Lines /\ round' \in Rounds /\ round'.index = 0
  BY <1>1, <1>2
<1>4. 0 <= Len(round'.candidates)
  BY <1>3 DEF Rounds
<1>5. Round(typed)' = Round(in)
  BY <1>1 DEF Round
<1>6. RoundOfTyped'
  BY <1>1, <1>3, <1>5 DEF RoundOfTyped
<1>7. Len(in.value) <= CharLimit
  BY LinesHave
<1>8. CompletionTrue'
  BY <1>1, <1>3, <1>5, <1>7 DEF CompletionTrue
<1> QED BY <1>3, <1>4, <1>6, <1>8 DEF LineFits

LEMMA ClearedFits ==
  ASSUME LineConstants, mode' = "normal", input' = Empty, round' = NoRound, typed' = Empty
  PROVE  LineFits'
<1>1. input' \in Lines /\ typed' \in Lines /\ round' \in Rounds /\ round'.index = 0
  BY EmptyLine
<1>2. 0 <= Len(round'.candidates)
  BY <1>1 DEF Rounds
<1>3. ~InCommand'
  BY DEF InCommand
<1>4. RoundOfTyped'
  BY <1>3 DEF RoundOfTyped
<1>5. Len(input'.value) <= CharLimit
  BY <1>1, LinesHave
<1>6. CompletionTrue'
  BY <1>1, <1>3, <1>5 DEF CompletionTrue
<1> QED BY <1>1, <1>2, <1>4, <1>6 DEF LineFits

LEMMA SameFits ==
  ASSUME LineFits, UNCHANGED <<mode, input, round, typed>>
  PROVE  LineFits'
<1>1. Round(typed)' = Round(typed)
  BY DEF Round
<1>2. RoundOfTyped' /\ CompletionTrue'
  BY <1>1 DEF LineFits, RoundOfTyped, CompletionTrue, InCommand
<1> QED BY <1>2 DEF LineFits

\* What a turn puts in the line is what it would have put in the line the round was begun
\* with: the choice before it has gone.
LEMMA TurnedLine ==
  ASSUME LineConstants, InCommand, LineFits, NEW index \in 1 .. Len(round.candidates)
  PROVE  LET at == Round(typed)
             word == round.candidates[index]
         IN  /\ Accepted(input.value, round.first, round.last, word)
                  = Accepted(typed.value, at.first, at.last, word)
             /\ Len(Accepted(input.value, round.first, round.last, word).value) <= CharLimit
                  => Accepted(input.value, round.first, round.last, word) \in Lines
<1> DEFINE at == Round(typed)
           words == round.candidates
           new == Accepted(typed.value, at.first, at.last, words[index])
<1>1. /\ at.first \in Nat /\ at.last \in Nat /\ at.first <= at.last
      /\ at.last <= Len(typed.value) /\ typed.value \in Text
  BY RoundType, LinesHave DEF LineFits, Rounds
<1>2. words \in Seq(Text) /\ round.index \in 0 .. Len(words)
  BY DEF LineFits, Rounds
<1>3. /\ round.first = at.first
      /\ round.last = IF round.index = 0 THEN at.last ELSE at.first + Len(words[round.index])
  BY DEF LineFits, RoundOfTyped
<1>4. input = IF round.index = 0 THEN typed
              ELSE Accepted(typed.value, at.first, at.last, words[round.index])
  BY DEF LineFits, CompletionTrue
<1>5. words[index] \in Text
  BY <1>2
<1> HIDE DEF at, words
<1>6. Accepted(input.value, round.first, round.last, words[index]) = new
  <2>1. CASE round.index = 0
    BY <1>3, <1>4, <2>1
  <2>2. CASE round.index # 0
    <3> DEFINE word == words[round.index]
    <3>1. word \in Text
      BY <1>2, <2>2
    <3>2. input.value = Accepted(typed.value, at.first, at.last, word).value
      BY <1>4, <2>2
    <3>3. round.first = at.first /\ round.last = at.first + Len(word)
      BY <1>3, <2>2
    <3> HIDE DEF word
    <3> QED BY <1>1, <3>1, <3>2, <3>3, AcceptedTwice
  <2> QED BY <2>1, <2>2
<1>7. Len(new.value) <= CharLimit => new \in Lines
  BY <1>1, <1>5, AcceptedLine
<1> QED BY <1>6, <1>7 DEF at, words

LEMMA CycleFits ==
  ASSUME LineConstants, LineFits, NEW delta \in {1, -1}, Cycle(delta)
  PROVE  LineFits'
<1> DEFINE total == Len(round.candidates)
           index == Turn(round.index, delta, total)
           in == Accepted(input.value, round.first, round.last, round.candidates[index])
<1>1. InCommand /\ InCommand' /\ mode' = mode /\ typed' = typed
  BY DEF Cycle, InCommand
<1>2. CASE UNCHANGED <<input, round>>
  BY <1>1, <1>2, SameFits
<1>3. CASE ~UNCHANGED <<input, round>>
  <2>1. /\ total # 0 /\ ~(Len(in.value) > CharLimit)
        /\ input' = in
        /\ round' = [round EXCEPT !.last = in.cursor, !.index = index]
    BY <1>3 DEF Cycle
  <2>2. round \in Rounds /\ total \in Nat /\ round.index \in 0 .. total
    BY DEF LineFits, Rounds
  <2>3. index \in 1 .. total
    <3>1. total > 0
      BY <2>1, <2>2
    <3> HIDE DEF total
    <3> QED BY <2>2, <3>1, TurnType
  <2>4. /\ in = Accepted(typed.value, Round(typed).first, Round(typed).last,
                         round.candidates[index])
        /\ Len(in.value) <= CharLimit => in \in Lines
    <3> HIDE DEF index
    <3> QED BY <1>1, <2>3, TurnedLine
  <2>5. Len(in.value) <= CharLimit /\ in.cursor = round.first + Len(round.candidates[index])
    <3>1. in.cursor = round.first + Len(round.candidates[index])
      BY DEF Accepted
    <3>2. in.value \in Text
      <4>1. /\ Round(typed).first \in Nat /\ Round(typed).last \in Nat
            /\ Round(typed).first <= Round(typed).last
            /\ Round(typed).last <= Len(typed.value) /\ typed.value \in Text
        BY RoundType, LinesHave DEF LineFits, Rounds
      <4>2. round.candidates[index] \in Text
        BY <2>2, <2>3 DEF Rounds
      <4> HIDE DEF index
      <4>3. in = Accepted(typed.value, Round(typed).first, Round(typed).last,
                          round.candidates[index])
        BY <2>4
      <4> HIDE DEF index, in
      <4> QED BY <4>1, <4>2, <4>3, AcceptedText
    <3>3. Len(in.value) \in Nat /\ CharLimit \in Nat
      BY <3>2 DEF Text, LineConstants
    <3> HIDE DEF in
    <3> QED BY <2>1, <3>1, <3>3
  <2> HIDE DEF index, in
  <2>6. /\ round'.candidates = round.candidates /\ round'.first = round.first
        /\ round'.last = in.cursor /\ round'.index = index
    BY <2>1, <2>2 DEF Rounds
  <2>7. round' \in Rounds /\ in \in Lines /\ in.cursor \in Nat
    <3>1. in \in Lines
      BY <2>4, <2>5
    <3>2. in.cursor \in Nat /\ index \in Nat
      BY <2>3, <3>1 DEF Lines
    <3> QED BY <2>1, <2>2, <3>1, <3>2 DEF Rounds
  <2>8. round'.index <= Len(round'.candidates) /\ round'.index # 0
    BY <2>3, <2>6
  <2>9. Round(typed)' = Round(typed)
    BY <1>1 DEF Round
  <2>10. RoundOfTyped'
    <3>1. round.first = Round(typed).first
      BY <1>1 DEF LineFits, RoundOfTyped
    <3> QED BY <2>5, <2>6, <2>8, <2>9, <3>1 DEF RoundOfTyped
  <2>11. CompletionTrue'
    <3>1. round.candidates = Round(typed).candidates
      BY <1>1 DEF LineFits, CompletionTrue
    <3>2. input' = Accepted(typed'.value, Round(typed)'.first, Round(typed)'.last,
                            round'.candidates[round'.index])
      BY <1>1, <2>1, <2>4, <2>5, <2>6, <2>9
    <3> QED BY <2>1, <2>5, <2>6, <2>8, <2>9, <3>1, <3>2 DEF CompletionTrue
  <2>12. typed' \in Lines
    BY <1>1 DEF LineFits
  <2> QED BY <2>1, <2>7, <2>8, <2>10, <2>11, <2>12 DEF LineFits
<1> QED BY <1>2, <1>3

-----------------------------------------------------------------------------
(* The history of CommandLine, and every run of it. *)

LEMMA SameHistory ==
  ASSUME HistoryFits, UNCHANGED <<history, place, disk>>
  PROVE  HistoryFits'
BY DEF HistoryFits

LEMMA PlacedHistory ==
  ASSUME HistoryFits, UNCHANGED <<history, disk>>, place' \in 0 .. Len(history)
  PROVE  HistoryFits'
BY DEF HistoryFits

LEMMA LineBegins ==
  ASSUME LineConstants, LineInit
  PROVE  LineInv
<1>1. LineFits /\ NoLine
  <2>1. input \in Lines /\ typed \in Lines /\ round \in Rounds /\ round.index = 0
    BY EmptyLine DEF LineInit
  <2>2. 0 <= Len(round.candidates)
    BY <2>1 DEF Rounds
  <2>3. ~InCommand
    BY DEF LineInit, InCommand
  <2>4. Len(input.value) <= CharLimit
    BY <2>1, LinesHave
  <2>5. RoundOfTyped /\ CompletionTrue
    BY <2>1, <2>3, <2>4 DEF RoundOfTyped, CompletionTrue, LineInit
  <2> QED BY <2>1, <2>2, <2>5 DEF LineFits, NoLine, LineInit
<1>2. HistoryFits
  <2>1. <<>> \in Seq(ShortText) /\ Len(<<>>) = 0
    OBVIOUS
  <2>2. 0 <= MaxHistory /\ 0 \in Nat /\ 0 <= 0
    BY DEF LineConstants
  <2> QED BY <2>1, <2>2 DEF HistoryFits, LineInit
<1> QED BY <1>1, <1>2 DEF LineInit, LineInv, NoLine

LEMMA LineStep ==
  ASSUME LineConstants, LineInv, [LineNext]_lineVars
  PROVE  LineInv'
<1>1. mode \in {"normal", "command"} /\ LineFits /\ HistoryFits /\ NoLine
  BY DEF LineInv
<1>2. input \in Lines
  BY <1>1 DEF LineFits
<1>3. /\ history \in Seq(ShortText) /\ disk \in Seq(ShortText) /\ place \in 0 .. Len(history)
      /\ Len(history) \in Nat /\ Len(history) <= MaxHistory /\ Len(disk) <= MaxHistory
  <2>1. /\ history \in Seq(ShortText) /\ disk \in Seq(ShortText) /\ place \in Nat
        /\ place <= Len(history) /\ Len(history) <= MaxHistory /\ Len(disk) <= MaxHistory
    BY <1>1 DEF HistoryFits
  <2>2. Len(history) \in Nat
    BY <2>1
  <2> QED BY <2>1, <2>2
<1>4. ASSUME mode' = "command", LineFits', HistoryFits' PROVE LineInv'
  BY <1>4 DEF NoLine, LineInv
<1>5. ASSUME mode' = "normal", input' = Empty, round' = NoRound, typed' = Empty,
             notice' = "", HistoryFits'
      PROVE  LineInv'
  BY <1>5, ClearedFits DEF NoLine, LineInv
<1>6. CASE OpenLine
  <2>1. mode' = "command" /\ Edit(input) /\ UNCHANGED <<history, place, disk>>
    BY <1>6 DEF OpenLine
  <2> QED BY <1>1, <1>2, <1>4, <2>1, EditFits, SameHistory
<1>7. CASE TypeKey
  <2>1. PICK in \in Keystrokes(input) : Edit(in)
    BY <1>7 DEF TypeKey
  <2>2. mode' = "command" /\ UNCHANGED <<history, disk>> /\ place' = Len(history)
    BY <1>7 DEF TypeKey, InCommand
  <2>3. in \in Lines
    BY <1>2, KeystrokesType
  <2>4. LineFits'
    BY <2>1, <2>3, EditFits
  <2>5. place' \in 0 .. Len(history)
    BY <1>3, <2>2
  <2> QED BY <1>1, <1>4, <2>2, <2>4, <2>5, PlacedHistory
<1>8. CASE LeaveLine
  <2>1. place' = Len(history) /\ UNCHANGED <<history, disk>>
    BY <1>8 DEF LeaveLine
  <2>2. place' \in 0 .. Len(history)
    BY <1>3, <2>1
  <2> QED BY <1>1, <1>5, <1>8, <2>1, <2>2, PlacedHistory DEF LeaveLine
<1>9. CASE PressTab \/ PressBackTab
  <2>1. PICK delta \in {1, -1} : Cycle(delta)
    BY <1>9 DEF PressTab, PressBackTab
  <2>2. mode' = "command" /\ UNCHANGED <<history, place, disk>>
    BY <2>1 DEF Cycle, InCommand
  <2> QED BY <1>1, <1>4, <2>1, <2>2, CycleFits, SameHistory
<1>10. CASE EnterLine
  <2>1. input.value \in ShortText
    BY <1>2, LinesHave DEF ShortText
  <2>2. history' \in Seq(ShortText) /\ Len(history') <= MaxHistory
    <3>1. CASE input.value = <<>>
      BY <1>3, <1>10, <3>1 DEF EnterLine
    <3>2. CASE input.value # <<>>
      <4>1. history' = Remembered(input.value)
        BY <1>10, <3>2 DEF EnterLine
      <4> QED BY <1>3, <2>1, <4>1, RememberedType
    <3> QED BY <3>1, <3>2
  <2>3. disk' = disk \/ disk' = history'
    BY <1>10 DEF EnterLine
  <2>4. disk' \in Seq(ShortText) /\ Len(disk') <= MaxHistory
    BY <1>3, <2>2, <2>3
  <2>5. place' = Len(history')
    BY <1>10 DEF EnterLine
  <2>6. place' \in Nat /\ place' <= Len(history')
    BY <2>2, <2>5
  <2>7. HistoryFits'
    BY <2>2, <2>4, <2>6 DEF HistoryFits
  <2> QED BY <1>5, <1>10, <2>7 DEF EnterLine
<1>11. CASE PressUp
  <2>1. mode' = "command" /\ UNCHANGED <<history, disk>>
    BY <1>11 DEF PressUp, InCommand
  <2>2. CASE history = <<>>
    <3>1. UNCHANGED <<mode, input, round, typed, history, place, disk>>
      BY <1>11, <2>2 DEF PressUp
    <3> QED BY <1>1, <1>4, <2>1, <3>1, SameFits, SameHistory
  <2>3. CASE history # <<>>
    <3>1. place' = (IF place > 0 THEN place - 1 ELSE 0) /\ Edit(AtEnd(history[place' + 1]))
      BY <1>11, <2>3 DEF PressUp
    <3>2. Len(history) # 0
      BY <1>3, <2>3
    <3>3. place' + 1 \in 1 .. Len(history) /\ place' \in 0 .. Len(history)
      BY <1>3, <3>1, <3>2
    <3>4. history[place' + 1] \in ShortText
      BY <1>3, <3>3
    <3>5. LineFits'
      BY <3>1, <3>4, AtEndLine, EditFits
    <3> QED BY <1>1, <1>4, <2>1, <3>3, <3>5, PlacedHistory
  <2> QED BY <2>2, <2>3
<1>12. CASE PressDown
  <2>1. mode' = "command" /\ UNCHANGED <<history, disk>>
    BY <1>12 DEF PressDown, InCommand
  <2>2. CASE place + 1 >= Len(history)
    <3>1. place' = Len(history) /\ Edit(Empty)
      BY <1>12, <2>2 DEF PressDown
    <3>2. LineFits'
      BY <3>1, EmptyLine, EditFits
    <3>3. place' \in 0 .. Len(history)
      BY <1>3, <3>1
    <3> QED BY <1>1, <1>4, <2>1, <3>2, <3>3, PlacedHistory
  <2>3. CASE ~(place + 1 >= Len(history))
    <3>1. place' = place + 1 /\ Edit(AtEnd(history[place' + 1]))
      BY <1>12, <2>3 DEF PressDown
    <3>2. place' \in 0 .. Len(history) /\ place' + 1 \in 1 .. Len(history)
      BY <1>3, <2>3, <3>1
    <3>3. history[place' + 1] \in ShortText
      BY <1>3, <3>2
    <3>4. LineFits'
      BY <3>1, <3>3, AtEndLine, EditFits
    <3> QED BY <1>1, <1>4, <2>1, <3>2, <3>4, PlacedHistory
  <2> QED BY <2>2, <2>3
<1>13. CASE Paste
  <2>1. mode' = "command" /\ UNCHANGED <<history, place, disk>> /\ mode' = mode
    BY <1>13 DEF Paste, InCommand
  <2>2. PICK paths \in Dropped :
          IF AllPasted(paths).changed THEN Edit(AllPasted(paths).in)
                                      ELSE UNCHANGED <<input, round, typed>>
    BY <1>13 DEF Paste
  <2>3. paths \in Seq(Text)
    BY DEF LineConstants
  <2>4. AllPasted(paths).in \in Lines
    BY <1>2, <2>3, AllPastedType DEF PasteStates
  <2>5. LineFits'
    BY <1>1, <2>1, <2>2, <2>4, EditFits, SameFits
  <2> QED BY <1>1, <1>4, <2>1, <2>5, SameHistory
<1>14. CASE Restart
  <2>1. history' = Loaded(disk) /\ disk' = disk /\ place' = Len(history')
    BY <1>14 DEF Restart
  <2>2. history' \in Seq(ShortText) /\ Len(history') <= MaxHistory
    BY <1>3, <2>1, LoadedType
  <2>3. place' \in Nat /\ place' <= Len(history')
    BY <2>1, <2>2
  <2>4. HistoryFits'
    BY <1>3, <2>1, <2>2, <2>3 DEF HistoryFits
  <2> QED BY <1>5, <1>14, <2>4 DEF Restart
<1>15. CASE UNCHANGED lineVars
  <2>1. UNCHANGED <<mode, input, round, notice, history, place, disk, typed>>
    BY <1>15 DEF lineVars
  <2>2. LineFits' /\ HistoryFits' /\ NoLine'
    BY <1>1, <2>1, SameFits, SameHistory DEF NoLine
  <2> QED BY <1>1, <2>1, <2>2 DEF LineInv
<1> QED BY <1>6, <1>7, <1>8, <1>9, <1>10, <1>11, <1>12, <1>13, <1>14, <1>15 DEF LineNext

\* However the line is typed into, completed, turned back and forth, recalled, pasted
\* into, sent and left, and whatever the history file was cut to at a restart, a round of
\* completions replaces the word it was begun in and nothing else, nothing is cut off, and
\* the walk through the history stays in it (completion.go: acceptCompletion;
\* keyboard_command.go, history.go). For every table of commands, limit of the line and of
\* the history, and paste.
THEOREM LineIsTrue == LineSpec => []LineTrue
<1>1. LineInit => LineInv
  BY LineBegins, LineAssumption
<1>2. LineInv /\ [LineNext]_lineVars => LineInv'
  BY LineStep, LineAssumption
<1>3. LineInv => LineTrue
  BY DEF LineInv, LineFits, HistoryFits, NoLine, LineTrue, HistorySafe
<1> QED BY <1>1, <1>2, <1>3, PTL DEF LineSpec

-----------------------------------------------------------------------------
(* Dropped files (Drop): names escaped by the window come out as they went in. *)

LEMMA Characters ==
  /\ D!Escape \in D!Escapable /\ D!Space \in D!Escapable /\ D!Quotes \subseteq D!Escapable
  /\ D!Escape # D!Space /\ D!Escape \notin D!Quotes /\ D!Space \notin D!Quotes
  /\ DOMAIN D!Closing \subseteq D!Quotes
BY DEF D!Escape, D!Space, D!Escapable, D!Quotes, D!Closing, D!Quote, D!OpenQuote, D!CloseQuote

\* What splitDropFieldsRaw holds between two characters, not inside quotes.
ReadStates(A) ==
  [fields : Seq(Seq(A)), field : Seq(A), quote : {D!NotQuoted, D!Quote, D!CloseQuote},
   escaped : BOOLEAN]
HasRead(A, s, fields, field, escaped) ==
  /\ s \in ReadStates(A) /\ s.fields = fields /\ s.field = field /\ s.escaped = escaped
  /\ s.quote = D!NotQuoted

LEMMA AppendOne ==
  ASSUME NEW A, NEW s \in Seq(A), NEW c \in A
  PROVE  /\ Append(s, c) \in Seq(A) /\ Len(Append(s, c)) = Len(s) + 1
         /\ Append(s, c)[Len(s) + 1] = c /\ \A k \in 1 .. Len(s) : Append(s, c)[k] = s[k]
BY AppendProperties

LEMMA ReadType ==
  ASSUME NEW A, NEW s \in ReadStates(A), NEW c \in A
  PROVE  D!ReadCharacter(s, c, TRUE) \in ReadStates(A)
<1>1. PICK p \in Seq(A) : p = Append(s.field, c)
  <2>1. s.field \in Seq(A)
    BY DEF ReadStates
  <2> QED BY <2>1, AppendOne
<1>2. PICK put : put = [s EXCEPT !.field = p]
  OBVIOUS
<1>3. put \in ReadStates(A)
  BY <1>1, <1>2 DEF ReadStates
<1>4. D!ReadCharacter(s, c, TRUE) =
        IF s.escaped THEN [put EXCEPT !.escaped = FALSE]
        ELSE IF c = D!Escape THEN [put EXCEPT !.escaped = TRUE]
        ELSE IF s.quote # D!NotQuoted
          THEN [put EXCEPT !.quote = IF c = s.quote THEN D!NotQuoted ELSE put.quote]
        ELSE IF c \in DOMAIN D!Closing THEN [put EXCEPT !.quote = D!Closing[c]]
        ELSE IF c # D!Space THEN put
        ELSE IF s.field = <<>> THEN s
        ELSE [s EXCEPT !.fields = Append(s.fields, s.field), !.field = <<>>]
  BY <1>1, <1>2, Zenon DEF D!ReadCharacter
<1>5. put.quote \in {D!NotQuoted, D!Quote, D!CloseQuote}
  BY <1>3 DEF ReadStates
<1>6. c \in DOMAIN D!Closing => D!Closing[c] \in {D!NotQuoted, D!Quote, D!CloseQuote}
  BY DEF D!Closing
<1>7. PICK fs \in Seq(Seq(A)), e \in Seq(A) : fs = Append(s.fields, s.field) /\ e = <<>>
  <2>1. s.fields \in Seq(Seq(A)) /\ s.field \in Seq(A)
    BY DEF ReadStates
  <2>2. <<>> \in Seq(A)
    BY EmptySeq
  <2> QED BY <2>1, <2>2, AppendOne
<1>8. [s EXCEPT !.fields = fs, !.field = e] \in ReadStates(A)
  BY <1>7 DEF ReadStates
<1>9. /\ [put EXCEPT !.escaped = FALSE] \in ReadStates(A)
      /\ [put EXCEPT !.escaped = TRUE] \in ReadStates(A)
  BY <1>3 DEF ReadStates
<1>10. \A q \in {D!NotQuoted, D!Quote, D!CloseQuote} : [put EXCEPT !.quote = q] \in ReadStates(A)
  BY <1>3 DEF ReadStates
<1> QED BY <1>3, <1>4, <1>5, <1>6, <1>7, <1>8, <1>9, <1>10

\* Outside quotes: a character that means nothing, a backslash, what follows one, a space.
LEMMA ReadsCharacter ==
  ASSUME NEW A, NEW fields, NEW field, NEW escaped, NEW s, HasRead(A, s, fields, field, escaped),
         NEW c \in A, NEW r, r = D!ReadCharacter(s, c, TRUE)
  PROVE  /\ escaped = TRUE => HasRead(A, r, fields, Append(field, c), FALSE)
         /\ escaped = FALSE /\ c = D!Escape => HasRead(A, r, fields, Append(field, c), TRUE)
         /\ escaped = FALSE /\ c \notin D!Escapable => HasRead(A, r, fields, Append(field, c), FALSE)
         /\ escaped = FALSE /\ c = D!Space /\ field # <<>>
              => HasRead(A, r, Append(fields, field), <<>>, FALSE)
<1>1. /\ s \in ReadStates(A) /\ s.fields = fields /\ s.field = field /\ s.escaped = escaped
      /\ s.quote = D!NotQuoted /\ r \in ReadStates(A)
  BY ReadType DEF HasRead
<1>2. field \in Seq(A) /\ fields \in Seq(Seq(A))
  BY <1>1 DEF ReadStates
<1>3. PICK p \in Seq(A), fs \in Seq(Seq(A)), e \in Seq(A) :
        p = Append(field, c) /\ fs = Append(fields, field) /\ e = <<>>
  <2>1. <<>> \in Seq(A)
    BY EmptySeq
  <2> QED BY <1>2, <2>1, AppendOne
<1>4. CASE escaped = TRUE
  <2>1. r = [[s EXCEPT !.field = p] EXCEPT !.escaped = FALSE]
    BY <1>1, <1>3, <1>4 DEF D!ReadCharacter
  <2>2. r.fields = fields /\ r.field = p /\ r.escaped = FALSE /\ r.quote = D!NotQuoted
    BY <1>1, <1>3, <2>1 DEF ReadStates
  <2> QED BY <1>1, <1>3, <1>4, <2>2 DEF HasRead
<1>5. CASE escaped = FALSE /\ c = D!Escape
  <2>1. r = [[s EXCEPT !.field = p] EXCEPT !.escaped = TRUE]
    BY <1>1, <1>3, <1>5 DEF D!ReadCharacter
  <2>2. r.fields = fields /\ r.field = p /\ r.escaped = TRUE /\ r.quote = D!NotQuoted
    BY <1>1, <1>3, <2>1 DEF ReadStates
  <2> QED BY <1>1, <1>3, <1>5, <2>2, Characters DEF HasRead
<1>6. CASE escaped = FALSE /\ c \notin D!Escapable
  <2>1. c # D!Escape /\ c \notin DOMAIN D!Closing /\ c # D!Space
    BY <1>6, Characters
  <2>2. r = [s EXCEPT !.field = p]
    BY <1>1, <1>3, <1>6, <2>1 DEF D!ReadCharacter
  <2>3. r.fields = fields /\ r.field = p /\ r.escaped = FALSE /\ r.quote = D!NotQuoted
    BY <1>1, <1>3, <1>6, <2>2 DEF ReadStates
  <2> QED BY <1>1, <1>3, <1>6, <2>1, <2>3 DEF HasRead
<1>7. CASE escaped = FALSE /\ c = D!Space /\ field # <<>>
  <2>1. c # D!Escape /\ c \notin DOMAIN D!Closing /\ c \in D!Escapable
    BY <1>7, Characters
  <2>2. r = [s EXCEPT !.fields = fs, !.field = e]
    BY <1>1, <1>3, <1>7, <2>1 DEF D!ReadCharacter
  <2>3. r.fields = fs /\ r.field = e /\ r.escaped = FALSE /\ r.quote = D!NotQuoted
    BY <1>1, <1>3, <1>7, <2>2 DEF ReadStates
  <2> QED BY <1>1, <1>3, <1>7, <2>1, <2>3 DEF HasRead
<1> QED BY <1>4, <1>5, <1>6, <1>7

\* Two functions that go on alike from the same beginning end alike.
LEMMA SameEnd ==
  ASSUME NEW n \in Nat, NEW f, NEW g, f[0] = g[0],
         \A i \in 1 .. n : f[i - 1] = g[i - 1] => f[i] = g[i]
  PROVE  f[n] = g[n]
<1> DEFINE S == {i \in Nat : i <= n => f[i] = g[i]}
<1>1. 0 \in S
  OBVIOUS
<1>2. ASSUME NEW i \in Nat, i \in S PROVE i + 1 \in S
  <2> SUFFICES ASSUME i + 1 <= n PROVE f[i + 1] = g[i + 1]
    OBVIOUS
  <2>1. i + 1 \in 1 .. n /\ (i + 1) - 1 = i /\ f[i] = g[i]
    BY <1>2
  <2> QED BY <2>1
<1>3. Nat \subseteq S
  <2> HIDE DEF S
  <2> QED BY <1>1, <1>2, NatSets
<1> QED BY <1>3

\* The states of a pass over a text, all of them of one set T.
Passes(u, text, T, base, step) ==
  /\ u[0] = base /\ \A i \in 1 .. Len(text) : u[i] = step[u[i - 1]][text[i]]
  /\ \A i \in 0 .. Len(text) : u[i] \in T

LEMMA PassOver ==
  ASSUME NEW A, NEW text \in Seq(A), NEW T, NEW base \in T, NEW step \in [T -> [A -> T]]
  PROVE  \E f \in [0 .. Len(text) -> T] : Passes(f, text, T, base, step)
<1> DEFINE n == Len(text)
           go == [i \in 1 .. n |-> [s \in T |-> step[s][text[i]]]]
<1>1. n \in Nat /\ \A i \in 1 .. n : text[i] \in A
  BY ElementOfSeq
<1>2. go \in [1 .. n -> [T -> T]] /\ \A i \in 1 .. n, s \in T : go[i][s] = step[s][text[i]]
  BY <1>1
<1>3. PICK f : Follows(f, n, T, base, go)
  <2> HIDE DEF n, go
  <2> QED BY <1>1, <1>2, Recursion
<1> HIDE DEF go, n
<1>4. f \in [0 .. n -> T] /\ f[0] = base /\ \A i \in 1 .. n : f[i] = go[i][f[i - 1]]
  BY <1>3 DEF Follows
<1>5. \A i \in 1 .. n : f[i - 1] \in T
  BY <1>1, <1>4
<1>6. \A i \in 1 .. n : f[i] = step[f[i - 1]][text[i]]
  BY <1>2, <1>4, <1>5
<1> QED BY <1>4, <1>6 DEF Passes, n

\* A pass over a text and one character more.
LEMMA PassOn ==
  ASSUME NEW A, NEW text \in Seq(A), NEW c \in A, NEW T, NEW base, NEW step,
         NEW u, Passes(u, text, T, base, step),
         NEW v, Passes(v, Append(text, c), T, base, step)
  PROVE  v[Len(Append(text, c))] = step[u[Len(text)]][c]
<1>1. PICK n \in Nat : n = Len(text)
  OBVIOUS
<1>2. PICK more \in Seq(A) : /\ more = Append(text, c) /\ Len(more) = n + 1 /\ more[n + 1] = c
                             /\ \A i \in 1 .. n : more[i] = text[i]
  <2>1. /\ Append(text, c) \in Seq(A) /\ Len(Append(text, c)) = n + 1
        /\ Append(text, c)[n + 1] = c /\ \A i \in 1 .. n : Append(text, c)[i] = text[i]
    BY <1>1, AppendOne
  <2> QED BY <2>1
<1>3. /\ u[0] = base /\ \A i \in 1 .. n : u[i] = step[u[i - 1]][text[i]]
      /\ v[0] = base /\ \A i \in 1 .. n + 1 : v[i] = step[v[i - 1]][more[i]]
  BY <1>1, <1>2 DEF Passes
<1>4. \A i \in 1 .. n : v[i] = step[v[i - 1]][text[i]]
  BY <1>2, <1>3
<1>5. \A i \in 1 .. n : u[i - 1] = v[i - 1] => u[i] = v[i]
  BY <1>3, <1>4
<1>6. u[n] = v[n]
  BY <1>3, <1>5, SameEnd
<1>7. n + 1 \in 1 .. n + 1 /\ (n + 1) - 1 = n
  OBVIOUS
<1> QED BY <1>1, <1>2, <1>3, <1>6, <1>7

LEMMA PayloadPass ==
  ASSUME NEW A, NEW text \in Seq(A),
         NEW step, step = [s \in ReadStates(A) |-> [c \in A |-> D!ReadCharacter(s, c, TRUE)]]
  PROVE  \E u : /\ Passes(u, text, ReadStates(A), D!Unread, step)
                /\ D!ReadPayload(text, TRUE) = u[Len(text)]
<1> DEFINE n == Len(text)
           T == ReadStates(A)
           next(s, i) == D!ReadCharacter(s, text[i], TRUE)
           u == CHOOSE f : f = [i \in 0 .. n |-> IF i = 0 THEN D!Unread
                                                 ELSE D!ReadCharacter(f[i - 1], text[i], TRUE)]
<1>1. n \in Nat /\ \A i \in 1 .. n : text[i] \in A
  BY ElementOfSeq
<1>2. D!Unread \in T
  <2>1. PICK e \in Seq(A), es \in Seq(Seq(A)) : e = <<>> /\ es = <<>>
    BY EmptySeq
  <2>2. D!Unread = [fields |-> es, field |-> e, quote |-> D!NotQuoted, escaped |-> FALSE]
    BY <2>1 DEF D!Unread
  <2> QED BY <2>2 DEF ReadStates
<1>3. step \in [T -> [A -> T]] /\ \A s \in T, c \in A : step[s][c] = D!ReadCharacter(s, c, TRUE)
  <2>1. \A s \in T, c \in A : D!ReadCharacter(s, c, TRUE) \in T
    BY ReadType
  <2>2. step = [s \in T |-> [c \in A |-> D!ReadCharacter(s, c, TRUE)]]
    OBVIOUS
  <2> HIDE DEF T
  <2>3. \A s \in T : step[s] = [c \in A |-> D!ReadCharacter(s, c, TRUE)]
    BY <2>2
  <2>4. ASSUME NEW s \in T PROVE step[s] \in [A -> T]
    <3>1. step[s] = [c \in A |-> D!ReadCharacter(s, c, TRUE)]
      BY <2>3
    <3>2. \A c \in A : D!ReadCharacter(s, c, TRUE) \in T
      BY <2>1
    <3> QED BY <3>1, <3>2
  <2>5. step = [s \in T |-> step[s]]
    BY <2>2
  <2>6. step \in [T -> [A -> T]]
    BY <2>4, <2>5
  <2> QED BY <2>3, <2>6
<1> HIDE DEF T
<1>4. PICK f \in [0 .. n -> T] : Passes(f, text, T, D!Unread, step)
  BY <1>2, <1>3, PassOver
<1>5. f = [i \in 0 .. n |-> IF i = 0 THEN D!Unread ELSE next(f[i - 1], i)]
  <2>1. \A i \in 1 .. n : f[i - 1] \in T
    BY <1>1, <1>4
  <2>2. \A i \in 1 .. n : f[i] = next(f[i - 1], i)
    BY <1>1, <1>3, <1>4, <2>1 DEF Passes
  <2>3. f[0] = D!Unread
    BY <1>4 DEF Passes
  <2> HIDE DEF n, next
  <2> QED BY <1>1, <1>4, <2>2, <2>3
<1>6. u = [i \in 0 .. n |-> IF i = 0 THEN D!Unread ELSE next(u[i - 1], i)]
  <2> HIDE DEF n
  <2> QED BY <1>5
<1>7. D!ReadPayload(text, TRUE) = u[n]
  BY Zenon DEF D!ReadPayload
<1> HIDE DEF u, n, next
<1>8. u[0] = D!Unread /\ \A i \in 1 .. n : u[i] = next(u[i - 1], i)
  <2>1. 0 \in 0 .. n /\ \A i \in 1 .. n : i \in 0 .. n /\ i # 0
    BY <1>1
  <2> QED BY <1>6, <2>1
<1>9. u[n] = f[n] /\ \A i \in 0 .. n : u[i] = f[i]
  <2>1. ASSUME NEW m \in 0 .. n PROVE u[m] = f[m]
    <3>1. f[0] = u[0]
      BY <1>4, <1>8 DEF Passes
    <3>2. \A i \in 1 .. n : f[i] = next(f[i - 1], i)
      <4>1. \A i \in 1 .. n : i \in 0 .. n /\ i # 0
        BY <1>1
      <4> QED BY <1>5, <4>1
    <3>3. m \in Nat /\ \A i \in 1 .. m : i \in 1 .. n
      BY <1>1
    <3>4. \A i \in 1 .. m : f[i - 1] = u[i - 1] => f[i] = u[i]
      BY <1>8, <3>2, <3>3
    <3>5. f[m] = u[m]
      BY <3>1, <3>3, <3>4, SameEnd
    <3> QED BY <3>5
  <2> QED BY <1>1, <2>1
<1>10. Passes(u, text, T, D!Unread, step)
  <2>1. \A i \in 1 .. n : i \in 0 .. n /\ i - 1 \in 0 .. n
    BY <1>1
  <2> QED BY <1>4, <1>9, <2>1 DEF Passes, n
<1> QED BY <1>7, <1>10 DEF T, n

LEMMA ReadOneMore ==
  ASSUME NEW A, NEW text \in Seq(A), NEW c \in A
  PROVE  /\ D!ReadPayload(text, TRUE) \in ReadStates(A)
         /\ D!ReadPayload(Append(text, c), TRUE) = D!ReadCharacter(D!ReadPayload(text, TRUE), c, TRUE)
<1>1. PICK step : step = [s \in ReadStates(A) |-> [x \in A |-> D!ReadCharacter(s, x, TRUE)]]
  OBVIOUS
<1>2. PICK u : /\ Passes(u, text, ReadStates(A), D!Unread, step)
               /\ D!ReadPayload(text, TRUE) = u[Len(text)]
  BY <1>1, PayloadPass
<1>3. Append(text, c) \in Seq(A)
  BY AppendOne
<1>4. PICK v : /\ Passes(v, Append(text, c), ReadStates(A), D!Unread, step)
               /\ D!ReadPayload(Append(text, c), TRUE) = v[Len(Append(text, c))]
  BY <1>1, <1>3, PayloadPass
<1>5. v[Len(Append(text, c))] = step[u[Len(text)]][c]
  BY <1>2, <1>4, PassOn
<1>6. u[Len(text)] \in ReadStates(A)
  <2>1. Len(text) \in 0 .. Len(text)
    OBVIOUS
  <2> QED BY <1>2, <2>1 DEF Passes
<1>7. step[u[Len(text)]][c] = D!ReadCharacter(u[Len(text)], c, TRUE)
  BY <1>1, <1>6
<1> QED BY <1>2, <1>4, <1>5, <1>6, <1>7

LEMMA ReadNothing ==
  ASSUME NEW A
  PROVE  HasRead(A, D!ReadPayload(<<>>, TRUE), <<>>, <<>>, FALSE)
<1>1. PICK step : step = [s \in ReadStates(A) |-> [x \in A |-> D!ReadCharacter(s, x, TRUE)]]
  OBVIOUS
<1>2. PICK e \in Seq(A), es \in Seq(Seq(A)) : e = <<>> /\ es = <<>> /\ Len(e) = 0
  BY EmptySeq
<1>3. PICK u : /\ Passes(u, e, ReadStates(A), D!Unread, step)
               /\ D!ReadPayload(e, TRUE) = u[Len(e)]
  BY <1>1, PayloadPass
<1>4. D!ReadPayload(e, TRUE) = D!Unread
  BY <1>2, <1>3 DEF Passes
<1>5. D!Unread = [fields |-> es, field |-> e, quote |-> D!NotQuoted, escaped |-> FALSE]
  BY <1>2 DEF D!Unread
<1>6. PICK s : /\ s = D!Unread
               /\ s = [fields |-> es, field |-> e, quote |-> D!NotQuoted, escaped |-> FALSE]
  BY <1>5
<1>7. HasRead(A, s, es, e, FALSE)
  BY <1>6 DEF HasRead, ReadStates
<1> QED BY <1>2, <1>4, <1>6, <1>7

\* Both passes that drop backslashes.
UnescapeStates(A) == [out : Seq(A), held : BOOLEAN]

LEMMA UnescapeType ==
  ASSUME NEW A, D!Escape \in A, NEW s \in UnescapeStates(A), NEW c \in A, NEW freed
  PROVE  D!Unescape(s, c, freed) \in UnescapeStates(A)
<1>1. s.out \in Seq(A) /\ s.held \in BOOLEAN
  BY DEF UnescapeStates
<1>2. CASE ~s.held /\ c = D!Escape
  <2>1. D!Unescape(s, c, freed) = [s EXCEPT !.held = TRUE]
    BY <1>2 DEF D!Unescape
  <2>2. PICK r : r = [s EXCEPT !.held = TRUE]
    OBVIOUS
  <2>3. r \in UnescapeStates(A) /\ r.out = s.out /\ r.held = TRUE
    BY <2>2 DEF UnescapeStates
  <2> QED BY <1>2, <2>1, <2>2, <2>3
<1>3. CASE ~(~s.held /\ c = D!Escape)
  <2>1. PICK o : o = IF s.held /\ c \notin freed THEN Append(s.out, D!Escape) ELSE s.out
    OBVIOUS
  <2>2. o \in Seq(A)
    BY <1>1, <2>1, AppendOne
  <2>3. PICK p \in Seq(A) : p = Append(o, c)
    BY <2>2, AppendOne
  <2>4. D!Unescape(s, c, freed) = [out |-> p, held |-> FALSE]
    BY <1>3, <2>1, <2>3 DEF D!Unescape
  <2>5. PICK r : r = D!Unescape(s, c, freed) /\ r = [out |-> p, held |-> FALSE]
    BY <2>4
  <2>6. r \in UnescapeStates(A) /\ r.out = p /\ r.held = FALSE
    BY <2>5 DEF UnescapeStates
  <2> QED BY <1>3, <2>1, <2>3, <2>5, <2>6
<1> QED BY <1>2, <1>3

HasFreed(A, s, out, held) == s \in UnescapeStates(A) /\ s.out = out /\ s.held = held

LEMMA Unescapes ==
  ASSUME NEW A, D!Escape \in A, NEW out, NEW held, NEW s, HasFreed(A, s, out, held), NEW c \in A,
         NEW freed, NEW r, r = D!Unescape(s, c, freed)
  PROVE  /\ held = FALSE /\ c = D!Escape => HasFreed(A, r, out, TRUE)
         /\ held = FALSE /\ c # D!Escape => HasFreed(A, r, Append(out, c), FALSE)
         /\ held = TRUE /\ c \in freed => HasFreed(A, r, Append(out, c), FALSE)
<1>1. s \in UnescapeStates(A) /\ s.out = out /\ s.held = held
  BY DEF HasFreed
<1>2. r \in UnescapeStates(A)
  BY <1>1, UnescapeType
<1>3. out \in Seq(A) /\ s.out = out /\ s.held = held
  BY <1>1 DEF UnescapeStates
<1>4. CASE held = FALSE /\ c = D!Escape
  <2>1. r = [s EXCEPT !.held = TRUE]
    BY <1>3, <1>4 DEF D!Unescape
  <2>2. r.out = out /\ r.held = TRUE
    BY <1>1, <2>1 DEF UnescapeStates
  <2>3. HasFreed(A, r, out, TRUE)
    BY <1>2, <2>2 DEF HasFreed
  <2> QED BY <1>4, <2>3
<1>5. CASE held = FALSE /\ c # D!Escape
  <2>1. r = [out |-> Append(out, c), held |-> FALSE]
    BY <1>3, <1>5 DEF D!Unescape
  <2>2. r.out = Append(out, c) /\ r.held = FALSE
    BY <2>1
  <2>3. HasFreed(A, r, Append(out, c), FALSE)
    BY <1>2, <2>2 DEF HasFreed
  <2> QED BY <1>5, <2>3
<1>6. CASE held = TRUE /\ c \in freed
  <2>1. r = [out |-> Append(out, c), held |-> FALSE]
    BY <1>3, <1>6 DEF D!Unescape
  <2>2. r.out = Append(out, c) /\ r.held = FALSE
    BY <2>1
  <2>3. HasFreed(A, r, Append(out, c), FALSE)
    BY <1>2, <2>2 DEF HasFreed
  <2> QED BY <1>6, <2>3
<1> QED BY <1>4, <1>5, <1>6

Untouched == [out |-> <<>>, held |-> FALSE]

LEMMA UnescapePass ==
  ASSUME NEW A, D!Escape \in A, NEW text \in Seq(A), NEW freed,
         NEW step, step = [s \in UnescapeStates(A) |-> [c \in A |-> D!Unescape(s, c, freed)]]
  PROVE  \E u : /\ Passes(u, text, UnescapeStates(A), Untouched, step)
                /\ D!Unescaped(text, freed) = u[Len(text)]
<1> DEFINE n == Len(text)
           T == UnescapeStates(A)
           next(s, i) == D!Unescape(s, text[i], freed)
           u == CHOOSE f : f = [i \in 0 .. n |-> IF i = 0 THEN Untouched
                                                 ELSE D!Unescape(f[i - 1], text[i], freed)]
<1>1. n \in Nat /\ \A i \in 1 .. n : text[i] \in A
  BY ElementOfSeq
<1>2. Untouched \in T
  <2>1. PICK e \in Seq(A) : e = <<>>
    BY EmptySeq
  <2>2. Untouched = [out |-> e, held |-> FALSE]
    BY <2>1 DEF Untouched
  <2> QED BY <2>2 DEF UnescapeStates
<1>3. step \in [T -> [A -> T]] /\ \A s \in T, c \in A : step[s][c] = D!Unescape(s, c, freed)
  <2>1. \A s \in T, c \in A : D!Unescape(s, c, freed) \in T
    BY UnescapeType
  <2>2. step = [s \in T |-> [c \in A |-> D!Unescape(s, c, freed)]]
    OBVIOUS
  <2> HIDE DEF T
  <2>3. \A s \in T : step[s] = [c \in A |-> D!Unescape(s, c, freed)]
    BY <2>2
  <2>4. ASSUME NEW s \in T PROVE step[s] \in [A -> T]
    <3>1. step[s] = [c \in A |-> D!Unescape(s, c, freed)]
      BY <2>3
    <3>2. \A c \in A : D!Unescape(s, c, freed) \in T
      BY <2>1
    <3> QED BY <3>1, <3>2
  <2>5. step = [s \in T |-> step[s]]
    BY <2>2
  <2>6. step \in [T -> [A -> T]]
    BY <2>4, <2>5
  <2> QED BY <2>3, <2>6
<1> HIDE DEF T
<1>4. PICK f \in [0 .. n -> T] : Passes(f, text, T, Untouched, step)
  BY <1>2, <1>3, PassOver
<1>5. f = [i \in 0 .. n |-> IF i = 0 THEN Untouched ELSE next(f[i - 1], i)]
  <2>1. \A i \in 1 .. n : f[i - 1] \in T
    BY <1>1, <1>4
  <2>2. \A i \in 1 .. n : f[i] = next(f[i - 1], i)
    BY <1>1, <1>3, <1>4, <2>1 DEF Passes
  <2>3. f[0] = Untouched
    BY <1>4 DEF Passes
  <2> HIDE DEF n, next
  <2> QED BY <1>1, <1>4, <2>2, <2>3
<1>6. u = [i \in 0 .. n |-> IF i = 0 THEN Untouched ELSE next(u[i - 1], i)]
  <2> HIDE DEF n
  <2> QED BY <1>5
<1>7. D!Unescaped(text, freed) = u[n]
  BY Zenon DEF D!Unescaped, Untouched
<1> HIDE DEF u, n, next
<1>8. u[0] = Untouched /\ \A i \in 1 .. n : u[i] = next(u[i - 1], i)
  <2>1. 0 \in 0 .. n /\ \A i \in 1 .. n : i \in 0 .. n /\ i # 0
    BY <1>1
  <2> QED BY <1>6, <2>1
<1>9. u[n] = f[n] /\ \A i \in 0 .. n : u[i] = f[i]
  <2>1. ASSUME NEW m \in 0 .. n PROVE u[m] = f[m]
    <3>1. f[0] = u[0]
      BY <1>4, <1>8 DEF Passes
    <3>2. \A i \in 1 .. n : f[i] = next(f[i - 1], i)
      <4>1. \A i \in 1 .. n : i \in 0 .. n /\ i # 0
        BY <1>1
      <4> QED BY <1>5, <4>1
    <3>3. m \in Nat /\ \A i \in 1 .. m : i \in 1 .. n
      BY <1>1
    <3>4. \A i \in 1 .. m : f[i - 1] = u[i - 1] => f[i] = u[i]
      BY <1>8, <3>2, <3>3
    <3>5. f[m] = u[m]
      BY <3>1, <3>3, <3>4, SameEnd
    <3> QED BY <3>5
  <2> QED BY <1>1, <2>1
<1>10. Passes(u, text, T, Untouched, step)
  <2>1. \A i \in 1 .. n : i \in 0 .. n /\ i - 1 \in 0 .. n
    BY <1>1
  <2> QED BY <1>4, <1>9, <2>1 DEF Passes, n
<1> QED BY <1>7, <1>10 DEF T, n

LEMMA UnescapeOneMore ==
  ASSUME NEW A, D!Escape \in A, NEW text \in Seq(A), NEW c \in A, NEW freed
  PROVE  /\ D!Unescaped(text, freed) \in UnescapeStates(A)
         /\ D!Unescaped(Append(text, c), freed) = D!Unescape(D!Unescaped(text, freed), c, freed)
         /\ D!Unescaped(<<>>, freed) = Untouched
<1>1. PICK step : step = [s \in UnescapeStates(A) |-> [x \in A |-> D!Unescape(s, x, freed)]]
  OBVIOUS
<1>2. PICK u : /\ Passes(u, text, UnescapeStates(A), Untouched, step)
               /\ D!Unescaped(text, freed) = u[Len(text)]
  BY <1>1, UnescapePass
<1>3. Append(text, c) \in Seq(A)
  BY AppendOne
<1>4. PICK v : /\ Passes(v, Append(text, c), UnescapeStates(A), Untouched, step)
               /\ D!Unescaped(Append(text, c), freed) = v[Len(Append(text, c))]
  BY <1>1, <1>3, UnescapePass
<1>5. v[Len(Append(text, c))] = step[u[Len(text)]][c]
  BY <1>2, <1>4, PassOn
<1>6. u[Len(text)] \in UnescapeStates(A)
  <2>1. Len(text) \in 0 .. Len(text)
    OBVIOUS
  <2> QED BY <1>2, <2>1 DEF Passes
<1>7. step[u[Len(text)]][c] = D!Unescape(u[Len(text)], c, freed)
  BY <1>1, <1>6
<1>8. D!Unescaped(<<>>, freed) = Untouched
  <2>1. PICK e \in Seq(A) : e = <<>> /\ Len(e) = 0
    BY EmptySeq
  <2>2. PICK w : /\ Passes(w, e, UnescapeStates(A), Untouched, step)
                 /\ D!Unescaped(e, freed) = w[Len(e)]
    BY <1>1, UnescapePass
  <2> QED BY <2>1, <2>2 DEF Passes
<1> QED BY <1>2, <1>4, <1>5, <1>6, <1>7, <1>8

\* What the window makes of a name, character by character.
LEMMA Escaping ==
  ASSUME NEW A, D!Escape \in A, NEW name \in Seq(A)
  PROVE  /\ D!EscapedUpto(name, 0) = <<>>
         /\ \A i \in 0 .. Len(name) : D!EscapedUpto(name, i) \in Seq(A)
         /\ \A i \in 1 .. Len(name) :
              D!EscapedUpto(name, i) =
                Append(IF name[i] \in D!Escapable THEN Append(D!EscapedUpto(name, i - 1), D!Escape)
                       ELSE D!EscapedUpto(name, i - 1), name[i])
<1> DEFINE n == Len(name)
           T == Seq(A)
           next(x, i) == Append(IF name[i] \in D!Escapable THEN Append(x, D!Escape) ELSE x, name[i])
           step == [i \in 1 .. n |-> [x \in T |-> next(x, i)]]
           u == CHOOSE f : f = [i \in 0 .. n |->
                  IF i = 0 THEN <<>>
                  ELSE Append(IF name[i] \in D!Escapable THEN Append(f[i - 1], D!Escape) ELSE f[i - 1],
                              name[i])]
<1>1. n \in Nat /\ \A i \in 1 .. n : name[i] \in A
  BY ElementOfSeq
<1>2. <<>> \in T
  BY EmptySeq
<1>3. ASSUME NEW i \in 1 .. n, NEW x \in T PROVE next(x, i) \in T
  <2>1. (IF name[i] \in D!Escapable THEN Append(x, D!Escape) ELSE x) \in Seq(A)
    BY AppendOne
  <2> QED BY <1>1, <2>1, AppendOne
<1>4. step \in [1 .. n -> [T -> T]] /\ \A i \in 1 .. n, x \in T : step[i][x] = next(x, i)
  <2> HIDE DEF n, T, next
  <2> QED BY <1>3
<1> HIDE DEF T
<1>5. PICK f : Follows(f, n, T, <<>>, step)
  <2> HIDE DEF n, step
  <2> QED BY <1>1, <1>2, <1>4, Recursion
<1>6. f = [i \in 0 .. n |-> IF i = 0 THEN <<>> ELSE next(f[i - 1], i)]
  <2> HIDE DEF step, n, next
  <2>1. f \in [0 .. n -> T] /\ \A i \in 1 .. n : f[i - 1] \in T
    BY <1>1, <1>5 DEF Follows
  <2>2. \A i \in 1 .. n : f[i] = next(f[i - 1], i)
    BY <1>4, <1>5, <2>1 DEF Follows
  <2>3. f[0] = <<>>
    BY <1>5 DEF Follows
  <2> QED BY <1>1, <2>1, <2>2, <2>3
<1>7. u = [i \in 0 .. n |-> IF i = 0 THEN <<>> ELSE next(u[i - 1], i)]
  <2> HIDE DEF n
  <2> QED BY <1>6
<1>8. \A i : D!EscapedUpto(name, i) = u[i]
  BY Zenon DEF D!EscapedUpto
<1> HIDE DEF u, n, next
<1>9. u[0] = <<>> /\ \A i \in 1 .. n : u[i] = next(u[i - 1], i)
  <2>1. 0 \in 0 .. n /\ \A i \in 1 .. n : i \in 0 .. n /\ i # 0
    BY <1>1
  <2> QED BY <1>7, <2>1
<1>10. \A i \in 0 .. n : u[i] \in T
  <2>1. u[0] \in T /\ \A i \in 1 .. n : u[i - 1] \in T => u[i] \in T
    BY <1>2, <1>3, <1>9
  <2> QED BY <1>1, <2>1, Stays
<1> QED BY <1>8, <1>9, <1>10 DEF n, T, next

\* An escaped name begins and ends with no quote if the name ends with none.
LEMMA EscapedEnds ==
  ASSUME NEW A, D!Escape \in A, NEW name \in Seq(A), NEW i \in 1 .. Len(name)
  PROVE  \E n \in Nat \ {0} :
           /\ n = Len(D!EscapedUpto(name, i)) /\ D!EscapedUpto(name, i)[n] = name[i]
           /\ D!EscapedUpto(name, i)[1] \notin D!Quotes
<1> DEFINE E(j) == D!EscapedUpto(name, j)
           Ends(j) == \E n \in Nat \ {0} :
                        n = Len(E(j)) /\ E(j)[n] = name[j] /\ E(j)[1] \notin D!Quotes
           S == {j \in Nat : j \in 1 .. Len(name) => Ends(j)}
<1>1. /\ E(0) = <<>> /\ \A j \in 0 .. Len(name) : E(j) \in Seq(A)
      /\ \A j \in 1 .. Len(name) :
           E(j) = Append(IF name[j] \in D!Escapable THEN Append(E(j - 1), D!Escape) ELSE E(j - 1),
                         name[j])
      /\ \A j \in 1 .. Len(name) : name[j] \in A
  BY Escaping, ElementOfSeq
<1> HIDE DEF E
<1>2. ASSUME NEW j \in 1 .. Len(name), j = 1 \/ Ends(j - 1) PROVE Ends(j)
  <2>1. j \in 0 .. Len(name) /\ j - 1 \in 0 .. Len(name)
    OBVIOUS
  <2>2. PICK e \in Seq(A) : e = E(j - 1)
    BY <1>1, <2>1
  <2>3. PICK l \in Nat : l = Len(e) /\ (j = 1 => l = 0) /\ (j # 1 => l > 0 /\ e[1] \notin D!Quotes)
    <3>1. j = 1 => Len(e) = 0
      BY <1>1, <2>2
    <3> QED BY <1>2, <2>2, <3>1
  <2>4. CASE name[j] \in D!Escapable
    <3>1. PICK m \in Seq(A) : /\ m = Append(e, D!Escape) /\ Len(m) = l + 1 /\ m[l + 1] = D!Escape
                              /\ \A k \in 1 .. l : m[k] = e[k]
      <4>1. /\ Append(e, D!Escape) \in Seq(A) /\ Len(Append(e, D!Escape)) = Len(e) + 1
            /\ Append(e, D!Escape)[Len(e) + 1] = D!Escape
            /\ \A k \in 1 .. Len(e) : Append(e, D!Escape)[k] = e[k]
        BY AppendOne
      <4> QED BY <2>3, <4>1
    <3>2. PICK r \in Seq(A) : /\ r = Append(m, name[j]) /\ Len(r) = l + 2 /\ r[l + 2] = name[j]
                              /\ \A k \in 1 .. l + 1 : r[k] = m[k]
      <4>1. name[j] \in A
        BY <1>1
      <4>2. /\ Append(m, name[j]) \in Seq(A) /\ Len(Append(m, name[j])) = (l + 1) + 1
            /\ Append(m, name[j])[(l + 1) + 1] = name[j]
            /\ \A k \in 1 .. l + 1 : Append(m, name[j])[k] = m[k]
        BY <3>1, <4>1, AppendOne
      <4>3. (l + 1) + 1 = l + 2
        OBVIOUS
      <4> QED BY <4>2, <4>3
    <3>3. r = E(j)
      BY <1>1, <2>2, <2>4, <3>1, <3>2
    <3>4. r[1] = m[1] /\ l + 2 \in Nat \ {0}
      BY <3>2
    <3>5. m[1] \notin D!Quotes
      <4>1. CASE l = 0
        BY <3>1, <4>1, Characters
      <4>2. CASE l # 0
        <5>1. 1 \in 1 .. l /\ j # 1
          BY <2>3, <4>2
        <5> QED BY <2>3, <3>1, <5>1
      <4> QED BY <4>1, <4>2
    <3> QED BY <3>2, <3>3, <3>4, <3>5
  <2>5. CASE name[j] \notin D!Escapable
    <3>1. name[j] \in A
      BY <1>1
    <3>2. PICK r \in Seq(A) : /\ r = Append(e, name[j]) /\ Len(r) = l + 1 /\ r[l + 1] = name[j]
                              /\ \A k \in 1 .. l : r[k] = e[k]
      <4>1. /\ Append(e, name[j]) \in Seq(A) /\ Len(Append(e, name[j])) = Len(e) + 1
            /\ Append(e, name[j])[Len(e) + 1] = name[j]
            /\ \A k \in 1 .. Len(e) : Append(e, name[j])[k] = e[k]
        BY <3>1, AppendOne
      <4> QED BY <2>3, <4>1
    <3>3. r = E(j)
      BY <1>1, <2>2, <2>5, <3>2
    <3>4. r[1] \notin D!Quotes
      <4>1. CASE l = 0
        BY <2>5, <3>2, <4>1, Characters
      <4>2. CASE l # 0
        <5>1. 1 \in 1 .. l /\ j # 1
          BY <2>3, <4>2
        <5> QED BY <2>3, <3>2, <5>1
      <4> QED BY <4>1, <4>2
    <3>5. l + 1 \in Nat \ {0}
      OBVIOUS
    <3> QED BY <3>2, <3>3, <3>4, <3>5
  <2> QED BY <2>4, <2>5
<1> HIDE DEF Ends
<1>3. 0 \in S
  OBVIOUS
<1>4. ASSUME NEW j \in Nat, j \in S PROVE j + 1 \in S
  <2> SUFFICES ASSUME j + 1 \in 1 .. Len(name) PROVE Ends(j + 1)
    OBVIOUS
  <2>1. (j + 1) - 1 = j /\ (j + 1 = 1 \/ j \in 1 .. Len(name))
    OBVIOUS
  <2>2. j + 1 = 1 \/ Ends((j + 1) - 1)
    BY <1>4, <2>1
  <2> QED BY <1>2, <2>2
<1>5. Nat \subseteq S
  <2> HIDE DEF S
  <2> QED BY <1>3, <1>4, NatSets
<1>6. Ends(i)
  BY <1>5
<1> QED BY <1>6 DEF Ends, E

\* Dropping the backslashes undoes what the window did.
LEMMA EscapedBack ==
  ASSUME NEW A, D!Escape \in A, NEW name \in Seq(A)
  PROVE  D!UnescapeBackslashes(D!EscapeForDrop(name)) = name
<1> DEFINE E(j) == D!EscapedUpto(name, j)
           W(text) == D!Unescaped(text, D!Escapable)
           Same(out, j) == out \in Seq(A) /\ Len(out) = j /\ \A k \in 1 .. j : out[k] = name[k]
           Back(j) == \E out : HasFreed(A, W(E(j)), out, FALSE) /\ Same(out, j)
           S == {j \in Nat : j <= Len(name) => Back(j)}
<1>1. /\ E(0) = <<>> /\ \A j \in 0 .. Len(name) : E(j) \in Seq(A)
      /\ \A j \in 1 .. Len(name) :
           E(j) = Append(IF name[j] \in D!Escapable THEN Append(E(j - 1), D!Escape) ELSE E(j - 1),
                         name[j])
      /\ \A j \in 1 .. Len(name) : name[j] \in A
  BY Escaping, ElementOfSeq
<1>2. /\ \A text \in Seq(A), c \in A :
           W(text) \in UnescapeStates(A) /\ W(Append(text, c)) = D!Unescape(W(text), c, D!Escapable)
      /\ W(<<>>) = Untouched
  <2>1. \A text \in Seq(A), c \in A :
          W(text) \in UnescapeStates(A) /\ W(Append(text, c)) = D!Unescape(W(text), c, D!Escapable)
    BY UnescapeOneMore
  <2>2. W(<<>>) = Untouched
    <3>1. <<>> \in Seq(A)
      BY EmptySeq
    <3> QED BY <3>1, UnescapeOneMore
  <2> QED BY <2>1, <2>2
<1> HIDE DEF E, W
<1>3. 0 \in S
  <2>1. PICK e \in Seq(A) : e = <<>> /\ Len(e) = 0
    BY EmptySeq
  <2>2. PICK s : s = Untouched /\ s = [out |-> e, held |-> FALSE]
    BY <2>1 DEF Untouched
  <2>3. HasFreed(A, s, e, FALSE)
    BY <2>2 DEF HasFreed, UnescapeStates
  <2>4. Same(e, 0)
    BY <2>1
  <2>5. Back(0)
    BY <1>1, <1>2, <2>2, <2>3, <2>4
  <2> QED BY <2>5
<1> HIDE DEF Same
<1>4. ASSUME NEW j \in 1 .. Len(name), Back(j - 1) PROVE Back(j)
  <2>1. j - 1 \in 0 .. Len(name) /\ name[j] \in A
    BY <1>1
  <2>2. PICK e \in Seq(A) : e = E(j - 1)
    BY <1>1, <2>1
  <2>3. PICK o : HasFreed(A, W(e), o, FALSE) /\ Same(o, j - 1)
    BY <1>4, <2>2
  <2>4. Same(Append(o, name[j]), j)
    <3>1. o \in Seq(A) /\ Len(o) = j - 1 /\ \A k \in 1 .. j - 1 : o[k] = name[k]
      BY <2>3 DEF Same
    <3>2. /\ Append(o, name[j]) \in Seq(A) /\ Len(Append(o, name[j])) = (j - 1) + 1
          /\ Append(o, name[j])[(j - 1) + 1] = name[j]
          /\ \A k \in 1 .. j - 1 : Append(o, name[j])[k] = o[k]
      BY <2>1, <3>1, AppendOne
    <3>3. (j - 1) + 1 = j /\ \A k \in 1 .. j : k \in 1 .. j - 1 \/ k = j
      OBVIOUS
    <3> QED BY <3>1, <3>2, <3>3 DEF Same
  <2>5. HasFreed(A, W(E(j)), Append(o, name[j]), FALSE)
    <3>1. CASE name[j] \in D!Escapable
      <4>1. E(j) = Append(Append(e, D!Escape), name[j]) /\ Append(e, D!Escape) \in Seq(A)
        BY <1>1, <2>2, <3>1, AppendOne
      <4>2. W(Append(e, D!Escape)) = D!Unescape(W(e), D!Escape, D!Escapable)
        BY <1>2
      <4>3. HasFreed(A, W(Append(e, D!Escape)), o, TRUE)
        BY <2>3, <4>2, Unescapes
      <4>4. W(E(j)) = D!Unescape(W(Append(e, D!Escape)), name[j], D!Escapable)
        BY <1>2, <2>1, <4>1
      <4> QED BY <2>1, <3>1, <4>3, <4>4, Unescapes
    <3>2. CASE name[j] \notin D!Escapable
      <4>1. E(j) = Append(e, name[j])
        BY <1>1, <2>2, <3>2
      <4>2. name[j] # D!Escape
        BY <3>2, Characters
      <4>3. W(E(j)) = D!Unescape(W(e), name[j], D!Escapable)
        BY <1>2, <2>1, <4>1
      <4> QED BY <2>1, <2>3, <4>2, <4>3, Unescapes
    <3> QED BY <3>1, <3>2
  <2> QED BY <2>4, <2>5
<1> HIDE DEF Back
<1>5. ASSUME NEW j \in Nat, j \in S PROVE j + 1 \in S
  <2> SUFFICES ASSUME j + 1 <= Len(name) PROVE Back(j + 1)
    OBVIOUS
  <2>1. j + 1 \in 1 .. Len(name) /\ (j + 1) - 1 = j /\ j <= Len(name)
    OBVIOUS
  <2> QED BY <1>4, <1>5, <2>1
<1>6. Nat \subseteq S
  <2> HIDE DEF S
  <2> QED BY <1>3, <1>5, NatSets
<1>7. Back(Len(name))
  BY <1>6
<1>8. W(E(Len(name))).held = FALSE /\ W(E(Len(name))).out = name
  <2>1. PICK o : HasFreed(A, W(E(Len(name))), o, FALSE) /\ Same(o, Len(name))
    BY <1>7 DEF Back
  <2>2. o = name
    BY <2>1, SeqEqual DEF Same
  <2> QED BY <2>1, <2>2 DEF HasFreed
<1> QED BY <1>8 DEF D!UnescapeBackslashes, D!WithoutEscapes, D!EscapeForDrop, W, E

LEMMA Untrimmed ==
  ASSUME NEW A, NEW text \in Seq(A), NEW n \in Nat \ {0}, n = Len(text),
         text[1] \notin D!Quotes, text[n] \notin D!Quotes
  PROVE  D!TrimQuotes(text) = text
<1> DEFINE bare == {i \in DOMAIN text : text[i] \notin D!Quotes}
           Low == CHOOSE i \in bare : \A j \in bare : i <= j
           High == CHOOSE i \in bare : \A j \in bare : j <= i
<1>1. DOMAIN text = 1 .. n
  BY LenProperties
<1>2. 1 \in bare /\ n \in bare /\ \A j \in bare : j \in 1 .. n
  BY <1>1
<1>3. D!TrimQuotes(text) = IF bare = {} THEN <<>> ELSE SubSeq(text, Low, High)
  BY Zenon DEF D!TrimQuotes
<1> HIDE DEF bare
<1>4. Low \in bare /\ \A j \in bare : Low <= j
  <2>1. \A j \in bare : 1 <= j
    BY <1>2
  <2> QED BY <1>2, <2>1
<1>5. High \in bare /\ \A j \in bare : j <= High
  <2>1. \A j \in bare : j <= n
    BY <1>2
  <2> QED BY <1>2, <2>1
<1> HIDE DEF Low, High
<1>6. Low = 1 /\ High = n
  BY <1>2, <1>4, <1>5
<1>7. SubSeq(text, 1, n) = text
  BY SubSeqFull
<1> QED BY <1>2, <1>3, <1>6, <1>7

LEMMA AppendAfter ==
  ASSUME NEW A, NEW p \in Seq(A), NEW x \in Seq(A), NEW c \in A
  PROVE  p \o x \in Seq(A) /\ p \o Append(x, c) = Append(p \o x, c)
<1>1. PICK m \in Nat, l \in Nat : m = Len(p) /\ l = Len(x)
  OBVIOUS
<1>2. PICK y \in Seq(A) : /\ y = Append(x, c) /\ Len(y) = l + 1 /\ y[l + 1] = c
                          /\ \A k \in 1 .. l : y[k] = x[k]
  <2>1. /\ Append(x, c) \in Seq(A) /\ Len(Append(x, c)) = Len(x) + 1
        /\ Append(x, c)[Len(x) + 1] = c /\ \A k \in 1 .. Len(x) : Append(x, c)[k] = x[k]
    BY AppendOne
  <2> QED BY <1>1, <2>1
<1>3. PICK q \in Seq(A) : /\ q = p \o x /\ Len(q) = m + l
                          /\ \A i \in 1 .. m + l : q[i] = IF i <= m THEN p[i] ELSE x[i - m]
  <2>1. /\ p \o x \in Seq(A) /\ Len(p \o x) = Len(p) + Len(x)
        /\ \A i \in 1 .. Len(p) + Len(x) : (p \o x)[i] = IF i <= Len(p) THEN p[i] ELSE x[i - Len(p)]
    BY ConcatProperties
  <2> QED BY <1>1, <2>1
<1>4. PICK w \in Seq(A) : /\ w = p \o y /\ Len(w) = m + (l + 1)
                          /\ \A i \in 1 .. m + (l + 1) : w[i] = IF i <= m THEN p[i] ELSE y[i - m]
  <2>1. /\ p \o y \in Seq(A) /\ Len(p \o y) = Len(p) + Len(y)
        /\ \A i \in 1 .. Len(p) + Len(y) : (p \o y)[i] = IF i <= Len(p) THEN p[i] ELSE y[i - Len(p)]
    BY ConcatProperties
  <2>2. Len(p) = m /\ Len(y) = l + 1
    BY <1>1, <1>2
  <2>3. /\ Len(p \o y) = m + (l + 1)
        /\ \A i \in 1 .. m + (l + 1) : (p \o y)[i] = IF i <= m THEN p[i] ELSE y[i - m]
    BY <2>1, <2>2
  <2> QED BY <2>1, <2>3
<1>5. PICK r \in Seq(A) : /\ r = Append(q, c) /\ Len(r) = m + l + 1 /\ r[m + l + 1] = c
                          /\ \A k \in 1 .. m + l : r[k] = q[k]
  <2>1. /\ Append(q, c) \in Seq(A) /\ Len(Append(q, c)) = Len(q) + 1
        /\ Append(q, c)[Len(q) + 1] = c /\ \A k \in 1 .. Len(q) : Append(q, c)[k] = q[k]
    BY AppendOne
  <2> QED BY <1>3, <2>1
<1>6. \A i \in 1 .. m + l + 1 : w[i] = r[i]
  <2> TAKE i \in 1 .. m + l + 1
  <2>1. CASE i <= m
    BY <1>3, <1>4, <1>5, <2>1
  <2>2. CASE i > m /\ i <= m + l
    <3>1. i - m \in 1 .. l /\ i \in 1 .. m + (l + 1) /\ i \in 1 .. m + l
      BY <2>2
    <3> QED BY <1>2, <1>3, <1>4, <1>5, <2>2, <3>1
  <2>3. CASE i = m + l + 1
    <3>1. i - m = l + 1 /\ i \in 1 .. m + (l + 1) /\ ~(i <= m)
      BY <2>3
    <3> QED BY <1>2, <1>4, <1>5, <2>3, <3>1
  <2>4. i <= m \/ (i > m /\ i <= m + l) \/ i = m + l + 1
    OBVIOUS
  <2> QED BY <2>1, <2>2, <2>3, <2>4
<1>7. w = r
  <2>1. Len(w) = Len(r) /\ Len(w) = m + l + 1
    BY <1>4, <1>5
  <2> QED BY <1>6, <2>1, SeqEqual
<1> QED BY <1>2, <1>3, <1>4, <1>5, <1>7

\* Reading on over an escaped name puts it into the field as it is.
LEMMA ReadsEscaped ==
  ASSUME NEW A, D!Escape \in A, NEW p \in Seq(A), NEW fields,
         HasRead(A, D!ReadPayload(p, TRUE), fields, <<>>, FALSE), NEW name \in Seq(A)
  PROVE  HasRead(A, D!ReadPayload(p \o D!EscapeForDrop(name), TRUE), fields,
                 D!EscapeForDrop(name), FALSE)
<1> DEFINE E(j) == D!EscapedUpto(name, j)
           R(text) == D!ReadPayload(text, TRUE)
           Read(j) == HasRead(A, R(p \o E(j)), fields, E(j), FALSE)
           S == {j \in Nat : j <= Len(name) => Read(j)}
<1>1. /\ E(0) = <<>> /\ \A j \in 0 .. Len(name) : E(j) \in Seq(A)
      /\ \A j \in 1 .. Len(name) :
           E(j) = Append(IF name[j] \in D!Escapable THEN Append(E(j - 1), D!Escape) ELSE E(j - 1),
                         name[j])
      /\ \A j \in 1 .. Len(name) : name[j] \in A
  BY Escaping, ElementOfSeq
<1>2. \A text \in Seq(A), c \in A : R(Append(text, c)) = D!ReadCharacter(R(text), c, TRUE)
  BY ReadOneMore
<1>3. HasRead(A, R(p), fields, <<>>, FALSE)
  OBVIOUS
<1> HIDE DEF E, R
<1>4. Read(0)
  <2>1. p \o <<>> = p
    BY ConcatEmptySeq
  <2> QED BY <1>1, <1>3, <2>1
<1>5. ASSUME NEW j \in 1 .. Len(name), Read(j - 1) PROVE Read(j)
  <2>1. j - 1 \in 0 .. Len(name) /\ name[j] \in A
    BY <1>1
  <2>2. PICK e \in Seq(A) : e = E(j - 1)
    BY <1>1, <2>1
  <2>3. HasRead(A, R(p \o e), fields, e, FALSE)
    BY <1>5, <2>2
  <2>4. CASE name[j] \in D!Escapable
    <3>1. PICK m \in Seq(A) : m = Append(e, D!Escape)
      BY AppendOne
    <3>2. E(j) = Append(m, name[j])
      BY <1>1, <2>2, <2>4, <3>1
    <3>3. p \o e \in Seq(A) /\ p \o m = Append(p \o e, D!Escape)
      BY <3>1, AppendAfter
    <3>4. R(p \o m) = D!ReadCharacter(R(p \o e), D!Escape, TRUE)
      BY <1>2, <3>3
    <3>5. HasRead(A, R(p \o m), fields, m, TRUE)
      BY <2>3, <3>1, <3>4, ReadsCharacter
    <3>6. p \o m \in Seq(A) /\ p \o E(j) = Append(p \o m, name[j])
      BY <2>1, <3>2, AppendAfter
    <3>7. R(p \o E(j)) = D!ReadCharacter(R(p \o m), name[j], TRUE)
      BY <1>2, <2>1, <3>6
    <3> QED BY <2>1, <3>2, <3>5, <3>7, ReadsCharacter
  <2>5. CASE name[j] \notin D!Escapable
    <3>1. E(j) = Append(e, name[j])
      BY <1>1, <2>2, <2>5
    <3>2. p \o e \in Seq(A) /\ p \o E(j) = Append(p \o e, name[j])
      BY <2>1, <3>1, AppendAfter
    <3>3. R(p \o E(j)) = D!ReadCharacter(R(p \o e), name[j], TRUE)
      BY <1>2, <2>1, <3>2
    <3> QED BY <2>1, <2>3, <2>5, <3>1, <3>3, ReadsCharacter
  <2> QED BY <2>4, <2>5
<1> HIDE DEF Read
<1>6. 0 \in S /\ \A j \in Nat : j \in S => j + 1 \in S
  <2>1. ASSUME NEW j \in Nat, j \in S PROVE j + 1 \in S
    <3> SUFFICES ASSUME j + 1 <= Len(name) PROVE Read(j + 1)
      OBVIOUS
    <3>1. j + 1 \in 1 .. Len(name) /\ (j + 1) - 1 = j /\ j <= Len(name)
      OBVIOUS
    <3> QED BY <1>5, <2>1, <3>1
  <2> QED BY <1>4, <2>1
<1>7. Nat \subseteq S
  <2> HIDE DEF S
  <2> QED BY <1>6, NatSets
<1>8. Read(Len(name))
  BY <1>7
<1> QED BY <1>8 DEF Read, E, R, D!EscapeForDrop

\* What the window sends for several names, name by name.
LEMMA Sending ==
  ASSUME NEW A, D!Escape \in A, D!Space \in A, NEW names \in Seq(Seq(A))
  PROVE  /\ D!PayloadUpto(names, 0) = <<>>
         /\ \A i \in 0 .. Len(names) : D!PayloadUpto(names, i) \in Seq(A)
         /\ \A i \in 1 .. Len(names) :
              D!PayloadUpto(names, i) =
                D!PayloadUpto(names, i - 1) \o Append(D!EscapeForDrop(names[i]), D!Space)
<1> DEFINE n == Len(names)
           T == Seq(A)
           next(x, i) == x \o Append(D!EscapeForDrop(names[i]), D!Space)
           step == [i \in 1 .. n |-> [x \in T |-> next(x, i)]]
           u == CHOOSE f : f = [i \in 0 .. n |->
                  IF i = 0 THEN <<>> ELSE f[i - 1] \o Append(D!EscapeForDrop(names[i]), D!Space)]
<1>1. n \in Nat /\ \A i \in 1 .. n : names[i] \in Seq(A)
  BY ElementOfSeq
<1>2. <<>> \in T
  BY EmptySeq
<1>3. ASSUME NEW i \in 1 .. n, NEW x \in T PROVE next(x, i) \in T
  <2>1. D!EscapeForDrop(names[i]) \in Seq(A)
    <3>1. names[i] \in Seq(A) /\ Len(names[i]) \in 0 .. Len(names[i])
      BY <1>1
    <3> QED BY <3>1, Escaping DEF D!EscapeForDrop
  <2>2. Append(D!EscapeForDrop(names[i]), D!Space) \in Seq(A)
    BY <2>1, AppendOne
  <2> QED BY <2>2, ConcatProperties
<1>4. step \in [1 .. n -> [T -> T]] /\ \A i \in 1 .. n, x \in T : step[i][x] = next(x, i)
  <2> HIDE DEF n, T, next
  <2> QED BY <1>3
<1> HIDE DEF T
<1>5. PICK f : Follows(f, n, T, <<>>, step)
  <2> HIDE DEF n, step
  <2> QED BY <1>1, <1>2, <1>4, Recursion
<1>6. f = [i \in 0 .. n |-> IF i = 0 THEN <<>> ELSE next(f[i - 1], i)]
  <2> HIDE DEF step, n, next
  <2>1. f \in [0 .. n -> T] /\ \A i \in 1 .. n : f[i - 1] \in T
    BY <1>1, <1>5 DEF Follows
  <2>2. \A i \in 1 .. n : f[i] = next(f[i - 1], i)
    BY <1>4, <1>5, <2>1 DEF Follows
  <2>3. f[0] = <<>>
    BY <1>5 DEF Follows
  <2> QED BY <1>1, <2>1, <2>2, <2>3
<1>7. u = [i \in 0 .. n |-> IF i = 0 THEN <<>> ELSE next(u[i - 1], i)]
  <2> HIDE DEF n
  <2> QED BY <1>6
<1>8. \A i : D!PayloadUpto(names, i) = u[i]
  BY Zenon DEF D!PayloadUpto
<1> HIDE DEF u, n, next
<1>9. u[0] = <<>> /\ \A i \in 1 .. n : u[i] = next(u[i - 1], i)
  <2>1. 0 \in 0 .. n /\ \A i \in 1 .. n : i \in 0 .. n /\ i # 0
    BY <1>1
  <2> QED BY <1>7, <2>1
<1>10. \A i \in 0 .. n : u[i] \in T
  <2>1. u[0] \in T /\ \A i \in 1 .. n : u[i - 1] \in T => u[i] \in T
    BY <1>2, <1>3, <1>9
  <2> QED BY <1>1, <2>1, Stays
<1> QED BY <1>8, <1>9, <1>10 DEF n, T, next

Escaped(A, fields, names, i) ==
  /\ fields \in Seq(Seq(A)) /\ Len(fields) = i
  /\ \A k \in 1 .. i : fields[k] = D!EscapeForDrop(names[k])

\* The payload is read as one field for each name.
LEMMA ReadsEveryName ==
  ASSUME NEW A, D!Escape \in A, D!Space \in A, NEW names \in Seq(Seq(A)),
         \A i \in 1 .. Len(names) : names[i] # <<>>
  PROVE  Escaped(A, D!SplitDropFields(D!Payload(names)), names, Len(names))
<1> DEFINE P(i) == D!PayloadUpto(names, i)
           R(text) == D!ReadPayload(text, TRUE)
           X(i) == D!EscapeForDrop(names[i])
           Read(i) == \E fields : /\ HasRead(A, R(P(i)), fields, <<>>, FALSE)
                                  /\ Escaped(A, fields, names, i)
           S == {i \in Nat : i <= Len(names) => Read(i)}
<1>1. /\ P(0) = <<>> /\ \A i \in 0 .. Len(names) : P(i) \in Seq(A)
      /\ \A i \in 1 .. Len(names) : P(i) = P(i - 1) \o Append(X(i), D!Space)
  BY Sending
<1>2. \A text \in Seq(A), c \in A : R(Append(text, c)) = D!ReadCharacter(R(text), c, TRUE)
  BY ReadOneMore
<1>3. Read(0)
  <2>1. HasRead(A, R(<<>>), <<>>, <<>>, FALSE)
    BY ReadNothing
  <2>2. PICK e \in Seq(Seq(A)) : e = <<>> /\ Len(e) = 0
    BY EmptySeq
  <2>3. Escaped(A, e, names, 0)
    BY <2>2 DEF Escaped
  <2> QED BY <1>1, <2>1, <2>2, <2>3
<1>4. ASSUME NEW i \in 1 .. Len(names)
      PROVE  X(i) \in Seq(A) /\ X(i) # <<>>
  <2>1. PICK name \in Seq(A) : name = names[i] /\ Len(name) \in 1 .. Len(name)
    <3>1. names[i] \in Seq(A) /\ names[i] # <<>>
      BY ElementOfSeq
    <3>2. Len(names[i]) \in Nat \ {0}
      BY <3>1, EmptySeq
    <3> QED BY <3>1, <3>2
  <2>2. D!EscapedUpto(name, Len(name)) \in Seq(A)
    <3>1. Len(name) \in 0 .. Len(name)
      OBVIOUS
    <3> QED BY <3>1, Escaping
  <2>3. PICK l \in Nat \ {0} : l = Len(D!EscapedUpto(name, Len(name)))
    BY <2>1, EscapedEnds
  <2>4. D!EscapedUpto(name, Len(name)) # <<>>
    BY <2>3, EmptySeq
  <2> QED BY <2>1, <2>2, <2>4 DEF D!EscapeForDrop
<1> HIDE DEF P, R, X
<1>5. ASSUME NEW i \in 1 .. Len(names), Read(i - 1) PROVE Read(i)
  <2>1. i - 1 \in 0 .. Len(names) /\ names[i] \in Seq(A)
    BY ElementOfSeq
  <2>2. PICK p \in Seq(A), x \in Seq(A) : p = P(i - 1) /\ x = X(i) /\ x # <<>>
    BY <1>1, <1>4, <2>1
  <2>3. PICK fields : HasRead(A, R(p), fields, <<>>, FALSE) /\ Escaped(A, fields, names, i - 1)
    BY <1>5, <2>2
  <2>4. HasRead(A, R(p \o x), fields, x, FALSE)
    BY <2>1, <2>2, <2>3, ReadsEscaped DEF R, X
  <2>5. p \o x \in Seq(A) /\ P(i) = Append(p \o x, D!Space)
    <3>1. P(i) = p \o Append(x, D!Space)
      BY <1>1, <2>2
    <3>2. p \o x \in Seq(A) /\ p \o Append(x, D!Space) = Append(p \o x, D!Space)
      BY AppendAfter
    <3> QED BY <3>1, <3>2
  <2>6. R(P(i)) = D!ReadCharacter(R(p \o x), D!Space, TRUE)
    BY <1>2, <2>5
  <2>7. HasRead(A, R(P(i)), Append(fields, x), <<>>, FALSE)
    BY <2>2, <2>4, <2>6, ReadsCharacter
  <2>8. Escaped(A, Append(fields, x), names, i)
    <3>1. fields \in Seq(Seq(A)) /\ Len(fields) = i - 1 /\ \A k \in 1 .. i - 1 : fields[k] = X(k)
      BY <2>3 DEF Escaped, X
    <3>2. /\ Append(fields, x) \in Seq(Seq(A)) /\ Len(Append(fields, x)) = (i - 1) + 1
          /\ Append(fields, x)[(i - 1) + 1] = x
          /\ \A k \in 1 .. i - 1 : Append(fields, x)[k] = fields[k]
      BY <3>1, AppendOne
    <3>3. (i - 1) + 1 = i /\ \A k \in 1 .. i : k \in 1 .. i - 1 \/ k = i
      OBVIOUS
    <3> QED BY <2>2, <3>1, <3>2, <3>3 DEF Escaped, X
  <2> QED BY <2>7, <2>8
<1> HIDE DEF Read
<1>6. 0 \in S /\ \A i \in Nat : i \in S => i + 1 \in S
  <2>1. ASSUME NEW i \in Nat, i \in S PROVE i + 1 \in S
    <3> SUFFICES ASSUME i + 1 <= Len(names) PROVE Read(i + 1)
      OBVIOUS
    <3>1. i + 1 \in 1 .. Len(names) /\ (i + 1) - 1 = i /\ i <= Len(names)
      OBVIOUS
    <3> QED BY <1>5, <2>1, <3>1
  <2> QED BY <1>3, <2>1
<1>7. Nat \subseteq S
  <2> HIDE DEF S
  <2> QED BY <1>6, NatSets
<1>8. Read(Len(names))
  BY <1>7
<1>9. PICK fields : /\ HasRead(A, R(P(Len(names))), fields, <<>>, FALSE)
                    /\ Escaped(A, fields, names, Len(names))
  BY <1>8 DEF Read
<1>10. PICK end : /\ end = R(P(Len(names))) /\ end.fields = fields /\ end.field = <<>>
                  /\ end.quote = D!NotQuoted
  BY <1>9 DEF HasRead
<1>11. D!SplitDropFields(D!Payload(names)) = fields
  BY <1>10 DEF D!SplitDropFields, D!Scan, D!Payload, P, R
<1> QED BY <1>9, <1>11

LEMMA FirstFormPicked ==
  ASSUME NEW a, NEW b, NEW c, NEW there, there = {} \/ (a # <<>> /\ a \in there)
  PROVE  D!PickExisting(<<a, b, c>>, there) = a
<1> DEFINE forms == <<a, b, c>>
           found == {i \in DOMAIN forms : forms[i] # <<>> /\ forms[i] \in there}
           first == CHOOSE i \in found : \A j \in found : i <= j
<1>1. DOMAIN forms = 1 .. 3 /\ forms[1] = a
  OBVIOUS
<1>2. D!PickExisting(forms, there) = IF found = {} THEN forms[1] ELSE forms[first]
  BY Zenon DEF D!PickExisting
<1>3. CASE there = {}
  <2>1. found = {}
    BY <1>3
  <2> QED BY <1>1, <1>2, <2>1
<1>4. CASE a # <<>> /\ a \in there
  <2>1. 1 \in found /\ \A j \in found : j \in 1 .. 3
    BY <1>1, <1>4
  <2> HIDE DEF found, forms
  <2>2. \A j \in found : 1 <= j
    BY <2>1
  <2>3. first \in found /\ \A j \in found : first <= j
    BY <2>1, <2>2
  <2> HIDE DEF first
  <2>4. first = 1
    BY <2>1, <2>3
  <2>5. D!PickExisting(forms, there) = a
    BY <1>1, <1>2, <2>1, <2>4
  <2> QED BY <2>5 DEF forms
<1> QED BY <1>3, <1>4

\* Every name is put out behind the names before it.
LEMMA PutOut ==
  ASSUME NEW A, NEW names \in Seq(A), NEW n, n = Len(names)
  PROVE  \E f : /\ f[0] = <<>> /\ f[n] = names /\ DOMAIN f = 0 .. n
                /\ f = [i \in 0 .. n |-> f[i]]
                /\ \A i \in 1 .. n : f[i] = Append(f[i - 1], names[i])
<1> DEFINE f == [i \in 0 .. n |-> SubSeq(names, 1, i)]
<1>1. n \in Nat /\ \A i \in 1 .. n : names[i] \in A
  BY ElementOfSeq
<1>2. f[0] = <<>>
  <2>1. SubSeq(names, 1, 0) = <<>>
    BY SubSeqEmpty
  <2> QED BY <1>1, <2>1
<1>3. f[n] = names
  <2>1. SubSeq(names, 1, n) = names
    BY SubSeqFull
  <2> QED BY <1>1, <2>1
<1>4. ASSUME NEW i \in 1 .. n PROVE f[i] = Append(f[i - 1], names[i])
  <2>1. i \in Int /\ i - 1 \in Int /\ \A j \in 1 .. i : names[j] \in A
    BY <1>1
  <2>2. PICK s \in Seq(A) : s = f[i] /\ Len(s) = i /\ \A j \in 1 .. i : s[j] = names[j]
    <3>1. /\ SubSeq(names, 1, i) \in Seq(A)
          /\ Len(SubSeq(names, 1, i)) = IF 1 <= i THEN i - 1 + 1 ELSE 0
          /\ \A j \in 1 .. i - 1 + 1 : SubSeq(names, 1, i)[j] = names[1 + j - 1]
      BY <2>1, SubSeqProperties
    <3>2. f[i] = SubSeq(names, 1, i)
      BY <1>1
    <3>3. i - 1 + 1 = i /\ 1 <= i /\ \A j \in 1 .. i : 1 + j - 1 = j
      OBVIOUS
    <3> HIDE DEF f
    <3>4. f[i] \in Seq(A) /\ Len(f[i]) = i /\ \A j \in 1 .. i : f[i][j] = names[j]
      BY <3>1, <3>2, <3>3
    <3> QED BY <3>4
  <2>3. PICK t \in Seq(A) : t = f[i - 1] /\ Len(t) = i - 1 /\ \A j \in 1 .. i - 1 : t[j] = names[j]
    <3>1. /\ SubSeq(names, 1, i - 1) \in Seq(A)
          /\ Len(SubSeq(names, 1, i - 1)) = IF 1 <= i - 1 THEN i - 1 - 1 + 1 ELSE 0
          /\ \A j \in 1 .. i - 1 - 1 + 1 : SubSeq(names, 1, i - 1)[j] = names[1 + j - 1]
      BY <2>1, SubSeqProperties
    <3>2. f[i - 1] = SubSeq(names, 1, i - 1)
      BY <1>1
    <3>3. /\ (IF 1 <= i - 1 THEN i - 1 - 1 + 1 ELSE 0) = i - 1 /\ i - 1 - 1 + 1 = i - 1
          /\ \A j \in 1 .. i - 1 : 1 + j - 1 = j
      OBVIOUS
    <3> HIDE DEF f
    <3>4. f[i - 1] \in Seq(A) /\ Len(f[i - 1]) = i - 1 /\ \A j \in 1 .. i - 1 : f[i - 1][j] = names[j]
      BY <3>1, <3>2, <3>3
    <3> QED BY <3>4
  <2> HIDE DEF f
  <2>4. PICK r \in Seq(A) : /\ r = Append(t, names[i]) /\ Len(r) = i /\ r[i] = names[i]
                            /\ \A j \in 1 .. i - 1 : r[j] = t[j]
    <3>1. names[i] \in A
      BY <1>1
    <3>2. /\ Append(t, names[i]) \in Seq(A) /\ Len(Append(t, names[i])) = (i - 1) + 1
          /\ Append(t, names[i])[(i - 1) + 1] = names[i]
          /\ \A j \in 1 .. i - 1 : Append(t, names[i])[j] = t[j]
      BY <2>3, <3>1, AppendOne
    <3>3. (i - 1) + 1 = i
      OBVIOUS
    <3> QED BY <3>2, <3>3
  <2>5. \A j \in 1 .. i : s[j] = r[j]
    <3>1. \A j \in 1 .. i : j \in 1 .. i - 1 \/ j = i
      OBVIOUS
    <3> QED BY <2>2, <2>3, <2>4, <3>1
  <2>6. s = r
    BY <2>2, <2>4, <2>5, SeqEqual
  <2> QED BY <2>2, <2>3, <2>4, <2>6
<1>5. DOMAIN f = 0 .. n /\ f = [i \in 0 .. n |-> f[i]]
  OBVIOUS
<1> HIDE DEF f
<1> QED BY <1>2, <1>3, <1>4, <1>5

\* Names the window escaped come out as they went in, each of them whole and in order,
\* however many they are and whatever characters they are of, as long as none is empty
\* and none ends in a quote: the payload is read as one field for each name, which is
\* the escaped name, has no quote to trim, and gives the name back when the backslashes
\* are dropped (drop.go: normalizeDrop).
THEOREM EveryNameArrives ==
  ASSUME NEW A, D!Escape \in A, D!Space \in A, NEW names \in Seq(Seq(A) \ {<<>>})
  PROVE  D!ArrivesWhole(names)
<1> DEFINE n == Len(names)
           fields == D!SplitDropFields(D!Payload(names))
           path(i) == D!TrimQuotes(fields[i])
<1>1. n \in Nat /\ \A i \in 1 .. n : names[i] \in Seq(A) /\ names[i] # <<>>
  BY ElementOfSeq
<1>2. names \in Seq(Seq(A)) /\ DOMAIN names = 1 .. n
  <2>1. DOMAIN names = 1 .. n /\ names = [i \in 1 .. n |-> names[i]]
    BY LenProperties
  <2> HIDE DEF n
  <2> QED BY <1>1, <2>1, SeqDef
<1>3. Escaped(A, fields, names, n)
  <2>1. \A i \in 1 .. n : names[i] # <<>>
    BY <1>1
  <2> QED BY <1>2, <2>1, ReadsEveryName
<1>4. Len(fields) = n /\ \A i \in 1 .. n : fields[i] = D!EscapeForDrop(names[i])
  BY <1>3 DEF Escaped
<1> SUFFICES ASSUME \A i \in 1 .. n : D!Last(names[i]) \notin D!Quotes,
                    NEW there \in {{}, D!ToSet(names)}
             PROVE  D!NormalizeDrop(D!Payload(names), there) = names
  BY <1>2 DEF D!ArrivesWhole
<1> HIDE DEF fields
<1>5. ASSUME NEW i \in 1 .. n
      PROVE  /\ path(i) = D!EscapeForDrop(names[i]) /\ path(i) # <<>>
             /\ D!UnescapeBackslashes(path(i)) = names[i]
  <2>1. PICK name \in Seq(A) : name = names[i] /\ name # <<>>
    BY <1>1
  <2>2. Len(name) \in Nat \ {0}
    BY <2>1, EmptySeq
  <2>3. name[Len(name)] \notin D!Quotes
    BY <2>1 DEF D!Last
  <2>4. Len(name) \in 1 .. Len(name) /\ Len(name) \in 0 .. Len(name)
    BY <2>2
  <2>5. PICK e \in Seq(A) : e = D!EscapedUpto(name, Len(name))
    BY <2>4, Escaping
  <2>6. PICK l \in Nat \ {0} : l = Len(e) /\ e[l] = name[Len(name)] /\ e[1] \notin D!Quotes
    BY <2>4, <2>5, EscapedEnds
  <2>7. D!TrimQuotes(e) = e
    BY <2>3, <2>6, Untrimmed
  <2>8. path(i) = e
    BY <1>4, <2>1, <2>5, <2>7 DEF D!EscapeForDrop
  <2>9. e # <<>>
    BY <2>6, EmptySeq
  <2>10. D!UnescapeBackslashes(e) = name
    BY <2>5, EscapedBack DEF D!EscapeForDrop
  <2> QED BY <2>1, <2>5, <2>8, <2>9, <2>10 DEF D!EscapeForDrop
<1> HIDE DEF path
<1> DEFINE form(i) == D!PickExisting(
                        <<D!UnescapeBackslashes(path(i)), D!StripAnyEscape(path(i)), path(i)>>, there)
           next(x, i) == IF path(i) = <<>> THEN x ELSE Append(x, form(i))
           u == CHOOSE f : f = [i \in 0 .. Len(fields) |->
                  IF i = 0 THEN <<>>
                  ELSE IF path(i) = <<>> THEN f[i - 1] ELSE Append(f[i - 1], form(i))]
<1>6. \A i \in 1 .. n : form(i) = names[i]
  <2> TAKE i \in 1 .. n
  <2>1. there = {} \/ names[i] \in there
    BY <1>2 DEF D!ToSet
  <2>2. D!UnescapeBackslashes(path(i)) = names[i] /\ names[i] # <<>>
    BY <1>1, <1>5
  <2> QED BY <2>1, <2>2, FirstFormPicked
<1>7. D!NormalizeDrop(D!Payload(names), there) = u[Len(fields)]
  BY Zenon DEF D!NormalizeDrop, fields, path
<1> HIDE DEF form
<1>8. \A x : \A i \in 1 .. n : next(x, i) = Append(x, names[i])
  BY <1>5, <1>6
<1>9. PICK f : /\ f[0] = <<>> /\ f[n] = names /\ f = [i \in 0 .. n |-> f[i]]
               /\ \A i \in 1 .. n : f[i] = Append(f[i - 1], names[i])
  BY PutOut
<1>10. f = [i \in 0 .. n |-> IF i = 0 THEN <<>> ELSE next(f[i - 1], i)]
  <2> HIDE DEF next, n
  <2>1. \A i \in 1 .. n : f[i] = next(f[i - 1], i)
    BY <1>8, <1>9
  <2>2. \A i \in 0 .. n : f[i] = IF i = 0 THEN <<>> ELSE next(f[i - 1], i)
    <3>1. \A i \in 0 .. n : i = 0 \/ i \in 1 .. n
      BY <1>1
    <3> QED BY <1>9, <2>1, <3>1
  <2>3. f = [i \in 0 .. n |-> f[i]]
    BY <1>9
  <2> QED BY <2>2, <2>3, Zenon
<1>11. u = [i \in 0 .. n |-> IF i = 0 THEN <<>> ELSE next(u[i - 1], i)]
  <2> HIDE DEF n
  <2> QED BY <1>4, <1>10
<1> HIDE DEF u, next, n
<1>12. u[0] = <<>> /\ \A i \in 1 .. n : u[i] = Append(u[i - 1], names[i])
  <2>1. 0 \in 0 .. n /\ \A i \in 1 .. n : i \in 0 .. n /\ i # 0
    BY <1>1
  <2> QED BY <1>8, <1>11, <2>1
<1>13. u[n] = f[n]
  <2>1. f[0] = u[0] /\ \A i \in 1 .. n : f[i - 1] = u[i - 1] => f[i] = u[i]
    BY <1>9, <1>12
  <2>2. f[n] = u[n]
    BY <1>1, <2>1, SameEnd
  <2> QED BY <2>2
<1> QED BY <1>4, <1>7, <1>9, <1>13

\* Whatever files are dropped on the line, they arrive under their names (normalizeDrop).
THEOREM DroppedFilesArrive == LineSpec => []DropArrives
<1>1. D!Escape \in NameChar /\ D!Space \in NameChar
  BY FilesAssumption
<1>2. EveryDropArrives
  BY <1>1, FilesAssumption, EveryNameArrives DEF EveryDropArrives
<1>3. DropArrives
  BY <1>2 DEF DropArrives
<1> QED BY <1>3, PTL

-----------------------------------------------------------------------------
(* Config: settings, field by field. *)

SettingNames == {"volume", "tracker", "switch", "panel", "width", "context", "gate", "warn", "url", "timeout", "security"}

\* Settings in use: a value for every field, numbers where the code has them.
IsConfig(c) ==
  /\ c = [field \in SettingNames |-> c[field]]
  /\ c.volume \in Int /\ c.width \in Int /\ c.context \in Int /\ c.warn \in Int /\ c.timeout \in Int

Fixed(c) == [c EXCEPT !.tracker = C!OneOf(@, {"auto", "openmpt", "gotracker"}, "auto")]
Used(c) == C!Normal(Fixed(c))

UsedTracker(v) == C!OneOf(v, {"auto", "openmpt", "gotracker"}, "auto")
UsedSwitch(v) == C!OneOf(v, {"on_success", "immediate"}, "on_success")
UsedPanel(v) == C!OneOf(v, {"auto", "on", "off"}, "auto")
UsedGate(v) == C!OneOf(v, {"either", "declared", "off"}, "either")
UsedSecurity(v) == C!OneOf(v, {"strict", "basic"}, "strict")
NormalWidth(n) == IF n = C!Auto THEN C!Auto ELSE C!ClampInt(n, 24, 48)
NormalTimeout(n) == IF n <= 0 THEN 10 ELSE n

\* Field by field.
IsUsed(u, c) ==
  /\ u = [field \in SettingNames |-> u[field]]
  /\ u.volume = C!NormalVolume(c.volume)
  /\ u.tracker = UsedTracker(c.tracker)
  /\ u.switch = UsedSwitch(c.switch)
  /\ u.panel = UsedPanel(c.panel)
  /\ u.width = NormalWidth(c.width)
  /\ u.context = C!ClampInt(c.context, 0, 10)
  /\ u.gate = UsedGate(c.gate)
  /\ u.warn = C!ClampInt(c.warn, 0, 100)
  /\ u.url = C!NormalURL(c.url)
  /\ u.timeout = NormalTimeout(c.timeout)
  /\ u.security = UsedSecurity(c.security)

LEMMA UsedIs ==
  ASSUME NEW c, IsConfig(c)
  PROVE  IsUsed(Used(c), c)
<1>1. PICK f : f = Fixed(c)
  OBVIOUS
<1>2. /\ f = [field \in SettingNames |-> f[field]]
      /\ \A field \in SettingNames \ {"tracker"} : f[field] = c[field]
      /\ f.tracker = UsedTracker(c.tracker)
  BY <1>1 DEF IsConfig, Fixed, SettingNames, UsedTracker
<1>3. PICK g : g = [f EXCEPT !.volume = C!NormalVolume(@),
                             !.switch = C!OneOf(@, {"on_success", "immediate"}, "on_success"),
                             !.url = C!NormalURL(@),
                             !.timeout = IF @ <= 0 THEN 10 ELSE @,
                             !.security = C!OneOf(@, {"strict", "basic"}, "strict")]
  OBVIOUS
<1>4. /\ g = [field \in SettingNames |-> g[field]]
      /\ g.volume = C!NormalVolume(f.volume) /\ g.tracker = f.tracker
      /\ g.switch = UsedSwitch(f.switch)
      /\ g.url = C!NormalURL(f.url) /\ g.timeout = NormalTimeout(f.timeout)
      /\ g.security = UsedSecurity(f.security)
      /\ \A field \in {"panel", "width", "context", "gate", "warn"} : g[field] = f[field]
  BY <1>2, <1>3 DEF SettingNames, NormalTimeout, UsedSwitch, UsedSecurity
<1>5. PICK a : a = C!NormalAnim(g)
  OBVIOUS
<1>6. /\ a = [field \in SettingNames |-> a[field]]
      /\ a.gate = UsedGate(g.gate)
      /\ a.warn = C!ClampInt(g.warn, 0, 100)
      /\ \A field \in SettingNames \ {"gate", "warn"} : a[field] = g[field]
  BY <1>4, <1>5 DEF SettingNames, C!NormalAnim, UsedGate
<1>7. PICK u : u = C!NormalPanel(a)
  OBVIOUS
<1>8. /\ u = [field \in SettingNames |-> u[field]]
      /\ u.panel = UsedPanel(a.panel)
      /\ u.width = NormalWidth(a.width)
      /\ u.context = C!ClampInt(a.context, 0, 10)
      /\ \A field \in SettingNames \ {"panel", "width", "context"} : u[field] = a[field]
  BY <1>6, <1>7 DEF SettingNames, C!NormalPanel, NormalWidth, UsedPanel
<1>9. u = Used(c)
  BY <1>1, <1>3, <1>5, <1>7, Zenon DEF Used, C!Normal
<1> QED BY <1>2, <1>4, <1>6, <1>8, <1>9 DEF IsUsed, SettingNames

LEMMA RepairedOnce ==
  /\ \A v \in Int : C!NormalVolume(v) \in Int /\ C!NormalVolume(C!NormalVolume(v)) = C!NormalVolume(v)
  /\ \A v \in Int : NormalWidth(v) \in Int /\ NormalWidth(NormalWidth(v)) = NormalWidth(v)
  /\ \A v \in Int : NormalTimeout(v) \in Int /\ NormalTimeout(NormalTimeout(v)) = NormalTimeout(v)
  /\ \A v \in Int, hi \in Nat : C!ClampInt(v, 0, hi) \in Int /\ C!ClampInt(C!ClampInt(v, 0, hi), 0, hi) = C!ClampInt(v, 0, hi)
  /\ \A v : /\ UsedTracker(UsedTracker(v)) = UsedTracker(v) /\ UsedSwitch(UsedSwitch(v)) = UsedSwitch(v)
             /\ UsedPanel(UsedPanel(v)) = UsedPanel(v) /\ UsedGate(UsedGate(v)) = UsedGate(v) /\ UsedSecurity(UsedSecurity(v)) = UsedSecurity(v)
  /\ \A v : C!NormalURL(C!NormalURL(v)) = C!NormalURL(v)
<1>1. \A v \in Int : C!NormalVolume(v) \in Int /\ C!NormalVolume(C!NormalVolume(v)) = C!NormalVolume(v)
  BY DEF C!NormalVolume, C!ClampInt
<1>2. \A v \in Int : NormalWidth(v) \in Int /\ NormalWidth(NormalWidth(v)) = NormalWidth(v)
  BY DEF NormalWidth, C!ClampInt, C!Auto
<1>3. \A v \in Int : NormalTimeout(v) \in Int /\ NormalTimeout(NormalTimeout(v)) = NormalTimeout(v)
  BY DEF NormalTimeout
<1>4. \A v \in Int, hi \in Nat : C!ClampInt(v, 0, hi) \in Int /\ C!ClampInt(C!ClampInt(v, 0, hi), 0, hi) = C!ClampInt(v, 0, hi)
  BY DEF C!ClampInt
<1>5. \A v : /\ UsedTracker(UsedTracker(v)) = UsedTracker(v) /\ UsedSwitch(UsedSwitch(v)) = UsedSwitch(v)
             /\ UsedPanel(UsedPanel(v)) = UsedPanel(v) /\ UsedGate(UsedGate(v)) = UsedGate(v) /\ UsedSecurity(UsedSecurity(v)) = UsedSecurity(v)
  BY DEF C!OneOf, UsedTracker, UsedSwitch, UsedPanel, UsedGate, UsedSecurity
<1>6. \A v : C!NormalURL(C!NormalURL(v)) = C!NormalURL(v)
  BY DEF C!NormalURL
<1> QED BY <1>1, <1>2, <1>3, <1>4, <1>5, <1>6

LEMMA SameSettings ==
  ASSUME NEW c, NEW d, c = [field \in SettingNames |-> c[field]], d = [field \in SettingNames |-> d[field]],
         c.volume = d.volume, c.tracker = d.tracker, c.switch = d.switch, c.panel = d.panel,
         c.width = d.width, c.context = d.context, c.gate = d.gate, c.warn = d.warn, c.url = d.url,
         c.timeout = d.timeout, c.security = d.security
  PROVE  c = d
<1>1. \A field \in SettingNames : c[field] = d[field]
  BY DEF SettingNames
<1> QED BY <1>1

\* Settings that are as Load leaves them.
Steady(x) == IsConfig(x) /\ Used(x) = x

LEMMA UsedSteady ==
  ASSUME NEW c, IsConfig(c)
  PROVE  Steady(Used(c))
<1>1. PICK u : u = Used(c) /\ IsUsed(u, c)
  BY UsedIs
<1>2. IsConfig(u)
  BY <1>1, RepairedOnce DEF IsConfig, IsUsed
<1>3. PICK w : w = Used(u) /\ IsUsed(w, u)
  BY <1>2, UsedIs
<1>4. w = u
  <2>1. /\ w.volume = u.volume /\ w.width = u.width /\ w.timeout = u.timeout
        /\ w.context = u.context /\ w.warn = u.warn
    <3>1. /\ c.volume \in Int /\ c.width \in Int /\ c.context \in Int /\ c.warn \in Int
          /\ c.timeout \in Int
      BY DEF IsConfig
    <3>2. w.volume = u.volume
      BY <1>1, <1>3, <3>1, RepairedOnce DEF IsUsed
    <3>3. w.width = u.width
      BY <1>1, <1>3, <3>1, RepairedOnce DEF IsUsed
    <3>4. w.timeout = u.timeout
      BY <1>1, <1>3, <3>1, RepairedOnce DEF IsUsed
    <3>5. w.context = u.context /\ w.warn = u.warn
      BY <1>1, <1>3, <3>1, RepairedOnce DEF IsUsed
    <3> QED BY <3>2, <3>3, <3>4, <3>5
  <2>2. /\ w.tracker = u.tracker /\ w.switch = u.switch /\ w.panel = u.panel
        /\ w.gate = u.gate /\ w.url = u.url /\ w.security = u.security
    BY <1>1, <1>3, RepairedOnce DEF IsUsed
  <2>3. w = [field \in SettingNames |-> w[field]] /\ u = [field \in SettingNames |-> u[field]]
    BY <1>1, <1>3 DEF IsUsed
  <2> QED BY <2>1, <2>2, <2>3, SameSettings
<1> QED BY <1>1, <1>2, <1>3, <1>4 DEF Steady

\* What Save writes reads back.
LEMMA RoundTrip ==
  ASSUME NEW c, IsConfig(c)
  PROVE  \E settings : C!Marshal(c) = C!Holding(settings) /\ C!Unmarshal(settings) = c
<1>1. DOMAIN C!DefaultConfig = SettingNames
  BY DEF C!DefaultConfig, SettingNames
<1>2. PICK s : s = [c EXCEPT !.width = C!MarshalWidth(@)]
  OBVIOUS
<1>3. DOMAIN s = SettingNames /\ s.width = C!MarshalWidth(c.width) /\ \A field \in SettingNames \ {"width"} : s[field] = c[field]
  BY <1>2 DEF IsConfig, SettingNames
<1>4. C!UnmarshalWidth(C!MarshalWidth(c.width)) = c.width
  BY DEF IsConfig, C!UnmarshalWidth, C!MarshalWidth, C!AutoWord, C!Number, C!Auto
<1>5. PICK u : u = C!Unmarshal(s)
  OBVIOUS
<1>6. u = [field \in SettingNames |-> IF field = "width" THEN C!UnmarshalWidth(s.width) ELSE s[field]]
  BY <1>1, <1>3, <1>5 DEF C!Unmarshal
<1>7. u.width = c.width /\ \A field \in SettingNames \ {"width"} : u[field] = c[field]
  BY <1>3, <1>4, <1>6 DEF SettingNames
<1>8. u = c
  BY <1>6, <1>7 DEF IsConfig, SettingNames
<1> QED BY <1>2, <1>5, <1>8 DEF C!Marshal

LEMMA DefaultSteady == Steady(C!DefaultConfig)
<1>1. IsConfig(C!DefaultConfig)
  <2>1. PICK none : none = ""
    BY Zenon
  <2>2. C!DefaultConfig =
          [volume |-> 1000, tracker |-> "auto", switch |-> "on_success", panel |-> "auto",
           width |-> C!Auto, context |-> 0, gate |-> "either", warn |-> 20, url |-> none,
           timeout |-> 10, security |-> "strict"]
    BY <2>1, ZenonT(60) DEF C!DefaultConfig
  <2>3. /\ C!DefaultConfig = [field \in SettingNames |-> C!DefaultConfig[field]]
        /\ C!DefaultConfig.volume = 1000 /\ C!DefaultConfig.width = 0 /\ C!DefaultConfig.context = 0
        /\ C!DefaultConfig.warn = 20 /\ C!DefaultConfig.timeout = 10
    BY <2>2 DEF SettingNames, C!Auto
  <2> QED BY <2>3 DEF IsConfig
<1>2. PICK u : u = Used(C!DefaultConfig) /\ IsUsed(u, C!DefaultConfig)
  BY <1>1, UsedIs
<1>4. PICK d : d = C!DefaultConfig
  OBVIOUS
<1>5. d.volume = 1000 /\ d.width = 0 /\ d.context = 0 /\ d.warn = 20 /\ d.timeout = 10
  BY <1>4 DEF C!DefaultConfig, C!Auto
<1>6. /\ C!NormalVolume(d.volume) = d.volume /\ NormalWidth(d.width) = d.width
      /\ NormalTimeout(d.timeout) = d.timeout
      /\ C!ClampInt(d.context, 0, 10) = d.context /\ C!ClampInt(d.warn, 0, 100) = d.warn
  <2>1. PICK full : full = 1000 /\ C!NormalVolume(full) = full
    BY DEF C!ClampInt, C!NormalVolume
  <2>2. NormalWidth(0) = 0
    BY DEF NormalWidth, C!Auto
  <2>3. NormalTimeout(10) = 10
    BY DEF NormalTimeout
  <2>4. C!ClampInt(0, 0, 10) = 0 /\ C!ClampInt(20, 0, 100) = 20
    BY DEF C!ClampInt
  <2>5. C!NormalVolume(d.volume) = d.volume
    <3>1. full = d.volume
      BY <1>5, <2>1
    <3> QED BY <2>1, <3>1, Zenon
  <2>6. NormalWidth(d.width) = d.width
    BY <1>5, <2>2, Zenon
  <2>7. NormalTimeout(d.timeout) = d.timeout
    BY <1>5, <2>3, Zenon
  <2>8. C!ClampInt(d.context, 0, 10) = d.context /\ C!ClampInt(d.warn, 0, 100) = d.warn
    BY <1>5, <2>4, Zenon
  <2> QED BY <2>5, <2>6, <2>7, <2>8
<1>7. /\ UsedTracker(d.tracker) = d.tracker /\ UsedSwitch(d.switch) = d.switch /\ UsedPanel(d.panel) = d.panel
      /\ UsedGate(d.gate) = d.gate /\ UsedSecurity(d.security) = d.security /\ C!NormalURL(d.url) = d.url
  <2>1. UsedTracker(d.tracker) = d.tracker
    BY <1>4 DEF C!DefaultConfig, C!OneOf, UsedTracker
  <2>2. UsedSwitch(d.switch) = d.switch
    BY <1>4 DEF C!DefaultConfig, C!OneOf, UsedSwitch
  <2>3. UsedPanel(d.panel) = d.panel
    BY <1>4 DEF C!DefaultConfig, C!OneOf, UsedPanel
  <2>4. UsedGate(d.gate) = d.gate
    BY <1>4 DEF C!DefaultConfig, C!OneOf, UsedGate
  <2>5. UsedSecurity(d.security) = d.security
    BY <1>4 DEF C!DefaultConfig, C!OneOf, UsedSecurity
  <2>6. C!NormalURL(d.url) = d.url
    BY <1>4 DEF C!DefaultConfig, C!NormalURL
  <2> QED BY <2>1, <2>2, <2>3, <2>4, <2>5, <2>6
<1>8. u = d
  <2>0. IsUsed(u, d)
    BY <1>2, <1>4
  <2>1. /\ u.volume = d.volume /\ u.width = d.width /\ u.timeout = d.timeout
        /\ u.context = d.context /\ u.warn = d.warn /\ u.url = d.url
    BY <1>6, <1>7, <2>0 DEF IsUsed
  <2>2. /\ u.tracker = d.tracker /\ u.switch = d.switch /\ u.panel = d.panel
        /\ u.gate = d.gate /\ u.security = d.security
    BY <1>7, <2>0 DEF IsUsed
  <2>3. u = [field \in SettingNames |-> u[field]] /\ d = [field \in SettingNames |-> d[field]]
    BY <1>1, <1>2, <1>4 DEF IsUsed, IsConfig
  <2> QED BY <2>1, <2>2, <2>3, SameSettings
<1> QED BY <1>1, <1>2, <1>4, <1>8 DEF Steady

\* The volume alone moves.
LEMMA VolumeAlone ==
  ASSUME NEW x, Steady(x), NEW v \in Int, NEW c, c = [x EXCEPT !.volume = v]
  PROVE  IsConfig(c) /\ Used(c) = [x EXCEPT !.volume = C!NormalVolume(v)]
<1>1. c = [field \in SettingNames |-> c[field]] /\ c.volume = v /\ \A field \in SettingNames \ {"volume"} : c[field] = x[field]
  BY DEF Steady, IsConfig, SettingNames
<1>2. IsConfig(c)
  BY <1>1 DEF IsConfig, Steady, SettingNames
<1>3. IsUsed(Used(c), c) /\ IsUsed(x, x)
  BY <1>2, UsedIs DEF Steady
<1>4. PICK u : u = Used(c) /\ IsUsed(u, c)
  BY <1>3
<1>5. PICK y : y = [x EXCEPT !.volume = C!NormalVolume(v)]
  OBVIOUS
<1>6. y = [field \in SettingNames |-> y[field]] /\ y.volume = C!NormalVolume(v) /\ \A field \in SettingNames \ {"volume"} : y[field] = x[field]
  BY <1>5 DEF Steady, IsConfig, SettingNames
<1>7. /\ u.tracker = y.tracker /\ u.switch = y.switch /\ u.panel = y.panel /\ u.width = y.width
      /\ u.context = y.context /\ u.gate = y.gate /\ u.warn = y.warn /\ u.url = y.url
      /\ u.timeout = y.timeout /\ u.security = y.security /\ u.volume = y.volume
  <2>1. /\ c.tracker = x.tracker /\ c.switch = x.switch /\ c.panel = x.panel /\ c.width = x.width
        /\ c.context = x.context /\ c.gate = x.gate /\ c.warn = x.warn /\ c.url = x.url
        /\ c.timeout = x.timeout /\ c.security = x.security
    BY <1>1 DEF SettingNames
  <2>2. /\ y.tracker = x.tracker /\ y.switch = x.switch /\ y.panel = x.panel /\ y.width = x.width
        /\ y.context = x.context /\ y.gate = x.gate /\ y.warn = x.warn /\ y.url = x.url
        /\ y.timeout = x.timeout /\ y.security = x.security
    BY <1>6 DEF SettingNames
  <2>3. u.volume = y.volume
    BY <1>1, <1>4, <1>6 DEF IsUsed
  <2>4. /\ u.tracker = x.tracker /\ u.switch = x.switch /\ u.panel = x.panel /\ u.width = x.width
        /\ u.context = x.context
    BY <1>3, <1>4, <2>1 DEF IsUsed
  <2>5. /\ u.gate = x.gate /\ u.warn = x.warn /\ u.url = x.url
        /\ u.timeout = x.timeout /\ u.security = x.security
    BY <1>3, <1>4, <2>1 DEF IsUsed
  <2> QED BY <2>2, <2>3, <2>4, <2>5
<1>8. u = y
  BY <1>4, <1>6, <1>7, SameSettings DEF IsUsed
<1> QED BY <1>2, <1>4, <1>5, <1>8

\* What a file with numbers for numbers reads as.
LEMMA FileRead ==
  ASSUME NEW file, C!IsFile(file)
  PROVE  IsConfig(C!Unmarshal(file))
<1>1. DOMAIN C!DefaultConfig = SettingNames
  BY DEF C!DefaultConfig, SettingNames
<1>2. PICK d : d = C!DefaultConfig /\ d.volume \in Int /\ d.width \in Int /\ d.context \in Int
               /\ d.warn \in Int /\ d.timeout \in Int
  BY DefaultSteady DEF Steady, IsConfig
<1>3. PICK u : u = C!Unmarshal(file)
  OBVIOUS
<1>4. u = [field \in SettingNames |->
             IF field \notin DOMAIN file THEN d[field]
             ELSE IF field = "width" THEN C!UnmarshalWidth(file.width) ELSE file[field]]
  BY <1>1, <1>2, <1>3 DEF C!Unmarshal
<1>5. ASSUME NEW field \in {"volume", "context", "warn", "timeout"} PROVE u[field] \in Int
  <2>1. u[field] = IF field \notin DOMAIN file THEN d[field] ELSE file[field]
    BY <1>4 DEF SettingNames
  <2>2. field \in DOMAIN file => file[field] \in Int
    BY DEF C!IsFile
  <2> QED BY <1>2, <2>1, <2>2
<1>6. u.width \in Int
  <2>1. u.width = IF "width" \notin DOMAIN file THEN d.width ELSE C!UnmarshalWidth(file.width)
    BY <1>4 DEF SettingNames
  <2>2. ASSUME NEW w \in {C!AutoWord} \cup [is : {"number"}, n : Int] PROVE C!UnmarshalWidth(w) \in Int
    BY DEF C!UnmarshalWidth, C!AutoWord, C!Auto
  <2>3. "width" \in DOMAIN file => C!UnmarshalWidth(file.width) \in Int
    BY <2>2 DEF C!IsFile
  <2> QED BY <1>2, <2>1, <2>3
<1> QED BY <1>3, <1>4, <1>5, <1>6 DEF IsConfig

\* What the disk holds, and the settings it stands for.
Means(s, x) ==
  /\ Steady(x)
  /\ \/ s = C!Torn /\ x = C!DefaultConfig
     \/ \E f : s = C!Holding(f) /\ IsConfig(C!Unmarshal(f)) /\ x = Used(C!Unmarshal(f))

LEMMA SavedReadsBack ==
  ASSUME NEW c, IsConfig(c)
  PROVE  Means(C!Marshal(c), Used(c))
<1>1. PICK f : C!Marshal(c) = C!Holding(f) /\ C!Unmarshal(f) = c
  BY RoundTrip
<1> QED BY <1>1, UsedSteady DEF Means

LEMMA LoadedAsMeant ==
  ASSUME NEW s, NEW x, Means(s, x), NEW how \in {"ok", "failed"}
  PROVE  /\ C!Load(s, how).config = x
         /\ C!Load(s, how).stored \in {s, C!Marshal(x)}
         /\ Means(C!Load(s, how).stored, x)
<1>1. CASE s = C!Torn /\ x = C!DefaultConfig
  <2>1. s # C!Absent
    BY <1>1 DEF C!Torn, C!Absent
  <2>2. C!Load(s, how) = [config |-> x, stored |-> s]
    BY <1>1, <2>1 DEF C!Load
  <2> QED BY <2>2
<1>2. ASSUME NEW f, s = C!Holding(f), IsConfig(C!Unmarshal(f)), x = Used(C!Unmarshal(f))
      PROVE  /\ C!Load(s, how).config = x
             /\ C!Load(s, how).stored \in {s, C!Marshal(x)}
             /\ Means(C!Load(s, how).stored, x)
  <2>1. s # C!Absent /\ s # C!Torn /\ s.settings = f
    BY <1>2 DEF C!Torn, C!Absent, C!Holding
  <2>2. C!Load(s, how) = [config |-> C!Normalize(Fixed(C!Unmarshal(f))).config,
                          stored |-> IF C!Normalize(Fixed(C!Unmarshal(f))).changed
                                     THEN C!Save(s, C!Normalize(Fixed(C!Unmarshal(f))).config, how) ELSE s]
    BY <2>1, Zenon DEF C!Load, Fixed
  <2>3. C!Normalize(Fixed(C!Unmarshal(f))).config = x
    BY <1>2 DEF C!Normalize, Used
  <2>4. C!Save(s, x, how) \in {s, C!Marshal(x)}
    BY DEF C!Save
  <2>5. C!Load(s, how).config = x /\ C!Load(s, how).stored \in {s, C!Marshal(x)}
    BY <2>2, <2>3, <2>4
  <2>6. Means(C!Marshal(x), x)
    BY SavedReadsBack DEF Means, Steady
  <2> QED BY <2>5, <2>6
<1> QED BY <1>1, <1>2 DEF Means

WithVolume(x, v) == [x EXCEPT !.volume = v]

\* A run of the program.
LEMMA RunAsMeant ==
  ASSUME NEW s, NEW x, Means(s, x), NEW run, run.repair \in {"ok", "failed"}, run.volume \in Int
  PROVE  /\ run.save = "failed" => /\ C!Run(s, run).stored \in {s, C!Marshal(x)}
                                   /\ Means(C!Run(s, run).stored, x)
         /\ run.save = "ok" => /\ C!Run(s, run).stored = C!Marshal(WithVolume(x, run.volume))
                               /\ Means(C!Run(s, run).stored, WithVolume(x, C!NormalVolume(run.volume)))
         /\ run.save = "cut" => /\ C!Run(s, run).stored = C!Torn
                                /\ Means(C!Run(s, run).stored, C!DefaultConfig)
<1>1. PICK l : /\ l = C!Load(s, run.repair) /\ l.config = x /\ l.stored \in {s, C!Marshal(x)}
               /\ Means(l.stored, x)
  BY LoadedAsMeant
<1>2. C!Run(s, run).stored = C!Save(l.stored, WithVolume(x, run.volume), run.save)
  BY <1>1 DEF C!Run, WithVolume
<1>3. CASE run.save = "failed"
  <2>1. C!Run(s, run).stored = l.stored
    BY <1>2, <1>3 DEF C!Save
  <2> QED BY <1>1, <1>3, <2>1
<1>4. CASE run.save = "ok"
  <2>1. C!Run(s, run).stored = C!Marshal(WithVolume(x, run.volume))
    BY <1>2, <1>4 DEF C!Save
  <2>2. /\ IsConfig(WithVolume(x, run.volume))
        /\ Used(WithVolume(x, run.volume)) = WithVolume(x, C!NormalVolume(run.volume))
    BY VolumeAlone DEF WithVolume, Means
  <2>3. Means(C!Marshal(WithVolume(x, run.volume)), WithVolume(x, C!NormalVolume(run.volume)))
    BY <2>2, SavedReadsBack
  <2> QED BY <1>4, <2>1, <2>3
<1>5. CASE run.save = "cut"
  <2>1. C!Run(s, run).stored = C!Torn
    BY <1>2, <1>5 DEF C!Save
  <2> QED BY <1>5, <2>1, DefaultSteady DEF Means
<1> QED BY <1>3, <1>4, <1>5

\* The last write up to a run.
LEMMA LastWrite ==
  ASSUME NEW i \in Nat, NEW S, S \subseteq 1 .. i, i \in S
  PROVE  C!Max(S) = i
<1>1. \A k \in S : i >= k
  OBVIOUS
<1>2. \A m \in S : (\A k \in S : m >= k) => m = i
  BY <1>1
<1> QED BY <1>1, <1>2 DEF C!Max

\* What the disk can hold in runs over a file: the file itself, a torn one, or what Save
\* wrote of its settings or of the defaults, with some volume.
DiskStates(file) ==
  LET settings == {WithVolume(c, v) : c \in {Used(C!Unmarshal(file)), C!DefaultConfig}, v \in Int}
  IN  {C!Holding(file), C!Torn} \cup {C!Marshal(c) : c \in settings}

LEMMA RunsStay ==
  ASSUME NEW file, C!IsFile(file), NEW s \in DiskStates(file), NEW run \in RunType
  PROVE  C!Run(s, run).stored \in DiskStates(file)
<1> DEFINE settings == {WithVolume(c, v) : c \in {Used(C!Unmarshal(file)), C!DefaultConfig}, v \in Int}
<1>1. ASSUME NEW c \in {Used(C!Unmarshal(file)), C!DefaultConfig}
      PROVE  /\ Steady(c) /\ WithVolume(c, c.volume) = c /\ c.volume \in Int
             /\ \A v, w : WithVolume(WithVolume(c, v), w) = WithVolume(c, w)
  <2>1. Steady(c)
    BY FileRead, UsedSteady, DefaultSteady
  <2> QED BY <2>1 DEF Steady, IsConfig, WithVolume, SettingNames
<1>2. \A c \in settings, v \in Int : WithVolume(c, v) \in settings
  BY <1>1
<1>3. \E x \in settings : Means(s, x)
  <2>1. CASE s = C!Holding(file)
    <3>1. Means(s, Used(C!Unmarshal(file)))
      BY <2>1, FileRead, UsedSteady DEF Means
    <3>2. Used(C!Unmarshal(file)) \in settings
      BY <1>1
    <3> QED BY <3>1, <3>2
  <2>2. CASE s = C!Torn
    <3>1. Means(s, C!DefaultConfig)
      BY <2>2, DefaultSteady DEF Means
    <3>2. C!DefaultConfig \in settings
      BY <1>1
    <3> QED BY <3>1, <3>2
  <2>3. ASSUME NEW c \in {Used(C!Unmarshal(file)), C!DefaultConfig}, NEW v \in Int,
               s = C!Marshal(WithVolume(c, v))
        PROVE  \E x \in settings : Means(s, x)
    <3>1. /\ IsConfig(WithVolume(c, v))
          /\ Used(WithVolume(c, v)) = WithVolume(c, C!NormalVolume(v))
      <4>1. Steady(c)
        BY <1>1
      <4>2. PICK y : y = [c EXCEPT !.volume = v]
        OBVIOUS
      <4>3. IsConfig(y) /\ Used(y) = [c EXCEPT !.volume = C!NormalVolume(v)]
        BY <4>1, <4>2, VolumeAlone
      <4> QED BY <4>2, <4>3 DEF WithVolume
    <3>2. Means(s, WithVolume(c, C!NormalVolume(v)))
      BY <2>3, <3>1, SavedReadsBack
    <3>3. C!NormalVolume(v) \in Int
      BY RepairedOnce
    <3> QED BY <3>2, <3>3
  <2> QED BY <2>1, <2>2, <2>3 DEF DiskStates
<1>4. PICK x \in settings : Means(s, x)
  BY <1>3
<1>5. WithVolume(x, run.volume) \in settings
  BY <1>2, <1>4 DEF RunType
<1>6. C!Run(s, run).stored \in {s, C!Marshal(x), C!Torn, C!Marshal(WithVolume(x, run.volume))}
  <2>1. run.repair \in {"ok", "failed"} /\ run.volume \in Int /\ run.save \in {"ok", "failed", "cut"}
    BY DEF RunType
  <2> QED BY <1>4, <2>1, RunAsMeant
<1> HIDE DEF settings
<1>7. DiskStates(file) = {C!Holding(file), C!Torn} \cup {C!Marshal(c) : c \in settings}
  BY DEF DiskStates, settings
<1> QED BY <1>4, <1>5, <1>6, <1>7

(* What the disk holds always stands for settings that Load leaves as they are (Means);
   a run moves them as SettingsKept says, by the way its save ends. *)

\* Whatever the file holds at first, and however the repairs and saves of any runs over it
\* end, each run uses the settings that were written, repaired, or all the defaults once a
\* save was cut off; only the volume moves (Normalize, Load, Save).
THEOREM EverySettingKept ==
  ASSUME NEW file, C!IsFile(file), NEW runs \in Seq(RunType)
  PROVE  C!SettingsKept(file, runs)
<1> DEFINE n == Len(runs)
           T == DiskStates(file)
           next(s, i) == C!Run(s, runs[i]).stored
           step == [i \in 1 .. n |-> [s \in T |-> next(s, i)]]
           u == CHOOSE f : f = [i \in 0 .. n |->
                  IF i = 0 THEN C!Holding(file) ELSE C!Run(f[i - 1], runs[i]).stored]
           wrote == Used(C!Unmarshal(file))
           torn(i) == {j \in 1 .. i : runs[j].save = "cut"}
           meant(i) == IF torn(i) = {} THEN wrote ELSE C!DefaultConfig
           writes(i) == {j \in 1 .. i : runs[j].save # "failed"}
           volume(i) == IF writes(i) = {} THEN wrote.volume
                        ELSE IF C!Max(writes(i)) \in torn(i) THEN C!DefaultConfig.volume
                        ELSE C!NormalVolume(runs[C!Max(writes(i))].volume)
           held(i) == WithVolume(meant(i), volume(i))
<1>1. n \in Nat /\ \A i \in 1 .. n : runs[i] \in RunType
  BY ElementOfSeq
<1>2. C!Holding(file) \in T
  BY DEF DiskStates
<1>3. ASSUME NEW i \in 1 .. n, NEW s \in T PROVE next(s, i) \in T
  BY <1>1, RunsStay
<1>4. step \in [1 .. n -> [T -> T]] /\ \A i \in 1 .. n, s \in T : step[i][s] = next(s, i)
  <2> HIDE DEF n, T, next
  <2> QED BY <1>3
<1> HIDE DEF T
<1>5. PICK f : Follows(f, n, T, C!Holding(file), step)
  <2> HIDE DEF n, step
  <2> QED BY <1>1, <1>2, <1>4, Recursion
<1>6. f = [i \in 0 .. n |-> IF i = 0 THEN C!Holding(file) ELSE next(f[i - 1], i)]
  <2> HIDE DEF step, n, next
  <2>1. f \in [0 .. n -> T] /\ \A i \in 1 .. n : f[i - 1] \in T
    BY <1>1, <1>5 DEF Follows
  <2>2. \A i \in 1 .. n : f[i] = next(f[i - 1], i)
    BY <1>4, <1>5, <2>1 DEF Follows
  <2>3. f[0] = C!Holding(file)
    BY <1>5 DEF Follows
  <2> QED BY <1>1, <2>1, <2>2, <2>3
<1>7. u = [i \in 0 .. n |-> IF i = 0 THEN C!Holding(file) ELSE next(u[i - 1], i)]
  <2> HIDE DEF n
  <2> QED BY <1>6
<1> HIDE DEF u
<1>8. u[0] = C!Holding(file) /\ \A i \in 1 .. n : u[i] = C!Run(u[i - 1], runs[i]).stored
  <2>1. 0 \in 0 .. n /\ \A i \in 1 .. n : i \in 0 .. n /\ i # 0
    BY <1>1
  <2> QED BY <1>7, <2>1
<1>9. Steady(wrote) /\ Steady(C!DefaultConfig) /\ \A i : Steady(meant(i))
  BY FileRead, UsedSteady, DefaultSteady
<1>10. ASSUME NEW x, Steady(x)
       PROVE  /\ WithVolume(x, x.volume) = x
              /\ \A v, w : WithVolume(WithVolume(x, v), w) = WithVolume(x, w)
  BY <1>10 DEF Steady, IsConfig, WithVolume, SettingNames
<1>11. Means(u[0], held(0))
  <2>1. torn(0) = {} /\ writes(0) = {}
    OBVIOUS
  <2>2. held(0) = wrote
    BY <1>9, <1>10, <2>1
  <2> QED BY <1>8, <1>9, <2>2, FileRead DEF Means
<1>12. ASSUME NEW i \in 1 .. n, Means(u[i - 1], held(i - 1)) PROVE Means(u[i], held(i))
  <2>1. PICK run : run = runs[i] /\ run.repair \in {"ok", "failed"} /\ run.volume \in Int
                   /\ run.save \in {"ok", "failed", "cut"}
    BY <1>1 DEF RunType
  <2>2. u[i] = C!Run(u[i - 1], run).stored
    BY <1>8, <2>1
  <2>3. 1 .. i = (1 .. i - 1) \cup {i} /\ i \notin 1 .. i - 1 /\ i \in Nat
    OBVIOUS
  <2>4. CASE run.save = "failed"
    <3>1. torn(i) = torn(i - 1) /\ writes(i) = writes(i - 1)
      BY <2>1, <2>3, <2>4
    <3>2. held(i) = held(i - 1)
      <4> HIDE DEF torn, writes, wrote
      <4> QED BY <3>1
    <3> HIDE DEF held
    <3> QED BY <1>12, <2>1, <2>2, <2>4, <3>2, RunAsMeant
  <2>5. CASE run.save = "ok"
    <3>1. torn(i) = torn(i - 1) /\ i \in writes(i) /\ writes(i) \subseteq 1 .. i /\ i \notin torn(i)
      BY <2>1, <2>3, <2>5
    <3>2. C!Max(writes(i)) = i
      <4> HIDE DEF writes
      <4> QED BY <2>3, <3>1, LastWrite
    <3>3. held(i) = WithVolume(meant(i - 1), C!NormalVolume(run.volume))
      <4> HIDE DEF torn, writes, wrote
      <4> QED BY <2>1, <3>1, <3>2
    <3>4. held(i) = WithVolume(held(i - 1), C!NormalVolume(run.volume))
      <4> HIDE DEF meant, volume
      <4> QED BY <1>9, <1>10, <3>3
    <3> HIDE DEF held
    <3> QED BY <1>12, <2>1, <2>2, <2>5, <3>4, RunAsMeant
  <2>6. CASE run.save = "cut"
    <3>1. i \in torn(i) /\ i \in writes(i) /\ writes(i) \subseteq 1 .. i
      BY <2>1, <2>3, <2>6
    <3>2. C!Max(writes(i)) = i
      <4> HIDE DEF writes
      <4> QED BY <2>3, <3>1, LastWrite
    <3>3. held(i) = WithVolume(C!DefaultConfig, C!DefaultConfig.volume)
      <4> HIDE DEF torn, writes, wrote
      <4> QED BY <3>1, <3>2
    <3>4. held(i) = C!DefaultConfig
      BY <1>9, <1>10, <3>3
    <3> HIDE DEF held
    <3> QED BY <1>12, <2>1, <2>2, <2>6, <3>4, RunAsMeant
  <2> QED BY <2>1, <2>4, <2>5, <2>6
<1>13. \A i \in 0 .. n : Means(u[i], held(i))
  <2> DEFINE S == {i \in Nat : i <= n => Means(u[i], held(i))}
  <2> HIDE DEF held, n
  <2>1. 0 \in S
    BY <1>11
  <2>2. ASSUME NEW i \in Nat, i \in S PROVE i + 1 \in S
    <3> SUFFICES ASSUME i + 1 <= n PROVE Means(u[i + 1], held(i + 1))
      OBVIOUS
    <3>1. i + 1 \in 1 .. n /\ (i + 1) - 1 = i /\ i <= n
      BY <1>1
    <3>2. Means(u[(i + 1) - 1], held((i + 1) - 1))
      BY <2>2, <3>1
    <3> QED BY <1>12, <3>1, <3>2
  <2>3. Nat \subseteq S
    <3> HIDE DEF S
    <3> QED BY <2>1, <2>2, NatSets
  <2> QED BY <1>1, <2>3
<1>14. \A i \in 0 .. n : C!Load(u[i], "failed").config = held(i)
  <2> HIDE DEF held, n
  <2> QED BY <1>13, LoadedAsMeant
<1>15. C!SettingsKept(file, runs)
  BY <1>14, Zenon DEF C!SettingsKept, Used, Fixed, WithVolume, u
<1> QED BY <1>15

\* The settings of any file survive any runs of the program (Normalize, Load, Save).
THEOREM SettingsSurvive == LineSpec => []ConfigKept
<1>1. \A life \in Lives : C!IsFile(life.file) /\ life.runs \in Seq(RunType)
  BY FilesAssumption
<1>2. EveryFileKept
  BY <1>1, EverySettingKept DEF EveryFileKept
<1>3. ConfigKept
  BY <1>2 DEF ConfigKept
<1> QED BY <1>3, PTL

=============================================================================
