---------------------------- MODULE PlayerLifetime ----------------------------
(***************************************************************************)
(* What the UI promises about players (internal/audio.AudioPlayer), however *)
(* it loads them: an abstract specification that TrackLoad implements.     *)
(* A player holds decoders, temporary files and an output; it is prepared  *)
(* for a track, possibly heard, and closed.                                *)
(***************************************************************************)
EXTENDS Naturals

CONSTANT Track  \* a set of numbers: tracks in the order they were asked for
VARIABLE life   \* none, prepared, active or closed, for each track

Init == life = [t \in Track |-> "none"]

Prepare(t) ==
  /\ life[t] = "none"
  /\ life' = [life EXCEPT ![t] = "prepared"]

\* A prepared player is adopted; the one it replaces, if any, is older and is
\* closed in the same step.
Adopt(t) ==
  /\ life[t] = "prepared"
  /\ \A u \in Track : life[u] = "active" => u < t
  /\ life' = [u \in Track |-> IF u = t THEN "active"
                             ELSE IF life[u] = "active" THEN "closed" ELSE life[u]]

\* Players given up or failed are closed together.
Close(S) ==
  /\ \A t \in S : life[t] \in {"prepared", "active"}
  /\ life' = [t \in Track |-> IF t \in S THEN "closed" ELSE life[t]]

Next ==
  \/ \E t \in Track : Prepare(t) \/ Adopt(t)
  \/ \E S \in SUBSET Track : Close(S)

SafeSpec == Init /\ [][Next]_life
=============================================================================
