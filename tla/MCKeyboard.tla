----------------------------- MODULE MCKeyboard -----------------------------
\* Keyboard with the values TLC gives its constants (Keyboard.cfg).
EXTENDS Keyboard

\* Two tracks: one whose animation flashes without declaring it, one with a sidecar
\* of another kind.
CONSTANTS p1, p2
Beside == [p \in {p1, p2} |-> IF p = p1 THEN "undeclared" ELSE "broken"]
=============================================================================
