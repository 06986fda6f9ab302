---------------------------- MODULE MCBootScript ----------------------------
\* Two packages with overlays, two versions, a user with two lines.
EXTENDS BootScript, TLC

\* A script stays damaged, and no property says anything of a damaged one.
Undamaged == ~damaged

Symmetric == Permutations(Markers) \cup Permutations(OwnLines)
=============================================================================
