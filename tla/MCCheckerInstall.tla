-------------------------- MODULE MCCheckerInstall --------------------------
(* CheckerInstall for TLC: a sound release that needs a library beside the     *)
(* checker, and a sound one and an unsound one of one file.                     *)
EXTENDS CheckerInstall

CONSTANTS v84, v85, v86, esbmc, lib, i1, ours

Releases == {v84, v85, v86}
SoundReleases == {v85, v86}
FileNames == {esbmc, lib}
Layout == [b \in Releases |-> IF b = v85 THEN FileNames ELSE {esbmc}]

\* The releases two versions of veripp pin, and a source without a pin.
PinnedOrNot == {v86, None}

OneInstaller == {i1}

\* A verifier that takes what it finds, which is the unsound release where none is
\* installed, or is given a sound one.
Ours == {ours}
SoundOrNone == {v85, None}

=============================================================================
