------------------------- MODULE MCSessionThreads -------------------------
(* Small instances of the session threads: one session for the long         *)
(* interleavings with restarts and handovers, two for the shared file.      *)
EXTENDS SessionThreads, TLC

CONSTANTS s1, s2

OneSession == {s1}
TwoSessions == {s1, s2}
SessionSymmetry == Permutations({s1, s2})

Always == {TRUE}
MayFail == {TRUE, FALSE}

=============================================================================
