--------------------------- MODULE MCPlayerVisuals ---------------------------
(* PlayerVisuals for TLC.  Players and viewers are interchangeable.        *)
EXTENDS PlayerVisuals, FiniteSets, TLC

PlayerViewerSymmetry == Permutations(Player) \cup Permutations(Viewer)

\* Bound: behaviours are followed while at most one player waits for its
\* destruction at the viewers.
OneLeaverAtATime ==
    Cardinality({p \in Player : \E v \in Viewer : leaving[v][p] # {}}) <= 1
=============================================================================
