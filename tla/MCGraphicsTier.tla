----------------------------- MODULE MCGraphicsTier -----------------------------
(* GraphicsTier for TLC.                                                   *)
EXTENDS GraphicsTier

\* Both sides of every threshold of DetermineTierScalabilityLevel.
BoundaryVRAM ==
    {0} \cup UNION {{t - 1, t} : t \in {6000, 8000, 10000, 13000, 19000, 24000, 48000}}
=============================================================================
