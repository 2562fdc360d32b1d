------------------------- MODULE MCPublicMediaAnalysis -------------------------
(* Instances of PublicMediaAnalysis for TLC.                                *)
EXTENDS PublicMediaAnalysis

CONSTANTS r1, r2

MCKind == <<"photo", "video">>
===============================================================================
