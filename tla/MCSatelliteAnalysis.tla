-------------------------- MODULE MCSatelliteAnalysis --------------------------
(* Instances of SatelliteAnalysis for TLC.                                  *)
EXTENDS SatelliteAnalysis

CONSTANTS c1, c2
===============================================================================
