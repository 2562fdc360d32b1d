------------------------ MODULE MCSatelliteObservations ------------------------
(* Instances of SatelliteObservations for TLC.                              *)
EXTENDS SatelliteObservations, TLC

CONSTANTS c1, c2

\* A Sentinel-1 change, two references for it, a thermal product, and one of another collection.
MCProcessor == "s1" :> "s1" @@ "r1" :> "s1" @@ "r2" :> "s1" @@ "f1" :> "frp"
               @@ "m1" :> "frp"
===============================================================================
