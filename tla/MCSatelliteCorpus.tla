--------------------------- MODULE MCSatelliteCorpus ---------------------------
(* An instance of SatelliteCorpus for TLC.                                     *)
EXTENDS SatelliteCorpus

CONSTANTS c1, c2

\* Three products before the event and three after it, on two tracks.
MCTrack == <<"a", "b", "a", "a", "b", "a">>

\* Earlier products cover one cell or both, later ones any cells.
MCFootprints ==
  {f \in [Item -> SUBSET Cell] : \A i \in Item : i < FirstPost => c1 \in f[i]}

\* At most one product is not simply open.
MCStandings ==
  {s \in [Item -> Standing] : Cardinality({i \in Item : s[i] # "open"}) <= 1}
===============================================================================
