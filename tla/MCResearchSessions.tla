--------------------------- MODULE MCResearchSessions ---------------------------
(* Instances of ResearchSessions for TLC.                                   *)
EXTENDS ResearchSessions

\* The second job asks again for the research of the first.
MCResearch == <<"r1", "r1">>
===============================================================================
