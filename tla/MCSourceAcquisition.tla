-------------------------- MODULE MCSourceAcquisition --------------------------
(* Small instances of SourceAcquisition for TLC. *)
EXTENDS SourceAcquisition, TLC

\* Wave 1 has two queries of one result page, wave 2 one query of two pages.
MCQueryCount == [n \in 1..MaxWave |-> IF n = 1 THEN 2 ELSE 1]
MCProviderPages == [n \in 1..MaxWave |-> IF n = 1 THEN 0 ELSE 1]
MCOnePage == [n \in 1..MaxWave |-> 0]

Symmetry == Permutations(Worker)
===============================================================================
