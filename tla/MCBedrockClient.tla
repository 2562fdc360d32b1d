---------------------------- MODULE MCBedrockClient ----------------------------
(* An instance of BedrockClient for TLC.                                       *)
EXTENDS BedrockClient

CONSTANTS t1, t2
===============================================================================
