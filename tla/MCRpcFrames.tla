------------------------------ MODULE MCRpcFrames ------------------------------
(* An instance of RpcFrames for TLC: frames of up to three segments over       *)
(* buffers of two.                                                             *)
EXTENDS RpcFrames
===============================================================================
