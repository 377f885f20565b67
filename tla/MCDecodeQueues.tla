---------------------------- MODULE MCDecodeQueues ----------------------------
(* Instances of DecodeQueues for TLC. *)
EXTENDS DecodeQueues, TLC

CONSTANTS r1, r2, r3

MCInput == r1 :> 2 @@ r2 :> 5 @@ r3 :> 3
MCMaxNew == r1 :> 6 @@ r2 :> 5 @@ r3 :> 3
===============================================================================
