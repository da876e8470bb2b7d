----------------------------- MODULE MC_Capsule -----------------------------
(* Instantiates Capsule for TLC: every signal the environment can send,   *)
(* at most two of them per behaviour.                                     *)
EXTENDS Capsule

MCExtSigs == {"TERM", "INT", "QUIT", "KILL"}
MCMaxExt == 2
=============================================================================
