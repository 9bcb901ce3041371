----------------------------- MODULE MCRestart -----------------------------
(* Instances of Restart for TLC; every constant is a number or a truth value *)
(* and is given in the configurations.                                       *)
EXTENDS Restart
=============================================================================
