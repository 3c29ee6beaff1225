-------------------------- MODULE MC_Subscriptions --------------------------
(* A small instance of Subscriptions: a directory and a file in it.         *)
EXTENDS Subscriptions
CONSTANTS dir, file

Tree == {dir, file}
InTree == {<<file, dir>>}
=============================================================================
