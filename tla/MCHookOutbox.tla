---------------------------- MODULE MCHookOutbox ----------------------------
(* A definition with two after-assignments, the second of whose hooks a     *)
(* later build of the program does not have.                               *)
EXTENDS HookOutbox, TLC

CONSTANTS d1, h1, h2, w1, w2

MCAfterHooks == d1 :> <<h1, h2>>
MCBinaries == {{h1, h2}, {h1}}
=============================================================================
