---------------------------------- MODULE MCBuf ----------------------------------
(* Three variables, enough for an array, one it is joined with and a view, over three *)
(* blocks: arrays of up to three items, which grow three times, in place or not.    *)
EXTENDS Buf, TLC

CONSTANTS x, y

MCArray == << y >>

VariablesAreAlike == Permutations(Handle)
================================================================================
