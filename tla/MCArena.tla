-------------------------------- MODULE MCArena --------------------------------
(* Arenas of up to three allocations, of sizes at, below and above what the *)
(* regions hold, in a memory too small for all of them.                     *)
EXTENDS Arena

MCSizes == 0..3
================================================================================
