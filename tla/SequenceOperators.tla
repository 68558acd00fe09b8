--------------------------- MODULE SequenceOperators ---------------------------
(***************************************************************************)
(* The operators of SequencesExt under a name of their own, for modules    *)
(* that give some of those names to something else.                        *)
(***************************************************************************)
Seqs == INSTANCE SequencesExt
================================================================================
