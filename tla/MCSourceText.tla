----------------------------- MODULE MCSourceText -----------------------------
(* Every text of up to MaxLength characters, of which only line breaks matter.    *)
EXTENDS SourceText

LOCAL INSTANCE SequencesExt

CONSTANT MaxLength

MCCharacter == { CR, LF, "c" }
MCTexts == BoundedSeq(Character, MaxLength)
================================================================================
