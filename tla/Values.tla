------------------------------- MODULE Values -------------------------------
(* What the columns of a row hold: integers, and NULL                        *)
EXTENDS Integers, FiniteSets, SequencesExt

CONSTANT NULL   \* SQL NULL, Python's None
=============================================================================
