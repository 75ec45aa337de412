--------------------------- MODULE MCSequenceSend ---------------------------
(* Small instances of SequenceSend for TLC. *)
EXTENDS SequenceDelivery, TLC

Symmetry == Permutations(Workers)
=============================================================================
