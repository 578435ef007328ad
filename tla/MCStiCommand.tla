---------------------------- MODULE MCStiCommand ----------------------------
(***************************************************************************)
(* Instances of StiCommand for TLC.                                        *)
(***************************************************************************)
EXTENDS StiCommand, TLC

\* Commands are interchangeable.
CommandSymmetry == Permutations(Commands)

=============================================================================
