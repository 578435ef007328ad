----------------------------- MODULE MCStiData ------------------------------
(***************************************************************************)
(* Instances of StiData for TLC.                                           *)
(***************************************************************************)
EXTENDS StiData, TLC

\* Transfers are interchangeable.
TransferSymmetry == Permutations(Transfers)

\* After a late cancel only the type invariant is claimed: such states are
\* checked and not continued.
NotLate == ~late

=============================================================================
