---------------------------- MODULE MCVipCapture ----------------------------
(***************************************************************************)
(* Instances of VipCapture for TLC.                                        *)
(***************************************************************************)
EXTENDS VipCapture, TLC

\* Buffers are interchangeable: sound for the safety properties.
BufferSymmetry == Permutations(Buffers)

\* Everything but the history variables about what the engine wrote and where: no
\* action and no property of the run that uses this view reads them.
NoContentView ==
  <<vb2Vars, ioctl, vb, buf_list, mmu_q_index, dma_buf, sequence, read_index,
    tasklet, write_index, cb, next_index, scheduled, bam_index, capturing,
    msiVars, stray>>

=============================================================================
