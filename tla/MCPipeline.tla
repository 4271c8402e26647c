----------------------------- MODULE MCPipeline -----------------------------
(***************************************************************************)
(* Instances of Pipeline for TLC.                                          *)
(***************************************************************************)
EXTENDS Pipeline, TLC

\* Two files: one that fills the buffer, or is read in two slices, and one that
\* fails while it is read.
TwoSizes == 1 :> 2 @@ 2 :> 1
TwoOpenable == {1, 2}
TwoFaulty == {2}

=============================================================================
