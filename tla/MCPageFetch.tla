----------------------------- MODULE MCPageFetch -----------------------------
(***************************************************************************)
(* PageFetch.tla on small sets.                                            *)
(***************************************************************************)
EXTENDS PageFetch

(* The default pattern (every URL, the request stage), and patterns for     *)
(* both stages.                                                             *)
MCPatternSets == {Requests \X {"request"}, Requests \X Stages}

=============================================================================
