------------------------------ MODULE MCBrowser ------------------------------
(***************************************************************************)
(* Browser.tla on small sets.  Goroutines, pages and the contexts other    *)
(* than the default one are interchangeable, which the safety runs use.    *)
(***************************************************************************)
EXTENDS Browser, TLC

Symmetry == Permutations(Threads) \cup Permutations(Pages)
            \cup Permutations(Contexts \ {Default})

=============================================================================
