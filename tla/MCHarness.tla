----------------------------- MODULE MCHarness -----------------------------
(* A deferred script before an inline one, and one that is skipped.        *)
EXTENDS Harness

MCDocuments == {<<"defer", "inline">>, <<"src">>}

=============================================================================
