--------------------------- MODULE MCDryRunImport ---------------------------
(* Instances of DryRunImport for TLC.                                      *)
EXTENDS DryRunImport

\* The third item has the content of the first.
MCContent2 == <<"a", "b">>
MCContent3 == <<"a", "b", "a">>
=============================================================================
