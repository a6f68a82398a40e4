---------------------------- MODULE MCRunImport -----------------------------
(* Instances of RunImport for TLC.                                         *)
EXTENDS RunImport

\* Two items with the same content, the second behind another one.
MCContent1 == <<"a">>
MCContent2 == <<"a", "b">>
MCContent3 == <<"a", "b", "a">>
=============================================================================
