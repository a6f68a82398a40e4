------------------------- MODULE MCRegistryFetcher --------------------------
(* Instances of RegistryFetcher: several pages, one of them empty.         *)
EXTENDS RegistryFetcher

MCPages == << <<1>>, <<2, 3>>, <<>>, <<4, 5>> >>
=============================================================================
