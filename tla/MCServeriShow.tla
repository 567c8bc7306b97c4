--------------------------- MODULE MCServeriShow ----------------------------
(* The instances of MCServeri, for the refinement of LightShow.            *)
EXTENDS MCServeri, ServeriShow
=============================================================================
