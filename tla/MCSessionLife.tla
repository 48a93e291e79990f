---------------------------- MODULE MCSessionLife ----------------------------
(***************************************************************************)
(* The MTUs for the run of SessionLife: both limits and one beyond each.   *)
(***************************************************************************)
EXTENDS SessionLife

AskedMTUs == {575, 576, 1500, 1501}
=============================================================================
