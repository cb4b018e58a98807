------------------------------ MODULE MCOFile -------------------------------
(* OFile on one file or stream, through a buffer of two or three bytes.    *)
EXTENDS OFileProperties

MCTargets == {-1, 1}
=============================================================================
