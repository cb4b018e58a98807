------------------------------ MODULE MCIFile -------------------------------
(* IFile on one file, regular or not, of up to five bytes, through a       *)
(* buffer of four.                                                         *)
EXTENDS IFileProperties

MCTargets == {-1, 1, 3, 4, 5}
=============================================================================
