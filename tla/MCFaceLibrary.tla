--------------------------- MODULE MCFaceLibrary ----------------------------
(* A small instance of FaceLibrary for TLC. *)
EXTENDS FaceLibrary
=============================================================================
