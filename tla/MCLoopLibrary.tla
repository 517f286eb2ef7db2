-------------------------- MODULE MCLoopLibrary --------------------------
(***************************************************************************)
(* The instances of LoopLibrary: a scene file may list its loops in any    *)
(* order.                                                                  *)
(***************************************************************************)
EXTENDS LoopLibrary

SceneOrder == <<2, 1>>
==========================================================================
