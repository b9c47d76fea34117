---------------------------- MODULE MCEditorSave ----------------------------
(***************************************************************************)
(* An instance of EditorSave for TLC.  Nothing tells the documents apart,  *)
(* and every property of the run is a safety property.                     *)
(***************************************************************************)
EXTENDS EditorSave

AnyDocument == Permutations(Docs)
=============================================================================
