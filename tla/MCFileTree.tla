----------------------------- MODULE MCFileTree -----------------------------
(* FileTree for model checking. *)
EXTENDS FileTree
=============================================================================
