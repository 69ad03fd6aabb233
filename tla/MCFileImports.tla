---------------------------- MODULE MCFileImports ----------------------------
(* TLC instance of FileImports. *)
EXTENDS FileImports
=============================================================================
