---------------------------- MODULE MCFileSystem ----------------------------
(* Instance of FileSystem for TLC. *)
EXTENDS FileSystem

Completos == {4, 8}
=============================================================================
