------------------------- MODULE MCFilesystemMutex -------------------------
(***************************************************************************)
(* Three processes around one FilesystemMutex.                             *)
(***************************************************************************)
EXTENDS FilesystemMutex

CONSTANTS a, b, c

Three == {a, b, c}
OneDies == {a}
=============================================================================
