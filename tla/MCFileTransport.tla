-------------------------- MODULE MCFileTransport ---------------------------
(***************************************************************************)
(* FileTransport with two files and two processes writing to both.         *)
(***************************************************************************)
EXTENDS FileTransport

CONSTANTS f1, f2, w1, w2

MCPaths == <<f1, f2>>
MCWriters == {w1, w2}
=============================================================================
