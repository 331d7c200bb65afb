---------------------------- MODULE MCChatClient ----------------------------
(***************************************************************************)
(* ChatClient with one conversation of its own and one that an earlier     *)
(* session left behind.                                                    *)
(***************************************************************************)
EXTENDS ChatClient

CONSTANTS x, y
=============================================================================
