----------------------------- MODULE MCSizeMap -----------------------------
(* The size map of the build: its constants are the program's own. *)
EXTENDS SizeMap
=============================================================================
