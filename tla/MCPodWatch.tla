---------------------------- MODULE MCPodWatch ----------------------------
(* Small instances of PodWatch for TLC. *)
EXTENDS PodWatch, TLC
=============================================================================
