---------------------------- MODULE MCAudioPath ----------------------------
(* The audio path on small instances. *)
EXTENDS AudioPath
============================================================================
