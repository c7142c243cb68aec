---------------------------- MODULE MCFrameEngine ----------------------------
(* A target that sends a frame, a quick ack (a bare header) and a frame. *)
EXTENDS FrameEngine

MCOffset == <<0, 4, 6, 11>>
=============================================================================
