------------------------------ MODULE MCChannel ------------------------------
(* Empty, small and oversized bodies, behind a header of two bytes; reads and *)
(* writes end anywhere in a frame.                                           *)
EXTENDS ChannelSafety

MCBodies == {0, 1, 3}
=============================================================================
