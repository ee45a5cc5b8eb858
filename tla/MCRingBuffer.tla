---------------------------- MODULE MCRingBuffer ----------------------------
(* Small instances of the ring.                                            *)
EXTENDS RingBuffer
=============================================================================
