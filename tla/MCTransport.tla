---------------------------- MODULE MCTransport ----------------------------
(* Small instances of Transport: two threads on one transport.              *)
EXTENDS Transport

=============================================================================
