---------------------------- MODULE MCEventLoop ----------------------------
(***************************************************************************)
(* Small instances of the run loop: one interrupt source, the serial port, *)
(* with FIFOs of one or two bytes.                                         *)
(***************************************************************************)
EXTENDS EventLoop
=============================================================================
