------------------------------- MODULE MCTrap -------------------------------
(***************************************************************************)
(* Values for the mstatus writes of the small instance: a hart with one    *)
(* machine interrupt (MTI) and one supervisor interrupt that software      *)
(* raises (SSI), one delegatable exception and the M-mode ECALL.           *)
(***************************************************************************)
EXTENDS Trap

status(ie, pie, spp, mpp, mprv, gate) ==
  [SIE |-> ie, MIE |-> ie, SPIE |-> pie, MPIE |-> pie, SPP |-> spp, MPP |-> mpp,
   MPRV |-> mprv, TW |-> gate, TSR |-> gate]

(* Everything enabled or masked; return to each level; one value with the  *)
(* reserved MPP encoding and MPRV, one that gates WFI and SRET.            *)
MCDesired ==
  {status(TRUE, FALSE, 0, 1, FALSE, FALSE),
   status(FALSE, TRUE, 1, 0, FALSE, FALSE),
   status(FALSE, FALSE, 1, 2, TRUE, FALSE),
   status(TRUE, TRUE, 0, 1, TRUE, TRUE)}
=============================================================================
