------------------------------ MODULE MCCmdSend ------------------------------
(* Names for the buffers of the instances of CmdSend: as many as the queue is
   deep. *)
EXTENDS CmdSend

CONSTANTS b1, b2

=============================================================================
