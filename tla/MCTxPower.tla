------------------------------- MODULE MCTxPower -------------------------------
(* A transceiver of three channels for TxPower.  The masks: all of them, the
   ends, one, and one that no channel of the transceiver is in. *)
EXTENDS TxPower

CONSTANTS r1, r2, done

MCMasks == {{11, 12, 13}, {11, 13}, {12}, {10, 14}}

===============================================================================
