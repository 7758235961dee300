----------------------------- MODULE MCMsgdma ------------------------------
(* The requests with which TLC runs the dispatcher mode of the driver.     *)
EXTENDS Msgdma

Request(len, bits) ==
  [read |-> 1, write |-> 2, length |-> len, control |-> bits,
   read_burst |-> 1, write_burst |-> 1, read_stride |-> 1, write_stride |-> max_stride]

\* A transfer at the limit with an interrupt, and one beyond the limit.
SomeRequests ==
  {Request(max_byte, {"TRANSFER_COMPLETE_IRQ"}), Request(max_byte + 1, {})}
=============================================================================
