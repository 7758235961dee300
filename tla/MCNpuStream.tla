---------------------------- MODULE MCNpuStream ----------------------------
(* Values for model checking NpuStream: the 64'd0 of the shift register is *)
(* no flit of any row.                                                     *)
EXTENDS NpuStream

MCZeroFlit == <<-1, -1>>

============================================================================
