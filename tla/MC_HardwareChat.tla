-------------------------- MODULE MC_HardwareChat --------------------------
(***************************************************************************)
(* Small instance of HardwareChat for TLC: three uuid4 values, two         *)
(* questions, one answer text besides the error reply, two concurrent      *)
(* request handlers and four messages in all.                              *)
(***************************************************************************)
EXTENDS HardwareChat

CONSTANTS s1, s2, s3, q1, q2, a1, r1, r2

MCSid == {s1, s2, s3}
MCQuery == {q1, q2}
MCAnswer == {a1}
MCReq == {r1, r2}
=============================================================================
