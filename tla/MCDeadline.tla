----------------------------- MODULE MCDeadline -----------------------------
(* Small instances of Deadline for TLC: a tick is 10 s. *)
EXTENDS Deadline, Sequences

\* the login takes up to 3, each slow cert 3, a healthy one 1 + 1, a stuck one 1 + 12
MixedStart == << 3, 6, 9, 11, 24 >>
SlowStart  == << 3, 6, 9, 12, 15, 17 >>
=============================================================================
