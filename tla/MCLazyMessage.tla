--------------------------- MODULE MCLazyMessage ---------------------------
(* Instances of LazyMessage for TLC. *)
EXTENDS LazyMessage

CONSTANTS t1, t2, T1, T2

MCThreads == {t1, t2}
MCTypes == {T1, T2}
=============================================================================
