----------------------------- MODULE HeartBeat -----------------------------
(***************************************************************************)
(* mConnectionTimeOut of kcp-cpp/KCPNet.h, which client and server count   *)
(* down: an unsigned number, and a decrement that wraps.                   *)
(***************************************************************************)
EXTENDS Integers

CONSTANT MaxUnsigned        \* UINT64_MAX

ASSUME UnsignedAssumption == MaxUnsigned \in Nat

\* mConnectionTimeOut--
Decremented(n) == IF n = 0 THEN MaxUnsigned ELSE n - 1
=============================================================================
