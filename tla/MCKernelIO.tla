----------------------------- MODULE MCKernelIO -----------------------------
(* Values of the constants of KernelIO for TLC. *)
EXTENDS KernelIO

TresHilos == {<<1, 0>>, <<1, 1>>, <<2, 0>>}
=============================================================================
