------------------------------ MODULE MCKernel ------------------------------
(* Kernel with the tasks of scheduler::initialize.                         *)
EXTENDS Kernel

IdleAndInit == <<0, 1>>
=============================================================================
