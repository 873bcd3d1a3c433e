---------------------------- MODULE MCVMLifecycle ----------------------------
(* Debuggers run, step and pause a program, and end it.                      *)
EXTENDS VMLifecycle
DebugStatesDef == {"VM_RUN_FREE", "VM_RUN_SINGLE", "VM_RUN_PAUSE", "VM_RESET1"}
=============================================================================
