----------------------------- MODULE ProgramLife -----------------------------
(***************************************************************************)
(* What the virtual machine promises the user interface about a program:   *)
(* the status it publishes (IOMapCmd.ProgStatus, c_cmd.iom.h) says that it *)
(* runs, then once how it has ended, until the user interface has shown    *)
(* that and asks for the reset; only then can the next program start.  The *)
(* motors are driven while a program runs, and stop before the next one.   *)
(*                                                                         *)
(* The user interface may be called away from the on-brick program that it *)
(* attends to, and may then ask for its reset before it has ended: nothing *)
(* says that the program runs any more, but it does, and its end is shown. *)
(***************************************************************************)
VARIABLES
  status,      \* "IDLE", "RUNNING", how the program ended, or "RESET"
  running,     \* instructions of the program are executed
  driven,      \* the program has set outputs that nothing has reset since
  unattended   \* the user interface has left the program that it started

lifeVars == <<status, running, driven, unattended>>

Ended == {"OK", "ABORT", "ERROR"}

Init == status = "IDLE" /\ running = FALSE /\ driven = FALSE /\ unattended = FALSE

\* The program starts, or is found to be no program.
Start ==
  /\ status = "IDLE"
  /\ \/ status' = "RUNNING" /\ running' = TRUE /\ driven' = FALSE
     \/ status' = "ERROR" /\ UNCHANGED <<running, driven>>
  /\ UNCHANGED unattended

Drive == running /\ driven' = TRUE /\ UNCHANGED <<status, running, unattended>>

\* It may drive outputs in the last instructions before the end.
End ==
  /\ running /\ running' = FALSE
  /\ status' \in Ended
  /\ driven' \in {driven, TRUE}
  /\ UNCHANGED unattended

\* After an abort, outputs are reset at once.
Stop == ~running /\ status # "IDLE" /\ driven' = FALSE /\ UNCHANGED <<status, running, unattended>>

\* The user interface has shown how the program ended, or another file that it
\* was made to show while this one runs.
Acknowledge ==
  /\ status \in Ended \/ (status = "RUNNING" /\ unattended)
  /\ status' = "RESET"
  /\ UNCHANGED <<running, driven, unattended>>

Leave == unattended' = TRUE /\ UNCHANGED <<status, running, driven>>

Recycle ==
  /\ status = "RESET" /\ ~running
  /\ status' = "IDLE" /\ driven' = FALSE /\ unattended' = FALSE
  /\ UNCHANGED running

Next == Start \/ Drive \/ End \/ Stop \/ Acknowledge \/ Leave \/ Recycle

LifeSpec == Init /\ [][Next]_lifeVars
=============================================================================
