------------------------------ MODULE MCFiles ------------------------------
(* Two channels, a program and the menus share three handles: too few for  *)
(* all of them, so that handles run out and every number is given out      *)
(* again to each of the others.                                            *)
EXTENDS Files

\* Numbers are alike: the first that comes to harm is 0.  From then on one other is used.
OneStruck ==
    \/ usb.struck = {}
    \/ usb.struck = {0} /\ open[MaxHandles - 1] = Closed
=============================================================================
