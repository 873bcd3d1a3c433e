---------------------------- MODULE MCBluetooth ----------------------------
(* Two connections: 0, which a peer opens, and 1, which the brick opens.    *)
(* Files take up to three buffers, a message carries two of them.          *)
EXTENDS Bluetooth
=============================================================================
