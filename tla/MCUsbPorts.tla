----------------------------- MODULE MCUsbPorts -----------------------------
(* Role discovery on one port, and on two. *)
EXTENDS UsbPorts, TLC
=============================================================================
