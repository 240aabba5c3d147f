---------------------------- MODULE MCUsbDevices ----------------------------
(* Two ports with a slot each, three stays of a device, one failure.        *)
EXTENDS UsbDevices, TLC

MCKinds == 1 :> {"gamepad", "dud"} @@ 2 :> {"gamepad", "keyboard"}
=============================================================================
