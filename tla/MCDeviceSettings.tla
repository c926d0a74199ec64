-------------------------- MODULE MCDeviceSettings --------------------------
(* All six handlers, with two positions of each slider.                     *)
EXTENDS DeviceSettings
=============================================================================
