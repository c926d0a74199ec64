--------------------------- MODULE MCDeviceHandlers ---------------------------
(* DeviceHandlers with all the handlers there are.                            *)
EXTENDS DeviceHandlers
===============================================================================
