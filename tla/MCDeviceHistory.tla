-------------------------- MODULE MCDeviceHistory ---------------------------
(* DeviceHistory on the instances of MCVirtualDevices.                     *)
EXTENDS DeviceHistory, MCVirtualDevices
=============================================================================
