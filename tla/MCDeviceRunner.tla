---- MODULE MCDeviceRunner ----
(* An edit, a shell command and a read of one run.                         *)
EXTENDS DeviceRunner
====
