---------------------------- MODULE MCSysVRwLock ----------------------------
(* SysVRwLock for TLC: the constants are model values, see the configuration. *)
EXTENDS SysVRwLock
=============================================================================
