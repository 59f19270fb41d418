---------------------------- MODULE MCDesktopRelease ----------------------------
(* The desktop release store on small instances.                               *)
EXTENDS DesktopRelease
=============================================================================
