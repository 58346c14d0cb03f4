---------------------------- MODULE MCSurfaceAudit ----------------------------
(* Two names on one channel: a third declaration is always a duplicate.    *)
EXTENDS SurfaceAudit
=============================================================================
