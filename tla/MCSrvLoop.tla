----------------------------- MODULE MCSrvLoop ------------------------------
(* Small instances of SrvLoop. *)
EXTENDS SrvLoop
=============================================================================
