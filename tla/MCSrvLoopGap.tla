---------------------------- MODULE MCSrvLoopGap ----------------------------
(* SrvLoop with a clock per connection that the code does not have: the     *)
(* time since the server last tried to read from it.                        *)
EXTENDS SrvLoop

VARIABLE quiet

ReadFrom == {clients[s].fd : s \in {s \in Slots : s = i /\ Reads}}

InitQuiet == Init /\ quiet = [f \in Fds |-> 0]
NextQuiet ==
  \/ Tick /\ quiet' = [f \in Fds |-> Older(quiet[f])]
  \/ (Loop \/ Outside) /\ quiet' = [f \in Fds |-> IF f \in ReadFrom THEN 0 ELSE quiet[f]]

SpecQuiet == InitQuiet /\ [][NextQuiet]_<<vars, quiet>>

(* srvcfg.def.h:58 calls the timeout the "maximum allowed intra-message     *)
(* receive gap"; resync_client is to "detect message timeouts (gaps)"       *)
(* (srvmain.c:401): when the rest of a payload is overdue it knows it.      *)
GapSeen ==
  \A s \in Slots :
    Used(s) /\ clients[s].rb = "payload" /\ quiet[clients[s].fd] > MsgTimeout =>
      Gap(clients[s])
=============================================================================
