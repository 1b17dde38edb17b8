--------------------------- MODULE RequestChannel ---------------------------
(***************************************************************************)
(* What the IPC layer promises the RIL: a request handed to it is pending  *)
(* until it is completed, once, with the modem's reply to that very        *)
(* request; requests complete in any order.  An event needs no reply and   *)
(* is never pending.  IPCSocketHandler is shown to implement this module,  *)
(* and RILCore uses the IPC layer at this level.                           *)
(***************************************************************************)
CONSTANTS Messages, NoMessage

VARIABLES pending, lastDone

channelVars == << pending, lastDone >>

ChannelInit ==
    /\ pending = {}
    /\ lastDone = [request |-> NoMessage, reply |-> NoMessage]

Accept(m) ==
    /\ m \notin pending
    /\ pending' = pending \cup {m}
    /\ UNCHANGED lastDone

Complete(m) ==
    /\ m \in pending
    /\ pending' = pending \ {m}
    /\ lastDone' = [request |-> m, reply |-> m]

ChannelNext == \E m \in Messages : Accept(m) \/ Complete(m)

ChannelSpec == ChannelInit /\ [][ChannelNext]_channelVars

FairChannelSpec ==
    ChannelSpec /\ \A m \in Messages : WF_channelVars(Complete(m))
=============================================================================
