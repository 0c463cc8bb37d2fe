-------------------------------- MODULE Lease --------------------------------
(***************************************************************************)
(* What the owner of devices promises ("the owner is the only source of    *)
(* truth", docs/ARCHITECTURE.md): at any time a device is free, or one     *)
(* node has it, or several nodes are in its bridge, and it passes from one *)
(* to another only through being free.                                     *)
(***************************************************************************)
CONSTANTS Nodes, Devices

VARIABLES
  mode,   \* how each device is lent: "free", "whole" or "bridge"
  users   \* the nodes that have it

vars == <<mode, users>>

Init ==
  /\ mode = [d \in Devices |-> "free"]
  /\ users = [d \in Devices |-> {}]

Grant(d) ==
  /\ mode[d] = "free" /\ mode'[d] = "whole"
  /\ \E n \in Nodes : users'[d] = {n}

End(d) ==
  /\ mode[d] = "whole" /\ mode'[d] = "free"
  /\ users'[d] = {}

Join(d) ==
  /\ mode[d] # "whole" /\ mode'[d] = "bridge"
  /\ \E n \in Nodes \ users[d] : users'[d] = users[d] \cup {n}

Leave(d) ==
  /\ mode[d] = "bridge" /\ mode'[d] = IF users'[d] = {} THEN "free" ELSE "bridge"
  /\ users'[d] \in SUBSET users[d]

Stay(d) == mode'[d] = mode[d] /\ users'[d] = users[d]

\* The devices of a group change hands together.
Next == \A d \in Devices : Grant(d) \/ End(d) \/ Join(d) \/ Leave(d) \/ Stay(d)

Spec == Init /\ [][Next]_vars
=============================================================================
