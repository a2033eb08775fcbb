------------------------------ MODULE Delivery ------------------------------
(***************************************************************************)
(* What the server promises about injected actions, without requests,      *)
(* connections or reports: an action stays pending until some device has   *)
(* applied it, a device never overtakes a pending action it has not yet    *)
(* applied, and nothing but a restart of the server loses an action (the   *)
(* store lives in memory).  A device may apply an action more than once,   *)
(* and several devices may apply the same one.                             *)
(***************************************************************************)
EXTENDS Naturals, SequencesExt

CONSTANTS Devices, Guids

VARIABLES
    order,      \* every action submitted so far, in order
    pending,    \* those not yet settled, oldest first
    applied,    \* applied[d]: the actions device d applied, in order
    restarts    \* how often the server was restarted

vars == <<order, pending, applied, restarts>>

Init ==
    /\ order = <<>>
    /\ pending = <<>>
    /\ applied = [d \in Devices |-> <<>>]
    /\ restarts = 0

Submit(g) ==
    /\ g \notin ToSet(order)
    /\ order' = Append(order, g)
    /\ pending' = Append(pending, g)
    /\ UNCHANGED <<applied, restarts>>

Older(g) == {order[i] : i \in {i \in DOMAIN order : \E j \in DOMAIN order : i < j /\ order[j] = g}}

Apply(d, g) ==
    /\ g \in ToSet(order)
    /\ Older(g) \cap ToSet(pending) \subseteq ToSet(applied[d])
    /\ applied' = [applied EXCEPT ![d] = Append(@, g)]
    /\ UNCHANGED <<order, pending, restarts>>

Settle(g) ==
    /\ g \in ToSet(pending)
    /\ \E d \in Devices : g \in ToSet(applied[d])
    /\ pending' = RemoveFirst(pending, g)
    /\ UNCHANGED <<order, applied, restarts>>

Restart ==
    /\ restarts' = restarts + 1
    /\ pending' = <<>>
    /\ UNCHANGED <<order, applied>>

Next ==
    \/ \E g \in Guids : Submit(g) \/ Settle(g) \/ \E d \in Devices : Apply(d, g)
    \/ Restart

Spec == Init /\ [][Next]_vars
=============================================================================
