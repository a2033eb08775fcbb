-------------------------------- MODULE Store --------------------------------
(***************************************************************************)
(* What the Store interface promises its callers (memory_store.go, lines   *)
(* 10-25): each method takes effect at one instant between its call and    *)
(* its return, on one table and one connection flag per client and on ONE  *)
(* action queue for all clients.  There are no locks, no client objects    *)
(* and no slices here; MemoryStore is shown to implement this module.      *)
(***************************************************************************)
EXTENDS StoreCalls

VARIABLES
    values,     \* values[c][k]: the value of index k in client c's table
    connected,  \* connected[c]: the connection flag of client c
    queue,      \* the pending actions, oldest first
    issued,     \* GUIDs handed to EnqueueAction so far
    call,       \* call[p]: the call goroutine p is in
    phase,      \* phase[p]: how far that call has come
    ret         \* ret[p]: its result, once it has taken effect

vars == <<values, connected, queue, issued, call, phase, ret>>

TypeOK ==
    /\ values \in [Clients -> [Indices -> Values \cup {Absent}]]
    /\ connected \in [Clients -> BOOLEAN]
    /\ queue \in Seq(Guids)
    /\ issued \in SUBSET Guids
    /\ call \in [Proc -> Calls \cup {NoCall}]
    /\ phase \in [Proc -> {"idle", "called", "done"}]
    /\ ret \in [Proc -> Result]

Init ==
    /\ values = [c \in Clients |-> [k \in Indices |-> Absent]]
    /\ connected = [c \in Clients |-> FALSE]
    /\ queue = <<>>
    /\ issued = {}
    /\ call = [p \in Proc |-> NoCall]
    /\ phase = [p \in Proc |-> "idle"]
    /\ ret = [p \in Proc |-> NoResult]

-----------------------------------------------------------------------------
\* Callers enqueue under a fresh GUID (core.generateGUID, 16 random bytes).
Invoke(p) ==
    /\ phase[p] = "idle"
    /\ \E c \in Calls :
        /\ c.op = "EnqueueAction" => c.guid \notin issued
        /\ call' = [call EXCEPT ![p] = c]
        /\ issued' = IF c.op = "EnqueueAction" THEN issued \cup {c.guid} ELSE issued
    /\ phase' = [phase EXCEPT ![p] = "called"]
    /\ UNCHANGED <<values, connected, queue, ret>>

\* Goroutine p's call takes effect and its result is fixed.
Takes(p, op, result) ==
    /\ phase[p] = "called"
    /\ call[p].op = op
    /\ phase' = [phase EXCEPT ![p] = "done"]
    /\ ret' = [ret EXCEPT ![p] = result]
    /\ UNCHANGED <<issued, call>>

\* GetValue and GetAllValues: all the indices are read at one instant.
ReadValues(p, op) ==
    /\ Takes(p, op,
             LET keys == Keys(call[p])
             IN  [NoResult EXCEPT !.entries =
                     [i \in DOMAIN keys |-> values[call[p].client][keys[i]]]])
    /\ UNCHANGED <<values, connected, queue>>

GetValue(p) == ReadValues(p, "GetValue")

GetAllValues(p) == ReadValues(p, "GetAllValues")

SetValue(p) ==
    /\ Takes(p, "SetValue", NoResult)
    /\ values' = [values EXCEPT ![call[p].client][Keys(call[p])[1]] = call[p].value]
    /\ UNCHANGED <<connected, queue>>

EnqueueAction(p) ==
    /\ Takes(p, "EnqueueAction", NoResult)
    /\ queue' = Append(queue, call[p].guid)
    /\ UNCHANGED <<values, connected>>

\* All pending actions, whichever client asks, and none is removed.
DequeueActions(p) ==
    /\ Takes(p, "DequeueActions", [NoResult EXCEPT !.actions = queue])
    /\ UNCHANGED <<values, connected, queue>>

\* Whichever client asks, the oldest action with that GUID goes.
AcknowledgeAction(p) ==
    /\ Takes(p, "AcknowledgeAction",
             [NoResult EXCEPT !.ok = call[p].guid \in ToSet(queue)])
    /\ queue' = RemoveFirst(queue, call[p].guid)
    /\ UNCHANGED <<values, connected>>

IsClientConnected(p) ==
    /\ Takes(p, "IsClientConnected", [NoResult EXCEPT !.ok = connected[call[p].client]])
    /\ UNCHANGED <<values, connected, queue>>

SetClientConnected(p) ==
    /\ Takes(p, "SetClientConnected", NoResult)
    /\ connected' = [connected EXCEPT ![call[p].client] = call[p].flag]
    /\ UNCHANGED <<values, queue>>

Effect(p) ==
    \/ GetValue(p)      \/ SetValue(p)       \/ GetAllValues(p)
    \/ EnqueueAction(p) \/ DequeueActions(p) \/ AcknowledgeAction(p)
    \/ IsClientConnected(p) \/ SetClientConnected(p)

Return(p) ==
    /\ phase[p] = "done"
    /\ phase' = [phase EXCEPT ![p] = "idle"]
    /\ call' = [call EXCEPT ![p] = NoCall]
    /\ ret' = [ret EXCEPT ![p] = NoResult]
    /\ UNCHANGED <<values, connected, queue, issued>>

Next == \E p \in Proc : Invoke(p) \/ Effect(p) \/ Return(p)

Spec == Init /\ [][Next]_vars

\* A call that has been made takes effect and returns.
Fairness == \A p \in Proc : WF_vars(Effect(p)) /\ WF_vars(Return(p))

FairSpec == Spec /\ Fairness
=============================================================================
