---------------------------- MODULE MCMemoryStore ----------------------------
(* Small instances of MemoryStore.  Each set of calls makes the goroutines *)
(* meet on one of the three kinds of lock.                                 *)
EXTENDS MemoryStore, TLC

CONSTANTS c1, c2, k1, k2, v1, v2, g1, g2, g3

\* A call whose other arguments do not matter.
Plain(op, c) == [op |-> op, client |-> c, indices |-> <<k1>>, value |-> v1,
                 guid |-> g1, flag |-> TRUE]

\* A report of two values meets a reader that asks for both and a second
\* client's report, while the connection flag is set and read.
ClientCalls ==
    {Plain("SetValue", c1), Plain("SetValue", c2),
     [Plain("SetValue", c1) EXCEPT !.indices = <<k2>>, !.value = v2],
     [Plain("GetAllValues", c1) EXCEPT !.indices = <<k1, k2>>],
     Plain("SetClientConnected", c1), Plain("IsClientConnected", c1)}

\* Three actions are enqueued, listed and acknowledged by anyone.
QueueCalls ==
    [op : {"EnqueueAction", "AcknowledgeAction"}, client : {c1}, indices : {<<k1>>},
     value : {v1}, guid : Guids, flag : {TRUE}]
    \cup {Plain("DequeueActions", c1)}

\* Readers and writers of one client compete for the store's lock and the
\* table's.  The queue's methods take one plain mutex and no other lock.
LiveCalls ==
    {Plain(op, c1) : op \in {"SetValue", "GetAllValues",
                             "SetClientConnected", "IsClientConnected"}}

\* One client's action is enqueued, both clients ask for theirs.
TwoClientCalls ==
    {Plain("EnqueueAction", c1), Plain("DequeueActions", c1), Plain("DequeueActions", c2)}

Perms == Permutations(Proc)
=============================================================================
