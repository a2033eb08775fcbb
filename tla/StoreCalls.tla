----------------------------- MODULE StoreCalls -----------------------------
(***************************************************************************)
(* The vocabulary of internal/data/memory_store.go's Store interface: the  *)
(* methods a goroutine may call, with their arguments, and what each of    *)
(* them returns.  Store (what the interface promises) and MemoryStore (how *)
(* the locks keep the promise) are both written over it.                   *)
(*                                                                         *)
(* An action is represented by its GUID: the store never looks at its      *)
(* parameters (module ActionBlock models how they are computed).           *)
(***************************************************************************)
EXTENDS Naturals, SequencesExt

CONSTANTS
    Proc,       \* goroutines that call the store
    Clients,    \* client identifiers
    Indices,    \* exchange-table indices
    Values,     \* exchange-table values
    Guids,      \* action identifiers
    Absent,     \* an index the table holds no value for
    NoCall,     \* the goroutine is not in a call
    Calls       \* the calls the goroutines of this instance may make

TableOps == {"GetValue", "SetValue", "GetAllValues"}
QueueOps == {"EnqueueAction", "DequeueActions", "AcknowledgeAction"}
FlagOps  == {"IsClientConnected", "SetClientConnected"}

\* One record type for every method; a method ignores the fields that are
\* not its parameters.  GetValue and SetValue use indices[1].
Call == [op : TableOps \cup QueueOps \cup FlagOps, client : Clients,
         indices : Seq(Indices), value : Values, guid : Guids, flag : BOOLEAN]

\* What a call hands back: of a table read, what was found for each index
\* asked for, in that order (GetAllValues leaves the Absent ones out of its
\* list); of a dequeue, the list of actions; of the others, one boolean.
Result == [entries : Seq(Values \cup {Absent}), actions : Seq(Guids), ok : BOOLEAN]

NoResult == [entries |-> <<>>, actions |-> <<>>, ok |-> FALSE]

\* GetAllValues of no index at all is left out: it reads nothing.
ASSUME CallsAssumption ==
    /\ Calls \subseteq Call
    /\ NoCall \notin Call
    /\ Absent \notin Values
    /\ \A c \in Calls : c.op \in TableOps => c.indices # <<>>

\* The indices a table method works on.
Keys(c) == IF c.op = "GetAllValues" THEN c.indices ELSE <<c.indices[1]>>
=============================================================================
