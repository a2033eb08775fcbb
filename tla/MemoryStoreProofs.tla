-------------------------- MODULE MemoryStoreProofs --------------------------
(***************************************************************************)
(* For every number of goroutines, clients, indices and actions: the       *)
(* store's types, the exclusion its three kinds of mutex give, and what    *)
(* follows from it, freedom from data races and client pointers that are   *)
(* never stale. Then that MemoryStore implements Store.                    *)
(***************************************************************************)
EXTENDS MemoryStore, SequenceTheorems, SequenceLemmas, TLAPS

\* Which method a goroutine is in at each label, and that it is in one.
CallInv == \A p \in Proc :
    /\ pc[p] # "idle" => call[p] \in Calls
    /\ pc[p] \in {"lookup", "find", "insert"} =>
           call[p].op \in TableOps \cup {"SetClientConnected"}
    /\ pc[p] = "table" => call[p].op \in TableOps
    /\ pc[p] = "read" => call[p].op \in {"GetValue", "GetAllValues"}
    /\ pc[p] = "write" => call[p].op = "SetValue"
    /\ pc[p] \in {"flag", "setflag"} => call[p].op = "SetClientConnected"
    /\ pc[p] \in {"peek", "isconn"} => call[p].op = "IsClientConnected"
    /\ pc[p] = "queue" => call[p].op \in QueueOps
    /\ pc[p] \in {"append", "extend"} => call[p].op = "EnqueueAction"
    /\ pc[p] = "copy" => call[p].op = "DequeueActions"
    /\ pc[p] \in {"scan", "shift", "trim"} => call[p].op = "AcknowledgeAction"

QueueLabels == {"append", "extend", "copy", "scan", "shift", "trim"}

\* Who holds each mutex, read off the goroutines' labels.
StoreLockInv ==
    /\ \A p \in Proc : p \in storeMu.w <=> pc[p] \in {"find", "insert", "setflag"}
    /\ \A p \in Proc : p \in storeMu.r <=> pc[p] = "isconn"
    /\ \A p \in storeMu.next : pc[p] \in {"lookup", "flag"}

TableLockInv == \A o \in Objects :
    /\ \A p \in Proc : p \in tableMu[o].w <=> (pc[p] = "write" /\ ptr[p] = o)
    /\ \A p \in Proc : p \in tableMu[o].r <=> (pc[p] = "read" /\ ptr[p] = o)
    /\ \A p \in tableMu[o].next :
           pc[p] = "table" /\ ptr[p] = o /\ call[p].op = "SetValue"

QueueLockInv ==
    /\ \A p \in Proc : p \in queueMu <=> pc[p] \in QueueLabels
    /\ \A p, q \in queueMu : p = q

\* At most one writer is inside or announced, and none is inside together
\* with a reader.
Exclusive(mu) ==
    /\ \A p, q \in mu.w \cup mu.next : p = q
    /\ mu.w # {} => mu.r = {}

ExclusiveInv ==
    /\ Exclusive(storeMu)
    /\ \A o \in Objects : Exclusive(tableMu[o])

\* The client pointer of a goroutine that has looked its client up, and the
\* missing entry that a goroutine about to insert one has seen.
PtrInv == \A p \in Proc :
    /\ pc[p] \in {"table", "read", "write", "flag", "setflag"} =>
           /\ ptr[p] \in Objects
           /\ ptr[p] = clients[call[p].client]
    /\ pc[p] = "insert" => clients[call[p].client] = NoObj

\* Loop positions and the slot a half-done append or removal relies on.
LoopInv == \A p \in Proc :
    /\ pc[p] \in {"lookup", "find", "insert", "table"} => idx[p] = 1
    /\ pc[p] = "read" => idx[p] \in 1 .. Len(Keys(call[p]))
    /\ pc[p] \in {"idle", "queue"} => idx[p] = 1
    /\ pc[p] \in {"scan", "shift"} => idx[p] >= 1
    /\ pc[p] = "extend" => Len(slice.array) = slice.len + 1
    /\ pc[p] = "shift" => idx[p] <= slice.len
    /\ pc[p] = "trim" => slice.len >= 1

IInv ==
    /\ TypeOK /\ CallInv
    /\ StoreLockInv /\ TableLockInv /\ QueueLockInv /\ ExclusiveInv
    /\ PtrInv /\ LoopInv

\* sync.RWMutex: each of its operations yields a lock again.
LEMMA MutexTypes ==
    ASSUME NEW mu \in RWMutex, NEW p \in Proc
    PROVE  /\ Announced(mu, p) \in RWMutex /\ Locked(mu, p) \in RWMutex
           /\ RLocked(mu, p) \in RWMutex /\ Unlocked(mu, p) \in RWMutex
           /\ RUnlocked(mu, p) \in RWMutex
BY DEF RWMutex, Announced, Locked, RLocked, Unlocked, RUnlocked

\* sync.RWMutex: each of its operations keeps writers and readers apart.
LEMMA MutexExclusive ==
    ASSUME NEW mu \in RWMutex, NEW p \in Proc, Exclusive(mu)
    PROVE  /\ CanAnnounce(mu) => Exclusive(Announced(mu, p))
           /\ CanLock(mu, p) => Exclusive(Locked(mu, p))
           /\ CanRLock(mu) => Exclusive(RLocked(mu, p))
           /\ Exclusive(Unlocked(mu, p))
           /\ Exclusive(RUnlocked(mu, p))
BY DEF Exclusive, CanAnnounce, CanLock, CanRLock, Announced, Locked, RLocked, Unlocked, RUnlocked

\* The fields of a call of the Store interface have the types of the
\* method's parameters.
LEMMA CallFields ==
    ASSUME NEW c \in Calls
    PROVE  /\ c.op \in TableOps \cup QueueOps \cup FlagOps
           /\ c.client \in Clients /\ c.value \in Values
           /\ c.guid \in Guids /\ c.flag \in BOOLEAN
           /\ c.op \in TableOps =>
                /\ Keys(c) \in Seq(Indices) /\ Len(Keys(c)) >= 1
                /\ \A i \in 1 .. Len(Keys(c)) : Keys(c)[i] \in Indices
BY CallsAssumption DEF Call, Keys, TableOps

\* The result of a method that has not taken effect is a result.
LEMMA NoResultType == NoResult \in Result
BY DEF NoResult, Result

\* What the store's methods do to their result keeps its type.
LEMMA ResultTypes ==
    ASSUME NEW r \in Result
    PROVE  /\ \A b \in BOOLEAN : [r EXCEPT !.ok = b] \in Result
           /\ \A s \in Seq(Guids) : [r EXCEPT !.actions = s] \in Result
           /\ \A v \in Values \cup {Absent} :
                 [r EXCEPT !.entries = Append(r.entries, v)] \in Result
BY AppendProperties DEF Result

\* The elements a slice header covers are those of its array, up to its
\* length (ActionQueue.GetAll copies them).
LEMMA CoveredType ==
    ASSUME NEW s \in Slice
    PROVE  /\ Covered(s) \in Seq(Guids)
           /\ Len(Covered(s)) = s.len
           /\ \A i \in 1 .. s.len : Covered(s)[i] = s.array[i]
BY SubSeqProperties DEF Covered, Slice

\* The half-steps of Enqueue's append and of Acknowledge's removal keep the
\* header's length within the array.
LEMMA SliceTypes ==
    ASSUME NEW s \in Slice
    PROVE  /\ \A g \in Guids : /\ WithSlot(s, g) \in Slice
                               /\ WithSlot(s, g).len = s.len
                               /\ Len(WithSlot(s, g).array) = s.len + 1
           /\ Len(s.array) = s.len + 1 => Extended(s) \in Slice
           /\ \A i \in Nat : /\ Shifted(s, i) \in Slice
                             /\ Shifted(s, i).len = s.len
           /\ s.len >= 1 => Trimmed(s) \in Slice
<1>1. ASSUME NEW g \in Guids
      PROVE  /\ WithSlot(s, g) \in Slice
             /\ WithSlot(s, g).len = s.len
             /\ Len(WithSlot(s, g).array) = s.len + 1
  <2> DEFINE a == Append(Covered(s), g)
  <2>1. a \in Seq(Guids) /\ Len(a) = s.len + 1
      BY CoveredType, AppendProperties DEF Slice
  <2> HIDE DEF a
  <2>2. LET t == [s EXCEPT !.array = a]
        IN  t \in Slice /\ t.len = s.len /\ Len(t.array) = s.len + 1
      BY <2>1 DEF Slice
  <2> QED BY <2>2 DEF WithSlot, a
<1>2. Len(s.array) = s.len + 1 => Extended(s) \in Slice
    BY DEF Extended, Slice
<1>3. ASSUME NEW i \in Nat
      PROVE  Shifted(s, i) \in Slice /\ Shifted(s, i).len = s.len
  <2> DEFINE moved == [j \in 1 .. Len(s.array) |->
                          IF i <= j /\ j < s.len THEN s.array[j + 1] ELSE s.array[j]]
  <2>1. \A j \in 1 .. Len(s.array) : moved[j] \in Guids
      BY ElementOfSeq DEF Slice
  <2>2. moved \in Seq(Guids) /\ Len(moved) = Len(s.array)
      BY <2>1, LenProperties DEF Slice
  <2> QED BY <2>2 DEF Shifted, Slice
<1>4. s.len >= 1 => Trimmed(s) \in Slice
    BY DEF Trimmed, Slice
<1> QED BY <1>1, <1>2, <1>3, <1>4

\* Where a call starts, as a table.
LEMMA FirstLabels ==
    ASSUME NEW c \in Calls
    PROVE  \/ c.op \in TableOps \cup {"SetClientConnected"} /\ FirstLabel(c.op) = "lookup"
           \/ c.op = "IsClientConnected" /\ FirstLabel(c.op) = "peek"
           \/ c.op \in QueueOps /\ FirstLabel(c.op) = "queue"
BY CallFields DEF FirstLabel, TableOps, QueueOps, FlagOps

\* The invariant survives calling a method.
LEMMA Invoke_Inv == ASSUME IInv, NEW p \in Proc, Invoke(p) PROVE IInv'
<1>1. PICK c \in Calls :
        /\ call' = [call EXCEPT ![p] = c]
        /\ issued' = IF c.op = "EnqueueAction" THEN issued \cup {c.guid} ELSE issued
        /\ pc' = [pc EXCEPT ![p] = FirstLabel(c.op)]
    BY DEF Invoke
<1>2. pc[p] = "idle" /\ UNCHANGED <<locks, data, ret, ptr, idx>>
    BY DEF Invoke
<1>3. TypeOK'
    BY <1>1, <1>2, FirstLabels, CallFields DEF IInv, TypeOK, Labels, locks, data
<1>4. CallInv' /\ PtrInv' /\ LoopInv'
    BY <1>1, <1>2, FirstLabels DEF IInv, TypeOK, CallInv, PtrInv, LoopInv, data
<1>5. StoreLockInv' /\ QueueLockInv'
    BY <1>1, <1>2, FirstLabels DEF IInv, StoreLockInv, QueueLockInv, QueueLabels, locks
<1>6. TableLockInv'
    BY <1>1, <1>2, FirstLabels DEF IInv, TableLockInv, locks
<1>7. ExclusiveInv'
    BY <1>2 DEF IInv, ExclusiveInv, locks
<1> QED BY <1>3, <1>4, <1>5, <1>6, <1>7 DEF IInv

\* The invariant survives returning from a method.
LEMMA Return_Inv == ASSUME IInv, NEW p \in Proc, Return(p) PROVE IInv'
<1>1. TypeOK'
    BY NoResultType DEF Return, IInv, TypeOK, Goto, Labels, locks, data
<1>2. CallInv' /\ PtrInv' /\ LoopInv'
    BY DEF Return, IInv, TypeOK, Goto, data, CallInv, PtrInv, LoopInv
<1>3. StoreLockInv' /\ QueueLockInv' /\ TableLockInv'
    BY DEF Return, IInv, Goto, locks, StoreLockInv, QueueLockInv, TableLockInv, QueueLabels
<1>4. ExclusiveInv'
    BY DEF Return, IInv, locks, ExclusiveInv
<1> QED BY <1>1, <1>2, <1>3, <1>4 DEF IInv

\* The invariant survives queueing as a writer of MemoryStore.mu.
LEMMA AnnounceStore_Inv == ASSUME IInv, NEW p \in Proc, AnnounceStore(p) PROVE IInv'
<1>1. TypeOK'
    BY MutexTypes DEF AnnounceStore, IInv, TypeOK, data
<1>2. CallInv' /\ PtrInv' /\ LoopInv'
    BY DEF AnnounceStore, IInv, data, CallInv, PtrInv, LoopInv
<1>3. StoreLockInv' /\ QueueLockInv' /\ TableLockInv'
    BY DEF AnnounceStore, IInv, StoreLockInv, QueueLockInv, TableLockInv, Announced
<1>4. ExclusiveInv'
    BY MutexExclusive DEF AnnounceStore, IInv, TypeOK, ExclusiveInv
<1> QED BY <1>1, <1>2, <1>3, <1>4 DEF IInv

\* The invariant survives getOrCreateClient taking MemoryStore.mu.
LEMMA LockStore_Inv == ASSUME IInv, NEW p \in Proc, LockStore(p) PROVE IInv'
<1>1. TypeOK'
    BY MutexTypes DEF LockStore, IInv, TypeOK, Goto, Labels, data
<1>2. CallInv' /\ PtrInv' /\ LoopInv'
    BY DEF LockStore, IInv, Goto, data, CallInv, PtrInv, LoopInv
<1>3. StoreLockInv' /\ QueueLockInv' /\ TableLockInv'
    BY DEF LockStore, IInv, TypeOK, Goto, StoreLockInv, QueueLockInv, TableLockInv, QueueLabels,
           Locked
<1>4. ExclusiveInv'
    BY MutexExclusive DEF LockStore, IInv, TypeOK, ExclusiveInv
<1> QED BY <1>1, <1>2, <1>3, <1>4 DEF IInv

\* The invariant survives getOrCreateClient finding the client.
LEMMA FindClient_Inv == ASSUME IInv, NEW p \in Proc, FindClient(p) PROVE IInv'
<1>1. TypeOK'
    BY MutexTypes, CallFields DEF FindClient, IInv, TypeOK, CallInv, Goto, Labels, data, AfterLookup
<1>2. CallInv' /\ PtrInv' /\ LoopInv'
  <2>1. CallInv'
      BY DEF FindClient, IInv, Goto, CallInv, AfterLookup
  <2>2. PtrInv'
      BY CallFields DEF FindClient, IInv, TypeOK, Goto, data, CallInv, PtrInv, AfterLookup
  <2>3. LoopInv'
      BY DEF FindClient, IInv, Goto, data, LoopInv, AfterLookup
  <2> QED BY <2>1, <2>2, <2>3
<1>3. StoreLockInv' /\ QueueLockInv' /\ TableLockInv'
    BY DEF FindClient, IInv, TypeOK, Goto, StoreLockInv, QueueLockInv, TableLockInv, QueueLabels,
           Unlocked, AfterLookup
<1>4. ExclusiveInv'
    BY MutexExclusive DEF FindClient, IInv, TypeOK, ExclusiveInv
<1> QED BY <1>1, <1>2, <1>3, <1>4 DEF IInv

\* The invariant survives getOrCreateClient finding no client.
LEMMA MissClient_Inv == ASSUME IInv, NEW p \in Proc, MissClient(p) PROVE IInv'
<1>1. TypeOK'
    BY DEF MissClient, IInv, TypeOK, Goto, Labels, locks, data
<1>2. CallInv' /\ PtrInv' /\ LoopInv'
    BY DEF MissClient, IInv, Goto, data, CallInv, PtrInv, LoopInv
<1>3. StoreLockInv' /\ QueueLockInv' /\ TableLockInv'
    BY DEF MissClient, IInv, Goto, locks, StoreLockInv, QueueLockInv, TableLockInv, QueueLabels
<1>4. ExclusiveInv'
    BY DEF MissClient, IInv, locks, ExclusiveInv
<1> QED BY <1>1, <1>2, <1>3, <1>4 DEF IInv

\* The invariant survives getOrCreateClient inserting the client.
LEMMA InsertClient_Inv == ASSUME IInv, NEW p \in Proc, InsertClient(p) PROVE IInv'
<1>1. TypeOK'
    BY MutexTypes, CallFields
       DEF InsertClient, IInv, TypeOK, CallInv, Goto, Labels, AfterLookup, Objects
<1>2. CallInv' /\ PtrInv' /\ LoopInv'
  <2>1. CallInv' /\ LoopInv'
      BY DEF InsertClient, IInv, Goto, CallInv, LoopInv, AfterLookup
  <2> DEFINE c == call[p].client
             o == <<c, p>>
  <2>2. /\ c \in Clients /\ o \in Objects /\ clients[c] = NoObj /\ pc[p] = "insert"
        /\ clients' = [clients EXCEPT ![c] = o] /\ ptr' = [ptr EXCEPT ![p] = o]
        /\ call' = call /\ pc' = [pc EXCEPT ![p] = AfterLookup(p)]
      BY CallFields DEF InsertClient, IInv, Goto, CallInv, PtrInv, Objects
  <2>3. ASSUME NEW q \in Proc, q # p, pc[q] = "insert" PROVE FALSE
      BY <2>2, <2>3 DEF IInv, StoreLockInv, ExclusiveInv, Exclusive
  <2>4. ASSUME NEW q \in Proc, q # p,
               pc[q] \in {"table", "read", "write", "flag", "setflag"}
        PROVE  ptr[q] \in Objects /\ ptr'[q] = ptr[q] /\ ptr[q] = clients'[call[q].client]
      BY <2>2, <2>4, NoObjAssumption, CallFields
      DEF IInv, TypeOK, PtrInv, CallInv, Objects
  <2> QED BY <2>1, <2>2, <2>3, <2>4 DEF PtrInv, IInv, TypeOK, AfterLookup
<1>3. StoreLockInv' /\ QueueLockInv' /\ TableLockInv'
    BY DEF InsertClient, IInv, TypeOK, Goto, StoreLockInv, QueueLockInv, TableLockInv, QueueLabels,
           Unlocked, AfterLookup
<1>4. ExclusiveInv'
    BY MutexExclusive DEF InsertClient, IInv, TypeOK, ExclusiveInv
<1> QED BY <1>1, <1>2, <1>3, <1>4 DEF IInv

\* The invariant survives queueing as a writer of ExchangeTable.mu.
LEMMA AnnounceTable_Inv == ASSUME IInv, NEW p \in Proc, AnnounceTable(p) PROVE IInv'
<1>1. TypeOK'
    BY MutexTypes DEF AnnounceTable, IInv, TypeOK, PtrInv, data
<1>2. CallInv' /\ PtrInv' /\ LoopInv'
    BY DEF AnnounceTable, IInv, data, CallInv, PtrInv, LoopInv
<1>3. StoreLockInv' /\ QueueLockInv' /\ TableLockInv'
    BY DEF AnnounceTable, IInv, StoreLockInv, QueueLockInv, TableLockInv, Announced
<1>4. ExclusiveInv'
    BY MutexExclusive DEF AnnounceTable, IInv, TypeOK, ExclusiveInv
<1> QED BY <1>1, <1>2, <1>3, <1>4 DEF IInv

\* The invariant survives ExchangeTable.Set taking its lock.
LEMMA LockTable_Inv == ASSUME IInv, NEW p \in Proc, LockTable(p) PROVE IInv'
<1>1. TypeOK'
    BY MutexTypes DEF LockTable, IInv, TypeOK, PtrInv, Goto, Labels, data
<1>2. CallInv' /\ PtrInv' /\ LoopInv'
  <2>1. CallInv'
      BY DEF LockTable, IInv, Goto, CallInv, PtrInv, TableLockInv, CanLock
  <2>2. PtrInv'
      BY DEF LockTable, IInv, Goto, data, PtrInv
  <2>3. LoopInv'
      BY DEF LockTable, IInv, Goto, data, LoopInv
  <2> QED BY <2>1, <2>2, <2>3
<1>3. StoreLockInv' /\ QueueLockInv' /\ TableLockInv'
    BY DEF LockTable, IInv, TypeOK, Goto, StoreLockInv, QueueLockInv, TableLockInv, QueueLabels,
           Locked
<1>4. ExclusiveInv'
    BY MutexExclusive DEF LockTable, IInv, TypeOK, ExclusiveInv
<1> QED BY <1>1, <1>2, <1>3, <1>4 DEF IInv

\* The invariant survives ExchangeTable.Get and GetAll taking their read lock.
LEMMA RLockTable_Inv == ASSUME IInv, NEW p \in Proc, RLockTable(p) PROVE IInv'
<1>1. TypeOK'
    BY MutexTypes DEF RLockTable, IInv, TypeOK, PtrInv, Goto, Labels, data
<1>2. CallInv' /\ PtrInv' /\ LoopInv'
  <2>1. CallInv'
      BY DEF RLockTable, IInv, Goto, CallInv
  <2>2. PtrInv'
      BY DEF RLockTable, IInv, Goto, data, PtrInv
  <2>3. LoopInv'
      BY CallFields DEF RLockTable, IInv, Goto, data, CallInv, LoopInv
  <2> QED BY <2>1, <2>2, <2>3
<1>3. StoreLockInv' /\ QueueLockInv' /\ TableLockInv'
    BY DEF RLockTable, IInv, TypeOK, Goto, StoreLockInv, QueueLockInv, TableLockInv, QueueLabels,
           RLocked
<1>4. ExclusiveInv'
    BY MutexExclusive DEF RLockTable, IInv, TypeOK, ExclusiveInv
<1> QED BY <1>1, <1>2, <1>3, <1>4 DEF IInv

\* The invariant survives ExchangeTable.Set writing and unlocking.
LEMMA WriteTable_Inv == ASSUME IInv, NEW p \in Proc, WriteTable(p) PROVE IInv'
<1>1. TypeOK'
    BY MutexTypes, CallFields DEF WriteTable, IInv, TypeOK, CallInv, Goto, Labels
<1>2. CallInv' /\ PtrInv' /\ LoopInv'
  <2>1. CallInv'
      BY DEF WriteTable, IInv, Goto, CallInv
  <2>2. PtrInv'
      BY DEF WriteTable, IInv, Goto, PtrInv
  <2>3. LoopInv'
      BY DEF WriteTable, IInv, Goto, LoopInv
  <2> QED BY <2>1, <2>2, <2>3
<1>3. StoreLockInv' /\ QueueLockInv' /\ TableLockInv'
  <2>1. StoreLockInv' /\ QueueLockInv'
      BY DEF WriteTable, IInv, Goto, StoreLockInv, QueueLockInv, QueueLabels
  <2>2. TableLockInv'
      BY DEF WriteTable, IInv, TypeOK, Goto, TableLockInv, Unlocked
  <2> QED BY <2>1, <2>2
<1>4. ExclusiveInv'
    BY MutexExclusive DEF WriteTable, IInv, TypeOK, ExclusiveInv
<1> QED BY <1>1, <1>2, <1>3, <1>4 DEF IInv

\* The invariant survives one iteration of ExchangeTable.GetAll.
LEMMA ReadTable_Inv == ASSUME IInv, NEW p \in Proc, ReadTable(p) PROVE IInv'
<1>1. TypeOK'
  <2> DEFINE keys == Keys(call[p])
             v == table[ptr[p]][keys[idx[p]]]
  <2>1. /\ pc[p] = "read" /\ ptr[p] \in Objects /\ call[p] \in Calls
        /\ call[p].op \in TableOps /\ idx[p] \in 1 .. Len(keys)
      BY DEF ReadTable, IInv, CallInv, PtrInv, LoopInv, Goto, TableOps
  <2>2. v \in Values \cup {Absent}
      BY <2>1, CallFields DEF IInv, TypeOK
  <2>3. [ret[p] EXCEPT !.entries = Append(ret[p].entries, v)] \in Result
      BY <2>2, ResultTypes DEF IInv, TypeOK
  <2>4. ret' = [ret EXCEPT ![p] = [ret[p] EXCEPT !.entries = Append(ret[p].entries, v)]]
      BY DEF ReadTable
  <2>5. ret' \in [Proc -> Result]
      BY <2>3, <2>4 DEF IInv, TypeOK
  <2> QED BY <2>1, <2>5, MutexTypes DEF ReadTable, IInv, TypeOK, Goto, Labels, data
<1>2. CallInv' /\ PtrInv' /\ LoopInv'
  <2>1. CallInv'
      BY DEF ReadTable, IInv, Goto, CallInv
  <2>2. PtrInv'
      BY DEF ReadTable, IInv, Goto, data, PtrInv
  <2>3. LoopInv'
      BY DEF ReadTable, IInv, TypeOK, Goto, data, LoopInv
  <2> QED BY <2>1, <2>2, <2>3
<1>3. StoreLockInv' /\ QueueLockInv' /\ TableLockInv'
    BY DEF ReadTable, IInv, TypeOK, Goto, StoreLockInv, QueueLockInv, TableLockInv, QueueLabels,
           RUnlocked
<1>4. ExclusiveInv'
    BY MutexExclusive DEF ReadTable, IInv, TypeOK, ExclusiveInv
<1> QED BY <1>1, <1>2, <1>3, <1>4 DEF IInv

\* The invariant survives SetClientConnected taking MemoryStore.mu again.
LEMMA LockFlag_Inv == ASSUME IInv, NEW p \in Proc, LockFlag(p) PROVE IInv'
<1>1. TypeOK'
    BY MutexTypes DEF LockFlag, IInv, TypeOK, Goto, Labels, data
<1>2. CallInv' /\ PtrInv' /\ LoopInv'
    BY DEF LockFlag, IInv, Goto, data, CallInv, PtrInv, LoopInv
<1>3. StoreLockInv' /\ QueueLockInv' /\ TableLockInv'
    BY DEF LockFlag, IInv, TypeOK, Goto, StoreLockInv, QueueLockInv, TableLockInv, QueueLabels,
           Locked
<1>4. ExclusiveInv'
    BY MutexExclusive DEF LockFlag, IInv, TypeOK, ExclusiveInv
<1> QED BY <1>1, <1>2, <1>3, <1>4 DEF IInv

\* The invariant survives SetClientConnected writing the flag and unlocking.
LEMMA SetFlag_Inv == ASSUME IInv, NEW p \in Proc, SetFlag(p) PROVE IInv'
<1>1. TypeOK'
    BY MutexTypes, CallFields DEF SetFlag, IInv, TypeOK, CallInv, PtrInv, Goto, Labels
<1>2. CallInv' /\ PtrInv' /\ LoopInv'
  <2>1. CallInv'
      BY DEF SetFlag, IInv, Goto, CallInv
  <2>2. PtrInv'
      BY DEF SetFlag, IInv, Goto, PtrInv
  <2>3. LoopInv'
      BY DEF SetFlag, IInv, Goto, LoopInv
  <2> QED BY <2>1, <2>2, <2>3
<1>3. StoreLockInv' /\ QueueLockInv' /\ TableLockInv'
    BY DEF SetFlag, IInv, TypeOK, Goto, StoreLockInv, QueueLockInv, TableLockInv, QueueLabels,
           Unlocked
<1>4. ExclusiveInv'
    BY MutexExclusive DEF SetFlag, IInv, TypeOK, ExclusiveInv
<1> QED BY <1>1, <1>2, <1>3, <1>4 DEF IInv

\* The invariant survives IsClientConnected taking the read lock.
LEMMA RLockStore_Inv == ASSUME IInv, NEW p \in Proc, RLockStore(p) PROVE IInv'
<1>1. TypeOK'
    BY MutexTypes DEF RLockStore, IInv, TypeOK, Goto, Labels, data
<1>2. CallInv' /\ PtrInv' /\ LoopInv'
    BY DEF RLockStore, IInv, Goto, data, CallInv, PtrInv, LoopInv
<1>3. StoreLockInv' /\ QueueLockInv' /\ TableLockInv'
    BY DEF RLockStore, IInv, TypeOK, Goto, StoreLockInv, QueueLockInv, TableLockInv, QueueLabels,
           RLocked
<1>4. ExclusiveInv'
    BY MutexExclusive DEF RLockStore, IInv, TypeOK, ExclusiveInv
<1> QED BY <1>1, <1>2, <1>3, <1>4 DEF IInv

\* The invariant survives IsClientConnected reading the flag and unlocking.
LEMMA ReadFlag_Inv == ASSUME IInv, NEW p \in Proc, ReadFlag(p) PROVE IInv'
<1>1. TypeOK'
  <2> DEFINE o == clients[call[p].client]
             b == IF o = NoObj THEN FALSE ELSE flag[o]
  <2>1. b \in BOOLEAN
    <3>1. pc[p] = "isconn" /\ call[p] \in Calls
        BY DEF ReadFlag, IInv, CallInv, Goto
    <3>2. call[p].client \in Clients
        BY <3>1, CallFields
    <3>3. o # NoObj => flag[o] \in BOOLEAN
        BY <3>2 DEF IInv, TypeOK
    <3> QED BY <3>3
  <2>2. [ret[p] EXCEPT !.ok = b] \in Result
      BY <2>1, ResultTypes DEF IInv, TypeOK
  <2>3. ret' = [ret EXCEPT ![p] = [ret[p] EXCEPT !.ok = b]]
      BY DEF ReadFlag
  <2> QED BY <2>2, MutexTypes DEF ReadFlag, IInv, TypeOK, Goto, Labels, data
<1>2. CallInv' /\ PtrInv' /\ LoopInv'
    BY DEF ReadFlag, IInv, Goto, data, CallInv, PtrInv, LoopInv
<1>3. StoreLockInv' /\ QueueLockInv' /\ TableLockInv'
    BY DEF ReadFlag, IInv, TypeOK, Goto, StoreLockInv, QueueLockInv, TableLockInv, QueueLabels,
           RUnlocked
<1>4. ExclusiveInv'
    BY MutexExclusive DEF ReadFlag, IInv, TypeOK, ExclusiveInv
<1> QED BY <1>1, <1>2, <1>3, <1>4 DEF IInv

\* The invariant survives a queue method taking ActionQueue.mu.
LEMMA LockQueue_Inv == ASSUME IInv, NEW p \in Proc, LockQueue(p) PROVE IInv'
<1>1. TypeOK'
    BY DEF LockQueue, IInv, TypeOK, CallInv, Goto, Labels, data, QueueLabel, QueueOps
<1>2. CallInv' /\ PtrInv' /\ LoopInv'
    BY DEF LockQueue, IInv, Goto, data, CallInv, PtrInv, LoopInv, QueueLabel, QueueOps
<1>3. StoreLockInv' /\ QueueLockInv' /\ TableLockInv'
    BY DEF LockQueue, IInv, TypeOK, Goto, CallInv, StoreLockInv, QueueLockInv, TableLockInv,
           QueueLabels, QueueLabel, QueueOps
<1>4. ExclusiveInv'
    BY DEF LockQueue, IInv, ExclusiveInv
<1> QED BY <1>1, <1>2, <1>3, <1>4 DEF IInv

\* The invariant survives Enqueue writing the new slot.
LEMMA AppendSlot_Inv == ASSUME IInv, NEW p \in Proc, AppendSlot(p) PROVE IInv'
<1>1. TypeOK'
    BY CallFields, SliceTypes DEF AppendSlot, IInv, TypeOK, CallInv, Goto, Labels, locks
<1>2. CallInv' /\ PtrInv' /\ LoopInv'
  <2>1. CallInv' /\ PtrInv'
      BY DEF AppendSlot, IInv, Goto, CallInv, PtrInv
  <2>2. ASSUME NEW q \in Proc, q # p PROVE pc[q] \notin QueueLabels /\ pc'[q] = pc[q]
      BY <2>2 DEF AppendSlot, IInv, Goto, QueueLockInv, QueueLabels
  <2>3. /\ call[p] \in Calls /\ idx' = idx /\ call' = call /\ slice \in Slice
        /\ idx[p] \in Nat /\ pc' = [pc EXCEPT ![p] = "extend"]
        /\ slice' = WithSlot(slice, call[p].guid)
      BY DEF AppendSlot, IInv, TypeOK, Goto, CallInv
  <2>4. Len(slice'.array) = slice'.len + 1
      BY <2>3, CallFields, SliceTypes
  <2> QED BY <2>1, <2>2, <2>3, <2>4 DEF LoopInv, IInv, TypeOK, QueueLabels
<1>3. StoreLockInv' /\ QueueLockInv' /\ TableLockInv'
    BY DEF AppendSlot, IInv, Goto, locks, StoreLockInv, QueueLockInv, TableLockInv, QueueLabels
<1>4. ExclusiveInv'
    BY DEF AppendSlot, IInv, locks, ExclusiveInv
<1> QED BY <1>1, <1>2, <1>3, <1>4 DEF IInv

\* The invariant survives Enqueue storing the longer header.
LEMMA ExtendSlice_Inv == ASSUME IInv, NEW p \in Proc, ExtendSlice(p) PROVE IInv'
<1>1. TypeOK'
    BY SliceTypes DEF ExtendSlice, IInv, TypeOK, Goto, Labels, LoopInv
<1>2. CallInv' /\ PtrInv' /\ LoopInv'
    BY DEF ExtendSlice, IInv, TypeOK, Goto, CallInv, PtrInv, LoopInv, QueueLockInv, QueueLabels
<1>3. StoreLockInv' /\ QueueLockInv' /\ TableLockInv'
    BY DEF ExtendSlice, IInv, TypeOK, Goto, StoreLockInv, QueueLockInv, TableLockInv, QueueLabels
<1>4. ExclusiveInv'
    BY DEF ExtendSlice, IInv, ExclusiveInv
<1> QED BY <1>1, <1>2, <1>3, <1>4 DEF IInv

\* The invariant survives GetAll copying the slice.
LEMMA CopySlice_Inv == ASSUME IInv, NEW p \in Proc, CopySlice(p) PROVE IInv'
<1>1. TypeOK'
    BY ResultTypes, CoveredType DEF CopySlice, IInv, TypeOK, Goto, Labels, data
<1>2. CallInv' /\ PtrInv' /\ LoopInv'
    BY DEF CopySlice, IInv, Goto, data, CallInv, PtrInv, LoopInv
<1>3. StoreLockInv' /\ QueueLockInv' /\ TableLockInv'
    BY DEF CopySlice, IInv, TypeOK, Goto, StoreLockInv, QueueLockInv, TableLockInv, QueueLabels
<1>4. ExclusiveInv'
    BY DEF CopySlice, IInv, ExclusiveInv
<1> QED BY <1>1, <1>2, <1>3, <1>4 DEF IInv

\* The invariant survives Acknowledge looking at another action.
LEMMA ScanPast_Inv == ASSUME IInv, NEW p \in Proc, ScanPast(p) PROVE IInv'
<1>1. TypeOK'
    BY DEF ScanPast, IInv, TypeOK, Goto, locks, data
<1>2. CallInv' /\ PtrInv' /\ LoopInv'
    BY DEF ScanPast, IInv, TypeOK, Goto, data, CallInv, PtrInv, LoopInv
<1>3. StoreLockInv' /\ QueueLockInv' /\ TableLockInv'
    BY DEF ScanPast, IInv, Goto, locks, StoreLockInv, QueueLockInv, TableLockInv
<1>4. ExclusiveInv'
    BY DEF ScanPast, IInv, locks, ExclusiveInv
<1> QED BY <1>1, <1>2, <1>3, <1>4 DEF IInv

\* The invariant survives Acknowledge finding the action.
LEMMA ScanHit_Inv == ASSUME IInv, NEW p \in Proc, ScanHit(p) PROVE IInv'
<1>1. TypeOK'
    BY DEF ScanHit, IInv, TypeOK, Goto, Labels, locks, data
<1>2. CallInv' /\ PtrInv' /\ LoopInv'
    BY DEF ScanHit, IInv, Goto, data, CallInv, PtrInv, LoopInv
<1>3. StoreLockInv' /\ QueueLockInv' /\ TableLockInv'
    BY DEF ScanHit, IInv, Goto, locks, StoreLockInv, QueueLockInv, TableLockInv, QueueLabels
<1>4. ExclusiveInv'
    BY DEF ScanHit, IInv, locks, ExclusiveInv
<1> QED BY <1>1, <1>2, <1>3, <1>4 DEF IInv

\* The invariant survives Acknowledge reaching the end.
LEMMA ScanMiss_Inv == ASSUME IInv, NEW p \in Proc, ScanMiss(p) PROVE IInv'
<1>1. TypeOK'
    BY DEF ScanMiss, IInv, TypeOK, Goto, Labels, data
<1>2. CallInv' /\ PtrInv' /\ LoopInv'
    BY DEF ScanMiss, IInv, Goto, data, CallInv, PtrInv, LoopInv
<1>3. StoreLockInv' /\ QueueLockInv' /\ TableLockInv'
    BY DEF ScanMiss, IInv, TypeOK, Goto, StoreLockInv, QueueLockInv, TableLockInv, QueueLabels
<1>4. ExclusiveInv'
    BY DEF ScanMiss, IInv, ExclusiveInv
<1> QED BY <1>1, <1>2, <1>3, <1>4 DEF IInv

\* The invariant survives Acknowledge moving the later actions down.
LEMMA ShiftSlots_Inv == ASSUME IInv, NEW p \in Proc, ShiftSlots(p) PROVE IInv'
<1>1. TypeOK'
    BY ResultTypes, SliceTypes DEF ShiftSlots, IInv, TypeOK, Goto, Labels, locks
<1>2. CallInv' /\ PtrInv' /\ LoopInv'
  <2>1. CallInv' /\ PtrInv'
      BY DEF ShiftSlots, IInv, Goto, CallInv, PtrInv
  <2>2. ASSUME NEW q \in Proc, q # p PROVE pc[q] \notin QueueLabels /\ pc'[q] = pc[q]
      BY <2>2 DEF ShiftSlots, IInv, Goto, QueueLockInv, QueueLabels
  <2>3. /\ call[p] \in Calls /\ idx' = idx /\ call' = call /\ slice \in Slice
        /\ idx[p] \in Nat /\ pc' = [pc EXCEPT ![p] = "trim"]
        /\ slice' = Shifted(slice, idx[p]) /\ idx[p] >= 1 /\ idx[p] <= slice.len
      BY DEF ShiftSlots, IInv, TypeOK, Goto, CallInv, LoopInv
  <2>4. slice'.len >= 1
      BY <2>3, CallFields, SliceTypes DEF Slice
  <2> QED BY <2>1, <2>2, <2>3, <2>4 DEF LoopInv, IInv, TypeOK, QueueLabels
<1>3. StoreLockInv' /\ QueueLockInv' /\ TableLockInv'
    BY DEF ShiftSlots, IInv, Goto, locks, StoreLockInv, QueueLockInv, TableLockInv, QueueLabels
<1>4. ExclusiveInv'
    BY DEF ShiftSlots, IInv, locks, ExclusiveInv
<1> QED BY <1>1, <1>2, <1>3, <1>4 DEF IInv

\* The invariant survives Acknowledge storing the shorter header.
LEMMA TrimSlice_Inv == ASSUME IInv, NEW p \in Proc, TrimSlice(p) PROVE IInv'
<1>1. TypeOK'
    BY SliceTypes DEF TrimSlice, IInv, TypeOK, Goto, Labels, LoopInv
<1>2. CallInv' /\ PtrInv' /\ LoopInv'
    BY DEF TrimSlice, IInv, TypeOK, Goto, CallInv, PtrInv, LoopInv, QueueLockInv, QueueLabels
<1>3. StoreLockInv' /\ QueueLockInv' /\ TableLockInv'
    BY DEF TrimSlice, IInv, TypeOK, Goto, StoreLockInv, QueueLockInv, TableLockInv, QueueLabels
<1>4. ExclusiveInv'
    BY DEF TrimSlice, IInv, ExclusiveInv
<1> QED BY <1>1, <1>2, <1>3, <1>4 DEF IInv
-----------------------------------------------------------------------------
\* NewMemoryStore establishes the invariant.
LEMMA InitInv == Init => IInv
<1> SUFFICES ASSUME Init PROVE IInv
    OBVIOUS
<1>1. TypeOK
    BY NoResultType DEF Init, TypeOK, RWMutex, Free, Slice, Labels
<1>2. CallInv /\ PtrInv /\ LoopInv
    BY DEF Init, CallInv, PtrInv, LoopInv
<1>3. StoreLockInv /\ TableLockInv /\ QueueLockInv
    BY DEF Init, StoreLockInv, TableLockInv, QueueLockInv, QueueLabels, Free
<1>4. ExclusiveInv
    BY DEF Init, ExclusiveInv, Exclusive, Free
<1> QED BY <1>1, <1>2, <1>3, <1>4 DEF IInv

\* Every step of every goroutine preserves the invariant.
LEMMA NextInv == IInv /\ [Next]_vars => IInv'
<1> SUFFICES ASSUME IInv, [Next]_vars PROVE IInv'
    OBVIOUS
<1>1. CASE UNCHANGED vars
    BY <1>1
       DEF IInv, TypeOK, CallInv, PtrInv, LoopInv, StoreLockInv, TableLockInv, QueueLockInv,
           ExclusiveInv, vars, locks, data
<1>2. ASSUME NEW p \in Proc, Invoke(p) \/ Return(p) PROVE IInv'
    BY <1>2, Invoke_Inv, Return_Inv
<1>3. ASSUME NEW p \in Proc, Acquire(p) PROVE IInv'
    BY <1>3, AnnounceStore_Inv, LockStore_Inv, LockFlag_Inv, RLockStore_Inv,
       AnnounceTable_Inv, LockTable_Inv, RLockTable_Inv, LockQueue_Inv
    DEF Acquire
<1>4. ASSUME NEW p \in Proc, Access(p) PROVE IInv'
    BY <1>4, FindClient_Inv, MissClient_Inv, InsertClient_Inv, WriteTable_Inv,
       ReadTable_Inv, SetFlag_Inv, ReadFlag_Inv, AppendSlot_Inv, ExtendSlice_Inv,
       CopySlice_Inv, ScanPast_Inv, ScanHit_Inv, ScanMiss_Inv, ShiftSlots_Inv,
       TrimSlice_Inv
    DEF Access
<1> QED BY <1>1, <1>2, <1>3, <1>4 DEF Next

\* The inductive invariant: the types, the mutexes' holders and their
\* exclusion, and the facts each label relies on.
THEOREM Invariance == Spec => []IInv
<1>1. Init => IInv
    BY InitInv
<1>2. IInv /\ [Next]_vars => IInv'
    BY NextInv
<1> QED BY <1>1, <1>2, PTL DEF Spec

\* Type correctness of memory_store.go's state, for every instance.
THEOREM TypeCorrect == Spec => []TypeOK
<1>1. IInv => TypeOK
    BY DEF IInv
<1> QED BY <1>1, Invariance, PTL

\* No interleaving of store methods has a data race on the map of clients,
\* on a client's table, on its connection flag or on the action slice.
THEOREM NoRaces == Spec => []RaceFree
<1>1. ASSUME IInv, NEW p \in Proc, NEW q \in Proc, p # q
      PROVE  Writes(p) \cap (Writes(q) \cup Reads(q)) = {}
  <2>1. CASE pc[p] \in {"insert", "setflag"}
    <3>1. pc[q] \notin {"find", "insert", "setflag", "isconn"}
        BY <1>1, <2>1 DEF IInv, StoreLockInv, ExclusiveInv, Exclusive
    <3> QED BY <2>1, <3>1 DEF Writes, Reads
  <2>2. CASE pc[p] = "write"
    <3>1. pc[q] \in {"write", "read"} => ptr[q] # ptr[p]
        BY <1>1, <2>2 DEF IInv, PtrInv, TableLockInv, ExclusiveInv, Exclusive
    <3> QED BY <2>2, <3>1 DEF Writes, Reads
  <2>3. CASE pc[p] \in {"append", "extend", "shift", "trim"}
    <3>1. pc[q] \notin QueueLabels
        BY <1>1, <2>3 DEF IInv, QueueLockInv, QueueLabels
    <3> QED BY <2>3, <3>1 DEF Writes, Reads, QueueLabels
  <2>4. CASE pc[p] \notin {"insert", "setflag", "write", "append", "extend", "shift", "trim"}
      BY <2>4 DEF Writes
  <2> QED BY <2>1, <2>2, <2>3, <2>4
<1>2. IInv => RaceFree
    BY <1>1 DEF RaceFree
<1> QED BY <1>2, Invariance, PTL

\* The *ClientData a goroutine goes on to lock and write after
\* getOrCreateClient has returned is the one the map holds.
THEOREM PointersStayCurrent == Spec => []PointersCurrent
<1>1. IInv => PointersCurrent
    BY NoObjAssumption DEF IInv, PtrInv, PointersCurrent, Objects
<1> QED BY <1>1, Invariance, PTL

(***************************************************************************)
(* MemoryStore implements Store, for every instance: each method of        *)
(* memory_store.go takes effect at one of its accesses, and every other    *)
(* step leaves what callers can observe as it was.                         *)
(***************************************************************************)

\* A ClientData was made for the client it is stored under.
OwnerInv == \A c \in Clients :
    clients[c] # NoObj => \E q \in Proc : clients[c] = <<c, q>>

\* What GetAll has collected after some of its iterations is the table as
\* it is now: no writer enters while the read lock is held.
Collected(p) ==
    /\ ret[p].actions = <<>> /\ ret[p].ok = FALSE
    /\ Len(ret[p].entries) = idx[p] - 1
    /\ \A i \in 1 .. idx[p] - 1 : ret[p].entries[i] = table[ptr[p]][Keys(call[p])[i]]

ResultInv == \A p \in Proc :
    /\ pc[p] \notin {"read", "trim", "return"} => ret[p] = NoResult
    /\ pc[p] = "read" => Collected(p)

\* What Acknowledge has passed is not what it looks for, what it is about
\* to overwrite is, and Enqueue's new slot holds its action.
ScanInv == \A p \in Proc :
    /\ pc[p] \in {"scan", "shift"} =>
           \A i \in 1 .. idx[p] - 1 : slice.array[i] # call[p].guid
    /\ pc[p] = "shift" => slice.array[idx[p]] = call[p].guid
    /\ pc[p] = "extend" => slice.array[slice.len + 1] = call[p].guid

ProgressInv == OwnerInv /\ ResultInv /\ ScanInv

\* One step of one goroutine.
Step(p) == Invoke(p) \/ Acquire(p) \/ Access(p) \/ Return(p)

\* A goroutine that is reading a table or working on the queue is not
\* disturbed by the others: the locks it holds keep writers out.
LEMMA OthersUndisturbed ==
    ASSUME IInv, ProgressInv, NEW p \in Proc, Step(p), NEW q \in Proc, q # p
    PROVE  /\ pc'[q] = pc[q] /\ call'[q] = call[q] /\ ret'[q] = ret[q]
           /\ ptr'[q] = ptr[q] /\ idx'[q] = idx[q]
           /\ pc[q] = "read" => table'[ptr[q]] = table[ptr[q]]
           /\ pc[q] \in QueueLabels => slice' = slice
<1> USE DEF IInv, TypeOK
<1>1. CASE Invoke(p)
    BY <1>1 DEF Invoke, data
<1>2. CASE Acquire(p)
    BY <1>2 DEF Acquire, AnnounceStore, LockStore, LockFlag, RLockStore, AnnounceTable,
                LockTable, RLockTable, LockQueue, Goto, data
<1>3. CASE Access(p)
  <2>1. CASE InsertClient(p)
    <3>1. /\ pc' = [pc EXCEPT ![p] = AfterLookup(p)] /\ ret' = ret /\ slice' = slice
          /\ call' = call /\ idx' = idx /\ ptr' = [ptr EXCEPT ![p] = <<call[p].client, p>>]
          /\ table' = [table EXCEPT ![<<call[p].client, p>>] = [k \in Indices |-> Absent]]
          /\ pc[p] = "insert"
        BY <2>1 DEF InsertClient, Goto
    <3>2. ASSUME pc[q] = "read" PROVE ptr[q] # <<call[p].client, p>>
      <4>1. /\ ptr[q] \in Objects /\ ptr[q] = clients[call[q].client]
            /\ call[q].client \in Clients /\ clients[call[p].client] = NoObj
          BY <3>1, <3>2, CallFields DEF PtrInv, CallInv
      <4>2. ptr[q] # NoObj
          BY <4>1, NoObjAssumption DEF Objects
      <4>3. PICK r \in Proc : ptr[q] = <<call[q].client, r>>
          BY <4>1, <4>2 DEF ProgressInv, OwnerInv
      <4>4. call[q].client # call[p].client
          BY <4>1, <4>2
      <4> HIDE DEF IInv, TypeOK
      <4> QED BY <4>3, <4>4
    <3> QED BY <3>1, <3>2
  <2>2. CASE WriteTable(p)
    <3>1. pc[p] = "write" /\ pc' = [pc EXCEPT ![p] = "return"]
          /\ UNCHANGED <<slice, call, ret, ptr, idx>>
          /\ table' = [table EXCEPT ![ptr[p]][Keys(call[p])[1]] = call[p].value]
        BY <2>2 DEF WriteTable, Goto
    <3>2. ASSUME pc[q] = "read" PROVE ptr[q] # ptr[p]
      <4>1. ptr[q] \in Objects /\ ptr[p] \in Objects
          BY <3>1, <3>2 DEF PtrInv
      <4>2. q \in tableMu[ptr[q]].r /\ p \in tableMu[ptr[p]].w
          BY <3>1, <3>2, <4>1 DEF TableLockInv
      <4> QED BY <4>1, <4>2 DEF ExclusiveInv, Exclusive
    <3> QED BY <3>1, <3>2
  <2>3. CASE \/ AppendSlot(p) \/ ExtendSlice(p) \/ ShiftSlots(p) \/ TrimSlice(p)
    <3>1. pc[p] \in QueueLabels /\ pc[q] \notin QueueLabels
        BY <2>3 DEF AppendSlot, ExtendSlice, ShiftSlots, TrimSlice, Goto, QueueLabels,
                    QueueLockInv
    <3> QED BY <2>3, <3>1 DEF AppendSlot, ExtendSlice, ShiftSlots, TrimSlice, Goto
  <2>4. CASE \/ FindClient(p) \/ MissClient(p) \/ ReadTable(p) \/ SetFlag(p) \/ ReadFlag(p)
             \/ CopySlice(p) \/ ScanPast(p) \/ ScanHit(p) \/ ScanMiss(p)
      BY <2>4 DEF FindClient, MissClient, ReadTable, SetFlag, ReadFlag, CopySlice,
                  ScanPast, ScanHit, ScanMiss, Goto, data
  <2> QED BY <1>3, <2>1, <2>2, <2>3, <2>4 DEF Access
<1>4. CASE Return(p)
    BY <1>4 DEF Return, Goto, data
<1> QED BY <1>1, <1>2, <1>3, <1>4 DEF Step

\* A ClientData stays the one that was made for its client.
LEMMA OwnerKept ==
    ASSUME IInv, ProgressInv, NEW p \in Proc, Step(p)
    PROVE  OwnerInv'
<1>1. CASE clients' = clients
    BY <1>1 DEF ProgressInv, OwnerInv
<1>2. CASE InsertClient(p)
  <2>1. clients' = [clients EXCEPT ![call[p].client] = <<call[p].client, p>>]
      BY <1>2 DEF InsertClient
  <2> QED BY <2>1 DEF ProgressInv, OwnerInv, IInv, TypeOK
<1>3. clients' = clients \/ InsertClient(p)
    BY DEF Step, Invoke, Acquire, Access, Return, AnnounceStore, LockStore, LockFlag,
           RLockStore, AnnounceTable, LockTable, RLockTable, LockQueue, FindClient,
           MissClient, WriteTable, ReadTable, SetFlag, ReadFlag, AppendSlot, ExtendSlice,
           CopySlice, ScanPast, ScanHit, ScanMiss, ShiftSlots, TrimSlice, data
<1> QED BY <1>1, <1>2, <1>3

\* One iteration of GetAll's loop adds what the table holds now.
LEMMA IterationCollects ==
    ASSUME IInv, NEW p \in Proc, ReadTable(p), Collected(p)
    PROVE  Collected(p)'
<1> USE DEF IInv, TypeOK
<1> DEFINE keys == Keys(call[p])
           v == table[ptr[p]][keys[idx[p]]]
           e == ret[p].entries
<1>1. /\ pc[p] = "read" /\ UNCHANGED <<table, call, ptr>>
      /\ ret' = [ret EXCEPT ![p].entries = Append(e, v)]
      /\ idx' = [idx EXCEPT ![p] = idx[p] + 1]
    BY DEF ReadTable, Goto, data
<1>2. Collected(p) /\ idx[p] \in 1 .. Len(keys)
    BY <1>1 DEF LoopInv
<1>3. /\ call[p] \in Calls /\ call[p].op \in TableOps /\ ptr[p] \in Objects
    BY <1>1 DEF CallInv, PtrInv, TableOps
<1>4. e \in Seq(Values \cup {Absent}) /\ v \in Values \cup {Absent}
    BY <1>2, <1>3, CallFields DEF Result
<1> DEFINE f == Append(e, v)
<1>5. Len(f) = Len(e) + 1 /\ f[Len(e) + 1] = v /\ \A i \in 1 .. Len(e) : f[i] = e[i]
    BY <1>4, AppendProperties
<1>6. /\ ret'[p].entries = f /\ ret'[p].actions = ret[p].actions
      /\ ret'[p].ok = ret[p].ok
    BY <1>1 DEF Result
<1> HIDE DEF f
<1>7. \A i \in 1 .. idx[p] : f[i] = table[ptr[p]][keys[i]]
  <2>1. Len(e) = idx[p] - 1 /\ \A i \in 1 .. idx[p] - 1 : e[i] = table[ptr[p]][keys[i]]
      BY DEF Collected
  <2>2. idx[p] \in Nat
      OBVIOUS
  <2> HIDE DEF IInv, TypeOK, e
  <2>3. f[idx[p]] = table[ptr[p]][keys[idx[p]]]
      BY <1>5, <2>1, <2>2
  <2>4. \A i \in 1 .. idx[p] - 1 : f[i] = table[ptr[p]][keys[i]]
      BY <1>5, <2>1, <2>2
  <2> QED BY <2>2, <2>3, <2>4
<1> QED BY <1>1, <1>2, <1>5, <1>6, <1>7 DEF Collected

\* What a goroutine is about to hand back: nothing before its call takes
\* effect, and of a table what its loop has read.
LEMMA ResultKept ==
    ASSUME IInv, ProgressInv, NEW p \in Proc, Step(p)
    PROVE  ResultInv'
<1> DEFINE Good(q) == /\ pc[q] \notin {"read", "trim", "return"} => ret[q] = NoResult
                      /\ pc[q] = "read" => Collected(q)
<1>1. ASSUME NEW q \in Proc, q # p PROVE Good(q)'
  <2>1. Good(q)
      BY DEF ProgressInv, ResultInv
  <2>2. pc[q] = "read" /\ Collected(q) => Collected(q)'
      BY <1>1, OthersUndisturbed DEF Collected
  <2> QED BY <1>1, <2>1, <2>2, OthersUndisturbed
<1>2. Good(p)'
  <2> USE DEF IInv, TypeOK
  <2>0. Good(p)
      BY DEF ProgressInv, ResultInv
  <2>1. CASE Invoke(p)
    <3>1. PICK c \in Calls : pc' = [pc EXCEPT ![p] = FirstLabel(c.op)]
        BY <2>1 DEF Invoke
    <3> QED BY <2>0, <2>1, <3>1, FirstLabels DEF Invoke
  <2>2. CASE Return(p)
      BY <2>2 DEF Return, Goto
  <2>3. CASE RLockTable(p)
    <3>1. /\ pc[p] = "table" /\ pc' = [pc EXCEPT ![p] = "read"]
          /\ UNCHANGED <<table, call, ret, ptr, idx>>
        BY <2>3 DEF RLockTable, Goto, data
    <3>2. idx[p] = 1 /\ ret[p] = NoResult
        BY <2>0, <3>1 DEF LoopInv
    <3>3. Collected(p)'
        BY <3>1, <3>2 DEF Collected, NoResult
    <3> QED BY <3>1, <3>3
  <2>4. CASE ReadTable(p)
    <3>1. pc[p] = "read" /\ pc'[p] \in {"return", "read"}
        BY <2>4 DEF ReadTable, Goto
    <3>2. Collected(p)'
        BY <2>0, <2>4, <3>1, IterationCollects
    <3> QED BY <3>1, <3>2
  <2>5. CASE \/ AnnounceStore(p) \/ LockStore(p) \/ LockFlag(p) \/ RLockStore(p)
             \/ AnnounceTable(p) \/ LockTable(p)
      BY <2>0, <2>5 DEF AnnounceStore, LockStore, LockFlag, RLockStore, AnnounceTable,
                        LockTable, Goto
  <2>6. CASE LockQueue(p)
      BY <2>0, <2>6 DEF LockQueue, Goto, QueueLabel, CallInv, QueueOps
  <2>7. CASE FindClient(p) \/ MissClient(p) \/ InsertClient(p)
      BY <2>0, <2>7 DEF FindClient, MissClient, InsertClient, Goto, AfterLookup
  <2>8. CASE WriteTable(p) \/ SetFlag(p) \/ ReadFlag(p) \/ CopySlice(p)
      BY <2>8 DEF WriteTable, SetFlag, ReadFlag, CopySlice, Goto
  <2>9. CASE \/ AppendSlot(p) \/ ExtendSlice(p) \/ ScanPast(p) \/ ScanHit(p)
             \/ ScanMiss(p) \/ ShiftSlots(p) \/ TrimSlice(p)
      BY <2>0, <2>9 DEF AppendSlot, ExtendSlice, ScanPast, ScanHit, ScanMiss, ShiftSlots,
                        TrimSlice, Goto
  <2> QED BY <2>1, <2>2, <2>3, <2>4, <2>5, <2>6, <2>7, <2>8, <2>9 DEF Step, Acquire, Access
<1> QED BY <1>1, <1>2 DEF ResultInv

\* Acknowledge's loop has passed only other actions, and the half-done
\* steps on the slice concern the action of their call.
LEMMA ScanKept ==
    ASSUME IInv, ProgressInv, NEW p \in Proc, Step(p)
    PROVE  ScanInv'
<1> DEFINE Good(q) == /\ pc[q] \in {"scan", "shift"} =>
                             \A i \in 1 .. idx[q] - 1 : slice.array[i] # call[q].guid
                      /\ pc[q] = "shift" => slice.array[idx[q]] = call[q].guid
                      /\ pc[q] = "extend" => slice.array[slice.len + 1] = call[q].guid
<1>0. \A q \in Proc : Good(q)
    BY DEF ProgressInv, ScanInv
<1>1. ASSUME NEW q \in Proc, q # p PROVE Good(q)'
  <2>1. pc[q] \in {"scan", "shift", "extend"} => slice' = slice
      BY <1>1, OthersUndisturbed DEF QueueLabels
  <2>2. pc'[q] = pc[q] /\ idx'[q] = idx[q] /\ call'[q] = call[q]
      BY <1>1, OthersUndisturbed
  <2> QED BY <1>0, <2>1, <2>2
<1>2. Good(p)'
  <2> USE <1>0 DEF IInv, TypeOK
  <2>1. CASE Invoke(p)
    <3>1. PICK c \in Calls : pc' = [pc EXCEPT ![p] = FirstLabel(c.op)]
        BY <2>1 DEF Invoke
    <3>2. pc'[p] \in {"lookup", "peek", "queue"}
        BY <3>1, FirstLabels
    <3>3. pc'[p] \notin {"scan", "shift", "extend"}
        BY <3>2
    <3> HIDE <1>0 DEF IInv, TypeOK
    <3> QED BY <3>3, Zenon
  <2>2. CASE Return(p)
      BY <2>2 DEF Return, Goto
  <2>3. CASE LockQueue(p)
    <3>1. pc'[p] \in {"append", "copy", "scan"} /\ pc[p] = "queue" /\ idx' = idx
        BY <2>3 DEF LockQueue, Goto, QueueLabel, CallInv, QueueOps
    <3>2. idx'[p] = 1
        BY <3>1 DEF LoopInv
    <3> HIDE <1>0 DEF IInv, TypeOK
    <3> QED BY <3>1, <3>2
  <2>4. CASE AppendSlot(p)
    <3>1. /\ pc'[p] = "extend" /\ call' = call /\ call[p].guid \in Guids
          /\ slice' = WithSlot(slice, call[p].guid) /\ slice \in Slice
        BY <2>4, CallFields DEF AppendSlot, Goto, CallInv
    <3>2. slice'.array = Append(Covered(slice), call[p].guid) /\ slice'.len = slice.len
        BY <3>1 DEF WithSlot, Slice
    <3>3. slice'.array[slice'.len + 1] = call[p].guid
        BY <3>1, <3>2, CoveredType, AppendProperties
    <3> QED BY <3>1, <3>3
  <2>5. CASE ScanPast(p)
    <3>1. /\ idx[p] \in Nat /\ idx'[p] = idx[p] + 1
          /\ pc[p] = "scan" /\ pc'[p] = "scan" /\ call' = call /\ slice' = slice
          /\ slice.array[idx[p]] # call[p].guid
        BY <2>5 DEF ScanPast, Goto, data
    <3>2. \A i \in 1 .. idx[p] - 1 : slice.array[i] # call[p].guid
        BY <1>0, <3>1
    <3> HIDE <1>0 DEF IInv, TypeOK
    <3>3. \A i \in 1 .. idx'[p] - 1 : slice'.array[i] # call'[p].guid
        BY <3>1, <3>2
    <3> QED BY <3>1, <3>3
  <2>6. CASE ScanHit(p)
      BY <2>6 DEF ScanHit, Goto, data
  <2>7. CASE \/ AnnounceStore(p) \/ LockStore(p) \/ LockFlag(p) \/ RLockStore(p)
             \/ AnnounceTable(p) \/ LockTable(p) \/ RLockTable(p)
      BY <2>7 DEF AnnounceStore, LockStore, LockFlag, RLockStore, AnnounceTable,
                  LockTable, RLockTable, Goto
  <2>8. CASE \/ FindClient(p) \/ MissClient(p) \/ InsertClient(p) \/ WriteTable(p)
             \/ ReadTable(p) \/ SetFlag(p) \/ ReadFlag(p)
      BY <2>8 DEF FindClient, MissClient, InsertClient, WriteTable, ReadTable, SetFlag,
                  ReadFlag, Goto, AfterLookup
  <2>9. CASE ExtendSlice(p) \/ CopySlice(p) \/ ScanMiss(p) \/ ShiftSlots(p) \/ TrimSlice(p)
      BY <2>9 DEF ExtendSlice, CopySlice, ScanMiss, ShiftSlots, TrimSlice, Goto
  <2> QED BY <2>1, <2>2, <2>3, <2>4, <2>5, <2>6, <2>7, <2>8, <2>9 DEF Step, Acquire, Access
<1> QED BY <1>1, <1>2 DEF ScanInv

\* NewMemoryStore establishes it and every step of every goroutine keeps it.
LEMMA ProgressInvariance == Spec => [](IInv /\ ProgressInv)
<1>1. Init => IInv /\ ProgressInv
    BY InitInv DEF Init, ProgressInv, OwnerInv, ResultInv, ScanInv
<1>2. ASSUME IInv, ProgressInv, [Next]_vars PROVE IInv' /\ ProgressInv'
  <2>1. CASE UNCHANGED vars
    <3>1. ProgressInv'
        BY <1>2, <2>1 DEF ProgressInv, OwnerInv, ResultInv, ScanInv, Collected, vars, data
    <3> QED BY <1>2, <3>1, NextInv
  <2>2. ASSUME NEW p \in Proc, Step(p) PROVE IInv' /\ ProgressInv'
      BY <1>2, <2>2, NextInv, OwnerKept, ResultKept, ScanKept DEF ProgressInv
  <2> QED BY <1>2, <2>1, <2>2 DEF Next, Step
<1> QED BY <1>1, <1>2, PTL DEF Spec
-----------------------------------------------------------------------------
(* What callers see of each step.                                          *)

\* The promise is written over the same calls, and removes from a queue in
\* the same way.
LEMMA SameVocabulary ==
    /\ \A c : Promise!Keys(c) = Keys(c)
    /\ Promise!NoResult = NoResult
    /\ \A s : Promise!ToSet(s) = ToSet(s)
    /\ \A s, e : Promise!RemoveFirst(s, e) = RemoveFirst(s, e)
<1>1. \A c : Promise!Keys(c) = Keys(c)
    BY DEF Promise!Keys, Keys
<1>2. Promise!NoResult = NoResult
    BY DEF Promise!NoResult, NoResult
<1>3. \A s : Promise!ToSet(s) = ToSet(s)
    BY DEF Promise!ToSet, ToSet
<1>4. ASSUME NEW s, NEW e PROVE Promise!RemoveFirst(s, e) = RemoveFirst(s, e)
  <2>1. \A i : Promise!RemoveAt(s, i) = RemoveAt(s, i)
      BY DEF Promise!RemoveAt, RemoveAt
  <2>2. \A I : Promise!Min(I) = Min(I)
      BY DEF Promise!Min, Min
  <2>3. Promise!SelectInSeq(s, LAMBDA v : v = e) = SelectInSeq(s, LAMBDA v : v = e)
      BY <2>2 DEF Promise!SelectInSeq, SelectInSeq
  <2> QED BY <2>1, <2>3 DEF Promise!RemoveFirst, RemoveFirst
<1> QED BY <1>1, <1>2, <1>3, <1>4

\* How far a call has come depends on the label only.
LEMMA Phases ==
    /\ PhaseAt("idle") = "idle" /\ PhaseAt("return") = "done" /\ PhaseAt("trim") = "done"
    /\ \A l \in Labels \ {"idle", "return", "trim"} : PhaseAt(l) = "called"
BY DEF PhaseAt

\* A goroutine that moves changes its own phase and result only.
LEMMA CallerSees ==
    ASSUME TypeOK, NEW p \in Proc, NEW l \in Labels, NEW r,
           pc' = [pc EXCEPT ![p] = l], ret' = [ret EXCEPT ![p] = r]
    PROVE  /\ AbsPhase[p] = PhaseAt(pc[p])
           /\ AbsPhase' = [AbsPhase EXCEPT ![p] = PhaseAt(l)]
           /\ AbsRet' = [AbsRet EXCEPT ![p] = IF PhaseAt(l) = "done" THEN r ELSE NoResult]
BY DEF TypeOK, AbsPhase, AbsRet

\* A step before the call takes effect, or after it: the caller sees nothing.
LEMMA CallerSeesNothing ==
    ASSUME TypeOK, NEW p \in Proc, NEW l \in Labels, NEW r,
           pc' = [pc EXCEPT ![p] = l], ret' = [ret EXCEPT ![p] = r],
           PhaseAt(pc[p]) = PhaseAt(l), PhaseAt(l) = "called" \/ r = ret[p]
    PROVE  AbsPhase' = AbsPhase /\ AbsRet' = AbsRet
<1>1. \A q \in Proc : PhaseAt(pc'[q]) = PhaseAt(pc[q])
    BY DEF TypeOK
<1>2. \A q \in Proc : (IF PhaseAt(pc'[q]) = "done" THEN ret'[q] ELSE NoResult)
                      = (IF PhaseAt(pc[q]) = "done" THEN ret[q] ELSE NoResult)
    BY <1>1 DEF TypeOK
<1> QED BY <1>1, <1>2 DEF AbsPhase, AbsRet

\* The step at which a call takes effect.
LEMMA CallTakesEffect ==
    ASSUME TypeOK, NEW p \in Proc, NEW l \in {"return", "trim"}, NEW r, NEW op,
           pc[p] \notin {"idle", "return", "trim"}, call[p].op = op,
           pc' = [pc EXCEPT ![p] = l], ret' = [ret EXCEPT ![p] = r],
           UNCHANGED <<issued, call>>
    PROVE  Promise!Takes(p, op, r)
<1>1. l \in Labels /\ PhaseAt(l) = "done" /\ PhaseAt(pc[p]) = "called"
    BY Phases DEF Labels, TypeOK
<1> QED BY <1>1, CallerSees DEF Promise!Takes

\* While a goroutine works on the queue no other has half removed anything.
LEMMA WorkedOn ==
    ASSUME IInv, NEW p \in Proc, pc[p] \in QueueLabels
    PROVE  /\ pc[p] # "trim" => AbsQueue = Covered(slice)
           /\ pc[p] = "trim" => AbsQueue = Covered(Trimmed(slice))
BY DEF IInv, QueueLockInv, QueueLabels, AbsQueue

\* ... and none will have after its step, but for the one that moved the
\* actions down.
LEMMA WorkedOnAfter ==
    ASSUME IInv, NEW p \in Proc, pc[p] \in QueueLabels,
           \A q \in Proc : q # p => pc'[q] = pc[q]
    PROVE  /\ pc'[p] # "trim" => AbsQueue' = Covered(slice')
           /\ pc'[p] = "trim" => AbsQueue' = Covered(Trimmed(slice'))
<1>1. \A q \in Proc : q # p => pc'[q] # "trim"
    BY DEF IInv, TypeOK, QueueLockInv, QueueLabels
<1>2. Covered(slice)' = Covered(slice') /\ Covered(Trimmed(slice))' = Covered(Trimmed(slice'))
    BY DEF Covered, Trimmed
<1> QED BY <1>1, <1>2 DEF AbsQueue

\* append writes a slot that the header does not cover yet.
LEMMA SlotNotCovered ==
    ASSUME NEW s \in Slice, NEW g \in Guids
    PROVE  /\ Covered(WithSlot(s, g)) = Covered(s)
           /\ WithSlot(s, g).array[s.len + 1] = g
<1> DEFINE t == WithSlot(s, g)
<1>1. t \in Slice /\ t.len = s.len
    BY SliceTypes
<1>2. t.array = Append(Covered(s), g)
    BY DEF WithSlot, Slice
<1>3. /\ Covered(s) \in Seq(Guids) /\ Len(Covered(s)) = s.len /\ s.len \in Nat
    BY CoveredType DEF Slice
<1>4. \A i \in 1 .. s.len : t.array[i] = Covered(s)[i]
    BY <1>2, <1>3, AppendProperties
<1>5. t.array[s.len + 1] = g
    BY <1>2, <1>3, AppendProperties
<1> HIDE DEF t
<1>6. /\ Covered(t) \in Seq(Guids) /\ Len(Covered(t)) = s.len
      /\ \A i \in 1 .. s.len : Covered(t)[i] = t.array[i]
    BY <1>1, CoveredType
<1>7. Covered(t) = Covered(s)
    BY <1>3, <1>4, <1>6, SeqEqual
<1> QED BY <1>5, <1>7 DEF t

\* Storing the longer header is Enqueue's effect.
LEMMA LongerHeader ==
    ASSUME NEW s \in Slice, Len(s.array) = s.len + 1
    PROVE  Covered(Extended(s)) = Append(Covered(s), s.array[s.len + 1])
<1> DEFINE t == Extended(s)
           a == Append(Covered(s), s.array[s.len + 1])
<1>1. t \in Slice
    BY SliceTypes
<1>2. t.array = s.array /\ t.len = s.len + 1 /\ s.len \in Nat /\ s.array \in Seq(Guids)
    BY DEF Extended, Slice
<1>3. s.array[s.len + 1] \in Guids
    BY <1>2, ElementOfSeq
<1>4. /\ Covered(s) \in Seq(Guids) /\ Len(Covered(s)) = s.len
      /\ \A i \in 1 .. s.len : Covered(s)[i] = s.array[i]
    BY CoveredType
<1>5. /\ a \in Seq(Guids) /\ Len(a) = s.len + 1 /\ a[s.len + 1] = s.array[s.len + 1]
      /\ \A i \in 1 .. s.len : a[i] = s.array[i]
    BY <1>3, <1>4, AppendProperties
<1> HIDE DEF t, a
<1>6. /\ Covered(t) \in Seq(Guids) /\ Len(Covered(t)) = s.len + 1
      /\ \A i \in 1 .. s.len + 1 : Covered(t)[i] = s.array[i]
    BY <1>1, <1>2, CoveredType
<1>7. \A i \in 1 .. s.len + 1 : Covered(t)[i] = a[i]
    BY <1>2, <1>5, <1>6
<1>8. Covered(t) = a
    BY <1>5, <1>6, <1>7, SeqEqual
<1> QED BY <1>8 DEF t, a

\* Moving the later actions down, with the shorter header to come, removes
\* the first action that matches.
LEMMA ShiftRemoves ==
    ASSUME NEW s \in Slice, NEW g, NEW i \in 1 .. s.len, s.array[i] = g,
           \A j \in 1 .. i - 1 : s.array[j] # g
    PROVE  Covered(Trimmed(Shifted(s, i))) = RemoveFirst(Covered(s), g)
<1> DEFINE u == Shifted(s, i)
           t == Trimmed(u)
           c == Covered(s)
           r == RemoveFirst(c, g)
<1>0. s.len \in Nat /\ s.len <= Len(s.array) /\ Len(s.array) \in Nat /\ s.array \in Seq(Guids)
    BY LenProperties DEF Slice
<1>1. i \in Nat /\ s.len >= 1
    BY <1>0
<1>a. u \in Slice /\ u.len = s.len
    BY <1>1, SliceTypes
<1>2. \A j \in 1 .. s.len - 1 : u.array[j] = IF i <= j THEN s.array[j + 1] ELSE s.array[j]
    BY <1>0 DEF Shifted, Slice
<1> HIDE DEF u
<1>3. t \in Slice /\ t.array = u.array /\ t.len = s.len - 1
    BY <1>1, <1>a, SliceTypes DEF Trimmed, Slice
<1>4. /\ c \in Seq(Guids) /\ Len(c) = s.len /\ \A j \in 1 .. s.len : c[j] = s.array[j]
    BY CoveredType
<1> HIDE DEF t, c
<1>5. /\ r \in Seq(Guids) /\ Len(r) = s.len - 1
      /\ \A j \in 1 .. s.len - 1 : r[j] = IF j < i THEN c[j] ELSE c[j + 1]
  <2>1. i \in 1 .. Len(c) /\ c[i] = g /\ \A j \in 1 .. i - 1 : c[j] # g
      BY <1>0, <1>4
  <2>2. /\ r \in Seq(Guids) /\ Len(r) = Len(c) - 1
        /\ \A j \in 1 .. Len(c) - 1 : r[j] = IF j < i THEN c[j] ELSE c[j + 1]
      BY <1>4, <2>1, RemoveFirstAt
  <2> QED BY <1>4, <2>2
<1>6. /\ Covered(t) \in Seq(Guids) /\ Len(Covered(t)) = s.len - 1
      /\ \A j \in 1 .. s.len - 1 : Covered(t)[j] = u.array[j]
    BY <1>3, CoveredType
<1> HIDE DEF r
<1>7. \A j \in 1 .. s.len - 1 : Covered(t)[j] = r[j]
    BY <1>0, <1>2, <1>4, <1>5, <1>6
<1>8. Covered(t) = r
    BY <1>5, <1>6, <1>7, SeqEqual
<1> QED BY <1>8 DEF t, u, r, c

\* The queue callers see is untouched by steps that leave the slice alone.
LEMMA QueueKept ==
    ASSUME TypeOK, NEW p \in Proc, NEW l, pc' = [pc EXCEPT ![p] = l],
           pc[p] # "trim", l # "trim", slice' = slice
    PROVE  AbsQueue' = AbsQueue
<1>1. (\E q \in Proc : pc'[q] = "trim") <=> (\E q \in Proc : pc[q] = "trim")
    BY DEF TypeOK
<1>2. Covered(slice)' = Covered(slice) /\ Covered(Trimmed(slice))' = Covered(Trimmed(slice))
    BY DEF Covered, Trimmed
<1> QED BY <1>1, <1>2 DEF AbsQueue

\* A method is called: the promise sees a call.
LEMMA InvokeSeen ==
    ASSUME IInv, NEW p \in Proc, Invoke(p)
    PROVE  Promise!Invoke(p)
<1>1. PICK c \in Calls :
        /\ c.op = "EnqueueAction" => c.guid \notin issued
        /\ call' = [call EXCEPT ![p] = c]
        /\ issued' = IF c.op = "EnqueueAction" THEN issued \cup {c.guid} ELSE issued
        /\ pc' = [pc EXCEPT ![p] = FirstLabel(c.op)]
    BY DEF Invoke
<1> DEFINE l == FirstLabel(c.op)
<1>2. l \in {"lookup", "peek", "queue"}
    BY FirstLabels
<1> HIDE DEF l
<1>3. l \in Labels /\ PhaseAt(l) = "called" /\ l # "trim"
    BY <1>2, Phases DEF Labels
<1>4. pc[p] = "idle" /\ UNCHANGED <<locks, data, ret, ptr, idx>> /\ TypeOK
    BY DEF Invoke, IInv
<1>5. ret' = [ret EXCEPT ![p] = ret[p]]
    BY <1>4 DEF TypeOK
<1>6. pc' = [pc EXCEPT ![p] = l]
    BY <1>1 DEF l
<1>7. AbsPhase[p] = "idle" /\ AbsPhase' = [AbsPhase EXCEPT ![p] = "called"]
  <2>1. AbsPhase[p] = PhaseAt(pc[p]) /\ AbsPhase' = [AbsPhase EXCEPT ![p] = PhaseAt(l)]
      BY <1>3, <1>4, <1>5, <1>6, CallerSees
  <2> QED BY <1>3, <1>4, <2>1, Phases
<1>8. AbsRet' = AbsRet
    BY <1>3, <1>4, <1>5, <1>6, Phases DEF AbsRet, TypeOK
<1>9. AbsQueue' = AbsQueue
    BY <1>3, <1>4, <1>6, QueueKept DEF data
<1>10. AbsValues' = AbsValues /\ AbsConnected' = AbsConnected
    BY <1>4 DEF AbsValues, AbsConnected, Deref, data
<1> QED BY <1>1, <1>7, <1>8, <1>9, <1>10 DEF Promise!Invoke

\* A method returns: the promise sees it return.
LEMMA ReturnSeen ==
    ASSUME IInv, NEW p \in Proc, Return(p)
    PROVE  Promise!Return(p)
<1>1. /\ pc[p] = "return" /\ pc' = [pc EXCEPT ![p] = "idle"]
      /\ call' = [call EXCEPT ![p] = NoCall] /\ ret' = [ret EXCEPT ![p] = NoResult]
      /\ UNCHANGED <<data, issued>> /\ TypeOK /\ "idle" \in Labels
    BY DEF Return, Goto, IInv, Labels
<1>2. /\ AbsPhase[p] = "done" /\ AbsPhase' = [AbsPhase EXCEPT ![p] = "idle"]
      /\ AbsRet' = [AbsRet EXCEPT ![p] = NoResult]
  <2>1. /\ AbsPhase[p] = PhaseAt(pc[p])
        /\ AbsPhase' = [AbsPhase EXCEPT ![p] = PhaseAt("idle")]
        /\ AbsRet' = [AbsRet EXCEPT ![p] =
                          IF PhaseAt("idle") = "done" THEN NoResult ELSE NoResult]
      BY <1>1, CallerSees
  <2> QED BY <1>1, <2>1, Phases
<1>3. AbsQueue' = AbsQueue
    BY <1>1, QueueKept DEF data
<1>4. AbsValues' = AbsValues /\ AbsConnected' = AbsConnected
    BY <1>1 DEF AbsValues, AbsConnected, Deref, data
<1> QED BY <1>1, <1>2, <1>3, <1>4, SameVocabulary DEF Promise!Return
-----------------------------------------------------------------------------
(* Steps nobody sees.                                                      *)

\* The labels inside a method whose call has not taken effect.
Pending == Labels \ {"idle", "return", "trim"}

\* A step between two such labels.
LEMMA PendingSees ==
    ASSUME IInv, NEW p \in Proc, NEW l \in Pending, pc[p] \in Pending,
           pc' = [pc EXCEPT ![p] = l], ret' = ret
    PROVE  /\ AbsPhase' = AbsPhase /\ AbsRet' = AbsRet
           /\ slice' = slice => AbsQueue' = AbsQueue
<1>1. TypeOK /\ l \in Labels /\ l # "trim" /\ pc[p] # "trim"
    BY DEF Pending, IInv
<1>2. PhaseAt(pc[p]) = "called" /\ PhaseAt(l) = "called"
    BY Phases DEF Pending
<1>3. ret' = [ret EXCEPT ![p] = ret[p]]
    BY <1>1 DEF TypeOK
<1>4. AbsPhase' = AbsPhase /\ AbsRet' = AbsRet
    BY <1>1, <1>2, <1>3, CallerSeesNothing
<1>5. slice' = slice => AbsQueue' = AbsQueue
    BY <1>1, QueueKept
<1> QED BY <1>4, <1>5

\* Waiting for a lock and taking it.
LEMMA AcquireUnseen ==
    ASSUME IInv, NEW p \in Proc, Acquire(p)
    PROVE  UNCHANGED Promise!vars
<1>1. UNCHANGED <<data, issued, call, ret, idx, ptr>>
    BY DEF Acquire, AnnounceStore, LockStore, LockFlag, RLockStore, AnnounceTable,
           LockTable, RLockTable, LockQueue
<1>2. AbsValues' = AbsValues /\ AbsConnected' = AbsConnected
    BY <1>1 DEF AbsValues, AbsConnected, Deref, data
<1>3. CASE pc' = pc
    BY <1>1, <1>2, <1>3 DEF Promise!vars, AbsPhase, AbsRet, AbsQueue, Covered, Trimmed, data
<1>4. CASE pc' # pc
  <2>1. \E l \in Pending : pc[p] \in Pending /\ pc' = [pc EXCEPT ![p] = l]
    <3>1. CASE LockQueue(p)
        BY <3>1 DEF LockQueue, Goto, QueueLabel, IInv, CallInv, QueueOps, Pending, Labels
    <3>2. CASE LockStore(p) \/ LockFlag(p) \/ RLockStore(p) \/ LockTable(p) \/ RLockTable(p)
        BY <3>2 DEF LockStore, LockFlag, RLockStore, LockTable, RLockTable, Goto,
                    Pending, Labels
    <3>3. CASE AnnounceStore(p) \/ AnnounceTable(p)
        BY <1>4, <3>3 DEF AnnounceStore, AnnounceTable
    <3> QED BY <3>1, <3>2, <3>3 DEF Acquire
  <2>2. AbsPhase' = AbsPhase /\ AbsRet' = AbsRet /\ AbsQueue' = AbsQueue
      BY <1>1, <2>1, PendingSees DEF data
  <2> QED BY <1>1, <1>2, <2>2 DEF Promise!vars
<1> QED BY <1>3, <1>4

\* getOrCreateClient: finding a client, or inserting one with an empty
\* table, changes no table and no flag that callers can observe.
LEMMA LookupUnseen ==
    ASSUME IInv, ProgressInv, NEW p \in Proc,
           FindClient(p) \/ MissClient(p) \/ InsertClient(p)
    PROVE  UNCHANGED Promise!vars
<1>1. UNCHANGED <<slice, issued, call, ret>>
    BY DEF FindClient, MissClient, InsertClient, data
<1>2. \E l \in Pending : pc[p] \in Pending /\ pc' = [pc EXCEPT ![p] = l]
    BY DEF FindClient, MissClient, InsertClient, Goto, AfterLookup, Pending, Labels
<1>3. AbsPhase' = AbsPhase /\ AbsRet' = AbsRet /\ AbsQueue' = AbsQueue
    BY <1>1, <1>2, PendingSees
<1>4. AbsValues' = AbsValues /\ AbsConnected' = AbsConnected
  <2>1. CASE FindClient(p) \/ MissClient(p)
      BY <2>1 DEF FindClient, MissClient, AbsValues, AbsConnected, Deref, data
  <2>2. CASE InsertClient(p)
    <3> DEFINE c == call[p].client
               o == <<c, p>>
    <3>1. /\ clients' = [clients EXCEPT ![c] = o]
          /\ table' = [table EXCEPT ![o] = [k \in Indices |-> Absent]]
          /\ flag' = [flag EXCEPT ![o] = FALSE]
        BY <2>2 DEF InsertClient
    <3>2. clients[c] = NoObj /\ c \in Clients /\ o \in Objects /\ o # NoObj
        BY <2>2, CallFields, NoObjAssumption
        DEF InsertClient, Goto, IInv, PtrInv, CallInv, Objects
    <3>3. \A d \in Clients : d # c => clients'[d] = clients[d] /\ clients[d] # o
        BY <3>1, <3>2 DEF IInv, TypeOK, ProgressInv, OwnerInv
    <3>4. clients'[c] = o /\ table'[o] = [k \in Indices |-> Absent] /\ flag'[o] = FALSE
        BY <3>1, <3>2 DEF IInv, TypeOK
    <3>5. \A d \in Clients : d # c /\ clients[d] # NoObj =>
              table'[clients[d]] = table[clients[d]] /\ flag'[clients[d]] = flag[clients[d]]
        BY <3>1, <3>3 DEF IInv, TypeOK
    <3> HIDE DEF o
    <3>6. ASSUME NEW d \in Clients
          PROVE  /\ Deref(table, d, [k \in Indices |-> Absent])'
                       = Deref(table, d, [k \in Indices |-> Absent])
                 /\ Deref(flag, d, FALSE)' = Deref(flag, d, FALSE)
        BY <3>2, <3>3, <3>4, <3>5 DEF Deref
    <3> QED BY <3>6 DEF AbsValues, AbsConnected
  <2> QED BY <2>1, <2>2
<1> QED BY <1>1, <1>3, <1>4 DEF Promise!vars

\* The half-steps on the slice, and Acknowledge's loop.
LEMMA SliceUnseen ==
    ASSUME IInv, NEW p \in Proc,
           AppendSlot(p) \/ ScanPast(p) \/ ScanHit(p) \/ TrimSlice(p)
    PROVE  UNCHANGED Promise!vars
<1>1. UNCHANGED <<clients, table, flag, issued, call, ret>>
    BY DEF AppendSlot, ScanPast, ScanHit, TrimSlice, data
<1>2. AbsValues' = AbsValues /\ AbsConnected' = AbsConnected
    BY <1>1 DEF AbsValues, AbsConnected, Deref
<1>3. CASE AppendSlot(p)
  <2>1. /\ pc[p] = "append" /\ pc' = [pc EXCEPT ![p] = "extend"]
        /\ slice' = WithSlot(slice, call[p].guid)
      BY <1>3 DEF AppendSlot, Goto
  <2>2. call[p].guid \in Guids /\ slice \in Slice
      BY <2>1, CallFields DEF IInv, TypeOK, CallInv
  <2>3. AbsQueue = Covered(slice) /\ AbsQueue' = Covered(slice')
      BY <2>1, WorkedOn, WorkedOnAfter DEF QueueLabels, IInv, TypeOK
  <2>4. Covered(slice') = Covered(slice)
      BY <2>1, <2>2, SlotNotCovered
  <2>5. AbsPhase' = AbsPhase /\ AbsRet' = AbsRet
      BY <1>1, <2>1, PendingSees DEF Pending, Labels
  <2> QED BY <1>1, <1>2, <2>3, <2>4, <2>5 DEF Promise!vars
<1>4. CASE ScanPast(p) \/ ScanHit(p)
  <2>1. \E l \in Pending : pc[p] \in Pending /\ pc' = [pc EXCEPT ![p] = l]
      BY <1>4 DEF ScanPast, ScanHit, Goto, Pending, Labels
  <2>2. slice' = slice
      BY <1>4 DEF ScanPast, ScanHit, data
  <2>3. AbsPhase' = AbsPhase /\ AbsRet' = AbsRet /\ AbsQueue' = AbsQueue
      BY <1>1, <2>1, <2>2, PendingSees
  <2> QED BY <1>1, <1>2, <2>3 DEF Promise!vars
<1>5. CASE TrimSlice(p)
  <2>1. /\ pc[p] = "trim" /\ pc' = [pc EXCEPT ![p] = "return"] /\ slice' = Trimmed(slice)
      BY <1>5 DEF TrimSlice, Goto
  <2>2. AbsQueue = Covered(Trimmed(slice)) /\ AbsQueue' = Covered(slice')
      BY <2>1, WorkedOn, WorkedOnAfter DEF QueueLabels, IInv, TypeOK
  <2>3. TypeOK /\ "return" \in Labels /\ ret' = [ret EXCEPT ![p] = ret[p]]
      BY <1>1 DEF IInv, TypeOK, Labels
  <2>4. AbsPhase' = AbsPhase /\ AbsRet' = AbsRet
      BY <2>1, <2>3, Phases, CallerSeesNothing
  <2> QED BY <1>1, <1>2, <2>1, <2>2, <2>4 DEF Promise!vars
<1> QED BY <1>3, <1>4, <1>5
-----------------------------------------------------------------------------
(* Steps at which a call takes effect.                                     *)

\* A step that leaves its result alone hands back nothing.
LEMMA NoResultYet ==
    ASSUME IInv, ProgressInv, NEW p \in Proc, pc[p] \in Pending \ {"read"}, ret' = ret
    PROVE  ret' = [ret EXCEPT ![p] = NoResult]
<1>1. ret[p] = NoResult
    BY DEF ProgressInv, ResultInv, Pending
<1> QED BY <1>1 DEF IInv, TypeOK

\* Enqueue takes effect when the longer header is stored.
LEMMA ExtendSeen ==
    ASSUME IInv, ProgressInv, NEW p \in Proc, ExtendSlice(p)
    PROVE  Promise!EnqueueAction(p)
<1>1. /\ pc[p] = "extend" /\ pc' = [pc EXCEPT ![p] = "return"] /\ slice' = Extended(slice)
      /\ UNCHANGED <<clients, table, flag, issued, call, ret>>
    BY DEF ExtendSlice, Goto
<1>2. /\ TypeOK /\ slice \in Slice /\ call[p].op = "EnqueueAction"
      /\ Len(slice.array) = slice.len + 1 /\ slice.array[slice.len + 1] = call[p].guid
    BY <1>1 DEF IInv, TypeOK, CallInv, LoopInv, ProgressInv, ScanInv
<1>3. ret' = [ret EXCEPT ![p] = NoResult]
    BY <1>1, NoResultYet DEF Pending, Labels
<1>4. Promise!Takes(p, "EnqueueAction", NoResult)
    BY <1>1, <1>2, <1>3, CallTakesEffect
<1>5. AbsQueue = Covered(slice) /\ AbsQueue' = Covered(slice')
    BY <1>1, WorkedOn, WorkedOnAfter DEF QueueLabels, IInv, TypeOK
<1>6. AbsQueue' = Append(AbsQueue, call[p].guid)
    BY <1>1, <1>2, <1>5, LongerHeader
<1>7. AbsValues' = AbsValues /\ AbsConnected' = AbsConnected
    BY <1>1 DEF AbsValues, AbsConnected, Deref
<1> QED BY <1>4, <1>6, <1>7, SameVocabulary DEF Promise!EnqueueAction

\* GetAll of the queue takes effect when it copies the slice.
LEMMA CopySeen ==
    ASSUME IInv, ProgressInv, NEW p \in Proc, CopySlice(p)
    PROVE  Promise!DequeueActions(p)
<1>1. /\ pc[p] = "copy" /\ pc' = [pc EXCEPT ![p] = "return"]
      /\ ret' = [ret EXCEPT ![p].actions = Covered(slice)]
      /\ UNCHANGED <<clients, table, flag, slice, issued, call>>
    BY DEF CopySlice, Goto, data
<1>2. TypeOK /\ call[p].op = "DequeueActions" /\ ret[p] = NoResult
    BY <1>1 DEF IInv, CallInv, ProgressInv, ResultInv
<1>3. AbsQueue = Covered(slice) /\ AbsQueue' = Covered(slice')
    BY <1>1, WorkedOn, WorkedOnAfter DEF QueueLabels, IInv, TypeOK
<1> DEFINE r == [NoResult EXCEPT !.actions = AbsQueue]
<1>4. ret' = [ret EXCEPT ![p] = r]
    BY <1>1, <1>2, <1>3
<1> HIDE DEF r
<1>5. Promise!Takes(p, "DequeueActions", r)
    BY <1>1, <1>2, <1>4, CallTakesEffect
<1>6. AbsValues' = AbsValues /\ AbsConnected' = AbsConnected /\ AbsQueue' = AbsQueue
    BY <1>1, <1>3 DEF AbsValues, AbsConnected, Deref
<1> QED BY <1>5, <1>6, SameVocabulary DEF Promise!DequeueActions, r

\* Acknowledge takes effect when it has looked at every action in vain ...
LEMMA MissSeen ==
    ASSUME IInv, ProgressInv, NEW p \in Proc, ScanMiss(p)
    PROVE  Promise!AcknowledgeAction(p)
<1>1. /\ pc[p] = "scan" /\ pc' = [pc EXCEPT ![p] = "return"] /\ idx[p] > slice.len
      /\ UNCHANGED <<clients, table, flag, slice, issued, call, ret>>
    BY DEF ScanMiss, Goto, data
<1>2. /\ TypeOK /\ slice \in Slice /\ call[p].op = "AcknowledgeAction" /\ idx[p] \in Nat
      /\ \A i \in 1 .. idx[p] - 1 : slice.array[i] # call[p].guid
    BY <1>1 DEF IInv, TypeOK, CallInv, ProgressInv, ScanInv
<1>3. AbsQueue = Covered(slice) /\ AbsQueue' = Covered(slice')
    BY <1>1, WorkedOn, WorkedOnAfter DEF QueueLabels, IInv, TypeOK
<1>4. AbsQueue \in Seq(Guids) /\ (call[p].guid \in ToSet(AbsQueue)) = FALSE
  <2>1. /\ AbsQueue \in Seq(Guids) /\ Len(AbsQueue) = slice.len /\ slice.len \in Nat
        /\ \A i \in 1 .. slice.len : AbsQueue[i] = slice.array[i]
      BY <1>2, <1>3, CoveredType DEF Slice
  <2>2. \A i \in 1 .. Len(AbsQueue) : AbsQueue[i] # call[p].guid
      BY <1>1, <1>2, <2>1
  <2> QED BY <2>1, <2>2, ToSetOf
<1>5. AbsQueue' = RemoveFirst(AbsQueue, call[p].guid)
    BY <1>1, <1>3, <1>4, RemoveFirstMissing
<1> DEFINE r == [NoResult EXCEPT !.ok = call[p].guid \in ToSet(AbsQueue)]
<1>6. r = NoResult
  <2>1. r = [NoResult EXCEPT !.ok = FALSE]
      BY <1>4
  <2> HIDE DEF r
  <2> QED BY <2>1 DEF NoResult
<1>7. ret' = [ret EXCEPT ![p] = r]
    BY <1>1, <1>6, NoResultYet DEF Pending, Labels
<1> HIDE DEF r
<1>8. Promise!Takes(p, "AcknowledgeAction", r)
    BY <1>1, <1>2, <1>7, CallTakesEffect
<1>9. AbsValues' = AbsValues /\ AbsConnected' = AbsConnected
    BY <1>1 DEF AbsValues, AbsConnected, Deref
<1> QED BY <1>5, <1>8, <1>9, SameVocabulary DEF Promise!AcknowledgeAction, r

\* ... or when the actions after the one it found have moved down.
LEMMA ShiftSeen ==
    ASSUME IInv, ProgressInv, NEW p \in Proc, ShiftSlots(p)
    PROVE  Promise!AcknowledgeAction(p)
<1>1. /\ pc[p] = "shift" /\ pc' = [pc EXCEPT ![p] = "trim"]
      /\ slice' = Shifted(slice, idx[p]) /\ ret' = [ret EXCEPT ![p].ok = TRUE]
      /\ UNCHANGED <<clients, table, flag, issued, call>>
    BY DEF ShiftSlots, Goto
<1>2. /\ TypeOK /\ slice \in Slice /\ call[p].op = "AcknowledgeAction"
      /\ idx[p] \in 1 .. slice.len /\ slice.array[idx[p]] = call[p].guid
      /\ \A i \in 1 .. idx[p] - 1 : slice.array[i] # call[p].guid
    BY <1>1 DEF IInv, TypeOK, CallInv, LoopInv, ProgressInv, ScanInv, Slice
<1>a. ret[p] = NoResult
    BY <1>1 DEF ProgressInv, ResultInv
<1>3. AbsQueue = Covered(slice) /\ AbsQueue' = Covered(Trimmed(slice'))
    BY <1>1, WorkedOn, WorkedOnAfter DEF QueueLabels, IInv, TypeOK
<1>4. AbsQueue' = RemoveFirst(AbsQueue, call[p].guid)
    BY <1>1, <1>2, <1>3, ShiftRemoves
<1>5. (call[p].guid \in ToSet(AbsQueue)) = TRUE
  <2>1. AbsQueue \in Seq(Guids) /\ Len(AbsQueue) = slice.len /\ AbsQueue[idx[p]] = call[p].guid
      BY <1>2, <1>3, CoveredType
  <2> QED BY <1>2, <2>1, ToSetOf
<1> DEFINE r == [NoResult EXCEPT !.ok = call[p].guid \in ToSet(AbsQueue)]
<1>6. ret' = [ret EXCEPT ![p] = r]
    BY <1>1, <1>a, <1>5
<1> HIDE DEF r
<1>7. Promise!Takes(p, "AcknowledgeAction", r)
    BY <1>1, <1>2, <1>6, CallTakesEffect
<1>8. AbsValues' = AbsValues /\ AbsConnected' = AbsConnected
    BY <1>1 DEF AbsValues, AbsConnected, Deref
<1> QED BY <1>4, <1>7, <1>8, SameVocabulary DEF Promise!AcknowledgeAction, r

\* The ClientData a goroutine has looked up is its client's.
LEMMA Pointed ==
    ASSUME IInv, NEW p \in Proc, pc[p] \in {"read", "write", "flag", "setflag"}
    PROVE  /\ call[p] \in Calls /\ call[p].client \in Clients
           /\ ptr[p] \in Objects /\ ptr[p] # NoObj /\ ptr[p] = clients[call[p].client]
           /\ AbsValues[call[p].client] = table[ptr[p]]
<1>1. call[p] \in Calls /\ ptr[p] \in Objects /\ ptr[p] = clients[call[p].client]
    BY DEF IInv, CallInv, PtrInv, TypeOK, Labels
<1>2. ptr[p] # NoObj /\ call[p].client \in Clients
    BY <1>1, NoObjAssumption, CallFields DEF Objects
<1> QED BY <1>1, <1>2 DEF AbsValues, Deref

\* Two clients never share a ClientData.
LEMMA OwnTables ==
    ASSUME ProgressInv, NEW c \in Clients, NEW d \in Clients, c # d, clients[c] # NoObj
    PROVE  clients[d] # clients[c]
<1>1. PICK q \in Proc : clients[c] = <<c, q>>
    BY DEF ProgressInv, OwnerInv
<1>2. clients[d] # NoObj => \E r \in Proc : clients[d] = <<d, r>>
    BY DEF ProgressInv, OwnerInv
<1> QED BY <1>1, <1>2

\* Set of the table takes effect when the value is written.
LEMMA WriteSeen ==
    ASSUME IInv, ProgressInv, NEW p \in Proc, WriteTable(p)
    PROVE  Promise!SetValue(p)
<1> DEFINE c == call[p].client
           o == ptr[p]
           k == Keys(call[p])[1]
           v == call[p].value
<1>1. /\ pc[p] = "write" /\ pc' = [pc EXCEPT ![p] = "return"]
      /\ table' = [table EXCEPT ![o][k] = v]
      /\ UNCHANGED <<clients, flag, slice, issued, call, ret>>
    BY DEF WriteTable, Goto
<1>2. TypeOK /\ call[p].op = "SetValue"
    BY <1>1 DEF IInv, CallInv
<1>3. c \in Clients /\ o \in Objects /\ o # NoObj /\ o = clients[c] /\ AbsValues[c] = table[o]
    BY <1>1, Pointed
<1>4. ret' = [ret EXCEPT ![p] = NoResult]
    BY <1>1, NoResultYet DEF Pending, Labels
<1>5. Promise!Takes(p, "SetValue", NoResult)
    BY <1>1, <1>2, <1>4, CallTakesEffect
<1> HIDE DEF c, o, k, v
<1>6. AbsValues' = [AbsValues EXCEPT ![c][k] = v]
  <2> DEFINE none == [i \in Indices |-> Absent]
             new == [table[o] EXCEPT ![k] = v]
  <2>1. table' = [table EXCEPT ![o] = new]
      BY <1>1
  <2> HIDE DEF new
  <2>2. \A d \in Clients : d # c => clients[d] # o
      BY <1>3, OwnTables
  <2>3. ASSUME NEW d \in Clients
        PROVE  Deref(table, d, none)' = IF d = c THEN new ELSE Deref(table, d, none)
      BY <1>1, <1>2, <1>3, <2>1, <2>2 DEF Deref, TypeOK
  <2> HIDE DEF none
  <2>4. AbsValues' = [d \in Clients |-> Deref(table, d, none)']
      BY DEF AbsValues, none
  <2>5. AbsValues' = [AbsValues EXCEPT ![c] = new]
      BY <1>3, <2>3, <2>4 DEF AbsValues, none
  <2> QED BY <1>3, <2>5 DEF new
<1>7. AbsConnected' = AbsConnected
    BY <1>1 DEF AbsConnected, Deref
<1>8. AbsQueue' = AbsQueue
    BY <1>1, <1>2, QueueKept
<1> QED BY <1>5, <1>6, <1>7, <1>8, SameVocabulary DEF Promise!SetValue, c, k, v

\* SetClientConnected takes effect when the flag is written.
LEMMA SetFlagSeen ==
    ASSUME IInv, ProgressInv, NEW p \in Proc, SetFlag(p)
    PROVE  Promise!SetClientConnected(p)
<1> DEFINE c == call[p].client
           o == ptr[p]
           v == call[p].flag
<1>1. /\ pc[p] = "setflag" /\ pc' = [pc EXCEPT ![p] = "return"]
      /\ flag' = [flag EXCEPT ![o] = v]
      /\ UNCHANGED <<clients, table, slice, issued, call, ret>>
    BY DEF SetFlag, Goto
<1>2. TypeOK /\ call[p].op = "SetClientConnected"
    BY <1>1 DEF IInv, CallInv
<1>3. c \in Clients /\ o \in Objects /\ o # NoObj /\ o = clients[c]
    BY <1>1, Pointed
<1>4. ret' = [ret EXCEPT ![p] = NoResult]
    BY <1>1, NoResultYet DEF Pending, Labels
<1>5. Promise!Takes(p, "SetClientConnected", NoResult)
    BY <1>1, <1>2, <1>4, CallTakesEffect
<1> HIDE DEF c, o, v
<1>6. AbsConnected' = [AbsConnected EXCEPT ![c] = v]
  <2>1. \A d \in Clients : d # c => clients[d] # o
      BY <1>3, OwnTables
  <2>2. ASSUME NEW d \in Clients
        PROVE  Deref(flag, d, FALSE)' = IF d = c THEN v ELSE Deref(flag, d, FALSE)
      BY <1>1, <1>2, <1>3, <2>1 DEF Deref, TypeOK
  <2>3. AbsConnected' = [d \in Clients |-> Deref(flag, d, FALSE)']
      BY DEF AbsConnected
  <2> QED BY <1>3, <2>2, <2>3 DEF AbsConnected
<1>7. AbsValues' = AbsValues
    BY <1>1 DEF AbsValues, Deref
<1>8. AbsQueue' = AbsQueue
    BY <1>1, <1>2, QueueKept
<1> QED BY <1>5, <1>6, <1>7, <1>8, SameVocabulary DEF Promise!SetClientConnected, c, v

\* IsClientConnected takes effect when the flag is read.
LEMMA ReadFlagSeen ==
    ASSUME IInv, ProgressInv, NEW p \in Proc, ReadFlag(p)
    PROVE  Promise!IsClientConnected(p)
<1> DEFINE b == AbsConnected[call[p].client]
           r == [NoResult EXCEPT !.ok = b]
<1>1. /\ pc[p] = "isconn" /\ pc' = [pc EXCEPT ![p] = "return"]
      /\ UNCHANGED <<clients, table, flag, slice, issued, call>>
    BY DEF ReadFlag, Goto, data
<1>2. TypeOK /\ call[p].op = "IsClientConnected" /\ ret[p] = NoResult /\ call[p] \in Calls
    BY <1>1 DEF IInv, CallInv, ProgressInv, ResultInv
<1>3. b = IF clients[call[p].client] = NoObj THEN FALSE ELSE flag[clients[call[p].client]]
    BY <1>2, CallFields DEF AbsConnected, Deref
<1>4. ret' = [ret EXCEPT ![p].ok = b]
    BY <1>3 DEF ReadFlag
<1> HIDE DEF b
<1>5. ret' = [ret EXCEPT ![p] = r]
    BY <1>2, <1>4
<1> HIDE DEF r
<1>6. Promise!Takes(p, "IsClientConnected", r)
    BY <1>1, <1>2, <1>5, CallTakesEffect
<1>7. AbsValues' = AbsValues /\ AbsConnected' = AbsConnected
    BY <1>1 DEF AbsValues, AbsConnected, Deref
<1>8. AbsQueue' = AbsQueue
    BY <1>1, <1>2, QueueKept
<1> QED BY <1>6, <1>7, <1>8, SameVocabulary DEF Promise!IsClientConnected, b, r

\* Get and GetAll take effect with the last value they read: all they have
\* read before is still what the table holds.
LEMMA ReadSeen ==
    ASSUME IInv, ProgressInv, NEW p \in Proc, ReadTable(p)
    PROVE  \/ UNCHANGED Promise!vars
           \/ Promise!GetValue(p)
           \/ Promise!GetAllValues(p)
<1> DEFINE c == call[p].client
           keys == Keys(call[p])
           op == call[p].op
<1>1. /\ pc[p] = "read" /\ UNCHANGED <<clients, table, flag, slice, issued, call, ptr>>
      /\ idx' = [idx EXCEPT ![p] = @ + 1]
      /\ ret' = [ret EXCEPT ![p].entries = Append(@, table[ptr[p]][keys[idx[p]]])]
      /\ pc' = [pc EXCEPT ![p] = IF idx[p] = Len(keys) THEN "return" ELSE "read"]
    BY DEF ReadTable, Goto, data
<1>2. /\ TypeOK /\ op \in {"GetValue", "GetAllValues"} /\ idx[p] \in 1 .. Len(keys)
      /\ Collected(p)
    BY <1>1 DEF IInv, CallInv, LoopInv, ProgressInv, ResultInv
<1>3. c \in Clients /\ AbsValues[c] = table[ptr[p]] /\ call[p] \in Calls
    BY <1>1, Pointed
<1>4. keys \in Seq(Indices)
    BY <1>2, <1>3, CallFields DEF TableOps
<1>5. AbsValues' = AbsValues /\ AbsConnected' = AbsConnected
    BY <1>1 DEF AbsValues, AbsConnected, Deref
<1> DEFINE r == ret'[p]
<1>6. ret' = [ret EXCEPT ![p] = r]
    BY <1>1, <1>2 DEF TypeOK
<1>7. CASE idx[p] = Len(keys)
  <2>1. pc' = [pc EXCEPT ![p] = "return"]
      BY <1>1, <1>7
  <2>2. IInv' /\ Collected(p)'
      BY <1>2, ReadTable_Inv, IterationCollects
  <2>3. /\ r \in Result /\ r.actions = <<>> /\ r.ok = FALSE /\ Len(r.entries) = Len(keys)
        /\ \A i \in 1 .. Len(keys) : r.entries[i] = AbsValues[c][keys[i]]
      BY <1>1, <1>3, <1>7, <2>2 DEF Collected, IInv, TypeOK
  <2> HIDE DEF r
  <2>4. r.entries = [i \in DOMAIN keys |-> AbsValues[c][keys[i]]]
    <3>1. r.entries \in Seq(Values \cup {Absent})
        BY <2>3 DEF Result
    <3>2. DOMAIN r.entries = 1 .. Len(keys) /\ DOMAIN keys = 1 .. Len(keys)
        BY <1>4, <2>3, <3>1, LenProperties
    <3>3. r.entries = [i \in DOMAIN r.entries |-> r.entries[i]]
        BY <3>1, LenProperties
    <3> QED BY <2>3, <3>2, <3>3
  <2> DEFINE e == [i \in DOMAIN keys |-> AbsValues[c][keys[i]]]
  <2> HIDE DEF e
  <2>5. r = [NoResult EXCEPT !.entries = e]
    <3>1. r.entries = e /\ r.actions = NoResult.actions /\ r.ok = NoResult.ok
        BY <2>3, <2>4 DEF NoResult, e
    <3>2. r = [entries |-> r.entries, actions |-> r.actions, ok |-> r.ok]
        BY <2>3 DEF Result
    <3> QED BY <3>1, <3>2 DEF NoResult
  <2>6. Promise!Takes(p, op, r)
      BY <1>1, <1>2, <1>6, <2>1, CallTakesEffect
  <2>7. AbsQueue' = AbsQueue
      BY <1>1, <1>2, <2>1, QueueKept
  <2>8. Promise!ReadValues(p, op)
      BY <1>5, <2>5, <2>6, <2>7, SameVocabulary DEF Promise!ReadValues, e
  <2> QED BY <1>2, <2>8 DEF Promise!GetValue, Promise!GetAllValues
<1>8. CASE idx[p] # Len(keys)
  <2>1. pc' = [pc EXCEPT ![p] = "read"] /\ "read" \in Labels
      BY <1>1, <1>8 DEF Labels
  <2>2. PhaseAt(pc[p]) = PhaseAt("read") /\ PhaseAt("read") = "called"
      BY <1>1, <2>1, Phases
  <2> HIDE DEF r
  <2>3. AbsPhase' = AbsPhase /\ AbsRet' = AbsRet
      BY <1>2, <1>6, <2>1, <2>2, CallerSeesNothing
  <2>4. AbsQueue' = AbsQueue
      BY <1>1, <1>2, <2>1, QueueKept
  <2> QED BY <1>1, <1>5, <2>3, <2>4 DEF Promise!vars
<1> QED BY <1>7, <1>8
-----------------------------------------------------------------------------
\* Every interleaving of the goroutines' accesses is one that some order of
\* whole, instantaneous calls of the Store interface explains.
THEOREM StoreImplemented == Spec => Linearizable
<1>1. Init => Promise!Init
  <2> SUFFICES ASSUME Init PROVE Promise!Init
      OBVIOUS
  <2>1. AbsValues = [c \in Clients |-> [k \in Indices |-> Absent]]
      BY DEF Init, AbsValues, Deref
  <2>2. AbsConnected = [c \in Clients |-> FALSE]
      BY DEF Init, AbsConnected, Deref
  <2>3. AbsQueue = <<>>
    <3>1. Covered(slice) = <<>>
        BY SubSeqEmpty DEF Init, Covered
    <3> QED BY <3>1 DEF Init, AbsQueue
  <2>4. AbsPhase = [p \in Proc |-> "idle"] /\ AbsRet = [p \in Proc |-> NoResult]
      BY Phases DEF Init, AbsPhase, AbsRet
  <2> QED BY <2>1, <2>2, <2>3, <2>4, SameVocabulary DEF Init, Promise!Init
<1>2. ASSUME IInv, ProgressInv, [Next]_vars
      PROVE  Promise!Next \/ UNCHANGED Promise!vars
  <2>1. ASSUME NEW p \in Proc, Invoke(p) \/ Return(p)
        PROVE  Promise!Invoke(p) \/ Promise!Return(p)
      BY <1>2, <2>1, InvokeSeen, ReturnSeen
  <2>2. ASSUME NEW p \in Proc, Acquire(p) PROVE UNCHANGED Promise!vars
      BY <1>2, <2>2, AcquireUnseen
  <2>3. ASSUME NEW p \in Proc, Access(p)
        PROVE  Promise!Effect(p) \/ UNCHANGED Promise!vars
      BY <1>2, <2>3, LookupUnseen, SliceUnseen, ExtendSeen, CopySeen, MissSeen, ShiftSeen,
         WriteSeen, SetFlagSeen, ReadFlagSeen, ReadSeen
      DEF Access, Promise!Effect
  <2>4. CASE UNCHANGED vars
      BY <2>4 DEF vars, data, Promise!vars, AbsValues, AbsConnected, AbsQueue, AbsPhase,
                  AbsRet, Deref, Covered, Trimmed
  <2> QED BY <1>2, <2>1, <2>2, <2>3, <2>4 DEF Next, Promise!Next
<1> QED BY <1>1, <1>2, ProgressInvariance, PTL DEF Spec, Linearizable, Promise!Spec
==============================================================================
