----------------------------- MODULE MemoryStore -----------------------------
(***************************************************************************)
(* internal/data/memory_store.go, one lock operation or one access to      *)
(* shared memory per step: MemoryStore.mu over the map of clients and the  *)
(* connection flags, ExchangeTable.mu over the values of one client, and   *)
(* ActionQueue.mu over the slice of the one global queue.                  *)
(*                                                                         *)
(* A goroutine is inside at most one method call.  pc[p] is the point it   *)
(* has reached; a label that follows an acquire means the lock is held,    *)
(* and the deferred unlock is part of the last access of the section.      *)
(***************************************************************************)
EXTENDS StoreCalls

CONSTANT NoObj      \* the map holds no ClientData for a client

ASSUME NoObjAssumption == NoObj \notin Clients \X Proc

\* A ClientData is named by the client it was made for and the goroutine
\* that made it.  The name is unique: a goroutine makes one only after it
\* has seen no entry for the client, and entries are never deleted.
Objects == Clients \X Proc

VARIABLES
    storeMu,    \* MemoryStore.mu, a sync.RWMutex
    tableMu,    \* tableMu[o]: ExchangeTable.mu of ClientData o
    queueMu,    \* ActionQueue.mu of globalActions, a sync.Mutex: its holder
    clients,    \* MemoryStore.clients: the ClientData of each client, or NoObj
    table,      \* table[o]: ExchangeTable.values of ClientData o
    flag,       \* flag[o]: IsConnected of ClientData o
    slice,      \* ActionQueue.actions: its array, and its length in the header
    issued,     \* GUIDs handed to EnqueueAction so far
    pc, call, ret,
    ptr,        \* ptr[p]: the *ClientData getOrCreateClient returned to p
    idx         \* idx[p]: position in a loop of GetAll or Acknowledge

locks == <<storeMu, tableMu, queueMu>>
data == <<clients, table, flag, slice>>
vars == <<locks, data, issued, pc, call, ret, ptr, idx>>

\* A sync.RWMutex: the goroutine that holds it for writing, those that hold
\* it for reading, and the writer that has announced itself.  RWMutex.Lock
\* queues behind other writers, then announces itself, which holds back new
\* readers, then waits for the readers inside to leave.
RWMutex == [w : SUBSET Proc, r : SUBSET Proc, next : SUBSET Proc]
Free == [w |-> {}, r |-> {}, next |-> {}]

CanAnnounce(mu) == mu.w = {} /\ mu.next = {}
CanLock(mu, p) == p \in mu.next /\ mu.r = {}
\* Mutant: readers overtake a writer that waits.
CanRLockBarging(mu) == mu.w = {}

CanRLock(mu) == mu.w = {} /\ mu.next = {}

Announced(mu, p) == [mu EXCEPT !.next = @ \cup {p}]
Locked(mu, p) == [mu EXCEPT !.w = @ \cup {p}, !.next = @ \ {p}]
RLocked(mu, p) == [mu EXCEPT !.r = @ \cup {p}]
Unlocked(mu, p) == [mu EXCEPT !.w = @ \ {p}]
RUnlocked(mu, p) == [mu EXCEPT !.r = @ \ {p}]

\* A Go slice: the array it points into and the length in its header.
Slice == {s \in [array : Seq(Guids), len : Nat] : s.len <= Len(s.array)}

Covered(s) == SubSeq(s.array, 1, s.len)

\* Mutant: append writes the last slot instead of the one after it.
WithSlotOverwriting(s, g) == [s EXCEPT !.array = Append(SubSeq(s.array, 1, s.len - 1), g)]

\* append(s, g), before and after the longer header is stored.
WithSlot(s, g) == [s EXCEPT !.array = Append(Covered(s), g)]
Extended(s) == [s EXCEPT !.len = @ + 1]

\* Mutant: the element after the acknowledged one is dropped in its place.
ShiftedTooFar(s, i) ==
    [s EXCEPT !.array =
        [j \in 1 .. Len(s.array) |-> IF i < j /\ j < s.len THEN s.array[j + 1]
                                                         ELSE s.array[j]]]

\* append(s[:i], s[i+1:]...), before and after the shorter header is
\* stored: the elements after i move down IN PLACE, and until the header is
\* stored the last one is covered twice.
Shifted(s, i) ==
    [s EXCEPT !.array =
        [j \in 1 .. Len(s.array) |-> IF i <= j /\ j < s.len THEN s.array[j + 1]
                                                          ELSE s.array[j]]]
Trimmed(s) == [s EXCEPT !.len = @ - 1]

Labels == {"idle", "lookup", "find", "insert", "table", "read", "write",
           "flag", "setflag", "isconn", "peek", "queue", "append", "extend",
           "copy", "scan", "shift", "trim", "return"}

TypeOK ==
    /\ storeMu \in RWMutex
    /\ tableMu \in [Objects -> RWMutex]
    /\ queueMu \in SUBSET Proc
    /\ clients \in [Clients -> Objects \cup {NoObj}]
    /\ table \in [Objects -> [Indices -> Values \cup {Absent}]]
    /\ flag \in [Objects -> BOOLEAN]
    /\ slice \in Slice
    /\ issued \in SUBSET Guids
    /\ pc \in [Proc -> Labels]
    /\ call \in [Proc -> Calls \cup {NoCall}]
    /\ ret \in [Proc -> Result]
    /\ ptr \in [Proc -> Objects \cup {NoObj}]
    /\ idx \in [Proc -> Nat]

Init ==
    /\ storeMu = Free
    /\ tableMu = [o \in Objects |-> Free]
    /\ queueMu = {}
    /\ clients = [c \in Clients |-> NoObj]
    /\ table = [o \in Objects |-> [k \in Indices |-> Absent]]
    /\ flag = [o \in Objects |-> FALSE]
    /\ slice = [array |-> <<>>, len |-> 0]
    /\ issued = {}
    /\ pc = [p \in Proc |-> "idle"]
    /\ call = [p \in Proc |-> NoCall]
    /\ ret = [p \in Proc |-> NoResult]
    /\ ptr = [p \in Proc |-> NoObj]
    /\ idx = [p \in Proc |-> 1]

Goto(p, from, to) == pc[p] = from /\ pc' = [pc EXCEPT ![p] = to]

-----------------------------------------------------------------------------
(* A method is called and returns.                                         *)

FirstLabel(op) ==
    CASE op \in TableOps \cup {"SetClientConnected"} -> "lookup"
      [] op = "IsClientConnected" -> "peek"
      [] op \in QueueOps -> "queue"

\* Callers enqueue under a fresh GUID (core.generateGUID, 16 random bytes).
Invoke(p) ==
    /\ pc[p] = "idle"
    /\ \E c \in Calls :
        /\ c.op = "EnqueueAction" => c.guid \notin issued
        /\ call' = [call EXCEPT ![p] = c]
        /\ issued' = IF c.op = "EnqueueAction" THEN issued \cup {c.guid} ELSE issued
        /\ pc' = [pc EXCEPT ![p] = FirstLabel(c.op)]
    /\ UNCHANGED <<locks, data, ret, ptr, idx>>

Return(p) ==
    /\ Goto(p, "return", "idle")
    /\ call' = [call EXCEPT ![p] = NoCall]
    /\ ret' = [ret EXCEPT ![p] = NoResult]
    /\ ptr' = [ptr EXCEPT ![p] = NoObj]
    /\ idx' = [idx EXCEPT ![p] = 1]
    /\ UNCHANGED <<locks, data, issued>>

-----------------------------------------------------------------------------
(* getOrCreateClient: the lookup and the insertion under one write lock.   *)

\* The first half of MemoryStore.mu.Lock, in getOrCreateClient and in
\* SetClientConnected.
AnnounceStore(p) ==
    /\ pc[p] \in {"lookup", "flag"}
    /\ CanAnnounce(storeMu)
    /\ storeMu' = Announced(storeMu, p)
    /\ UNCHANGED <<tableMu, queueMu, data, issued, pc, call, ret, ptr, idx>>

LockStore(p) ==
    /\ Goto(p, "lookup", "find")
    /\ CanLock(storeMu, p)
    /\ storeMu' = Locked(storeMu, p)
    /\ UNCHANGED <<tableMu, queueMu, data, issued, call, ret, ptr, idx>>

\* Where a method goes once it has its ClientData.
AfterLookup(p) == IF call[p].op = "SetClientConnected" THEN "flag" ELSE "table"

FindClient(p) ==
    /\ Goto(p, "find", AfterLookup(p))
    /\ clients[call[p].client] # NoObj
    /\ ptr' = [ptr EXCEPT ![p] = clients[call[p].client]]
    /\ storeMu' = Unlocked(storeMu, p)
    /\ UNCHANGED <<tableMu, queueMu, data, issued, call, ret, idx>>

\* Mutant: the lock is not held from the check to the insertion.
MissClientUnlocking(p) ==
    /\ Goto(p, "find", "insert")
    /\ clients[call[p].client] = NoObj
    /\ storeMu' = Unlocked(storeMu, p)
    /\ UNCHANGED <<tableMu, queueMu, data, issued, call, ret, ptr, idx>>

MissClient(p) ==
    /\ Goto(p, "find", "insert")
    /\ clients[call[p].client] = NoObj
    /\ UNCHANGED <<locks, data, issued, call, ret, ptr, idx>>

InsertClient(p) ==
    LET o == <<call[p].client, p>>
    IN  /\ Goto(p, "insert", AfterLookup(p))
        /\ clients' = [clients EXCEPT ![call[p].client] = o]
        /\ table' = [table EXCEPT ![o] = [k \in Indices |-> Absent]]
        /\ flag' = [flag EXCEPT ![o] = FALSE]
        /\ ptr' = [ptr EXCEPT ![p] = o]
        /\ storeMu' = Unlocked(storeMu, p)
        /\ UNCHANGED <<tableMu, queueMu, slice, issued, call, ret, idx>>

-----------------------------------------------------------------------------
(* ExchangeTable.Get, Set and GetAll, on the ClientData found above.       *)

AnnounceTable(p) ==
    LET o == ptr[p]
    IN  /\ pc[p] = "table"
        /\ call[p].op = "SetValue"
        /\ CanAnnounce(tableMu[o])
        /\ tableMu' = [tableMu EXCEPT ![o] = Announced(@, p)]
        /\ UNCHANGED <<storeMu, queueMu, data, issued, pc, call, ret, ptr, idx>>

LockTable(p) ==
    LET o == ptr[p]
    IN  /\ Goto(p, "table", "write")
        /\ CanLock(tableMu[o], p)
        /\ tableMu' = [tableMu EXCEPT ![o] = Locked(@, p)]
        /\ UNCHANGED <<storeMu, queueMu, data, issued, call, ret, ptr, idx>>

\* Mutant: the table is read without waiting for its lock.
RLockTableAtOnce(p) ==
    /\ Goto(p, "table", "read")
    /\ call[p].op \in {"GetValue", "GetAllValues"}
    /\ tableMu' = [tableMu EXCEPT ![ptr[p]] = RLocked(@, p)]
    /\ UNCHANGED <<storeMu, queueMu, data, issued, call, ret, ptr, idx>>

RLockTable(p) ==
    LET o == ptr[p]
    IN  /\ Goto(p, "table", "read")
        /\ call[p].op \in {"GetValue", "GetAllValues"}
        /\ CanRLock(tableMu[o])
        /\ tableMu' = [tableMu EXCEPT ![o] = RLocked(@, p)]
        /\ UNCHANGED <<storeMu, queueMu, data, issued, call, ret, ptr, idx>>

WriteTable(p) ==
    LET o == ptr[p]
    IN  /\ Goto(p, "write", "return")
        /\ table' = [table EXCEPT ![o][Keys(call[p])[1]] = call[p].value]
        /\ tableMu' = [tableMu EXCEPT ![o] = Unlocked(@, p)]
        /\ UNCHANGED <<storeMu, queueMu, clients, flag, slice, issued, call, ret, ptr, idx>>

\* One iteration of the loop of GetAll; the last one (and Get's only one)
\* releases the read lock.
ReadTable(p) ==
    LET o == ptr[p]
        keys == Keys(call[p])
        last == idx[p] = Len(keys)
    IN  /\ Goto(p, "read", IF last THEN "return" ELSE "read")
        /\ ret' = [ret EXCEPT ![p].entries = Append(@, table[o][keys[idx[p]]])]
        /\ idx' = [idx EXCEPT ![p] = @ + 1]
        /\ tableMu' = IF last THEN [tableMu EXCEPT ![o] = RUnlocked(@, p)] ELSE tableMu
        /\ UNCHANGED <<storeMu, queueMu, data, issued, call, ptr>>

-----------------------------------------------------------------------------
(* SetClientConnected takes the store's lock a second time, after          *)
(* getOrCreateClient has released it; IsClientConnected only reads.        *)

LockFlag(p) ==
    /\ Goto(p, "flag", "setflag")
    /\ CanLock(storeMu, p)
    /\ storeMu' = Locked(storeMu, p)
    /\ UNCHANGED <<tableMu, queueMu, data, issued, call, ret, ptr, idx>>

SetFlag(p) ==
    /\ Goto(p, "setflag", "return")
    /\ flag' = [flag EXCEPT ![ptr[p]] = call[p].flag]
    /\ storeMu' = Unlocked(storeMu, p)
    /\ UNCHANGED <<tableMu, queueMu, clients, table, slice, issued, call, ret, ptr, idx>>

\* Mutant: the map is read without waiting for the store's lock.
RLockStoreAtOnce(p) ==
    /\ Goto(p, "peek", "isconn")
    /\ storeMu' = RLocked(storeMu, p)
    /\ UNCHANGED <<tableMu, queueMu, data, issued, call, ret, ptr, idx>>

RLockStore(p) ==
    /\ Goto(p, "peek", "isconn")
    /\ CanRLock(storeMu)
    /\ storeMu' = RLocked(storeMu, p)
    /\ UNCHANGED <<tableMu, queueMu, data, issued, call, ret, ptr, idx>>

ReadFlag(p) ==
    LET o == clients[call[p].client]
    IN  /\ Goto(p, "isconn", "return")
        /\ ret' = [ret EXCEPT ![p].ok = IF o = NoObj THEN FALSE ELSE flag[o]]
        /\ storeMu' = RUnlocked(storeMu, p)
        /\ UNCHANGED <<tableMu, queueMu, data, issued, call, ptr, idx>>

-----------------------------------------------------------------------------
(* ActionQueue.Enqueue, GetAll and Acknowledge.                            *)

QueueLabel(op) ==
    CASE op = "EnqueueAction" -> "append"
      [] op = "DequeueActions" -> "copy"
      [] op = "AcknowledgeAction" -> "scan"

\* Mutant: the queue is used without waiting for its lock.
LockQueueAtOnce(p) ==
    /\ Goto(p, "queue", QueueLabel(call[p].op))
    /\ queueMu' = {p}
    /\ UNCHANGED <<storeMu, tableMu, data, issued, call, ret, ptr, idx>>

LockQueue(p) ==
    /\ Goto(p, "queue", QueueLabel(call[p].op))
    /\ queueMu = {}
    /\ queueMu' = {p}
    /\ UNCHANGED <<storeMu, tableMu, data, issued, call, ret, ptr, idx>>

AppendSlot(p) ==
    /\ Goto(p, "append", "extend")
    /\ slice' = WithSlot(slice, call[p].guid)
    /\ UNCHANGED <<locks, clients, table, flag, issued, call, ret, ptr, idx>>

ExtendSlice(p) ==
    /\ Goto(p, "extend", "return")
    /\ slice' = Extended(slice)
    /\ queueMu' = queueMu \ {p}
    /\ UNCHANGED <<storeMu, tableMu, clients, table, flag, issued, call, ret, ptr, idx>>

CopySlice(p) ==
    /\ Goto(p, "copy", "return")
    /\ ret' = [ret EXCEPT ![p].actions = Covered(slice)]
    /\ queueMu' = queueMu \ {p}
    /\ UNCHANGED <<storeMu, tableMu, data, issued, call, ptr, idx>>

\* The loop of Acknowledge looks at element idx[p].
ScanPast(p) ==
    /\ Goto(p, "scan", "scan")
    /\ idx[p] <= slice.len
    /\ slice.array[idx[p]] # call[p].guid
    /\ idx' = [idx EXCEPT ![p] = @ + 1]
    /\ UNCHANGED <<locks, data, issued, call, ret, ptr>>

ScanHit(p) ==
    /\ Goto(p, "scan", "shift")
    /\ idx[p] <= slice.len
    /\ slice.array[idx[p]] = call[p].guid
    /\ UNCHANGED <<locks, data, issued, call, ret, ptr, idx>>

ScanMiss(p) ==
    /\ Goto(p, "scan", "return")
    /\ idx[p] > slice.len
    /\ queueMu' = queueMu \ {p}
    /\ UNCHANGED <<storeMu, tableMu, data, issued, call, ret, ptr, idx>>

ShiftSlots(p) ==
    /\ Goto(p, "shift", "trim")
    /\ slice' = Shifted(slice, idx[p])
    /\ ret' = [ret EXCEPT ![p].ok = TRUE]
    /\ UNCHANGED <<locks, clients, table, flag, issued, call, ptr, idx>>

TrimSlice(p) ==
    /\ Goto(p, "trim", "return")
    /\ slice' = Trimmed(slice)
    /\ queueMu' = queueMu \ {p}
    /\ UNCHANGED <<storeMu, tableMu, clients, table, flag, issued, call, ret, ptr, idx>>

-----------------------------------------------------------------------------
Acquire(p) ==
    \/ AnnounceStore(p) \/ LockStore(p) \/ LockFlag(p) \/ RLockStore(p)
    \/ AnnounceTable(p) \/ LockTable(p) \/ RLockTable(p)
    \/ LockQueue(p)

Access(p) ==
    \/ FindClient(p) \/ MissClient(p) \/ InsertClient(p)
    \/ WriteTable(p) \/ ReadTable(p) \/ SetFlag(p) \/ ReadFlag(p)
    \/ AppendSlot(p) \/ ExtendSlice(p) \/ CopySlice(p)
    \/ ScanPast(p) \/ ScanHit(p) \/ ScanMiss(p) \/ ShiftSlots(p) \/ TrimSlice(p)

Next == \E p \in Proc : Invoke(p) \/ Acquire(p) \/ Access(p) \/ Return(p)

Spec == Init /\ [][Next]_vars

\* The Go scheduler runs every runnable goroutine, and sync.Mutex and
\* sync.RWMutex starve no waiter: a mutex waited for long is handed over,
\* and the readers a writer held back enter before the next writer.
Fairness == \A p \in Proc :
    SF_vars(Acquire(p)) /\ WF_vars(Access(p)) /\ WF_vars(Return(p))

FairSpec == Spec /\ Fairness
-----------------------------------------------------------------------------
(* Properties.                                                             *)

\* The shared locations the next access of goroutine p reads and writes.
Location == {"clients", "table", "flag", "slice"} \X (Objects \cup {NoObj})

Writes(p) ==
    CASE pc[p] = "insert"  -> {<<"clients", NoObj>>}
      [] pc[p] = "write"   -> {<<"table", ptr[p]>>}
      [] pc[p] = "setflag" -> {<<"flag", ptr[p]>>}
      [] pc[p] \in {"append", "extend", "shift", "trim"} -> {<<"slice", NoObj>>}
      [] OTHER -> {}

Reads(p) ==
    CASE pc[p] = "find"   -> {<<"clients", NoObj>>}
      [] pc[p] = "read"   -> {<<"table", ptr[p]>>}
      [] pc[p] = "isconn" -> {<<"clients", NoObj>>, <<"flag", clients[call[p].client]>>}
      [] pc[p] \in {"copy", "scan"} -> {<<"slice", NoObj>>}
      [] OTHER -> {}

\* No data race: two goroutines are never both about to access the map of
\* clients, one client's table, its flag or the queue's slice when one of
\* them writes it.  This is what the three mutexes are for.
RaceFree == \A p, q \in Proc :
    p # q => Writes(p) \cap (Writes(q) \cup Reads(q)) = {}

\* A *ClientData that getOrCreateClient returned is used after the store's
\* lock is released: it is still the one the map holds for the client, so no
\* write goes to an object nobody can reach.
PointersCurrent == \A p \in Proc :
    pc[p] \in {"table", "read", "write", "flag", "setflag"} =>
        /\ ptr[p] # NoObj
        /\ ptr[p] = clients[call[p].client]

\* The promise of the Store interface.  A client without ClientData has an
\* empty table and is not connected; between the shift and the shorter
\* header the last slot is already gone; an access that decides the result
\* is the instant at which the call takes effect.
Deref(field, c, none) == IF clients[c] = NoObj THEN none ELSE field[clients[c]]

AbsQueue == IF \E p \in Proc : pc[p] = "trim"
            THEN Covered(Trimmed(slice))
            ELSE Covered(slice)

PhaseAt(label) == CASE label = "idle" -> "idle"
                    [] label \in {"return", "trim"} -> "done"
                    [] OTHER -> "called"

AbsValues == [c \in Clients |-> Deref(table, c, [k \in Indices |-> Absent])]
AbsConnected == [c \in Clients |-> Deref(flag, c, FALSE)]
AbsPhase == [p \in Proc |-> PhaseAt(pc[p])]
AbsRet == [p \in Proc |-> IF PhaseAt(pc[p]) = "done" THEN ret[p] ELSE NoResult]

Promise == INSTANCE Store WITH
    values <- AbsValues, connected <- AbsConnected, queue <- AbsQueue,
    phase <- AbsPhase, ret <- AbsRet

\* Every interleaving of the store's methods is one that some order of
\* whole, instantaneous calls explains ...
Linearizable == Promise!Spec

\* ... and, if no waiter starves, every call takes effect and returns.
KeepsPromise == Promise!FairSpec

\* "Stores data per client ... ClientData contains: exchange table, action
\* queue": what a client is handed was enqueued for that client.
QueuePerClient == \A p \in Proc :
    pc[p] = "return" /\ call[p].op = "DequeueActions" =>
        \A g \in ToSet(ret[p].actions) : \E c \in Calls :
            c.op = "EnqueueAction" /\ c.guid = g /\ c.client = call[p].client
=============================================================================
