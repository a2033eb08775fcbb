------------------------------- MODULE Gateway -------------------------------
(***************************************************************************)
(* The server seen from its devices: BP_MQX_ETH controllers that poll it,  *)
(* an administrator who injects actions, the connections in between, and   *)
(* the handlers of internal/api/handlers.go running one goroutine per      *)
(* connection over one store.                                              *)
(*                                                                         *)
(* A call of the store is one step here (module MemoryStore shows that it  *)
(* behaves so).  A handler is one step per call of the store; sending the  *)
(* request and receiving the answer are steps of their own, and an answer  *)
(* that was written may still be lost.                                     *)
(***************************************************************************)
EXTENDS Naturals, FiniteSets, SequencesExt

CONSTANTS
    Devices,        \* the controllers
    Registered,     \* the users whose credentials are in cfg.Auth.Clients
    AuthEnabled,    \* cfg.Auth.Enabled
    Admin,          \* who injects actions
    Default,        \* the client identifier of an unauthenticated request
    Ek,             \* the indices a status report carries, in its order
    Guids, NoGuid,
    NoReport,       \* an index no report has set
    MaxReports,     \* bound: a device's state changes this often
    MaxFaults,      \* bound: requests and answers lost by the network
    MaxRestarts     \* bound: restarts of the server

ASSUME GatewayAssumption ==
    /\ Registered \subseteq Devices \cup {Admin}
    /\ AuthEnabled \in BOOLEAN
    /\ Admin \notin Devices /\ NoGuid \notin Guids
    /\ NoReport \notin Devices \X Nat
    /\ Ek \in Seq(ToSet(Ek))
    /\ MaxReports \in Nat \ {0} /\ MaxFaults \in Nat /\ MaxRestarts \in Nat

\* Each device has one request outstanding, the administrator has one, and
\* every fault can leave one behind that nobody waits for.
Slots == 1 .. (Cardinality(Devices) + 1 + MaxFaults)

\* Clients of the store: the user name the request authenticated with, or
\* "default" for all when authentication is off (handlers.go 61-64).
Clients == Devices \cup {Admin, Default}
\* Mutant: the identity is not taken from the request's credentials.
ClientOfDefault(u) == Default

ClientOf(u) == IF AuthEnabled THEN u ELSE Default

VARIABLES
    queue,      \* the store's one action queue
    table,      \* table[c][k]: the report that last set index k of client c
    connected,  \* connected[c]: the store's connection flag
    conn,       \* conn[x]: the request in slot x and its handler
    dev,        \* dev[d]: where device d is in its polling cycle
    faults, restarts,
    \* History, read by no action:
    order,      \* GUIDs in the order their actions were enqueued
    applied,    \* applied[d]: GUIDs device d applied, in order
    unconfirmed, \* unconfirmed[d]: GUIDs whose done was lost or not served
    successes   \* successes[g]: how many done requests for g were answered 201

store == <<queue, table, connected>>
history == <<order, applied, unconfirmed, successes>>
vars == <<store, conn, dev, faults, restarts, history>>

Ops == {"serverinfos", "mystatus", "myactions", "done", "inject"}

Idle == [st |-> "free", op |-> "none", from |-> Admin, guid |-> NoGuid, n |-> 0, pos |-> 1,
         alone |-> FALSE, awaited |-> FALSE, code |-> 0, actions |-> <<>>]

Conn == [st : {"free", "sent", "serving", "answered"}, op : Ops \cup {"none"},
         from : Devices \cup {Admin}, guid : Guids \cup {NoGuid},
         n : 0 .. MaxReports,               \* the number of the report sent
         pos : 1 .. (Len(Ek) + 1),          \* the next entry UpdateStatus stores
         alone : BOOLEAN,                   \* no other report of the device was in flight
         awaited : BOOLEAN,                 \* the sender still waits for the answer
         code : {0, 200, 201, 400, 401, 404}, actions : Seq(Guids)]

Device == [at : {"serverinfos", "mystatus", "myactions", "apply", "done"},
           conn : Slots \cup {0},           \* the request it waits for, or 0
           todo : Seq(Guids),               \* what is left of the last myactions
           n : 0 .. MaxReports,             \* the number of its last report
           stored : BOOLEAN]                \* that report was answered 201, and was alone

TypeOK ==
    /\ queue \in Seq(Guids)
    /\ table \in [Clients -> [ToSet(Ek) -> (Devices \X (1 .. MaxReports)) \cup {NoReport}]]
    /\ connected \in [Clients -> BOOLEAN]
    /\ conn \in [Slots -> Conn]
    /\ dev \in [Devices -> Device]
    /\ faults \in 0 .. MaxFaults
    /\ restarts \in 0 .. MaxRestarts
    /\ order \in Seq(Guids)
    /\ applied \in [Devices -> Seq(Guids)]
    /\ unconfirmed \in [Devices -> SUBSET Guids]
    /\ successes \in [Guids -> Nat]

EmptyTables == [c \in Clients |-> [k \in ToSet(Ek) |-> NoReport]]
CycleStart == [at |-> "serverinfos", conn |-> 0, todo |-> <<>>, n |-> 0, stored |-> FALSE]

Init ==
    /\ queue = <<>>
    /\ table = EmptyTables
    /\ connected = [c \in Clients |-> FALSE]
    /\ conn = [x \in Slots |-> Idle]
    /\ dev = [d \in Devices |-> CycleStart]
    /\ faults = 0 /\ restarts = 0
    /\ order = <<>>
    /\ applied = [d \in Devices |-> <<>>]
    /\ unconfirmed = [d \in Devices |-> {}]
    /\ successes = [g \in Guids |-> 0]

-----------------------------------------------------------------------------
(* The polling cycle of a device (docs/protocol_diagram.md): serverinfos,  *)
(* mystatus, myactions, then each action is applied and reported done.     *)
(* Any answer but the expected one ends the cycle; the next one starts     *)
(* over.                                                                   *)

Send(x, request) == conn' = [conn EXCEPT ![x] = request]

\* The free slots are taken in order, so that TLC sees one choice.
FreeSlot(x) == conn[x].st = "free" /\ \A y \in Slots : y < x => conn[y].st # "free"

ReportInFlight(d) == \E x \in Slots :
    conn[x].st \in {"sent", "serving"} /\ conn[x].op = "mystatus" /\ conn[x].from = d

DeviceSend(d) ==
    /\ dev[d].conn = 0 /\ dev[d].at # "apply"
    /\ \E x \in Slots :
        LET report == dev[d].at = "mystatus"
            n == IF report /\ dev[d].n < MaxReports THEN dev[d].n + 1 ELSE dev[d].n
        IN  /\ FreeSlot(x)
            /\ Send(x, [Idle EXCEPT !.st = "sent", !.op = dev[d].at, !.from = d,
                            !.guid = IF dev[d].at = "done" THEN Head(dev[d].todo) ELSE NoGuid,
                            !.n = IF report THEN n ELSE 0,
                            !.alone = report /\ ~ReportInFlight(d),
                            !.awaited = TRUE])
            /\ dev' = [dev EXCEPT ![d].conn = x, ![d].n = n,
                                  ![d].stored = IF report THEN FALSE ELSE @]
    /\ UNCHANGED <<store, faults, restarts, history>>

\* The device leaves the cycle early.
Abort(device) == [device EXCEPT !.at = "serverinfos", !.conn = 0, !.todo = <<>>]

\* The step after an answer; the firmware does not look at done's status.
After(device, c) ==
    CASE c.op = "serverinfos" /\ c.code = 200 ->
            [device EXCEPT !.conn = 0, !.at = "mystatus"]
      [] c.op = "mystatus" /\ c.code = 201 ->
            [device EXCEPT !.conn = 0, !.at = "myactions", !.stored = c.alone]
      [] c.op = "myactions" /\ c.code = 200 /\ c.actions # <<>> ->
            [device EXCEPT !.conn = 0, !.at = "apply", !.todo = c.actions]
      [] c.op = "done" /\ Len(device.todo) > 1 ->
            [device EXCEPT !.conn = 0, !.at = "apply", !.todo = Tail(@)]
      [] OTHER -> Abort(device)

DeviceReceive(d) ==
    LET x == dev[d].conn
    IN  /\ x # 0 /\ conn[x].st = "answered"
        /\ dev' = [dev EXCEPT ![d] = After(@, conn[x])]
        /\ conn' = [conn EXCEPT ![x] = Idle]
        /\ UNCHANGED <<store, faults, restarts, history>>

DeviceApply(d) ==
    /\ dev[d].at = "apply"
    /\ applied' = [applied EXCEPT ![d] = Append(@, Head(dev[d].todo))]
    /\ dev' = [dev EXCEPT ![d].at = "done"]
    /\ UNCHANGED <<store, conn, faults, restarts, order, unconfirmed, successes>>

AdminSend ==
    /\ \A x \in Slots : conn[x].st = "free" \/ conn[x].from # Admin
    /\ \E x \in Slots :
        /\ FreeSlot(x)
        /\ Send(x, [Idle EXCEPT !.st = "sent", !.op = "inject", !.from = Admin])
    /\ Len(order) < Cardinality(Guids)
    /\ UNCHANGED <<store, dev, faults, restarts, history>>

-----------------------------------------------------------------------------
(* The server.  Each handler ends by writing its answer; an answer nobody  *)
(* waits for disappears with the connection.                               *)

Answer(x, code, actions) ==
    conn' = [conn EXCEPT ![x] =
        IF @.awaited THEN [@ EXCEPT !.st = "answered", !.code = code, !.actions = actions]
        ELSE Idle]

\* Mutant: BasicAuth lets every request through.
AuthorizedAlways(x) == TRUE

\* BasicAuth lets the request through to the handler.
Authorized(x) == AuthEnabled => conn[x].from \in Registered

Handling(x, op) == conn[x].st \in {"sent", "serving"} /\ conn[x].op = op /\ Authorized(x)

Unauthorized(x) ==
    /\ conn[x].st = "sent" /\ ~Authorized(x)
    /\ Answer(x, 401, <<>>)
    /\ UNCHANGED <<store, dev, faults, restarts, history>>

GetServerInfos(x) ==
    /\ Handling(x, "serverinfos")
    /\ Answer(x, 200, <<>>)
    /\ UNCHANGED <<store, dev, faults, restarts, history>>

\* Mutant: the client is marked connected before its entries are stored.
PostMyStatusEntryConnecting(x) ==
    LET c == conn[x]
    IN  /\ Handling(x, "mystatus")
        /\ c.pos <= Len(Ek)
        /\ table' = [table EXCEPT ![ClientOf(c.from)][Ek[c.pos]] = <<c.from, c.n>>]
        /\ connected' = [connected EXCEPT ![ClientOf(c.from)] = TRUE]
        /\ conn' = [conn EXCEPT ![x].st = "serving", ![x].pos = @ + 1]
        /\ UNCHANGED <<queue, dev, faults, restarts, history>>

\* UpdateStatus: one SetValue per entry of the report ...
PostMyStatusEntry(x) ==
    LET c == conn[x]
    IN  /\ Handling(x, "mystatus")
        /\ c.pos <= Len(Ek)
        /\ table' = [table EXCEPT ![ClientOf(c.from)][Ek[c.pos]] = <<c.from, c.n>>]
        /\ conn' = [conn EXCEPT ![x].st = "serving", ![x].pos = @ + 1]
        /\ UNCHANGED <<queue, connected, dev, faults, restarts, history>>

\* Mutants: the last entry is skipped; the status is Go's default 200.
PostMyStatusEndEarly(x) ==
    /\ Handling(x, "mystatus")
    /\ conn[x].pos >= Len(Ek)
    /\ connected' = [connected EXCEPT ![ClientOf(conn[x].from)] = TRUE]
    /\ Answer(x, 201, <<>>)
    /\ UNCHANGED <<queue, table, dev, faults, restarts, history>>

PostMyStatusEndOK(x) ==
    /\ Handling(x, "mystatus")
    /\ conn[x].pos > Len(Ek)
    /\ connected' = [connected EXCEPT ![ClientOf(conn[x].from)] = TRUE]
    /\ Answer(x, 200, <<>>)
    /\ UNCHANGED <<queue, table, dev, faults, restarts, history>>

\* ... then SetClientConnected, then the 201.
PostMyStatusEnd(x) ==
    /\ Handling(x, "mystatus")
    /\ conn[x].pos > Len(Ek)
    /\ connected' = [connected EXCEPT ![ClientOf(conn[x].from)] = TRUE]
    /\ Answer(x, 201, <<>>)
    /\ UNCHANGED <<queue, table, dev, faults, restarts, history>>

\* Mutant: listing the actions removes them.
GetMyActionsRemoving(x) ==
    /\ Handling(x, "myactions")
    /\ Answer(x, 200, queue)
    /\ queue' = <<>>
    /\ UNCHANGED <<table, connected, dev, faults, restarts, history>>

GetMyActions(x) ==
    /\ Handling(x, "myactions")
    /\ Answer(x, 200, queue)
    /\ UNCHANGED <<store, dev, faults, restarts, history>>

\* Mutant: the action is found but stays in the queue.
PostDoneKeeping(x) ==
    LET g == conn[x].guid
        found == g \in ToSet(queue)
    IN  /\ Handling(x, "done")
        /\ Answer(x, IF found THEN 201 ELSE 404, <<>>)
        /\ successes' = IF found THEN [successes EXCEPT ![g] = @ + 1] ELSE successes
        /\ UNCHANGED <<store, dev, faults, restarts, order, applied, unconfirmed>>

PostDone(x) ==
    LET g == conn[x].guid
        found == g \in ToSet(queue)
    IN  /\ Handling(x, "done")
        /\ queue' = RemoveFirst(queue, g)
        /\ Answer(x, IF found THEN 201 ELSE 404, <<>>)
        /\ successes' = IF found THEN [successes EXCEPT ![g] = @ + 1] ELSE successes
        /\ UNCHANGED <<table, connected, dev, faults, restarts, order, applied, unconfirmed>>

\* Mutant: the action is queued without its GUID.
PostAdminInjectNoGuid(x) ==
    /\ Handling(x, "inject")
    /\ \E g \in Guids \ ToSet(order) :
        /\ queue' = Append(queue, NoGuid)
        /\ order' = Append(order, g)
    /\ Answer(x, 200, <<>>)
    /\ UNCHANGED <<table, connected, dev, faults, restarts, applied, unconfirmed, successes>>

\* AddAction: a new GUID, and the action goes to the end of the queue.
PostAdminInject(x) ==
    /\ Handling(x, "inject")
    /\ \E g \in Guids \ ToSet(order) :
        /\ queue' = Append(queue, g)
        /\ order' = Append(order, g)
    /\ Answer(x, 200, <<>>)
    /\ UNCHANGED <<table, connected, dev, faults, restarts, applied, unconfirmed, successes>>

-----------------------------------------------------------------------------
(* What goes wrong.                                                        *)

\* The device whose request is in slot x no longer waits for it.
GiveUp(d, x) ==
    /\ dev' = [dev EXCEPT ![d] = Abort(@)]
    /\ unconfirmed' = IF conn[x].op = "done"
                     THEN [unconfirmed EXCEPT ![d] = @ \cup {conn[x].guid}] ELSE unconfirmed

\* A device stops waiting.  The handler's goroutine does not notice: it runs
\* to its end whenever the scheduler lets it.
Timeout(d) ==
    LET x == dev[d].conn
    IN  /\ x # 0
        /\ faults < MaxFaults
        /\ faults' = faults + 1
        /\ GiveUp(d, x)
        /\ conn' = [conn EXCEPT ![x] = IF @.st = "answered" THEN Idle
                                       ELSE [@ EXCEPT !.awaited = FALSE]]
        /\ UNCHANGED <<store, restarts, order, applied, successes>>

\* The connection breaks before the request line has arrived: the server
\* closes it without an answer and without a trace (lines 46-50).
Drop(x) ==
    /\ conn[x].st = "sent"
    /\ faults < MaxFaults
    /\ faults' = faults + 1
    /\ IF conn[x].awaited THEN GiveUp(conn[x].from, x) ELSE UNCHANGED <<dev, unconfirmed>>
    /\ conn' = [conn EXCEPT ![x] = Idle]
    /\ UNCHANGED <<store, restarts, order, applied, successes>>

\* The body of a request does not arrive whole: it is no JSON any more and
\* the handler answers 400 before it touches the store.
BadBody(x) ==
    /\ conn[x].st = "sent" /\ conn[x].op \in {"mystatus", "inject"} /\ Authorized(x)
    /\ faults < MaxFaults
    /\ faults' = faults + 1
    /\ Answer(x, 400, <<>>)
    /\ UNCHANGED <<store, dev, restarts, history>>

\* The request is cut after its request line: the server serves it without
\* the headers that are missing, and answers 401 when these were the
\* credentials (module LegacyHTTP).
LostHeaders(x) ==
    /\ conn[x].st = "sent" /\ AuthEnabled /\ Authorized(x)
    /\ faults < MaxFaults
    /\ faults' = faults + 1
    /\ unconfirmed' = IF conn[x].op = "done"
                      THEN [unconfirmed EXCEPT ![conn[x].from] = @ \cup {conn[x].guid}]
                      ELSE unconfirmed
    /\ Answer(x, 401, <<>>)
    /\ UNCHANGED <<store, dev, restarts, order, applied, successes>>

\* The process stops and starts again: the store is in memory only, and the
\* devices' connections are reset.
Restart ==
    /\ restarts < MaxRestarts
    /\ restarts' = restarts + 1
    /\ queue' = <<>>
    /\ table' = EmptyTables
    /\ connected' = [c \in Clients |-> FALSE]
    /\ conn' = [x \in Slots |-> Idle]
    /\ dev' = [d \in Devices |->
                  [(IF dev[d].conn = 0 THEN dev[d] ELSE Abort(dev[d])) EXCEPT !.stored = FALSE]]
    /\ unconfirmed' = [d \in Devices |-> unconfirmed[d] \cup
                        {conn[x].guid : x \in {y \in Slots : y = dev[d].conn /\ conn[y].op = "done"}}]
    /\ UNCHANGED <<faults, order, applied, successes>>

-----------------------------------------------------------------------------
Handle(x) ==
    \/ Unauthorized(x) \/ GetServerInfos(x)
    \/ PostMyStatusEntry(x) \/ PostMyStatusEnd(x)
    \/ GetMyActions(x) \/ PostDone(x) \/ PostAdminInject(x)

Cycle(d) == DeviceSend(d) \/ DeviceReceive(d) \/ DeviceApply(d)

Next ==
    \/ \E d \in Devices : Cycle(d) \/ Timeout(d)
    \/ \E x \in Slots : Handle(x) \/ Drop(x) \/ BadBody(x) \/ LostHeaders(x)
    \/ AdminSend
    \/ Restart

Spec == Init /\ [][Next]_vars

\* A device polls for ever, and a goroutine that serves a connection runs.
Fairness ==
    /\ \A d \in Devices : WF_vars(Cycle(d))
    /\ \A x \in Slots : WF_vars(Handle(x))

FairSpec == Spec /\ Fairness

-----------------------------------------------------------------------------
(* Properties.                                                             *)

\* Actions are delivered as Delivery promises: whatever is lost, late or
\* served out of turn, only an action that some device has applied leaves
\* the queue (a restart apart), and no device applies a later action while
\* an earlier one that it has not applied is still pending.
Promise == INSTANCE Delivery WITH pending <- queue
KeepsDeliveryPromise == Promise!Spec

\* A device applies an action a second time only if a done it sent for that
\* action was lost, got no answer or was cut down to a 401: with a quiet
\* network delivery is exactly once.
RepeatsOnlyUnconfirmed == \A d \in Devices : \A i, j \in DOMAIN applied[d] :
    i < j /\ applied[d][i] = applied[d][j] => applied[d][i] \in unconfirmed[d]

\* Of all the done requests for one action, from all devices and retries,
\* at most one is told 201.
OneSuccess == \A g \in Guids : successes[g] <= 1

\* A device whose report was answered 201, and overlapped no older report of
\* its own that it had given up on, finds exactly that report in its
\* client's table, until it sends the next one.
AnsweredReportIsStored == \A d \in Devices :
    dev[d].stored => \A k \in ToSet(Ek) : table[ClientOf(d)][k] = <<d, dev[d].n>>

\* A client is marked connected only after a whole report of it was stored.
ConnectedHasReport == \A c \in Clients :
    connected[c] => \A k \in ToSet(Ek) : table[c][k] # NoReport

\* Each client has a table of its own: it holds reports of that device only.
EachClientItsTable == \A d \in Devices, k \in ToSet(Ek) :
    table[ClientOf(d)][k] # NoReport => table[ClientOf(d)][k][1] = d

\* Who has no valid credentials leaves no trace: such a device gets no action
\* and has no table, such an administrator queues none.
StrangersLeaveNoTrace == AuthEnabled =>
    /\ \A d \in Devices \ Registered :
        /\ applied[d] = <<>> /\ ~connected[d]
        /\ \A k \in ToSet(Ek) : table[d][k] = NoReport
    /\ Admin \notin Registered => order = <<>>

\* Every action leaves the queue: some device fetches, applies and
\* acknowledges it, however the bounded faults fall.
EveryActionSettles == \A g \in Guids : g \in ToSet(queue) ~> g \notin ToSet(queue)
=============================================================================
