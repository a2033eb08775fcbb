---------------------------- MODULE GatewayProofs ----------------------------
(***************************************************************************)
(* What every reachable state of Gateway has in common: the types, which   *)
(* device waits for which request, and that no action is queued twice      *)
(* (BaseInv); what users without valid credentials can do; and what the    *)
(* server promises about actions and reports. The lemmas named ...Facts    *)
(* say what each action does to the requests and devices, field by field;  *)
(* the other proofs use them.                                              *)
(***************************************************************************)
EXTENDS Gateway, SequenceLemmas

\* The status codes of an answer; 0 stands for none yet.
Codes == {0, 200, 201, 400, 401, 404}

\* A device waits for the request it sent last, which asks for what its
\* place in the cycle says; it has actions to do just while it does them.
DeviceWired(d) ==
    /\ dev[d].conn # 0 =>
        /\ conn[dev[d].conn].st # "free"
        /\ conn[dev[d].conn].awaited
        /\ conn[dev[d].conn].from = d
        /\ conn[dev[d].conn].op = dev[d].at
        /\ dev[d].at = "done" => conn[dev[d].conn].guid = Head(dev[d].todo)
    /\ dev[d].at = "apply" => dev[d].conn = 0
    /\ dev[d].at \in {"apply", "done"} <=> dev[d].todo # <<>>

\* An awaited request is the one its sender waits for; an answer stays only
\* while somebody waits for it; only a report takes more than one step.
SlotWired(x) ==
    /\ conn[x].awaited => conn[x].from \in Devices /\ dev[conn[x].from].conn = x
    /\ conn[x].st = "free" => conn[x] = Idle
    /\ conn[x].st = "answered" => conn[x].awaited
    /\ conn[x].st = "serving" => conn[x].op = "mystatus"
    /\ conn[x].st # "free" =>
        /\ conn[x].op \in Ops
        /\ conn[x].op # "inject" => conn[x].from \in Devices
        /\ conn[x].op = "inject" => conn[x].from = Admin
        /\ conn[x].op = "done" => conn[x].guid \in Guids
        /\ conn[x].op = "mystatus" => conn[x].n >= 1

Wiring == (\A d \in Devices : DeviceWired(d)) /\ (\A x \in Slots : SlotWired(x))

\* The queue holds actions that were injected, each once.
Queued == Distinct(order) /\ Distinct(queue) /\ ToSet(queue) \subseteq ToSet(order)

BaseInv == TypeOK /\ Wiring /\ Queued

\* Slot 0 stands for no slot.
LEMMA SlotsType == 0 \notin Slots /\ Slots \subseteq Int
BY DEF Slots

\* A report lists its indices by position.
LEMMA EkType ==
    /\ Len(Ek) \in Nat /\ DOMAIN Ek = 1 .. Len(Ek)
    /\ \A i \in 1 .. Len(Ek) : Ek[i] \in ToSet(Ek)
    /\ \A k \in ToSet(Ek) : \E i \in 1 .. Len(Ek) : Ek[i] = k
BY GatewayAssumption, ToSetOf

\* An unused slot.
LEMMA IdleType ==
    /\ Idle \in Conn
    /\ Idle.st = "free" /\ Idle.op = "none" /\ ~Idle.awaited /\ Idle.actions = <<>>
<1>1. Idle \in Conn
    BY EkType, GatewayAssumption, EmptySeq DEF Idle, Conn
<1> QED BY <1>1 DEF Idle

\* One field of a request changes.
LEMMA ConnUpdate ==
    ASSUME NEW c \in Conn
    PROVE  /\ \A v \in {"free", "sent", "serving", "answered"} : [c EXCEPT !.st = v] \in Conn
           /\ \A v \in Ops : [c EXCEPT !.op = v] \in Conn
           /\ \A v \in Devices \cup {Admin} : [c EXCEPT !.from = v] \in Conn
           /\ \A v \in Guids \cup {NoGuid} : [c EXCEPT !.guid = v] \in Conn
           /\ \A v \in 0 .. MaxReports : [c EXCEPT !.n = v] \in Conn
           /\ \A v \in 1 .. Len(Ek) + 1 : [c EXCEPT !.pos = v] \in Conn
           /\ \A v \in BOOLEAN : [c EXCEPT !.alone = v] \in Conn /\ [c EXCEPT !.awaited = v] \in Conn
           /\ \A v \in Codes : [c EXCEPT !.code = v] \in Conn
           /\ \A v \in Seq(Guids) : [c EXCEPT !.actions = v] \in Conn
<1>1. \A v \in {"free", "sent", "serving", "answered"} : [c EXCEPT !.st = v] \in Conn
    BY DEF Conn
<1>2. \A v \in Ops : [c EXCEPT !.op = v] \in Conn
    BY DEF Conn
<1>3. \A v \in Devices \cup {Admin} : [c EXCEPT !.from = v] \in Conn
    BY DEF Conn
<1>4. \A v \in Guids \cup {NoGuid} : [c EXCEPT !.guid = v] \in Conn
    BY DEF Conn
<1>5. \A v \in 0 .. MaxReports : [c EXCEPT !.n = v] \in Conn
    BY DEF Conn
<1>6. \A v \in 1 .. Len(Ek) + 1 : [c EXCEPT !.pos = v] \in Conn
    BY DEF Conn
<1>7. \A v \in BOOLEAN : [c EXCEPT !.alone = v] \in Conn
    BY DEF Conn
<1>8. \A v \in BOOLEAN : [c EXCEPT !.awaited = v] \in Conn
    BY DEF Conn
<1>9. \A v \in Codes : [c EXCEPT !.code = v] \in Conn
    BY DEF Conn, Codes
<1>10. \A v \in Seq(Guids) : [c EXCEPT !.actions = v] \in Conn
  <2> SUFFICES ASSUME NEW v \in Seq(Guids)
               PROVE  [c EXCEPT !.actions = v] \in Conn
      OBVIOUS
  <2>1. [c EXCEPT !.actions = v] =
            [st |-> c.st, op |-> c.op, from |-> c.from, guid |-> c.guid, n |-> c.n, pos |-> c.pos,
             alone |-> c.alone, awaited |-> c.awaited, code |-> c.code, actions |-> v]
      BY DEF Conn
  <2> QED BY <2>1 DEF Conn
<1> QED BY <1>1, <1>2, <1>3, <1>4, <1>5, <1>6, <1>7, <1>8, <1>9, <1>10

\* A device sends the next request of its cycle in a slot that is free.
LEMMA DeviceSendFacts ==
    ASSUME BaseInv, NEW d \in Devices, DeviceSend(d)
    PROVE  \E x \in Slots :
        LET report == dev[d].at = "mystatus"
        IN  /\ conn' \in [Slots -> Conn] /\ conn[x].st = "free"
            /\ \A y \in Slots : y # x => conn'[y] = conn[y]
            /\ conn'[x].st = "sent" /\ conn'[x].op = dev[d].at /\ conn'[x].from = d
            /\ dev[d].at = "done" => conn'[x].guid = Head(dev[d].todo)
            /\ conn'[x].guid \in Guids \cup {NoGuid}
            /\ conn'[x].pos = 1 /\ conn'[x].awaited /\ conn'[x].actions = <<>> /\ conn'[x].code = 0
            /\ conn'[x].alone <=> report /\ ~ReportInFlight(d)
            /\ report => conn'[x].n = dev'[d].n /\ dev'[d].n >= 1
            /\ dev' \in [Devices -> Device]
            /\ \A e \in Devices : e # d => dev'[e] = dev[e]
            /\ dev'[d].conn = x /\ dev'[d].at = dev[d].at /\ dev'[d].todo = dev[d].todo
            /\ ~report => dev'[d].n = dev[d].n
            /\ dev'[d].stored <=> ~report /\ dev[d].stored
<1> DEFINE report == dev[d].at = "mystatus"
           n == IF report /\ dev[d].n < MaxReports THEN dev[d].n + 1 ELSE dev[d].n
           g == IF dev[d].at = "done" THEN Head(dev[d].todo) ELSE NoGuid
           alone == report /\ ~ReportInFlight(d)
           stored == IF report THEN FALSE ELSE dev[d].stored
<1>1. PICK x \in Slots :
        /\ FreeSlot(x)
        /\ Send(x, [Idle EXCEPT !.st = "sent", !.op = dev[d].at, !.from = d,
                            !.guid = IF dev[d].at = "done" THEN Head(dev[d].todo) ELSE NoGuid,
                            !.n = IF report THEN n ELSE 0,
                            !.alone = report /\ ~ReportInFlight(d),
                            !.awaited = TRUE])
        /\ dev' = [dev EXCEPT ![d].conn = x, ![d].n = n,
                                  ![d].stored = IF report THEN FALSE ELSE @]
    BY DEF DeviceSend
<1>2. /\ conn \in [Slots -> Conn] /\ dev \in [Devices -> Device] /\ dev[d] \in Device
      /\ dev[d].at # "apply" /\ conn[x].st = "free"
    BY <1>1 DEF BaseInv, TypeOK, DeviceSend, FreeSlot
<1>3. /\ dev[d].at \in Ops /\ g \in Guids \cup {NoGuid} /\ alone \in BOOLEAN
      /\ n \in 0 .. MaxReports /\ (report => n >= 1) /\ stored \in BOOLEAN
  <2>1. dev[d].at \in Ops
      BY <1>2 DEF Device, Ops
  <2>2. g \in Guids \cup {NoGuid}
    <3>1. dev[d].todo \in Seq(Guids) /\ (dev[d].at = "done" => dev[d].todo # <<>>)
        BY <1>2 DEF BaseInv, Wiring, DeviceWired, Device
    <3> QED BY <3>1, HeadTailProperties
  <2>3. n \in 0 .. MaxReports /\ (report => n >= 1)
      BY <1>2, GatewayAssumption DEF Device
  <2>4. stored \in BOOLEAN
      BY <1>2 DEF Device
  <2> QED BY <2>1, <2>2, <2>3, <2>4 DEF ReportInFlight
<1> HIDE DEF n, g, alone, stored
<1> DEFINE m == IF report THEN n ELSE 0
<1>4. PICK r : r = [Idle EXCEPT !.st = "sent", !.op = dev[d].at, !.from = d, !.guid = g,
                                !.n = m, !.alone = alone, !.awaited = TRUE]
    OBVIOUS
<1>5. PICK e0 : e0 = [dev[d] EXCEPT !.conn = x, !.n = n, !.stored = stored]
    OBVIOUS
<1>6. conn' = [conn EXCEPT ![x] = r] /\ dev' = [dev EXCEPT ![d] = e0]
    BY <1>1, <1>4, <1>5 DEF Send, n, g, alone, stored
<1>7. m \in 0 .. MaxReports
    BY <1>3, GatewayAssumption
<1> HIDE DEF m
<1>8. /\ r \in Conn /\ r.st = "sent" /\ r.op = dev[d].at /\ r.from = d /\ r.guid = g
      /\ r.n = m /\ r.pos = 1 /\ r.alone = alone /\ r.awaited = TRUE
      /\ r.code = 0 /\ r.actions = <<>>
  <2>1. r = [st |-> "sent", op |-> dev[d].at, from |-> d, guid |-> g, n |-> m, pos |-> 1,
             alone |-> alone, awaited |-> TRUE, code |-> 0, actions |-> <<>>]
      BY <1>4 DEF Idle
  <2>2. r \in Conn
      BY <1>3, <1>7, <2>1, EkType, EmptySeq DEF Conn
  <2> QED BY <2>1, <2>2
<1>8a. /\ e0 \in Device /\ e0.conn = x /\ e0.n = n /\ e0.stored = stored
      /\ e0.at = dev[d].at /\ e0.todo = dev[d].todo
  <2>1. PICK e : e = dev[d]
      OBVIOUS
  <2>2. e0 = [e EXCEPT !.conn = x, !.n = n, !.stored = stored] /\ e \in Device
      BY <1>2, <1>5, <2>1
  <2>3. /\ e0 \in Device /\ e0.conn = x /\ e0.n = n /\ e0.stored = stored
        /\ e0.at = e.at /\ e0.todo = e.todo
    <3>1. PICK a : a = [e EXCEPT !.conn = x]
        OBVIOUS
    <3>2. PICK b : b = [a EXCEPT !.n = n]
        OBVIOUS
    <3>3. a \in Device
        BY <2>2, <3>1 DEF Device
    <3>4. b \in Device
        BY <1>3, <3>2, <3>3 DEF Device
    <3>5. e0 = [b EXCEPT !.stored = stored]
        BY <2>2, <3>1, <3>2
    <3>6. e0 \in Device
        BY <1>3, <3>4, <3>5 DEF Device
    <3> QED BY <2>2, <3>1, <3>2, <3>5, <3>6 DEF Device
  <2> QED BY <2>1, <2>3
<1>9. conn'[x] = r /\ conn' \in [Slots -> Conn] /\ \A y \in Slots : y # x => conn'[y] = conn[y]
    BY <1>2, <1>6, <1>8
<1>10. dev'[d] = e0 /\ dev' \in [Devices -> Device] /\ \A e \in Devices : e # d => dev'[e] = dev[e]
    BY <1>2, <1>6, <1>8a
<1>11. ~report => n = dev[d].n
    BY DEF n
<1> WITNESS x \in Slots
<1> QED BY <1>2, <1>3, <1>8, <1>8a, <1>9, <1>10, <1>11, ZenonT(40) DEF g, alone, m, stored

\* What a device does with its record when an answer or none comes.
LEMMA DeviceUpdate ==
    ASSUME NEW e \in Device
    PROVE  /\ Abort(e) \in Device
           /\ Abort(e).at = "serverinfos" /\ Abort(e).conn = 0 /\ Abort(e).todo = <<>>
           /\ Abort(e).n = e.n /\ Abort(e).stored = e.stored
<1>1. PICK a : a = [e EXCEPT !.at = "serverinfos"]
    OBVIOUS
<1>2. PICK b : b = [a EXCEPT !.conn = 0]
    OBVIOUS
<1>3. PICK c : c = [b EXCEPT !.todo = <<>>]
    OBVIOUS
<1>4. a \in Device
    BY <1>1 DEF Device
<1>5. b \in Device
    BY <1>2, <1>4 DEF Device
<1>6. c \in Device
    BY <1>3, <1>5, EmptySeq DEF Device
<1>7. Abort(e) = c
    BY <1>1, <1>2, <1>3 DEF Abort
<1> QED BY <1>1, <1>2, <1>3, <1>6, <1>7 DEF Device

\* A device takes its answer: it goes on in its cycle, or starts over.
LEMMA DeviceReceiveFacts ==
    ASSUME BaseInv, NEW d \in Devices, DeviceReceive(d)
    PROVE  LET x == dev[d].conn
               c == conn[x]
           IN  /\ x \in Slots /\ c.st = "answered" /\ c \in Conn
               /\ conn' \in [Slots -> Conn] /\ conn'[x] = Idle
               /\ \A y \in Slots : y # x => conn'[y] = conn[y]
               /\ dev' \in [Devices -> Device]
               /\ \A e \in Devices : e # d => dev'[e] = dev[e]
               /\ dev'[d].conn = 0 /\ dev'[d].n = dev[d].n
               /\ \/ /\ c.op = "serverinfos" /\ c.code = 200 /\ dev'[d].at = "mystatus"
                     /\ dev'[d].todo = dev[d].todo /\ dev'[d].stored = dev[d].stored
                  \/ /\ c.op = "mystatus" /\ c.code = 201 /\ dev'[d].at = "myactions"
                     /\ dev'[d].todo = dev[d].todo /\ dev'[d].stored = c.alone
                  \/ /\ c.op = "myactions" /\ c.code = 200 /\ c.actions # <<>>
                     /\ dev'[d].at = "apply"
                     /\ dev'[d].todo = c.actions /\ dev'[d].stored = dev[d].stored
                  \/ /\ c.op = "done" /\ Len(dev[d].todo) > 1 /\ dev'[d].at = "apply"
                     /\ dev'[d].todo = Tail(dev[d].todo) /\ dev'[d].stored = dev[d].stored
                  \/ /\ c.op = "done" => Len(dev[d].todo) <= 1
                     /\ dev'[d].at = "serverinfos" /\ dev'[d].todo = <<>>
                     /\ dev'[d].stored = dev[d].stored
<1>1. PICK x : x = dev[d].conn
    OBVIOUS
<1>2. PICK c : c = conn[x]
    OBVIOUS
<1>3. PICK e : e = dev[d]
    OBVIOUS
<1>4. PICK f : f = After(e, c)
    OBVIOUS
<1>5. /\ x \in Slots /\ c \in Conn /\ e \in Device /\ c.st = "answered"
      /\ conn' = [conn EXCEPT ![x] = Idle] /\ dev' = [dev EXCEPT ![d] = f]
      /\ conn \in [Slots -> Conn] /\ dev \in [Devices -> Device]
    BY <1>1, <1>2, <1>3, <1>4 DEF DeviceReceive, BaseInv, TypeOK, Device
<1>6. /\ f \in Device /\ f.conn = 0 /\ f.n = e.n
      /\ \/ /\ c.op = "serverinfos" /\ c.code = 200 /\ f.at = "mystatus"
            /\ f.todo = e.todo /\ f.stored = e.stored
         \/ /\ c.op = "mystatus" /\ c.code = 201 /\ f.at = "myactions"
            /\ f.todo = e.todo /\ f.stored = c.alone
         \/ /\ c.op = "myactions" /\ c.code = 200 /\ c.actions # <<>> /\ f.at = "apply"
            /\ f.todo = c.actions /\ f.stored = e.stored
         \/ /\ c.op = "done" /\ Len(e.todo) > 1 /\ f.at = "apply"
            /\ f.todo = Tail(e.todo) /\ f.stored = e.stored
         \/ /\ c.op = "done" => Len(e.todo) <= 1
            /\ f.at = "serverinfos" /\ f.todo = <<>> /\ f.stored = e.stored
  <2>1. PICK a : a = [e EXCEPT !.conn = 0]
      OBVIOUS
  <2>2. a \in Device
      BY <1>5, <2>1 DEF Device
  <2>3. CASE c.op = "serverinfos" /\ c.code = 200
    <3>1. f = [a EXCEPT !.at = "mystatus"]
        BY <1>4, <2>1, <2>3 DEF After
    <3> QED BY <1>5, <2>1, <2>2, <2>3, <3>1 DEF Device
  <2>4. CASE c.op = "mystatus" /\ c.code = 201
    <3>1. PICK b : b = [a EXCEPT !.at = "myactions"]
        OBVIOUS
    <3>2. f = [b EXCEPT !.stored = c.alone]
        BY <1>4, <2>1, <2>4, <3>1 DEF After
    <3>3. b \in Device
        BY <2>2, <3>1 DEF Device
    <3>4. f \in Device
        BY <1>5, <3>2, <3>3, ZenonT(40) DEF Device, Conn
    <3> QED BY <1>5, <2>1, <2>2, <2>4, <3>1, <3>2, <3>4 DEF Device
  <2>5. CASE c.op = "myactions" /\ c.code = 200 /\ c.actions # <<>>
    <3>1. PICK b : b = [a EXCEPT !.at = "apply"]
        OBVIOUS
    <3>2. f = [b EXCEPT !.todo = c.actions]
        BY <1>4, <2>1, <2>5, <3>1 DEF After
    <3>3. b \in Device
        BY <2>2, <3>1 DEF Device
    <3>4. f \in Device
        BY <1>5, <3>2, <3>3, ZenonT(40) DEF Device, Conn
    <3> QED BY <1>5, <2>1, <2>2, <2>5, <3>1, <3>2, <3>4 DEF Device
  <2>6. CASE c.op = "done" /\ Len(e.todo) > 1
    <3>1. PICK b : b = [a EXCEPT !.at = "apply"]
        OBVIOUS
    <3>2. f = [b EXCEPT !.todo = Tail(e.todo)]
        BY <1>4, <2>1, <2>6, <3>1 DEF After
    <3>3. b \in Device
        BY <2>2, <3>1 DEF Device
    <3>4. Tail(e.todo) \in Seq(Guids)
        BY <1>5, <2>6, HeadTailProperties, EmptySeq DEF Device
    <3>5. f \in Device
        BY <3>2, <3>3, <3>4 DEF Device
    <3> QED BY <1>5, <2>1, <2>2, <2>6, <3>1, <3>2, <3>5 DEF Device
  <2>7. CASE /\ ~(c.op = "serverinfos" /\ c.code = 200)
             /\ ~(c.op = "mystatus" /\ c.code = 201)
             /\ ~(c.op = "myactions" /\ c.code = 200 /\ c.actions # <<>>)
             /\ ~(c.op = "done" /\ Len(e.todo) > 1)
    <3>1. f = Abort(e)
        BY <1>4, <2>7 DEF After
    <3>2. Len(e.todo) \in Nat
        BY <1>5, LenProperties DEF Device
    <3> QED BY <1>5, <2>7, <3>1, <3>2, DeviceUpdate
  <2> QED BY <2>3, <2>4, <2>5, <2>6, <2>7
<1>7. /\ conn' \in [Slots -> Conn] /\ conn'[x] = Idle /\ dev' \in [Devices -> Device]
      /\ dev'[d] = f
      /\ \A y \in Slots : y # x => conn'[y] = conn[y]
      /\ \A g \in Devices : g # d => dev'[g] = dev[g]
    BY <1>5, <1>6, IdleType
<1> QED BY <1>1, <1>2, <1>3, <1>5, <1>6, <1>7

\* The answers the handlers give: a code, and actions or none.
LEMMA AnswerArguments ==
    /\ 200 \in Codes /\ 201 \in Codes /\ 400 \in Codes /\ 401 \in Codes /\ 404 \in Codes
    /\ <<>> \in Seq(Guids)
BY EmptySeq DEF Codes

\* A handler ends: its sender finds the answer, or the slot is free again.
LEMMA AnswerFacts ==
    ASSUME BaseInv, NEW x \in Slots, NEW code \in Codes, NEW actions \in Seq(Guids),
           Answer(x, code, actions)
    PROVE  /\ conn' \in [Slots -> Conn] /\ conn \in [Slots -> Conn]
           /\ \A y \in Slots : y # x => conn'[y] = conn[y]
           /\ ~conn[x].awaited => conn'[x] = Idle
           /\ conn[x].awaited =>
                /\ conn'[x].st = "answered"
                /\ conn'[x].op = conn[x].op /\ conn'[x].from = conn[x].from
                /\ conn'[x].guid = conn[x].guid /\ conn'[x].n = conn[x].n
                /\ conn'[x].pos = conn[x].pos /\ conn'[x].alone = conn[x].alone
                /\ conn'[x].awaited
                /\ conn'[x].code = code /\ conn'[x].actions = actions
<1>1. PICK c : c = conn[x]
    OBVIOUS
<1>2. PICK a : a = [c EXCEPT !.st = "answered", !.code = code, !.actions = actions]
    OBVIOUS
<1>3. conn \in [Slots -> Conn] /\ c \in Conn
    BY <1>1 DEF BaseInv, TypeOK
<1>4. PICK r : r = IF c.awaited THEN a ELSE Idle
    OBVIOUS
<1>5. conn' = [conn EXCEPT ![x] = r]
    BY <1>1, <1>2, <1>4 DEF Answer
<1>6. /\ a \in Conn /\ Idle \in Conn
      /\ a.st = "answered" /\ a.op = c.op /\ a.from = c.from
      /\ a.guid = c.guid /\ a.n = c.n /\ a.pos = c.pos
      /\ a.alone = c.alone /\ a.awaited = c.awaited
      /\ a.code = code /\ a.actions = actions
  <2>1. PICK a1 : a1 = [c EXCEPT !.st = "answered"]
      OBVIOUS
  <2>2. PICK a2 : a2 = [a1 EXCEPT !.code = code]
      OBVIOUS
  <2>3. a = [a2 EXCEPT !.actions = actions]
      BY <1>2, <2>1, <2>2
  <2>4. a1 \in Conn
      BY <1>3, <2>1, ConnUpdate
  <2>5. a2 \in Conn
      BY <2>2, <2>4, ConnUpdate
  <2>6. a \in Conn
      BY <2>3, <2>5, ConnUpdate
  <2> QED BY <1>3, <2>1, <2>2, <2>3, <2>4, <2>5, <2>6, IdleType DEF Conn
<1>7. r \in Conn
    BY <1>4, <1>6
<1>8. /\ conn'[x] = r /\ conn' \in [Slots -> Conn]
      /\ \A y \in Slots : y # x => conn'[y] = conn[y]
    BY <1>3, <1>5, <1>7
<1>9. c.awaited \in BOOLEAN
    BY <1>3 DEF Conn
<1> QED BY <1>1, <1>3, <1>4, <1>6, <1>8, <1>9

\* The administrator sends an injection and waits for nothing.
LEMMA AdminSendFacts ==
    ASSUME BaseInv, AdminSend
    PROVE  \E x \in Slots :
        /\ conn' \in [Slots -> Conn] /\ conn[x].st = "free"
        /\ \A y \in Slots : y # x => conn'[y] = conn[y]
        /\ conn'[x].st = "sent" /\ conn'[x].op = "inject" /\ conn'[x].from = Admin
        /\ ~conn'[x].awaited /\ conn'[x].code = 0 /\ conn'[x].actions = <<>>
<1>1. PICK x \in Slots :
        FreeSlot(x) /\ Send(x, [Idle EXCEPT !.st = "sent", !.op = "inject", !.from = Admin])
    BY DEF AdminSend
<1>2. PICK r : r = [Idle EXCEPT !.st = "sent", !.op = "inject", !.from = Admin]
    OBVIOUS
<1>3. r = [st |-> "sent", op |-> "inject", from |-> Admin, guid |-> NoGuid, n |-> 0, pos |-> 1,
           alone |-> FALSE, awaited |-> FALSE, code |-> 0, actions |-> <<>>]
    BY <1>2 DEF Idle
<1>4. r \in Conn
    BY <1>3, EkType, EmptySeq, GatewayAssumption DEF Conn, Ops
<1>5. conn' = [conn EXCEPT ![x] = r] /\ conn \in [Slots -> Conn]
    BY <1>1, <1>2 DEF Send, BaseInv, TypeOK
<1>6. /\ conn'[x] = r /\ conn' \in [Slots -> Conn]
      /\ \A y \in Slots : y # x => conn'[y] = conn[y]
    BY <1>4, <1>5
<1> QED BY <1>1, <1>3, <1>6 DEF FreeSlot

\* UpdateStatus stores the next entry and goes on.
LEMMA EntryFacts ==
    ASSUME BaseInv, NEW x \in Slots, PostMyStatusEntry(x)
    PROVE  /\ conn' \in [Slots -> Conn]
           /\ \A y \in Slots : y # x => conn'[y] = conn[y]
           /\ conn'[x].st = "serving" /\ conn'[x].pos = conn[x].pos + 1
           /\ conn'[x].op = "mystatus" /\ conn[x].op = "mystatus"
           /\ conn'[x].from = conn[x].from
           /\ conn'[x].guid = conn[x].guid /\ conn'[x].n = conn[x].n
           /\ conn'[x].alone = conn[x].alone /\ conn'[x].awaited = conn[x].awaited
           /\ conn'[x].code = conn[x].code /\ conn'[x].actions = conn[x].actions
           /\ conn[x].pos \in 1 .. Len(Ek)
<1>1. PICK c : c = conn[x]
    OBVIOUS
<1>2. PICK a : a = [c EXCEPT !.st = "serving"]
    OBVIOUS
<1>3. PICK r : r = [a EXCEPT !.pos = a.pos + 1]
    OBVIOUS
<1>4. /\ conn \in [Slots -> Conn] /\ c \in Conn
      /\ c.pos <= Len(Ek) /\ c.op = "mystatus"
    BY <1>1 DEF BaseInv, TypeOK, PostMyStatusEntry, Handling
<1>5. a \in Conn
    BY <1>2, <1>4, ConnUpdate
<1>6. a.pos = c.pos /\ c.pos \in 1 .. Len(Ek)
    BY <1>2, <1>4, EkType DEF Conn
<1>7. r \in Conn
  <2>1. a.pos + 1 \in 1 .. Len(Ek) + 1
      BY <1>6, EkType
  <2> QED BY <1>3, <1>5, <2>1 DEF Conn
<1>8. conn' = [conn EXCEPT ![x] = r]
  <2>1. conn' = [conn EXCEPT ![x].st = "serving", ![x].pos = @ + 1]
      BY DEF PostMyStatusEntry
  <2> QED BY <1>1, <1>2, <1>3, <1>4, <2>1
<1>9. /\ conn'[x] = r /\ conn' \in [Slots -> Conn]
      /\ \A y \in Slots : y # x => conn'[y] = conn[y]
    BY <1>4, <1>7, <1>8
<1>10. /\ r.st = "serving" /\ r.pos = c.pos + 1 /\ r.op = c.op /\ r.from = c.from
       /\ r.guid = c.guid /\ r.n = c.n /\ r.alone = c.alone /\ r.awaited = c.awaited
       /\ r.code = c.code /\ r.actions = c.actions
    BY <1>2, <1>3, <1>4, <1>5, <1>6 DEF Conn
<1> QED BY <1>1, <1>4, <1>6, <1>9, <1>10

\* The sender of the request in slot x stops waiting and starts over.
LEMMA GiveUpFacts ==
    ASSUME BaseInv, NEW d \in Devices, dev[d].conn \in Slots, GiveUp(d, dev[d].conn)
    PROVE  /\ dev' \in [Devices -> Device]
           /\ \A e \in Devices : e # d => dev'[e] = dev[e]
           /\ dev'[d].at = "serverinfos" /\ dev'[d].conn = 0 /\ dev'[d].todo = <<>>
           /\ dev'[d].n = dev[d].n /\ dev'[d].stored = dev[d].stored
           /\ unconfirmed' \in [Devices -> SUBSET Guids]
           /\ \A e \in Devices : unconfirmed[e] \subseteq unconfirmed'[e]
           /\ dev[d].at = "done" => Head(dev[d].todo) \in unconfirmed'[d]
<1>1. PICK e : e = dev[d]
    OBVIOUS
<1>2. PICK f : f = Abort(e)
    OBVIOUS
<1>3. /\ dev \in [Devices -> Device] /\ e \in Device
      /\ unconfirmed \in [Devices -> SUBSET Guids] /\ conn \in [Slots -> Conn]
    BY <1>1 DEF BaseInv, TypeOK
<1>4. /\ f \in Device /\ f.at = "serverinfos" /\ f.conn = 0 /\ f.todo = <<>>
      /\ f.n = e.n /\ f.stored = e.stored
    BY <1>2, <1>3, DeviceUpdate
<1>5. dev' = [dev EXCEPT ![d] = f]
    BY <1>1, <1>2 DEF GiveUp
<1>6. dev'[d] = f /\ dev' \in [Devices -> Device] /\ \A g \in Devices : g # d => dev'[g] = dev[g]
    BY <1>3, <1>4, <1>5
<1>7. PICK c : c = conn[dev[d].conn]
    OBVIOUS
<1>8. c.op = e.at /\ (c.op = "done" => c.guid = Head(e.todo) /\ c.guid \in Guids)
  <2>1. dev[d].conn # 0
      BY SlotsType
  <2>2. c.st # "free" /\ c.op = e.at /\ (e.at = "done" => c.guid = Head(e.todo))
      BY <1>1, <1>7, <2>1 DEF BaseInv, Wiring, DeviceWired
  <2>3. c.op = "done" => c.guid \in Guids
      BY <1>7, <2>2 DEF BaseInv, Wiring, SlotWired
  <2> QED BY <2>2, <2>3
<1>9. unconfirmed' = IF c.op = "done" THEN [unconfirmed EXCEPT ![d] = @ \cup {c.guid}]
                     ELSE unconfirmed
    BY <1>7 DEF GiveUp
<1>10. /\ unconfirmed' \in [Devices -> SUBSET Guids]
       /\ \A g \in Devices : unconfirmed[g] \subseteq unconfirmed'[g]
       /\ c.op = "done" => c.guid \in unconfirmed'[d]
    BY <1>3, <1>8, <1>9
<1> QED BY <1>1, <1>4, <1>6, <1>8, <1>10

\* A device that gives up leaves its connection, which nobody awaits any more.
LEMMA TimeoutFacts ==
    ASSUME BaseInv, NEW d \in Devices, Timeout(d)
    PROVE  LET x == dev[d].conn
           IN  /\ x \in Slots /\ GiveUp(d, x)
               /\ conn' \in [Slots -> Conn]
               /\ \A y \in Slots : y # x => conn'[y] = conn[y]
               /\ conn[x].st = "answered" => conn'[x] = Idle
               /\ conn[x].st # "answered" =>
                    /\ conn'[x].st = conn[x].st /\ ~conn'[x].awaited
                    /\ conn'[x].op = conn[x].op /\ conn'[x].from = conn[x].from
                    /\ conn'[x].guid = conn[x].guid /\ conn'[x].n = conn[x].n
                    /\ conn'[x].pos = conn[x].pos /\ conn'[x].alone = conn[x].alone
                    /\ conn'[x].code = conn[x].code /\ conn'[x].actions = conn[x].actions
<1>1. PICK x : x = dev[d].conn
    OBVIOUS
<1>2. PICK c : c = conn[x]
    OBVIOUS
<1>3. PICK a : a = [c EXCEPT !.awaited = FALSE]
    OBVIOUS
<1>4. PICK r : r = IF c.st = "answered" THEN Idle ELSE a
    OBVIOUS
<1>5. /\ x \in Slots /\ GiveUp(d, x) /\ conn' = [conn EXCEPT ![x] = r]
      /\ conn \in [Slots -> Conn] /\ c \in Conn
    BY <1>1, <1>2, <1>3, <1>4 DEF Timeout, BaseInv, TypeOK, Device
<1>6. a \in Conn
    BY <1>3, <1>5, ConnUpdate
<1>7. /\ conn'[x] = r /\ conn' \in [Slots -> Conn]
      /\ \A y \in Slots : y # x => conn'[y] = conn[y]
    BY <1>4, <1>5, <1>6, IdleType
<1>8. /\ a.st = c.st /\ ~a.awaited /\ a.op = c.op /\ a.from = c.from
      /\ a.guid = c.guid /\ a.n = c.n /\ a.pos = c.pos /\ a.alone = c.alone
      /\ a.code = c.code /\ a.actions = c.actions
    BY <1>3, <1>5, <1>6 DEF Conn
<1> QED BY <1>1, <1>2, <1>4, <1>5, <1>7, <1>8

\* A restart empties the store and every connection; the devices that were
\* waiting start over.
LEMMA RestartFacts ==
    ASSUME BaseInv, Restart
    PROVE  /\ conn' \in [Slots -> Conn] /\ \A x \in Slots : conn'[x] = Idle
           /\ dev' \in [Devices -> Device]
           /\ \A d \in Devices : dev'[d].conn = 0 /\ ~dev'[d].stored /\ dev'[d].n = dev[d].n
           /\ \A d \in Devices : dev[d].conn = 0 =>
                dev'[d].at = dev[d].at /\ dev'[d].todo = dev[d].todo
           /\ \A d \in Devices : dev[d].conn # 0 =>
                dev'[d].at = "serverinfos" /\ dev'[d].todo = <<>>
           /\ unconfirmed' \in [Devices -> SUBSET Guids]
           /\ \A d \in Devices : unconfirmed[d] \subseteq unconfirmed'[d]
           /\ \A d \in Devices : dev[d].at = "done" /\ dev[d].conn # 0 =>
                Head(dev[d].todo) \in unconfirmed'[d]
<1>1. /\ dev \in [Devices -> Device] /\ conn \in [Slots -> Conn]
      /\ unconfirmed \in [Devices -> SUBSET Guids]
    BY DEF BaseInv, TypeOK
<1>2. conn' = [x \in Slots |-> Idle]
    BY DEF Restart
<1>3. ASSUME NEW d \in Devices
      PROVE  /\ dev'[d] \in Device /\ dev'[d].conn = 0 /\ ~dev'[d].stored
             /\ dev'[d].n = dev[d].n
             /\ dev[d].conn = 0 => dev'[d].at = dev[d].at /\ dev'[d].todo = dev[d].todo
             /\ dev[d].conn # 0 => dev'[d].at = "serverinfos" /\ dev'[d].todo = <<>>
  <2>1. PICK e : e = dev[d]
      OBVIOUS
  <2>2. PICK f : f = IF e.conn = 0 THEN e ELSE Abort(e)
      OBVIOUS
  <2>3. PICK g : g = [f EXCEPT !.stored = FALSE]
      OBVIOUS
  <2>4. e \in Device
      BY <1>1, <2>1
  <2>5. /\ f \in Device /\ f.conn = 0 /\ f.n = e.n /\ (e.conn = 0 => f = e)
        /\ e.conn # 0 => f.at = "serverinfos" /\ f.todo = <<>>
      BY <2>2, <2>4, DeviceUpdate
  <2>6. g \in Device /\ ~g.stored /\ g.conn = f.conn /\ g.n = f.n /\ g.at = f.at /\ g.todo = f.todo
      BY <2>3, <2>5 DEF Device
  <2>7. dev'[d] = g
      BY <2>1, <2>2, <2>3 DEF Restart
  <2> QED BY <2>1, <2>5, <2>6, <2>7
<1>4. dev' \in [Devices -> Device]
  <2>1. dev' = [d \in Devices |-> dev'[d]]
      BY DEF Restart
  <2> QED BY <1>3, <2>1
<1>5. ASSUME NEW d \in Devices
      PROVE  /\ unconfirmed'[d] \subseteq Guids
             /\ unconfirmed[d] \subseteq unconfirmed'[d]
             /\ dev[d].at = "done" /\ dev[d].conn # 0 => Head(dev[d].todo) \in unconfirmed'[d]
  <2>1. unconfirmed'[d] = unconfirmed[d] \cup
            {conn[x].guid : x \in {y \in Slots : y = dev[d].conn /\ conn[y].op = "done"}}
      BY DEF Restart
  <2>2. \A x \in Slots : x = dev[d].conn /\ conn[x].op = "done" => conn[x].guid \in Guids
      BY SlotsType DEF BaseInv, Wiring, DeviceWired, SlotWired
  <2>3. dev[d].at = "done" /\ dev[d].conn # 0 =>
          /\ dev[d].conn \in Slots /\ conn[dev[d].conn].op = "done"
          /\ conn[dev[d].conn].guid = Head(dev[d].todo)
      BY <1>1 DEF BaseInv, Wiring, DeviceWired, Device
  <2> QED BY <1>1, <2>1, <2>2, <2>3
<1>6. unconfirmed' \in [Devices -> SUBSET Guids]
  <2>1. unconfirmed' = [d \in Devices |-> unconfirmed'[d]]
      BY DEF Restart
  <2> QED BY <1>5, <2>1
<1> QED BY <1>2, <1>3, <1>4, <1>5, <1>6, IdleType

\* A request that is answered by a step that leaves the devices alone stays
\* wired to its sender.
LEMMA AnswerWiring ==
    ASSUME BaseInv, NEW x \in Slots, NEW code \in Codes, NEW actions \in Seq(Guids),
           Answer(x, code, actions), dev' = dev, conn[x].st # "free"
    PROVE  Wiring'
<1>1. /\ conn' \in [Slots -> Conn]
      /\ \A y \in Slots : y # x => conn'[y] = conn[y]
      /\ ~conn[x].awaited => conn'[x] = Idle
      /\ conn[x].awaited =>
            /\ conn'[x].st = "answered"
            /\ conn'[x].op = conn[x].op /\ conn'[x].from = conn[x].from
            /\ conn'[x].guid = conn[x].guid /\ conn'[x].n = conn[x].n
            /\ conn'[x].awaited
    BY AnswerFacts
<1>2. ASSUME NEW d \in Devices PROVE DeviceWired(d)'
  <2>1. DeviceWired(d) /\ dev[d] \in Device
      BY DEF BaseInv, Wiring, TypeOK
  <2>2. CASE dev[d].conn # x
      BY <1>1, <2>1, <2>2 DEF DeviceWired, Device
  <2>3. CASE dev[d].conn = x
      BY <1>1, <2>1, <2>3, SlotsType DEF DeviceWired
  <2> QED BY <2>2, <2>3
<1>3. ASSUME NEW y \in Slots PROVE SlotWired(y)'
  <2>1. SlotWired(y)
      BY DEF BaseInv, Wiring
  <2>2. CASE y # x
      BY <1>1, <2>1, <2>2 DEF SlotWired
  <2>3. CASE y = x /\ conn[x].awaited
      BY <1>1, <2>1, <2>3 DEF SlotWired
  <2>4. CASE y = x /\ ~conn[x].awaited
      BY <1>1, <2>4 DEF SlotWired, Idle
  <2> QED BY <2>2, <2>3, <2>4
<1> QED BY <1>2, <1>3 DEF Wiring

\* Where a handler is when it takes a step.
LEMMA HandlingFacts ==
    ASSUME BaseInv, NEW x \in Slots
    PROVE  /\ conn[x] \in Conn
           /\ \A op \in Ops : Handling(x, op) => conn[x].st # "free"
BY DEF BaseInv, TypeOK, Handling

\* Every step keeps the types.
LEMMA TypeStep ==
    ASSUME BaseInv, Next
    PROVE  TypeOK'
<1> USE DEF BaseInv
<1>1. ASSUME NEW d \in Devices, DeviceSend(d) PROVE TypeOK'
  <2>1. conn' \in [Slots -> Conn] /\ dev' \in [Devices -> Device]
      BY <1>1, DeviceSendFacts
  <2> QED BY <1>1, <2>1 DEF DeviceSend, TypeOK, store, history
<1>2. ASSUME NEW d \in Devices, DeviceReceive(d) PROVE TypeOK'
  <2>1. conn' \in [Slots -> Conn] /\ dev' \in [Devices -> Device]
      BY <1>2, DeviceReceiveFacts
  <2> QED BY <1>2, <2>1 DEF DeviceReceive, TypeOK, store, history
<1>3. ASSUME NEW d \in Devices, DeviceApply(d) PROVE TypeOK'
  <2>1. dev[d] \in Device /\ dev[d].todo # <<>> /\ dev[d].todo \in Seq(Guids)
      BY <1>3 DEF TypeOK, Wiring, DeviceWired, DeviceApply, Device
  <2>2. Append(applied[d], Head(dev[d].todo)) \in Seq(Guids)
      BY <2>1, HeadTailProperties, AppendProperties DEF TypeOK
  <2>3. applied' \in [Devices -> Seq(Guids)]
      BY <1>3, <2>2 DEF DeviceApply, TypeOK
  <2>4. [dev[d] EXCEPT !.at = "done"] \in Device
      BY <2>1 DEF Device
  <2>5. dev' \in [Devices -> Device]
      BY <1>3, <2>4 DEF DeviceApply, TypeOK
  <2> QED BY <1>3, <2>3, <2>5 DEF DeviceApply, TypeOK, store
<1>4. ASSUME NEW d \in Devices, Timeout(d) PROVE TypeOK'
  <2>1. conn' \in [Slots -> Conn] /\ dev[d].conn \in Slots /\ GiveUp(d, dev[d].conn)
      BY <1>4, TimeoutFacts
  <2>2. dev' \in [Devices -> Device] /\ unconfirmed' \in [Devices -> SUBSET Guids]
      BY <2>1, GiveUpFacts
  <2>3. faults' \in 0 .. MaxFaults
      BY <1>4, GatewayAssumption DEF Timeout, TypeOK
  <2> QED BY <1>4, <2>1, <2>2, <2>3 DEF Timeout, TypeOK, store
<1>5. ASSUME NEW x \in Slots, Unauthorized(x) PROVE TypeOK'
  <2>1. conn' \in [Slots -> Conn]
      BY <1>5, AnswerFacts, AnswerArguments DEF Unauthorized
  <2> QED BY <1>5, <2>1 DEF Unauthorized, TypeOK, store, history
<1>6. ASSUME NEW x \in Slots, GetServerInfos(x) PROVE TypeOK'
  <2>1. conn' \in [Slots -> Conn]
      BY <1>6, AnswerFacts, AnswerArguments DEF GetServerInfos
  <2> QED BY <1>6, <2>1 DEF GetServerInfos, TypeOK, store, history
<1>7. ASSUME NEW x \in Slots, PostMyStatusEntry(x) PROVE TypeOK'
  <2> USE <1>7
  <2>1. conn' \in [Slots -> Conn] /\ conn[x].pos \in 1 .. Len(Ek) /\ conn[x].op = "mystatus"
      BY EntryFacts
  <2>2. conn[x].st # "free" /\ conn[x] \in Conn /\ SlotWired(x)
      BY DEF PostMyStatusEntry, Handling, TypeOK, Wiring
  <2>3. /\ conn[x].from \in Devices /\ conn[x].n \in 1 .. MaxReports
        /\ ClientOf(conn[x].from) \in Clients /\ Ek[conn[x].pos] \in ToSet(Ek)
      BY <2>1, <2>2, EkType DEF SlotWired, Conn, ClientOf, Clients
  <2>4. <<conn[x].from, conn[x].n>> \in (Devices \X (1 .. MaxReports)) \cup {NoReport}
      BY <2>3
  <2>5. table' = [table EXCEPT ![ClientOf(conn[x].from)][Ek[conn[x].pos]] = <<conn[x].from, conn[x].n>>]
      BY DEF PostMyStatusEntry
  <2>6. table' \in [Clients -> [ToSet(Ek) -> (Devices \X (1 .. MaxReports)) \cup {NoReport}]]
      BY <2>3, <2>4, <2>5 DEF TypeOK
  <2> QED BY <2>1, <2>6 DEF PostMyStatusEntry, TypeOK, history
<1>8. ASSUME NEW x \in Slots, PostMyStatusEnd(x) PROVE TypeOK'
  <2>1. conn' \in [Slots -> Conn]
      BY <1>8, AnswerFacts, AnswerArguments DEF PostMyStatusEnd
  <2>2. connected' \in [Clients -> BOOLEAN]
      BY <1>8 DEF PostMyStatusEnd, TypeOK
  <2> QED BY <1>8, <2>1, <2>2 DEF PostMyStatusEnd, TypeOK, history
<1>9. ASSUME NEW x \in Slots, GetMyActions(x) PROVE TypeOK'
  <2>1. conn' \in [Slots -> Conn]
      BY <1>9, AnswerFacts, AnswerArguments DEF GetMyActions, TypeOK
  <2> QED BY <1>9, <2>1 DEF GetMyActions, TypeOK, store, history
<1>10. ASSUME NEW x \in Slots, PostDone(x) PROVE TypeOK'
  <2> DEFINE g == conn[x].guid
             found == g \in ToSet(queue)
  <2>1. conn' \in [Slots -> Conn]
    <3>1. (IF found THEN 201 ELSE 404) \in Codes
        BY AnswerArguments
    <3> QED BY <1>10, <3>1, AnswerFacts, AnswerArguments DEF PostDone
  <2>2. queue' \in Seq(Guids)
      BY <1>10, RemoveFirstDistinct DEF PostDone, TypeOK, Queued
  <2>3. found => g \in Guids
      BY ToSetOf DEF TypeOK
  <2>4. successes' \in [Guids -> Nat]
      BY <1>10, <2>3 DEF PostDone, TypeOK
  <2> QED BY <1>10, <2>1, <2>2, <2>4 DEF PostDone, TypeOK
<1>11. ASSUME NEW x \in Slots, PostAdminInject(x) PROVE TypeOK'
  <2>1. conn' \in [Slots -> Conn]
      BY <1>11, AnswerFacts, AnswerArguments DEF PostAdminInject
  <2>2. queue' \in Seq(Guids) /\ order' \in Seq(Guids)
      BY <1>11, AppendProperties DEF PostAdminInject, TypeOK
  <2> QED BY <1>11, <2>1, <2>2 DEF PostAdminInject, TypeOK
<1>12. ASSUME NEW x \in Slots, Drop(x) PROVE TypeOK'
  <2>1. conn' \in [Slots -> Conn] /\ faults' \in 0 .. MaxFaults
      BY <1>12, IdleType, GatewayAssumption DEF Drop, TypeOK
  <2>2. dev' \in [Devices -> Device] /\ unconfirmed' \in [Devices -> SUBSET Guids]
    <3>1. CASE conn[x].awaited
      <4>1. conn[x].from \in Devices /\ dev[conn[x].from].conn = x
          BY <3>1 DEF Wiring, SlotWired
      <4> QED BY <1>12, <3>1, <4>1, GiveUpFacts DEF Drop
    <3>2. CASE ~conn[x].awaited
        BY <1>12, <3>2 DEF Drop, TypeOK
    <3> QED BY <3>1, <3>2
  <2> QED BY <1>12, <2>1, <2>2 DEF Drop, TypeOK, store
<1>13. ASSUME NEW x \in Slots, BadBody(x) PROVE TypeOK'
  <2>1. conn' \in [Slots -> Conn]
      BY <1>13, AnswerFacts, AnswerArguments DEF BadBody
  <2>2. faults' \in 0 .. MaxFaults
      BY <1>13, GatewayAssumption DEF BadBody, TypeOK
  <2> QED BY <1>13, <2>1, <2>2 DEF BadBody, TypeOK, store, history
<1>14. ASSUME NEW x \in Slots, LostHeaders(x) PROVE TypeOK'
  <2>1. conn' \in [Slots -> Conn]
      BY <1>14, AnswerFacts, AnswerArguments DEF LostHeaders
  <2>2. faults' \in 0 .. MaxFaults
      BY <1>14, GatewayAssumption DEF LostHeaders, TypeOK
  <2>3. SlotWired(x)
      BY DEF Wiring
  <2>4. unconfirmed' \in [Devices -> SUBSET Guids]
      BY <1>14, <2>3 DEF LostHeaders, TypeOK, SlotWired
  <2> QED BY <1>14, <2>1, <2>2, <2>4 DEF LostHeaders, TypeOK, store
<1>15. CASE AdminSend
  <2>1. conn' \in [Slots -> Conn]
      BY <1>15, AdminSendFacts
  <2> QED BY <1>15, <2>1 DEF AdminSend, TypeOK, store, history
<1>16. CASE Restart
  <2>1. /\ conn' \in [Slots -> Conn] /\ dev' \in [Devices -> Device]
        /\ unconfirmed' \in [Devices -> SUBSET Guids]
      BY <1>16, RestartFacts
  <2>2. restarts' \in 0 .. MaxRestarts
      BY <1>16, GatewayAssumption DEF Restart, TypeOK
  <2>3. /\ queue' \in Seq(Guids) /\ connected' \in [Clients -> BOOLEAN]
        /\ table' \in [Clients -> [ToSet(Ek) -> (Devices \X (1 .. MaxReports)) \cup {NoReport}]]
      BY <1>16, EmptySeq DEF Restart, EmptyTables
  <2> QED BY <1>16, <2>1, <2>2, <2>3 DEF Restart, TypeOK
<1> QED BY <1>1, <1>2, <1>3, <1>4, <1>5, <1>6, <1>7, <1>8, <1>9, <1>10, <1>11, <1>12,
           <1>13, <1>14, <1>15, <1>16 DEF Next, Handle, Cycle

\* What giving up a request and freeing its slot leaves wired.
LEMMA GiveUpWiring ==
    ASSUME BaseInv, NEW d \in Devices, NEW x \in Slots, dev[d].conn = x, GiveUp(d, x),
           \A y \in Slots : y # x => conn'[y] = conn[y],
           \/ conn'[x] = Idle
           \/ /\ conn'[x].st \in {"sent", "serving"} /\ conn'[x].st = conn[x].st
              /\ ~conn'[x].awaited
              /\ conn'[x].op = conn[x].op /\ conn'[x].from = conn[x].from
              /\ conn'[x].guid = conn[x].guid /\ conn'[x].n = conn[x].n
    PROVE  Wiring'
<1>1. /\ dev' \in [Devices -> Device]
      /\ \A e \in Devices : e # d => dev'[e] = dev[e]
      /\ dev'[d].at = "serverinfos" /\ dev'[d].conn = 0 /\ dev'[d].todo = <<>>
    BY GiveUpFacts
<1>2. ASSUME NEW e \in Devices PROVE DeviceWired(e)'
  <2>1. DeviceWired(e) /\ dev[e] \in Device /\ DeviceWired(d)
      BY DEF BaseInv, Wiring, TypeOK
  <2>2. CASE e = d
      BY <1>1, <2>2 DEF DeviceWired
  <2>3. CASE e # d
    <3>1. dev[e].conn # x
        BY <2>1, <2>3, SlotsType DEF DeviceWired
    <3> QED BY <1>1, <2>1, <2>3, <3>1 DEF DeviceWired, Device
  <2> QED BY <2>2, <2>3
<1>3. ASSUME NEW y \in Slots PROVE SlotWired(y)'
  <2>1. SlotWired(y) /\ DeviceWired(d)
      BY DEF BaseInv, Wiring
  <2>2. CASE y # x
    <3>1. conn[y].awaited => conn[y].from # d
        BY <2>1, <2>2 DEF SlotWired
    <3> QED BY <1>1, <2>1, <2>2, <3>1 DEF SlotWired
  <2>3. CASE y = x /\ conn'[x] = Idle
      BY <2>3 DEF SlotWired, Idle
  <2>4. CASE y = x /\ conn'[x] # Idle
      BY <2>1, <2>4 DEF SlotWired
  <2> QED BY <2>2, <2>3, <2>4
<1> QED BY <1>2, <1>3 DEF Wiring

\* Every step keeps the device and its connection wired to each other.
LEMMA WiringStep ==
    ASSUME BaseInv, Next
    PROVE  Wiring'
<1>0. /\ TypeOK /\ (\A d \in Devices : DeviceWired(d)) /\ (\A x \in Slots : SlotWired(x))
      /\ \A d \in Devices : dev[d] \in Device /\ dev[d].conn \in Slots \cup {0}
    BY DEF BaseInv, Wiring, TypeOK, Device
<1>1. ASSUME NEW d \in Devices, DeviceSend(d) PROVE Wiring'
  <2>1. PICK x \in Slots :
          /\ conn[x].st = "free"
          /\ \A y \in Slots : y # x => conn'[y] = conn[y]
          /\ conn'[x].st = "sent" /\ conn'[x].op = dev[d].at /\ conn'[x].from = d
          /\ dev[d].at = "done" => conn'[x].guid = Head(dev[d].todo)
          /\ conn'[x].awaited
          /\ dev[d].at = "mystatus" => conn'[x].n >= 1
          /\ \A e \in Devices : e # d => dev'[e] = dev[e]
          /\ dev'[d].conn = x /\ dev'[d].at = dev[d].at /\ dev'[d].todo = dev[d].todo
      BY <1>1, DeviceSendFacts
  <2>2. dev[d].conn = 0 /\ dev[d].at # "apply"
      BY <1>1 DEF DeviceSend
  <2>3. ASSUME NEW e \in Devices PROVE DeviceWired(e)'
    <3>1. CASE e = d
        BY <1>0, <2>1, <2>2, <3>1 DEF DeviceWired
    <3>2. CASE e # d
        BY <1>0, <2>1, <3>2 DEF DeviceWired
    <3> QED BY <3>1, <3>2
  <2>4. ASSUME NEW y \in Slots PROVE SlotWired(y)'
    <3>1. CASE y = x
      <4>1. dev[d].at \in Ops \ {"inject"}
          BY <1>0, <2>2 DEF Device, Ops
      <4>2. dev[d].at = "done" => Head(dev[d].todo) \in Guids
          BY <1>0, HeadTailProperties DEF DeviceWired, Device
      <4> QED BY <2>1, <3>1, <4>1, <4>2 DEF SlotWired
    <3>2. CASE y # x
      <4>1. conn[y].awaited => conn[y].from # d
          BY <1>0, <2>2, SlotsType DEF SlotWired
      <4> QED BY <1>0, <2>1, <3>2, <4>1 DEF SlotWired
    <3> QED BY <3>1, <3>2
  <2> QED BY <2>3, <2>4 DEF Wiring
<1>2. ASSUME NEW d \in Devices, DeviceReceive(d) PROVE Wiring'
  <2>1. PICK x : x = dev[d].conn
      OBVIOUS
  <2>2. /\ x \in Slots /\ conn[x] \in Conn /\ conn[x].st = "answered" /\ conn'[x] = Idle
        /\ \A y \in Slots : y # x => conn'[y] = conn[y]
        /\ \A e \in Devices : e # d => dev'[e] = dev[e]
        /\ dev'[d].conn = 0
      BY <1>2, <2>1, DeviceReceiveFacts
  <2>3. \/ conn[x].op = "serverinfos" /\ dev'[d].at = "mystatus" /\ dev'[d].todo = dev[d].todo
        \/ conn[x].op = "mystatus" /\ dev'[d].at = "myactions" /\ dev'[d].todo = dev[d].todo
        \/ conn[x].actions # <<>> /\ dev'[d].at = "apply" /\ dev'[d].todo = conn[x].actions
        \/ /\ Len(dev[d].todo) > 1 /\ dev'[d].at = "apply"
           /\ dev'[d].todo = Tail(dev[d].todo)
        \/ dev'[d].at = "serverinfos" /\ dev'[d].todo = <<>>
      BY <1>2, <2>1, DeviceReceiveFacts
  <2>4. ASSUME NEW e \in Devices PROVE DeviceWired(e)'
    <3>1. CASE e = d
      <4>1. conn[x].op = dev[d].at
          BY <1>0, <2>1, <2>2, SlotsType DEF DeviceWired
      <4>2. Len(dev[d].todo) > 1 => Tail(dev[d].todo) # <<>>
        <5>1. dev[d].todo \in Seq(Guids) /\ Len(<<>>) = 0
            BY <1>0, EmptySeq DEF Device
        <5> QED BY <5>1, TailOf
      <4> QED BY <1>0, <2>2, <2>3, <3>1, <4>1, <4>2 DEF DeviceWired
    <3>2. CASE e # d
      <4>1. dev[e].conn # x
          BY <1>0, <2>1, <2>2, <3>2, SlotsType DEF DeviceWired
      <4> QED BY <1>0, <2>2, <3>2, <4>1 DEF DeviceWired
    <3> QED BY <3>1, <3>2
  <2>5. ASSUME NEW y \in Slots PROVE SlotWired(y)'
    <3>1. CASE y = x
        BY <2>2, <3>1 DEF SlotWired, Idle
    <3>2. CASE y # x
      <4>1. conn[y].awaited => conn[y].from # d
          BY <1>0, <2>1, <3>2 DEF SlotWired
      <4> QED BY <1>0, <2>2, <3>2, <4>1 DEF SlotWired
    <3> QED BY <3>1, <3>2
  <2> QED BY <2>4, <2>5 DEF Wiring
<1>3. ASSUME NEW d \in Devices, DeviceApply(d) PROVE Wiring'
  <2>1. PICK f : f = [dev[d] EXCEPT !.at = "done"]
      OBVIOUS
  <2>2. f.at = "done" /\ f.conn = dev[d].conn /\ f.todo = dev[d].todo
      BY <1>0, <2>1 DEF Device
  <2>3. /\ conn' = conn /\ dev[d].at = "apply" /\ dev'[d] = f
        /\ \A e \in Devices : e # d => dev'[e] = dev[e]
      BY <1>0, <1>3, <2>1 DEF DeviceApply, TypeOK
  <2>4. ASSUME NEW e \in Devices PROVE DeviceWired(e)'
      BY <1>0, <2>2, <2>3 DEF DeviceWired
  <2>5. ASSUME NEW y \in Slots PROVE SlotWired(y)'
      BY <1>0, <2>2, <2>3 DEF SlotWired
  <2> QED BY <2>4, <2>5 DEF Wiring
<1>4. ASSUME NEW d \in Devices, Timeout(d) PROVE Wiring'
  <2>1. PICK x : x = dev[d].conn
      OBVIOUS
  <2>2. /\ x \in Slots /\ GiveUp(d, x)
        /\ \A y \in Slots : y # x => conn'[y] = conn[y]
        /\ conn[x].st = "answered" => conn'[x] = Idle
        /\ conn[x].st # "answered" =>
              /\ conn'[x].st = conn[x].st /\ ~conn'[x].awaited
              /\ conn'[x].op = conn[x].op /\ conn'[x].from = conn[x].from
              /\ conn'[x].guid = conn[x].guid /\ conn'[x].n = conn[x].n
      BY <1>4, <2>1, TimeoutFacts
  <2>3. conn[x].st \in {"sent", "serving", "answered"}
      BY <1>0, <2>1, <2>2, SlotsType DEF DeviceWired, TypeOK, Conn
  <2> QED BY <2>1, <2>2, <2>3, GiveUpWiring
<1>5. ASSUME NEW x \in Slots, Unauthorized(x) PROVE Wiring'
  <2>1. Answer(x, 401, <<>>) /\ dev' = dev /\ conn[x].st # "free"
      BY <1>5 DEF Unauthorized
  <2> QED BY <2>1, AnswerWiring, AnswerArguments
<1>6. ASSUME NEW x \in Slots, GetServerInfos(x) PROVE Wiring'
  <2>1. Answer(x, 200, <<>>) /\ dev' = dev /\ conn[x].st # "free"
      BY <1>6 DEF GetServerInfos, Handling
  <2> QED BY <2>1, AnswerWiring, AnswerArguments
<1>7. ASSUME NEW x \in Slots, PostMyStatusEntry(x) PROVE Wiring'
  <2>1. /\ \A y \in Slots : y # x => conn'[y] = conn[y]
        /\ conn'[x].st = "serving" /\ conn'[x].op = "mystatus" /\ conn[x].op = "mystatus"
        /\ conn'[x].from = conn[x].from /\ conn'[x].n = conn[x].n
        /\ conn'[x].awaited = conn[x].awaited
      BY <1>7, EntryFacts
  <2>2. dev' = dev /\ conn[x].st # "free"
      BY <1>7 DEF PostMyStatusEntry, Handling
  <2>3. ASSUME NEW e \in Devices PROVE DeviceWired(e)'
    <3>1. CASE dev[e].conn = x
        BY <1>0, <2>1, <2>2, <3>1, SlotsType DEF DeviceWired
    <3>2. CASE dev[e].conn # x
        BY <1>0, <2>1, <2>2, <3>2 DEF DeviceWired
    <3> QED BY <3>1, <3>2
  <2>4. ASSUME NEW y \in Slots PROVE SlotWired(y)'
    <3>1. CASE y = x
        BY <1>0, <2>1, <2>2, <3>1 DEF SlotWired, Ops
    <3>2. CASE y # x
        BY <1>0, <2>1, <2>2, <3>2 DEF SlotWired
    <3> QED BY <3>1, <3>2
  <2> QED BY <2>3, <2>4 DEF Wiring
<1>8. ASSUME NEW x \in Slots, PostMyStatusEnd(x) PROVE Wiring'
  <2>1. Answer(x, 201, <<>>) /\ dev' = dev /\ conn[x].st # "free"
      BY <1>8 DEF PostMyStatusEnd, Handling
  <2> QED BY <2>1, AnswerWiring, AnswerArguments
<1>9. ASSUME NEW x \in Slots, GetMyActions(x) PROVE Wiring'
  <2>1. Answer(x, 200, queue) /\ dev' = dev /\ conn[x].st # "free" /\ queue \in Seq(Guids)
      BY <1>0, <1>9 DEF GetMyActions, Handling, TypeOK
  <2> QED BY <2>1, AnswerWiring, AnswerArguments
<1>10. ASSUME NEW x \in Slots, PostDone(x) PROVE Wiring'
  <2>1. PICK code \in Codes : Answer(x, code, <<>>)
      BY <1>10, AnswerArguments DEF PostDone
  <2>2. dev' = dev /\ conn[x].st # "free"
      BY <1>10 DEF PostDone, Handling
  <2> QED BY <2>1, <2>2, AnswerWiring, AnswerArguments
<1>11. ASSUME NEW x \in Slots, PostAdminInject(x) PROVE Wiring'
  <2>1. Answer(x, 200, <<>>) /\ dev' = dev /\ conn[x].st # "free"
      BY <1>11 DEF PostAdminInject, Handling
  <2> QED BY <2>1, AnswerWiring, AnswerArguments
<1>12. ASSUME NEW x \in Slots, Drop(x) PROVE Wiring'
  <2>1. conn' = [conn EXCEPT ![x] = Idle] /\ conn \in [Slots -> Conn]
      BY <1>0, <1>12 DEF Drop, TypeOK
  <2>2. conn'[x] = Idle /\ \A y \in Slots : y # x => conn'[y] = conn[y]
      BY <2>1
  <2>3. CASE conn[x].awaited
    <3>1. /\ conn[x].from \in Devices /\ dev[conn[x].from].conn = x
          /\ GiveUp(conn[x].from, x)
        BY <1>0, <1>12, <2>3 DEF SlotWired, Drop
    <3> QED BY <2>2, <3>1, GiveUpWiring
  <2>4. CASE ~conn[x].awaited
    <3>1. dev' = dev
        BY <1>12, <2>4 DEF Drop
    <3>2. ASSUME NEW e \in Devices PROVE DeviceWired(e)'
      <4>1. dev[e].conn # x
          BY <1>0, <2>4, SlotsType DEF DeviceWired
      <4> QED BY <1>0, <2>2, <3>1, <4>1 DEF DeviceWired
    <3>3. ASSUME NEW y \in Slots PROVE SlotWired(y)'
      <4>1. CASE y = x
          BY <2>2, <4>1 DEF SlotWired, Idle
      <4>2. CASE y # x
          BY <1>0, <2>2, <3>1, <4>2 DEF SlotWired
      <4> QED BY <4>1, <4>2
    <3> QED BY <3>2, <3>3 DEF Wiring
  <2> QED BY <2>3, <2>4
<1>13. ASSUME NEW x \in Slots, BadBody(x) PROVE Wiring'
  <2>1. Answer(x, 400, <<>>) /\ dev' = dev /\ conn[x].st # "free"
      BY <1>13 DEF BadBody
  <2> QED BY <2>1, AnswerWiring, AnswerArguments
<1>14. ASSUME NEW x \in Slots, LostHeaders(x) PROVE Wiring'
  <2>1. Answer(x, 401, <<>>) /\ dev' = dev /\ conn[x].st # "free"
      BY <1>14 DEF LostHeaders
  <2> QED BY <2>1, AnswerWiring, AnswerArguments
<1>15. CASE AdminSend
  <2>1. PICK x \in Slots :
          /\ conn[x].st = "free"
          /\ \A y \in Slots : y # x => conn'[y] = conn[y]
          /\ conn'[x].st = "sent" /\ conn'[x].op = "inject" /\ conn'[x].from = Admin
          /\ ~conn'[x].awaited
      BY <1>15, AdminSendFacts
  <2>2. dev' = dev
      BY <1>15 DEF AdminSend
  <2>3. ASSUME NEW e \in Devices PROVE DeviceWired(e)'
    <3>1. dev[e].conn # x
        BY <1>0, <2>1, SlotsType DEF DeviceWired
    <3> QED BY <1>0, <2>1, <2>2, <3>1 DEF DeviceWired
  <2>4. ASSUME NEW y \in Slots PROVE SlotWired(y)'
    <3>1. CASE y = x
        BY <2>1, <3>1 DEF SlotWired, Ops
    <3>2. CASE y # x
        BY <1>0, <2>1, <2>2, <3>2 DEF SlotWired
    <3> QED BY <3>1, <3>2
  <2> QED BY <2>3, <2>4 DEF Wiring
<1>16. CASE Restart
  <2>1. /\ \A x \in Slots : conn'[x] = Idle
        /\ \A d \in Devices : dev'[d].conn = 0
        /\ \A d \in Devices : dev[d].conn = 0 =>
              dev'[d].at = dev[d].at /\ dev'[d].todo = dev[d].todo
        /\ \A d \in Devices : dev[d].conn # 0 =>
              dev'[d].at = "serverinfos" /\ dev'[d].todo = <<>>
      BY <1>16, RestartFacts
  <2>2. ASSUME NEW e \in Devices PROVE DeviceWired(e)'
      BY <1>0, <2>1 DEF DeviceWired
  <2>3. ASSUME NEW y \in Slots PROVE SlotWired(y)'
    <3>1. ~conn'[y].awaited /\ conn'[y].st = "free" /\ conn'[y] = Idle
        BY <2>1, IdleType
    <3> QED BY <3>1 DEF SlotWired
  <2> QED BY <2>2, <2>3 DEF Wiring
<1> QED BY <1>1, <1>2, <1>3, <1>4, <1>5, <1>6, <1>7, <1>8, <1>9, <1>10, <1>11, <1>12,
           <1>13, <1>14, <1>15, <1>16 DEF Next, Handle, Cycle

\* Every step keeps the queue a list without repetition of injected actions.
LEMMA QueuedStep ==
    ASSUME BaseInv, Next
    PROVE  Queued'
<1>1. CASE UNCHANGED <<queue, order>>
    BY <1>1 DEF BaseInv, Queued
<1>2. ASSUME NEW x \in Slots, PostDone(x) PROVE Queued'
  <2>1. queue' = RemoveFirst(queue, conn[x].guid) /\ order' = order /\ queue \in Seq(Guids)
      BY <1>2 DEF PostDone, BaseInv, TypeOK
  <2>2. Distinct(queue)
      BY DEF BaseInv, Queued
  <2>3. Distinct(queue') /\ ToSet(queue') \subseteq ToSet(queue)
      BY <2>1, <2>2, RemoveFirstDistinct
  <2> QED BY <2>1, <2>3 DEF BaseInv, Queued
<1>3. ASSUME NEW x \in Slots, PostAdminInject(x) PROVE Queued'
  <2>1. PICK g \in Guids \ ToSet(order) : queue' = Append(queue, g) /\ order' = Append(order, g)
      BY <1>3 DEF PostAdminInject
  <2>2. queue \in Seq(Guids) /\ order \in Seq(Guids) /\ Queued
      BY DEF BaseInv, TypeOK
  <2> QED BY <2>1, <2>2, AppendToSet DEF Queued
<1>4. CASE Restart
  <2>1. ToSet(<<>>) = {} /\ Distinct(<<>>)
      BY DEF ToSet, Distinct
  <2> QED BY <1>4, <2>1 DEF Restart, BaseInv, Queued
<1>5. Next => \/ UNCHANGED <<queue, order>> \/ Restart
              \/ \E x \in Slots : PostDone(x) \/ PostAdminInject(x)
    BY ZenonT(40)
       DEF Next, Handle, Cycle, DeviceSend, DeviceReceive, DeviceApply, Timeout, Unauthorized,
           GetServerInfos, PostMyStatusEntry, PostMyStatusEnd, GetMyActions, Drop, BadBody,
           LostHeaders, AdminSend, store, history
<1> QED BY <1>1, <1>2, <1>3, <1>4, <1>5

\* The types, who waits for whom, and that no action is queued twice.
THEOREM Base == Spec => []BaseInv
<1>1. Init => BaseInv
  <2> SUFFICES ASSUME Init PROVE BaseInv
      OBVIOUS
  <2>1. \A d \in Devices : dev[d] = CycleStart
      BY DEF Init
  <2>2. \A x \in Slots : conn[x] = Idle
      BY DEF Init
  <2>3. CycleStart \in Device
      BY EmptySeq, GatewayAssumption DEF CycleStart, Device
  <2>4. TypeOK
    <3>1. conn \in [Slots -> Conn] /\ dev \in [Devices -> Device]
        BY <2>3, IdleType DEF Init
    <3>2. /\ queue \in Seq(Guids) /\ order \in Seq(Guids)
          /\ applied \in [Devices -> Seq(Guids)]
        BY EmptySeq DEF Init
    <3>3. table \in [Clients -> [ToSet(Ek) -> (Devices \X (1 .. MaxReports)) \cup {NoReport}]]
        BY DEF Init, EmptyTables
    <3> QED BY <3>1, <3>2, <3>3, GatewayAssumption DEF Init, TypeOK
  <2>5. Wiring
    <3>1. ASSUME NEW d \in Devices PROVE DeviceWired(d)
      <4>1. dev[d].conn = 0 /\ dev[d].at = "serverinfos" /\ dev[d].todo = <<>>
          BY <2>1 DEF CycleStart
      <4> QED BY <4>1 DEF DeviceWired
    <3>2. ASSUME NEW x \in Slots PROVE SlotWired(x)
      <4>1. ~conn[x].awaited /\ conn[x].st = "free" /\ conn[x] = Idle
          BY <2>2, IdleType
      <4> QED BY <4>1 DEF SlotWired
    <3> QED BY <3>1, <3>2 DEF Wiring
  <2>6. Queued
      BY DEF Init, Queued, Distinct, ToSet
  <2> QED BY <2>4, <2>5, <2>6 DEF BaseInv
<1>2. BaseInv /\ [Next]_vars => BaseInv'
  <2>1. ASSUME BaseInv, Next PROVE BaseInv'
      BY <2>1, TypeStep, WiringStep, QueuedStep DEF BaseInv
  <2>2. ASSUME BaseInv, UNCHANGED vars PROVE BaseInv'
      BY <2>2 DEF BaseInv, TypeOK, Wiring, DeviceWired, SlotWired, Queued, vars, store, history
  <2> QED BY <2>1, <2>2
<1> QED BY <1>1, <1>2, PTL DEF Spec

\* Every record keeps its type, whatever the sizes of the system.
THEOREM TypeCorrect == Spec => []TypeOK
BY Base, PTL DEF BaseInv

-----------------------------------------------------------------------------
(* Users without valid credentials.                                        *)

\* Where a device without valid credentials is stuck.
Stranger(d) ==
    /\ dev[d].at = "serverinfos" /\ applied[d] = <<>> /\ ~connected[d]
    /\ \A k \in ToSet(Ek) : table[d][k] = NoReport

\* What a request without valid credentials can be, and what it is told.
Refused(x) == conn[x].st # "free" /\ conn[x].from \notin Registered =>
    conn[x].op \in {"serverinfos", "inject"} /\ conn[x].code \notin {200, 201}

Strangers ==
    /\ \A d \in Devices \ Registered : Stranger(d)
    /\ Admin \notin Registered => order = <<>>
    /\ \A x \in Slots : Refused(x)

\* Only a request with valid credentials is told 200 or 201.
LEMMA AnswerRefused ==
    ASSUME BaseInv, Strangers, NEW x \in Slots, NEW code \in Codes, NEW actions \in Seq(Guids),
           Answer(x, code, actions), conn[x].st # "free",
           code \in {200, 201} => conn[x].from \in Registered
    PROVE  \A y \in Slots : Refused(y)'
<1>1. /\ \A y \in Slots : y # x => conn'[y] = conn[y]
      /\ ~conn[x].awaited => conn'[x] = Idle
      /\ conn[x].awaited => /\ conn'[x].op = conn[x].op /\ conn'[x].from = conn[x].from
                            /\ conn'[x].code = code
    BY AnswerFacts
<1> TAKE y \in Slots
<1>2. Refused(x) /\ Refused(y)
    BY DEF Strangers
<1>3. CASE y # x
    BY <1>1, <1>2, <1>3 DEF Refused
<1>4. CASE y = x /\ conn[x].awaited
    BY <1>1, <1>2, <1>4 DEF Refused
<1>5. CASE y = x /\ ~conn[x].awaited
    BY <1>1, <1>5, IdleType DEF Refused
<1> QED BY <1>3, <1>4, <1>5

\* With authentication, every step keeps strangers without effect.
LEMMA StrangersStep ==
    ASSUME AuthEnabled, BaseInv, Strangers, Next
    PROVE  Strangers'
<1>0. /\ \A d \in Devices \ Registered : Stranger(d)
      /\ \A x \in Slots : Refused(x) /\ SlotWired(x)
      /\ \A d \in Devices : DeviceWired(d)
      /\ TypeOK /\ \A x \in Slots : Authorized(x) => conn[x].from \in Registered
    BY DEF BaseInv, Wiring, Strangers, Authorized
<1>1. ASSUME NEW d \in Devices, DeviceSend(d) PROVE Strangers'
  <2>1. PICK x \in Slots :
          /\ \A y \in Slots : y # x => conn'[y] = conn[y]
          /\ conn'[x].op = dev[d].at /\ conn'[x].from = d /\ conn'[x].code = 0
          /\ \A e \in Devices : e # d => dev'[e] = dev[e]
          /\ dev'[d].at = dev[d].at
      BY <1>1, DeviceSendFacts
  <2>2. ASSUME NEW y \in Slots PROVE Refused(y)'
    <3>1. CASE y = x
        BY <1>0, <2>1, <3>1 DEF Refused, Stranger
    <3>2. CASE y # x
        BY <1>0, <2>1, <3>2 DEF Refused
    <3> QED BY <3>1, <3>2
  <2>3. UNCHANGED <<connected, table, applied, order>>
      BY <1>1 DEF DeviceSend, store, history
  <2>4. ASSUME NEW e \in Devices \ Registered PROVE Stranger(e)'
      BY <1>0, <2>1, <2>3 DEF Stranger
  <2> QED BY <2>2, <2>3, <2>4 DEF Strangers
<1>2. ASSUME NEW d \in Devices, DeviceReceive(d) PROVE Strangers'
  <2>1. PICK x : x = dev[d].conn
      OBVIOUS
  <2>2. /\ x \in Slots /\ conn'[x] = Idle /\ conn[x].st # "free"
        /\ \A y \in Slots : y # x => conn'[y] = conn[y]
        /\ \A e \in Devices : e # d => dev'[e] = dev[e]
        /\ \/ conn[x].op \in {"mystatus", "myactions", "done"}
           \/ conn[x].code = 200
           \/ dev'[d].at = "serverinfos"
      BY <1>2, <2>1, DeviceReceiveFacts
  <2>3. conn[x].from = d
      BY <1>0, <2>1, <2>2, SlotsType DEF DeviceWired
  <2>4. UNCHANGED <<connected, table, applied, order>>
      BY <1>2 DEF DeviceReceive, store, history
  <2>5. ASSUME NEW y \in Slots PROVE Refused(y)'
      BY <1>0, <2>2, IdleType DEF Refused
  <2>6. ASSUME NEW e \in Devices \ Registered PROVE Stranger(e)'
    <3>1. e = d => dev'[d].at = "serverinfos"
        BY <1>0, <2>2, <2>3 DEF Refused
    <3> QED BY <1>0, <2>2, <2>4, <3>1 DEF Stranger
  <2> QED BY <2>4, <2>5, <2>6 DEF Strangers
<1>3. ASSUME NEW d \in Devices, DeviceApply(d) PROVE Strangers'
  <2>1. d \in Registered
      BY <1>0, <1>3 DEF DeviceApply, Stranger
  <2>2. /\ conn' = conn /\ UNCHANGED <<connected, table, order>>
        /\ \A e \in Devices : e # d => dev'[e] = dev[e] /\ applied'[e] = applied[e]
      BY <1>0, <1>3 DEF DeviceApply, TypeOK, store
  <2> QED BY <2>1, <2>2 DEF Strangers, Stranger, Refused
<1>4. ASSUME NEW d \in Devices, Timeout(d) PROVE Strangers'
  <2>1. PICK x : x = dev[d].conn
      OBVIOUS
  <2>2. /\ x \in Slots /\ GiveUp(d, x)
        /\ \A y \in Slots : y # x => conn'[y] = conn[y]
        /\ conn[x].st = "answered" => conn'[x] = Idle
        /\ conn[x].st # "answered" =>
              /\ conn'[x].st = conn[x].st
              /\ conn'[x].op = conn[x].op /\ conn'[x].from = conn[x].from
              /\ conn'[x].code = conn[x].code
      BY <1>4, <2>1, TimeoutFacts
  <2>3. dev'[d].at = "serverinfos" /\ \A e \in Devices : e # d => dev'[e] = dev[e]
      BY <2>1, <2>2, GiveUpFacts
  <2>4. UNCHANGED <<connected, table, applied, order>>
      BY <1>4 DEF Timeout, store
  <2>5. ASSUME NEW y \in Slots PROVE Refused(y)'
      BY <1>0, <2>2, IdleType DEF Refused
  <2>6. ASSUME NEW e \in Devices \ Registered PROVE Stranger(e)'
      BY <1>0, <2>3, <2>4 DEF Stranger
  <2> QED BY <2>4, <2>5, <2>6 DEF Strangers
<1>5. ASSUME NEW x \in Slots, UNCHANGED <<connected, table, applied, order, dev>>,
             NEW code \in Codes, NEW actions \in Seq(Guids), Answer(x, code, actions),
             conn[x].st # "free", code \in {200, 201} => conn[x].from \in Registered
      PROVE  Strangers'
  <2>1. \A y \in Slots : Refused(y)'
      BY <1>5, AnswerRefused
  <2> QED BY <1>5, <2>1 DEF Strangers, Stranger
<1>6. ASSUME NEW x \in Slots, Unauthorized(x) \/ BadBody(x) \/ LostHeaders(x) PROVE Strangers'
  <2>1. /\ UNCHANGED <<connected, table, applied, order, dev>> /\ conn[x].st # "free"
        /\ Answer(x, 401, <<>>) \/ Answer(x, 400, <<>>)
      BY <1>6 DEF Unauthorized, BadBody, LostHeaders, store, history
  <2>2. PICK code \in Codes \ {200, 201} : Answer(x, code, <<>>)
      BY <2>1, AnswerArguments
  <2> QED BY <1>5, <2>1, <2>2, AnswerArguments
<1>7. ASSUME NEW x \in Slots, GetServerInfos(x) \/ GetMyActions(x) PROVE Strangers'
  <2>1. /\ UNCHANGED <<connected, table, applied, order, dev>> /\ conn[x].st # "free"
        /\ Answer(x, 200, <<>>) \/ Answer(x, 200, queue)
        /\ conn[x].from \in Registered /\ queue \in Seq(Guids)
      BY <1>0, <1>7 DEF GetServerInfos, GetMyActions, Handling, store, history, TypeOK
  <2> QED BY <1>5, <2>1, AnswerArguments
<1>8. ASSUME NEW x \in Slots, PostMyStatusEntry(x) PROVE Strangers'
  <2>1. /\ \A y \in Slots : y # x => conn'[y] = conn[y]
        /\ conn'[x].st = "serving" /\ conn'[x].from = conn[x].from
      BY <1>8, EntryFacts
  <2>2. /\ UNCHANGED <<connected, applied, order, dev>> /\ conn[x].from \in Registered
        /\ table' = [table EXCEPT ![conn[x].from][Ek[conn[x].pos]] = <<conn[x].from, conn[x].n>>]
      BY <1>0, <1>8 DEF PostMyStatusEntry, Handling, ClientOf, history
  <2>3. ASSUME NEW d \in Devices \ Registered PROVE table'[d] = table[d]
      BY <1>0, <2>2 DEF TypeOK, Clients
  <2>4. ASSUME NEW y \in Slots PROVE Refused(y)'
      BY <1>0, <2>1, <2>2 DEF Refused
  <2>5. ASSUME NEW d \in Devices \ Registered PROVE Stranger(d)'
      BY <1>0, <2>2, <2>3 DEF Stranger
  <2> QED BY <2>2, <2>4, <2>5 DEF Strangers
<1>9. ASSUME NEW x \in Slots, PostMyStatusEnd(x) PROVE Strangers'
  <2>1. /\ UNCHANGED <<table, applied, order, dev>> /\ conn[x].from \in Registered
        /\ connected' = [connected EXCEPT ![conn[x].from] = TRUE]
        /\ Answer(x, 201, <<>>) /\ conn[x].st # "free"
      BY <1>0, <1>9 DEF PostMyStatusEnd, Handling, ClientOf, history
  <2>2. \A y \in Slots : Refused(y)'
      BY <2>1, AnswerRefused, AnswerArguments
  <2>3. ASSUME NEW d \in Devices \ Registered PROVE Stranger(d)'
      BY <1>0, <2>1 DEF Stranger, TypeOK, Clients
  <2> QED BY <2>1, <2>2, <2>3 DEF Strangers
<1>10. ASSUME NEW x \in Slots, PostDone(x) PROVE Strangers'
  <2>1. PICK code \in Codes : Answer(x, code, <<>>)
      BY <1>10, AnswerArguments DEF PostDone
  <2>2. /\ UNCHANGED <<connected, table, applied, order, dev>>
        /\ conn[x].st # "free" /\ conn[x].from \in Registered
      BY <1>0, <1>10 DEF PostDone, Handling
  <2> QED BY <1>5, <2>1, <2>2, AnswerArguments
<1>11. ASSUME NEW x \in Slots, PostAdminInject(x) PROVE Strangers'
  <2>1. /\ UNCHANGED <<connected, table, applied, dev>>
        /\ conn[x].st # "free" /\ conn[x].from \in Registered /\ conn[x].op = "inject"
        /\ Answer(x, 200, <<>>)
      BY <1>0, <1>11 DEF PostAdminInject, Handling
  <2>2. Admin \in Registered
      BY <1>0, <2>1 DEF SlotWired
  <2>3. \A y \in Slots : Refused(y)'
      BY <2>1, AnswerRefused, AnswerArguments
  <2> QED BY <2>1, <2>2, <2>3 DEF Strangers, Stranger
<1>12. ASSUME NEW x \in Slots, Drop(x) PROVE Strangers'
  <2>1. /\ UNCHANGED <<connected, table, applied, order>>
        /\ conn' = [conn EXCEPT ![x] = Idle]
      BY <1>12 DEF Drop, store
  <2>2. ASSUME NEW y \in Slots PROVE Refused(y)'
      BY <1>0, <2>1, IdleType DEF Refused, TypeOK
  <2>3. ASSUME NEW d \in Devices PROVE dev'[d] = dev[d] \/ dev'[d].at = "serverinfos"
    <3>1. CASE conn[x].awaited
      <4>1. /\ conn[x].from \in Devices /\ dev[conn[x].from].conn = x
            /\ GiveUp(conn[x].from, x)
          BY <1>0, <1>12, <3>1 DEF SlotWired, Drop
      <4> QED BY <4>1, GiveUpFacts
    <3>2. CASE ~conn[x].awaited
        BY <1>12, <3>2 DEF Drop
    <3> QED BY <3>1, <3>2
  <2>4. ASSUME NEW d \in Devices \ Registered PROVE Stranger(d)'
      BY <1>0, <2>1, <2>3 DEF Stranger
  <2> QED BY <2>1, <2>2, <2>4 DEF Strangers
<1>13. CASE AdminSend
  <2>1. PICK x \in Slots :
          /\ \A y \in Slots : y # x => conn'[y] = conn[y]
          /\ conn'[x].op = "inject" /\ conn'[x].code = 0
      BY <1>13, AdminSendFacts
  <2>2. ASSUME NEW y \in Slots PROVE Refused(y)'
      BY <1>0, <2>1 DEF Refused
  <2>3. UNCHANGED <<connected, table, applied, order, dev>>
      BY <1>13 DEF AdminSend, store, history
  <2> QED BY <2>2, <2>3 DEF Strangers, Stranger
<1>14. CASE Restart
  <2>1. /\ \A x \in Slots : conn'[x] = Idle
        /\ \A d \in Devices : dev'[d].at = dev[d].at \/ dev'[d].at = "serverinfos"
      BY <1>0, <1>14, RestartFacts DEF TypeOK, Device
  <2>2. /\ UNCHANGED <<applied, order>> /\ \A d \in Devices : ~connected'[d]
        /\ \A d \in Devices, k \in ToSet(Ek) : table'[d][k] = NoReport
      BY <1>14 DEF Restart, EmptyTables, Clients
  <2>3. ASSUME NEW y \in Slots PROVE Refused(y)'
      BY <2>1, IdleType DEF Refused
  <2>4. ASSUME NEW d \in Devices \ Registered PROVE Stranger(d)'
      BY <1>0, <2>1, <2>2 DEF Stranger
  <2> QED BY <2>2, <2>3, <2>4 DEF Strangers
<1> QED BY <1>1, <1>2, <1>3, <1>4, <1>6, <1>7, <1>8, <1>9, <1>10, <1>11, <1>12,
           <1>13, <1>14 DEF Next, Handle, Cycle

\* The record of a device without credentials never leaves its first state.
THEOREM StrangersKept == ASSUME AuthEnabled PROVE Spec => []Strangers
<1>1. Init => Strangers
  <2> SUFFICES ASSUME Init PROVE Strangers
      OBVIOUS
  <2>1. \A d \in Devices : Stranger(d)
      BY DEF Init, Stranger, CycleStart, EmptyTables, Clients
  <2>2. \A x \in Slots : Refused(x)
      BY IdleType DEF Init, Refused
  <2> QED BY <2>1, <2>2 DEF Init, Strangers
<1>2. BaseInv /\ Strangers /\ [Next]_vars => Strangers'
  <2>1. ASSUME BaseInv, Strangers, Next PROVE Strangers'
      BY <2>1, StrangersStep
  <2>2. ASSUME Strangers, UNCHANGED vars PROVE Strangers'
      BY <2>2 DEF Strangers, Stranger, Refused, vars, store, history
  <2> QED BY <2>1, <2>2
<1> QED BY <1>1, <1>2, Base, PTL DEF Spec

\* Who has no valid credentials leaves no trace in the store, and applies
\* nothing: for every set of users and devices, and with everything that is
\* lost, late or restarted.
THEOREM NoTrace == Spec => []StrangersLeaveNoTrace
<1>1. CASE AuthEnabled
  <2>1. Strangers => StrangersLeaveNoTrace
      BY DEF Strangers, Stranger, StrangersLeaveNoTrace
  <2> QED BY <1>1, <2>1, StrangersKept, PTL
<1>2. CASE ~AuthEnabled
  <2>1. StrangersLeaveNoTrace
      BY <1>2 DEF StrangersLeaveNoTrace
  <2> QED BY <2>1, PTL
<1> QED BY <1>1, <1>2

(***************************************************************************)
(* What the server promises.  The way of an action: injected, listed,      *)
(* applied, acknowledged.  At most one acknowledgement succeeds, a device  *)
(* repeats an action only when its acknowledgement was lost, and actions   *)
(* are delivered as Delivery promises.  And status reports: what is in a   *)
(* client's table while the entries of several reports are stored one by   *)
(* one, and when a report was answered.                                    *)
(*                                                                         *)
(* The proofs are by what a step does to one request (SlotStep), to one    *)
(* device (DeviceStep) and to the history (HistoryStep), and for reports   *)
(* to one report (ReportStep) and to the table (TableStep).                *)
(***************************************************************************)

\* The ways a step of the system changes the request in slot y: not at all or
\* without a trace for its sender; it ends; it is answered; it is sent.
SameRequest(y) ==
    /\ conn'[y].op = conn[y].op /\ conn'[y].from = conn[y].from
    /\ conn'[y].guid = conn[y].guid

Keeps(y) ==
    /\ SameRequest(y) /\ conn'[y].actions = conn[y].actions
    /\ conn'[y].st \in {conn[y].st, "serving"}
    /\ conn'[y].st = "serving" => conn[y].st # "free"
    /\ conn'[y].awaited => conn[y].awaited

Ends(y) == conn'[y] = Idle

Answers(y) ==
    /\ SameRequest(y) /\ dev' = dev
    /\ conn[y].st # "free" /\ conn[y].awaited /\ conn'[y].st = "answered"
    /\ conn'[y].actions = <<>> \/ (GetMyActions(y) /\ conn'[y].actions = queue)
    /\ conn[y].op = "done" => PostDone(y) \/ LostHeaders(y) \/ Unauthorized(y)

Sends(y) ==
    /\ conn[y].st = "free" /\ conn'[y].st = "sent" /\ conn'[y].actions = <<>>
    /\ \/ conn'[y].op = "inject"
       \/ \E d \in Devices :
            /\ conn'[y].from = d /\ conn'[y].op = dev[d].at
            /\ dev[d].at = "done" => conn'[y].guid = Head(dev[d].todo)

\* Answering one connection is, for every connection, one of the four kinds.
LEMMA AnswerStep ==
    ASSUME BaseInv, NEW x \in Slots, NEW code \in Codes, NEW actions \in Seq(Guids),
           Answer(x, code, actions), dev' = dev, conn[x].st # "free",
           actions = <<>> \/ (GetMyActions(x) /\ actions = queue),
           conn[x].op = "done" => PostDone(x) \/ LostHeaders(x) \/ Unauthorized(x),
           NEW y \in Slots
    PROVE  Keeps(y) \/ Ends(y) \/ Answers(y)
<1>1. /\ \A z \in Slots : z # x => conn'[z] = conn[z]
      /\ ~conn[x].awaited => conn'[x] = Idle
      /\ conn[x].awaited =>
            /\ conn'[x].st = "answered"
            /\ conn'[x].op = conn[x].op /\ conn'[x].from = conn[x].from
            /\ conn'[x].guid = conn[x].guid /\ conn'[x].actions = actions
    BY AnswerFacts
<1>2. CASE y # x
    BY <1>1, <1>2 DEF Keeps, SameRequest
<1>3. CASE y = x /\ ~conn[x].awaited
    BY <1>1, <1>3 DEF Ends
<1>4. CASE y = x /\ conn[x].awaited
    BY <1>1, <1>4 DEF Answers, SameRequest
<1> QED BY <1>2, <1>3, <1>4

\* Every step is, for a connection, one of the four kinds.
LEMMA SlotStep ==
    ASSUME BaseInv, Next, NEW y \in Slots
    PROVE  Keeps(y) \/ Ends(y) \/ Answers(y) \/ Sends(y)
<1>0. TypeOK /\ \A x \in Slots : SlotWired(x)
    BY DEF BaseInv, Wiring
<1>1. ASSUME NEW d \in Devices, DeviceSend(d) PROVE Keeps(y) \/ Sends(y)
  <2>1. PICK x \in Slots :
          /\ conn[x].st = "free" /\ conn'[x].st = "sent" /\ conn'[x].actions = <<>>
          /\ \A z \in Slots : z # x => conn'[z] = conn[z]
          /\ conn'[x].op = dev[d].at /\ conn'[x].from = d
          /\ dev[d].at = "done" => conn'[x].guid = Head(dev[d].todo)
      BY <1>1, DeviceSendFacts
  <2>2. CASE y = x
      BY <2>1, <2>2 DEF Sends
  <2>3. CASE y # x
      BY <2>1, <2>3 DEF Keeps, SameRequest
  <2> QED BY <2>2, <2>3
<1>2. ASSUME NEW d \in Devices, DeviceReceive(d) PROVE Keeps(y) \/ Ends(y)
  <2>1. PICK x : x = dev[d].conn
      OBVIOUS
  <2>2. conn'[x] = Idle /\ \A z \in Slots : z # x => conn'[z] = conn[z]
      BY <1>2, <2>1, DeviceReceiveFacts
  <2> QED BY <2>2 DEF Keeps, SameRequest, Ends
<1>3. ASSUME NEW d \in Devices, DeviceApply(d) PROVE Keeps(y)
    BY <1>3 DEF DeviceApply, Keeps, SameRequest
<1>4. ASSUME NEW d \in Devices, Timeout(d) PROVE Keeps(y) \/ Ends(y)
  <2>1. PICK x : x = dev[d].conn
      OBVIOUS
  <2>2. /\ x \in Slots
        /\ \A z \in Slots : z # x => conn'[z] = conn[z]
        /\ conn[x].st = "answered" => conn'[x] = Idle
        /\ conn[x].st # "answered" =>
              /\ conn'[x].st = conn[x].st /\ ~conn'[x].awaited
              /\ conn'[x].op = conn[x].op /\ conn'[x].from = conn[x].from
              /\ conn'[x].guid = conn[x].guid /\ conn'[x].actions = conn[x].actions
      BY <1>4, <2>1, TimeoutFacts
  <2> QED BY <2>2 DEF Keeps, SameRequest, Ends
<1>5. ASSUME NEW x \in Slots, Unauthorized(x) \/ LostHeaders(x)
      PROVE  Keeps(y) \/ Ends(y) \/ Answers(y)
  <2>1. Answer(x, 401, <<>>) /\ dev' = dev /\ conn[x].st # "free"
      BY <1>5 DEF Unauthorized, LostHeaders
  <2> QED BY <1>5, <2>1, AnswerStep, AnswerArguments
<1>6. ASSUME NEW x \in Slots, GetServerInfos(x) PROVE Keeps(y) \/ Ends(y) \/ Answers(y)
  <2>1. Answer(x, 200, <<>>) /\ dev' = dev /\ conn[x].st # "free" /\ conn[x].op # "done"
      BY <1>6 DEF GetServerInfos, Handling
  <2> QED BY <2>1, AnswerStep, AnswerArguments
<1>7. ASSUME NEW x \in Slots, PostMyStatusEntry(x) PROVE Keeps(y)
  <2>1. /\ \A z \in Slots : z # x => conn'[z] = conn[z]
        /\ conn'[x].st = "serving" /\ conn'[x].op = conn[x].op
        /\ conn'[x].from = conn[x].from /\ conn'[x].guid = conn[x].guid
        /\ conn'[x].awaited = conn[x].awaited /\ conn'[x].actions = conn[x].actions
      BY <1>7, EntryFacts
  <2>2. conn[x].st # "free"
      BY <1>7 DEF PostMyStatusEntry, Handling
  <2> QED BY <2>1, <2>2 DEF Keeps, SameRequest
<1>8. ASSUME NEW x \in Slots, PostMyStatusEnd(x) PROVE Keeps(y) \/ Ends(y) \/ Answers(y)
  <2>1. Answer(x, 201, <<>>) /\ dev' = dev /\ conn[x].st # "free" /\ conn[x].op # "done"
      BY <1>8 DEF PostMyStatusEnd, Handling
  <2> QED BY <2>1, AnswerStep, AnswerArguments
<1>9. ASSUME NEW x \in Slots, GetMyActions(x) PROVE Keeps(y) \/ Ends(y) \/ Answers(y)
  <2>1. /\ Answer(x, 200, queue) /\ dev' = dev /\ conn[x].st # "free" /\ conn[x].op # "done"
        /\ queue \in Seq(Guids)
      BY <1>0, <1>9 DEF GetMyActions, Handling, TypeOK
  <2> QED BY <1>9, <2>1, AnswerStep, AnswerArguments
<1>10. ASSUME NEW x \in Slots, PostDone(x) PROVE Keeps(y) \/ Ends(y) \/ Answers(y)
  <2>1. PICK code \in Codes : Answer(x, code, <<>>)
      BY <1>10, AnswerArguments DEF PostDone
  <2>2. dev' = dev /\ conn[x].st # "free"
      BY <1>10 DEF PostDone, Handling
  <2> QED BY <1>10, <2>1, <2>2, AnswerStep, AnswerArguments
<1>11. ASSUME NEW x \in Slots, PostAdminInject(x) PROVE Keeps(y) \/ Ends(y) \/ Answers(y)
  <2>1. Answer(x, 200, <<>>) /\ dev' = dev /\ conn[x].st # "free" /\ conn[x].op # "done"
      BY <1>11 DEF PostAdminInject, Handling
  <2> QED BY <2>1, AnswerStep, AnswerArguments
<1>12. ASSUME NEW x \in Slots, Drop(x) PROVE Keeps(y) \/ Ends(y)
    BY <1>0, <1>12 DEF Drop, TypeOK, Keeps, SameRequest, Ends
<1>13. ASSUME NEW x \in Slots, BadBody(x) PROVE Keeps(y) \/ Ends(y) \/ Answers(y)
  <2>1. Answer(x, 400, <<>>) /\ dev' = dev /\ conn[x].st # "free" /\ conn[x].op # "done"
      BY <1>13 DEF BadBody
  <2> QED BY <2>1, AnswerStep, AnswerArguments
<1>14. CASE AdminSend
  <2>1. PICK x \in Slots :
          /\ \A z \in Slots : z # x => conn'[z] = conn[z]
          /\ conn[x].st = "free" /\ conn'[x].st = "sent" /\ conn'[x].op = "inject"
          /\ conn'[x].actions = <<>>
      BY <1>14, AdminSendFacts
  <2> QED BY <2>1 DEF Keeps, SameRequest, Sends
<1>15. CASE Restart
    BY <1>15, RestartFacts DEF Ends
<1> QED BY <1>1, <1>2, <1>3, <1>4, <1>5, <1>6, <1>7, <1>8, <1>9, <1>10, <1>11, <1>12,
           <1>13, <1>14, <1>15 DEF Next, Handle, Cycle

\* The ways a step changes what device d has to do: not at all; the list is
\* empty, which it only becomes when the last done was answered or given up;
\* the next action was applied, the list was fetched, the next one is due.
Stays(d) == dev'[d].at = dev[d].at /\ dev'[d].todo = dev[d].todo

Emptied(d) ==
    /\ dev'[d].at \notin {"apply", "done"} /\ dev'[d].todo = <<>>
    /\ dev[d].at = "done" =>
        \/ Head(dev[d].todo) \in unconfirmed'[d]
        \/ dev[d].conn # 0 /\ conn[dev[d].conn].st = "answered"

Applies(d) == DeviceApply(d) /\ dev'[d].at = "done" /\ dev'[d].todo = dev[d].todo

Fetched(d) ==
    /\ dev[d].at = "myactions" /\ dev'[d].at = "apply"
    /\ dev[d].conn # 0 /\ dev'[d].todo = conn[dev[d].conn].actions

Proceeds(d) ==
    /\ dev[d].at = "done" /\ dev'[d].at = "apply"
    /\ dev[d].conn # 0 /\ conn[dev[d].conn].st = "answered"
    /\ Len(dev[d].todo) > 1 /\ dev'[d].todo = Tail(dev[d].todo)

\* Every step is, for a device, one of the five kinds.
LEMMA DeviceStep ==
    ASSUME BaseInv, Next, NEW d \in Devices
    PROVE  Stays(d) \/ Emptied(d) \/ Applies(d) \/ Fetched(d) \/ Proceeds(d)
<1>0. /\ TypeOK /\ \A x \in Slots : SlotWired(x)
      /\ \A e \in Devices : DeviceWired(e) /\ dev[e] \in Device
    BY DEF BaseInv, Wiring, TypeOK
<1>1. CASE dev' = dev
    BY <1>1 DEF Stays
<1>2. ASSUME NEW e \in Devices, DeviceSend(e) PROVE Stays(d)
    BY <1>2, DeviceSendFacts DEF Stays
<1>3. ASSUME NEW e \in Devices, DeviceReceive(e)
      PROVE  Stays(d) \/ Emptied(d) \/ Fetched(d) \/ Proceeds(d)
  <2>1. CASE e # d
      BY <1>3, <2>1, DeviceReceiveFacts DEF Stays
  <2>2. CASE e = d
    <3>1. PICK x : x = dev[d].conn
        OBVIOUS
    <3>2. /\ x \in Slots /\ conn[x].st = "answered"
          /\ \/ /\ conn[x].op = "serverinfos" /\ dev'[d].at = "mystatus"
                /\ dev'[d].todo = dev[d].todo
             \/ /\ conn[x].op = "mystatus" /\ dev'[d].at = "myactions"
                /\ dev'[d].todo = dev[d].todo
             \/ /\ conn[x].op = "myactions" /\ dev'[d].at = "apply"
                /\ dev'[d].todo = conn[x].actions
             \/ /\ conn[x].op = "done" /\ Len(dev[d].todo) > 1 /\ dev'[d].at = "apply"
                /\ dev'[d].todo = Tail(dev[d].todo)
             \/ dev'[d].at = "serverinfos" /\ dev'[d].todo = <<>>
        BY <1>3, <2>2, <3>1, DeviceReceiveFacts
    <3>3. x # 0 /\ conn[x].op = dev[d].at
        BY <1>0, <3>1, <3>2, SlotsType DEF DeviceWired
    <3>4. dev[d].at \notin {"apply", "done"} => dev[d].todo = <<>>
        BY <1>0 DEF DeviceWired
    <3> QED BY <3>1, <3>2, <3>3, <3>4 DEF Emptied, Fetched, Proceeds
  <2> QED BY <2>1, <2>2
<1>4. ASSUME NEW e \in Devices, DeviceApply(e) PROVE Stays(d) \/ Applies(d)
  <2>1. PICK f : f = [dev[e] EXCEPT !.at = "done"]
      OBVIOUS
  <2>2. f.at = "done" /\ f.todo = dev[e].todo
      BY <1>0, <2>1 DEF Device
  <2>3. dev'[e] = f /\ \A g \in Devices : g # e => dev'[g] = dev[g]
      BY <1>0, <1>4, <2>1 DEF DeviceApply, TypeOK
  <2> QED BY <1>4, <2>2, <2>3 DEF Stays, Applies
<1>5. ASSUME NEW e \in Devices, dev[e].conn \in Slots, GiveUp(e, dev[e].conn)
      PROVE  Stays(d) \/ Emptied(d)
    BY <1>5, GiveUpFacts DEF Stays, Emptied
<1>6. ASSUME NEW e \in Devices, Timeout(e) PROVE Stays(d) \/ Emptied(d)
    BY <1>5, <1>6, TimeoutFacts
<1>7. ASSUME NEW x \in Slots, Drop(x) PROVE Stays(d) \/ Emptied(d)
  <2>1. CASE conn[x].awaited
    <3>1. /\ conn[x].from \in Devices /\ dev[conn[x].from].conn = x
          /\ GiveUp(conn[x].from, x)
        BY <1>0, <1>7, <2>1 DEF SlotWired, Drop
    <3> QED BY <1>5, <3>1
  <2>2. CASE ~conn[x].awaited
      BY <1>7, <2>2 DEF Drop, Stays
  <2> QED BY <2>1, <2>2
<1>8. CASE Restart
  <2>1. dev[d].conn = 0 => Stays(d)
      BY <1>8, RestartFacts DEF Stays
  <2>2. dev[d].conn # 0 => Emptied(d)
      BY <1>8, RestartFacts DEF Emptied
  <2> QED BY <2>1, <2>2
<1> QED BY <1>1, <1>2, <1>3, <1>4, <1>6, <1>7, <1>8 DEF Next, Handle, Cycle,
      Unauthorized, GetServerInfos, PostMyStatusEntry, PostMyStatusEnd, GetMyActions,
      PostDone, PostAdminInject, BadBody, LostHeaders, AdminSend

\* What a step does to the history: it only adds, and what was injected does
\* not come back into the queue.
LEMMA HistoryStep ==
    ASSUME BaseInv, Next
    PROVE  /\ ToSet(order) \subseteq ToSet(order')
           /\ ToSet(queue') \cap ToSet(order) \subseteq ToSet(queue)
           /\ \A d \in Devices : /\ ToSet(applied[d]) \subseteq ToSet(applied'[d])
                                 /\ unconfirmed[d] \subseteq unconfirmed'[d]
<1>0. TypeOK /\ \A x \in Slots : SlotWired(x)
    BY DEF BaseInv, Wiring
<1>1. CASE UNCHANGED <<queue, order, applied, unconfirmed>>
    BY <1>1
<1>2. ASSUME NEW d \in Devices, DeviceApply(d)
      PROVE  /\ UNCHANGED <<queue, order, unconfirmed>>
             /\ \A e \in Devices : ToSet(applied[e]) \subseteq ToSet(applied'[e])
  <2>1. /\ dev[d].todo \in Seq(Guids) /\ dev[d].todo # <<>>
        /\ applied' = [applied EXCEPT ![d] = Append(@, Head(dev[d].todo))]
        /\ UNCHANGED <<queue, order, unconfirmed>>
      BY <1>0, <1>2 DEF DeviceApply, BaseInv, Wiring, DeviceWired, TypeOK, Device, store
  <2>2. ToSet(applied[d]) \subseteq ToSet(Append(applied[d], Head(dev[d].todo)))
      BY <1>0, <2>1, AppendToSet, TailOf DEF TypeOK
  <2> QED BY <1>0, <2>1, <2>2 DEF TypeOK
<1>3. ASSUME NEW d \in Devices, dev[d].conn \in Slots, GiveUp(d, dev[d].conn)
      PROVE  \A e \in Devices : unconfirmed[e] \subseteq unconfirmed'[e]
    BY <1>3, GiveUpFacts
<1>4. ASSUME NEW d \in Devices, Timeout(d)
      PROVE  /\ UNCHANGED <<queue, order, applied>>
             /\ \A e \in Devices : unconfirmed[e] \subseteq unconfirmed'[e]
    BY <1>3, <1>4, TimeoutFacts DEF Timeout, store
<1>5. ASSUME NEW x \in Slots, Drop(x)
      PROVE  /\ UNCHANGED <<queue, order, applied>>
             /\ \A e \in Devices : unconfirmed[e] \subseteq unconfirmed'[e]
  <2>1. CASE conn[x].awaited
    <3>1. /\ conn[x].from \in Devices /\ dev[conn[x].from].conn = x
          /\ GiveUp(conn[x].from, x)
        BY <1>0, <1>5, <2>1 DEF SlotWired, Drop
    <3> QED BY <1>3, <1>5, <3>1 DEF Drop, store
  <2>2. CASE ~conn[x].awaited
      BY <1>5, <2>2 DEF Drop, store
  <2> QED BY <2>1, <2>2
<1>6. ASSUME NEW x \in Slots, LostHeaders(x)
      PROVE  /\ UNCHANGED <<queue, order, applied>>
             /\ \A e \in Devices : unconfirmed[e] \subseteq unconfirmed'[e]
    BY <1>0, <1>6 DEF LostHeaders, store, TypeOK
<1>7. ASSUME NEW x \in Slots, PostDone(x)
      PROVE  UNCHANGED <<order, applied, unconfirmed>> /\ ToSet(queue') \subseteq ToSet(queue)
  <2>1. queue' = RemoveFirst(queue, conn[x].guid) /\ queue \in Seq(Guids) /\ Distinct(queue)
      BY <1>0, <1>7 DEF PostDone, TypeOK, BaseInv, Queued
  <2>2. ToSet(queue') \subseteq ToSet(queue)
      BY <2>1, RemoveFirstDistinct
  <2> QED BY <1>7, <2>2 DEF PostDone
<1>8. ASSUME NEW x \in Slots, PostAdminInject(x)
      PROVE  /\ UNCHANGED <<applied, unconfirmed>> /\ ToSet(order) \subseteq ToSet(order')
             /\ ToSet(queue') \cap ToSet(order) \subseteq ToSet(queue)
  <2>1. PICK g \in Guids \ ToSet(order) : queue' = Append(queue, g) /\ order' = Append(order, g)
      BY <1>8 DEF PostAdminInject
  <2>2. ToSet(queue') = ToSet(queue) \cup {g} /\ ToSet(order') = ToSet(order) \cup {g}
      BY <1>0, <2>1, AppendToSet DEF TypeOK
  <2> QED BY <1>8, <2>1, <2>2 DEF PostAdminInject
<1>9. CASE Restart
  <2>1. \A d \in Devices : unconfirmed[d] \subseteq unconfirmed'[d]
      BY <1>9, RestartFacts
  <2>2. ToSet(queue') = {} /\ UNCHANGED <<order, applied>>
      BY <1>9 DEF Restart, ToSet
  <2> QED BY <2>1, <2>2
<1>10. Next =>
    \/ UNCHANGED <<queue, order, applied, unconfirmed>> \/ Restart
    \/ \E d \in Devices : DeviceApply(d) \/ Timeout(d)
    \/ \E x \in Slots : PostDone(x) \/ PostAdminInject(x) \/ Drop(x) \/ LostHeaders(x)
    BY ZenonT(40)
       DEF Next, Handle, Cycle, DeviceSend, DeviceReceive, Unauthorized, GetServerInfos,
           PostMyStatusEntry, PostMyStatusEnd, GetMyActions, BadBody, AdminSend, store, history
<1> QED BY <1>1, <1>2, <1>4, <1>5, <1>6, <1>7, <1>8, <1>9, <1>10

-----------------------------------------------------------------------------
(* Where actions can be: every list of them names injected actions, each   *)
(* once; a done request names an action its device applied; and an action  *)
(* that was acknowledged is not queued any more.                           *)

Listed(s) == Distinct(s) /\ ToSet(s) \subseteq ToSet(order)

DeviceList(d) ==
    /\ ToSet(applied[d]) \subseteq ToSet(order)
    /\ Listed(dev[d].todo)
    /\ dev[d].at = "done" => Head(dev[d].todo) \in ToSet(applied[d])

SlotList(x) ==
    /\ Listed(conn[x].actions)
    /\ conn[x].st # "free" /\ conn[x].op = "done" =>
          conn[x].guid \in ToSet(applied[conn[x].from])

Acknowledged(g) == successes[g] # 0 =>
    successes[g] = 1 /\ g \in ToSet(order) /\ g \notin ToSet(queue)

Delivering ==
    /\ \A d \in Devices : DeviceList(d)
    /\ \A x \in Slots : SlotList(x)
    /\ \A g \in Guids : Acknowledged(g)

\* The empty list is a list of actions.
LEMMA EmptyListed == Listed(<<>>)
BY DEF Listed, Distinct, ToSet

\* The rest of a list is a list, and does not name its head again.
LEMMA TailListed ==
    ASSUME NEW s \in Seq(Guids), s # <<>>, Listed(s)
    PROVE  /\ Listed(Tail(s)) /\ Head(s) \notin ToSet(Tail(s))
           /\ ToSet(s) = {Head(s)} \cup ToSet(Tail(s))
<1>1. /\ Head(s) = s[1] /\ Tail(s) \in Seq(Guids) /\ Len(s) \in Nat \ {0}
      /\ DOMAIN s = 1 .. Len(s) /\ DOMAIN Tail(s) = 1 .. Len(s) - 1
      /\ \A i \in 1 .. Len(s) - 1 : Tail(s)[i] = s[i + 1]
    BY TailOf
<1>2. \A i \in DOMAIN Tail(s) : i + 1 \in DOMAIN s /\ i + 1 # 1 /\ Tail(s)[i] = s[i + 1]
    BY <1>1
<1>3. Distinct(Tail(s))
    BY <1>1, <1>2 DEF Listed, Distinct
<1>4. Head(s) \notin ToSet(Tail(s))
    BY <1>1, <1>2 DEF Listed, Distinct, ToSet
<1>5. ToSet(s) = {Head(s)} \cup ToSet(Tail(s))
  <2>1. \A i \in DOMAIN s : i # 1 => i - 1 \in DOMAIN Tail(s) /\ Tail(s)[i - 1] = s[i]
      BY <1>1
  <2>2. ASSUME NEW i \in DOMAIN s PROVE s[i] \in {Head(s)} \cup ToSet(Tail(s))
      BY <1>1, <2>1 DEF ToSet
  <2>3. ToSet(Tail(s)) \subseteq ToSet(s)
      BY <1>2 DEF ToSet
  <2>4. Head(s) \in ToSet(s)
      BY <1>1 DEF ToSet
  <2>5. ToSet(s) \subseteq {Head(s)} \cup ToSet(Tail(s))
      BY <2>2 DEF ToSet
  <2> QED BY <2>3, <2>4, <2>5
<1> QED BY <1>3, <1>4, <1>5 DEF Listed

\* Every step keeps a device's list to injected actions, and its done to an applied one.
LEMMA DeviceListStep ==
    ASSUME BaseInv, Delivering, Next, NEW d \in Devices
    PROVE  DeviceList(d)'
<1>0. /\ DeviceList(d) /\ dev[d].todo \in Seq(Guids)
      /\ ToSet(order) \subseteq ToSet(order')
      /\ ToSet(applied[d]) \subseteq ToSet(applied'[d])
    BY HistoryStep DEF Delivering, BaseInv, TypeOK, Device
<1>1. Listed(dev[d].todo)'
  <2>1. Stays(d) => Listed(dev[d].todo)'
      BY <1>0 DEF Stays, Listed, DeviceList
  <2>2. Emptied(d) => Listed(dev[d].todo)'
      BY <1>0, EmptyListed DEF Emptied, Listed, ToSet
  <2>3. Applies(d) => Listed(dev[d].todo)'
      BY <1>0 DEF Applies, Listed, DeviceList
  <2>4. Fetched(d) => Listed(dev[d].todo)'
    <3>1. dev[d].conn # 0 => dev[d].conn \in Slots
        BY DEF BaseInv, TypeOK, Device
    <3>2. dev[d].conn # 0 => Listed(conn[dev[d].conn].actions)
        BY <3>1 DEF Delivering, SlotList
    <3> QED BY <1>0, <3>2 DEF Fetched, Listed
  <2>5. Proceeds(d) => Listed(dev[d].todo)'
    <3>1. ASSUME Proceeds(d) PROVE dev[d].todo # <<>>
        BY <3>1, EmptySeq DEF Proceeds
    <3>2. Proceeds(d) => Listed(Tail(dev[d].todo))
        BY <1>0, <3>1, TailListed DEF DeviceList
    <3> QED BY <1>0, <3>2 DEF Proceeds, Listed
  <2> QED BY <2>1, <2>2, <2>3, <2>4, <2>5, DeviceStep
<1>2. ToSet(applied'[d]) \subseteq ToSet(order')
  <2>1. CASE applied' = applied
      BY <1>0, <2>1 DEF DeviceList
  <2>2. ASSUME NEW e \in Devices, DeviceApply(e) PROVE ToSet(applied'[d]) \subseteq ToSet(order)
    <3>1. /\ dev[e].todo \in Seq(Guids) /\ dev[e].todo # <<>> /\ applied[e] \in Seq(Guids)
          /\ applied' = [applied EXCEPT ![e] = Append(@, Head(dev[e].todo))]
          /\ applied \in [Devices -> Seq(Guids)]
          /\ Listed(dev[e].todo)
        BY <2>2 DEF DeviceApply, BaseInv, Wiring, DeviceWired, TypeOK, Device, Delivering, DeviceList
    <3>2. Head(dev[e].todo) \in ToSet(order)
        BY <3>1, TailListed DEF Listed
    <3>3. Head(dev[e].todo) \in Guids
        BY <3>1, TailOf
    <3>4. ToSet(Append(applied[e], Head(dev[e].todo))) \subseteq ToSet(order)
        BY <3>1, <3>2, <3>3, AppendToSet DEF Delivering, DeviceList
    <3> QED BY <1>0, <3>1, <3>4 DEF DeviceList
  <2>3. applied' = applied \/ \E e \in Devices : DeviceApply(e)
      BY DEF Next, Handle, Cycle, DeviceSend, DeviceReceive, Timeout, Unauthorized,
             GetServerInfos, PostMyStatusEntry, PostMyStatusEnd, GetMyActions, PostDone,
             PostAdminInject, Drop, BadBody, LostHeaders, AdminSend, Restart, history
  <2> QED BY <1>0, <2>1, <2>2, <2>3
<1>3. dev'[d].at = "done" => Head(dev'[d].todo) \in ToSet(applied'[d])
  <2>1. ASSUME Applies(d) PROVE Head(dev[d].todo) \in ToSet(applied'[d])
    <3>1. /\ dev[d].todo # <<>> /\ applied[d] \in Seq(Guids)
          /\ applied'[d] = Append(applied[d], Head(dev[d].todo))
        BY <2>1 DEF Applies, DeviceApply, BaseInv, Wiring, DeviceWired, TypeOK
    <3> QED BY <1>0, <3>1, TailOf, AppendToSet
  <2> QED BY <1>0, <2>1, DeviceStep DEF Stays, Emptied, Applies, Fetched, Proceeds, DeviceList
<1> QED BY <1>1, <1>2, <1>3 DEF DeviceList

\* Every step keeps an answer's list to injected actions, and a done to an applied one.
LEMMA SlotListStep ==
    ASSUME BaseInv, Delivering, Next, NEW x \in Slots
    PROVE  SlotList(x)'
<1>0. /\ SlotList(x) /\ SlotWired(x) /\ ToSet(order) \subseteq ToSet(order')
      /\ \A d \in Devices : ToSet(applied[d]) \subseteq ToSet(applied'[d])
    BY HistoryStep DEF Delivering, BaseInv, Wiring
<1>1. Listed(<<>>)'
    BY EmptyListed DEF Listed, ToSet, Distinct
<1>2. CASE Keeps(x)
  <2>1. conn'[x].st # "free" => conn[x].st # "free"
      BY <1>2 DEF Keeps
  <2> QED BY <1>0, <1>2, <2>1 DEF Keeps, SameRequest, SlotList, Listed, SlotWired
<1>3. CASE Ends(x)
    BY <1>1, <1>3, IdleType DEF Ends, SlotList
<1>4. CASE Answers(x)
  <2>1. Listed(queue)'  \/ ~GetMyActions(x)
      BY <1>0 DEF GetMyActions, BaseInv, Queued, Listed, store, history
  <2>2. GetMyActions(x) => queue' = queue
      BY DEF GetMyActions, store
  <2>3. Listed(conn[x].actions)'
      BY <1>1, <1>4, <2>1, <2>2 DEF Answers
  <2> QED BY <1>0, <1>4, <2>3 DEF Answers, SameRequest, SlotList, SlotWired
<1>5. CASE Sends(x)
  <2>1. \A d \in Devices : DeviceList(d)
      BY DEF Delivering
  <2> QED BY <1>0, <1>1, <1>5, <2>1 DEF Sends, SlotList, DeviceList
<1> QED BY <1>2, <1>3, <1>4, <1>5, SlotStep

\* Every step keeps an acknowledged action acknowledged once and out of the queue.
LEMMA AcknowledgedStep ==
    ASSUME BaseInv, Delivering, Next, NEW g \in Guids
    PROVE  Acknowledged(g)'
<1>0. /\ Acknowledged(g) /\ successes[g] \in Nat
      /\ ToSet(order) \subseteq ToSet(order')
      /\ ToSet(queue') \cap ToSet(order) \subseteq ToSet(queue)
    BY HistoryStep DEF Delivering, BaseInv, TypeOK
<1>1. CASE successes' = successes
    BY <1>0, <1>1 DEF Acknowledged
<1>2. ASSUME NEW x \in Slots, PostDone(x) PROVE Acknowledged(g)'
  <2> DEFINE h == conn[x].guid
  <2>1. /\ queue' = RemoveFirst(queue, h) /\ queue \in Seq(Guids) /\ Distinct(queue)
        /\ order' = order /\ ToSet(queue) \subseteq ToSet(order)
        /\ successes \in [Guids -> Nat]
        /\ successes' = IF h \in ToSet(queue) THEN [successes EXCEPT ![h] = @ + 1] ELSE successes
      BY <1>2 DEF PostDone, BaseInv, TypeOK, Queued
  <2>2. ToSet(queue') = ToSet(queue) \ {h}
      BY <2>1, RemoveFirstDistinct
  <2> HIDE DEF h
  <2>3. CASE h \in ToSet(queue) /\ h = g
    <3>1. successes[g] = 0
        BY <1>0, <2>3 DEF Acknowledged
    <3>2. successes'[g] = 1
        BY <2>1, <2>3, <3>1
    <3> QED BY <2>1, <2>2, <2>3, <3>2 DEF Acknowledged
  <2>4. CASE ~(h \in ToSet(queue) /\ h = g)
    <3>1. successes'[g] = successes[g]
        BY <2>1, <2>4
    <3> QED BY <1>0, <3>1 DEF Acknowledged
  <2> QED BY <2>3, <2>4
<1>3. successes' = successes \/ \E x \in Slots : PostDone(x)
    BY DEF Next, Handle, Cycle, DeviceSend, DeviceReceive, DeviceApply, Timeout, Unauthorized,
           GetServerInfos, PostMyStatusEntry, PostMyStatusEnd, GetMyActions,
           PostAdminInject, Drop, BadBody, LostHeaders, AdminSend, Restart, history
<1> QED BY <1>1, <1>2, <1>3

\* A stutter keeps Delivering.
LEMMA DeliveryUnchanged == ASSUME Delivering, UNCHANGED vars PROVE Delivering'
BY DEF Delivering, DeviceList, SlotList, Acknowledged, Listed, vars, store, history

\* Always, every list under way names injected actions, each once, a done names an
\* action its device applied, and an acknowledged action has left the queue for good.
THEOREM Delivers == Spec => []Delivering
<1>1. Init => Delivering
  <2> SUFFICES ASSUME Init PROVE Delivering
      OBVIOUS
  <2>1. ASSUME NEW d \in Devices PROVE DeviceList(d)
    <3>1. dev[d].at = "serverinfos" /\ dev[d].todo = <<>> /\ applied[d] = <<>>
        BY DEF Init, CycleStart
    <3> QED BY <3>1, EmptyListed DEF DeviceList, ToSet
  <2>2. ASSUME NEW x \in Slots PROVE SlotList(x)
    <3>1. conn[x] = Idle
        BY DEF Init
    <3> QED BY <3>1, IdleType, EmptyListed DEF SlotList
  <2>3. \A g \in Guids : Acknowledged(g)
      BY DEF Init, Acknowledged
  <2> QED BY <2>1, <2>2, <2>3 DEF Delivering
<1>2. BaseInv /\ Delivering /\ [Next]_vars => Delivering'
    BY DeviceListStep, SlotListStep, AcknowledgedStep, DeliveryUnchanged DEF Delivering
<1> QED BY <1>1, <1>2, Base, PTL DEF Spec

\* However many devices, retries and late requests there are, at most one
\* done request for an action is told 201.
THEOREM OneSuccessEver == Spec => []OneSuccess
<1>1. BaseInv /\ Delivering => OneSuccess
  <2> SUFFICES ASSUME BaseInv, Delivering, NEW g \in Guids PROVE successes[g] <= 1
      BY DEF OneSuccess
  <2>1. Acknowledged(g) /\ successes[g] \in Nat
      BY DEF BaseInv, TypeOK, Delivering
  <2> QED BY <2>1 DEF Acknowledged
<1> QED BY <1>1, Base, Delivers, PTL

-----------------------------------------------------------------------------
(* Exactly once, unless a done gets lost.  An action that device d applied, *)
(* and whose done did not get lost, is still queued or listed for d only    *)
(* while d waits to acknowledge it; once its done has been answered it is   *)
(* out of the queue.                                                        *)

Settled(d, g) == g \in ToSet(applied[d]) /\ g \notin unconfirmed[d]

NotAgain(d) == \A g \in Guids : Settled(d, g) =>
    /\ g \in ToSet(queue) \cup ToSet(dev[d].todo) =>
          dev[d].at = "done" /\ g = Head(dev[d].todo)
    /\ \A x \in Slots : conn[x].awaited /\ conn[x].from = d => g \notin ToSet(conn[x].actions)

DoneServed(d) ==
    dev[d].at = "done" /\ dev[d].conn # 0 /\ conn[dev[d].conn].st = "answered" =>
        Head(dev[d].todo) \notin ToSet(queue) \/ Head(dev[d].todo) \in unconfirmed[d]

Once == (\A d \in Devices : NotAgain(d) /\ DoneServed(d)) /\ RepeatsOnlyUnconfirmed

\* Only who has credentials ever has an action to acknowledge.
Admitted == AuthEnabled => Strangers

\* No done is under way that authentication would refuse, or there is none to pass.
LEMMA AdmittedAlways == Spec => []Admitted
<1>1. CASE AuthEnabled
  <2>1. Strangers => Admitted
      BY DEF Admitted
  <2> QED BY <1>1, <2>1, StrangersKept, PTL
<1>2. CASE ~AuthEnabled
  <2>1. Admitted
      BY <1>2 DEF Admitted
  <2> QED BY <2>1, PTL
<1> QED BY <1>1, <1>2

\* A done under way comes from a device that is let through.
LEMMA DoneAuthorized ==
    ASSUME BaseInv, Admitted, NEW x \in Slots, conn[x].st # "free", conn[x].op = "done"
    PROVE  Authorized(x)
BY DEF Admitted, Strangers, Refused, Authorized

\* What device d applied and still has to acknowledge it has not settled.
LEMMA SettledStep ==
    ASSUME BaseInv, Delivering, Once, Next, NEW d \in Devices, NEW g \in Guids, Settled(d, g)'
    PROVE  \/ Settled(d, g)
           \/ Applies(d) /\ g = Head(dev[d].todo) /\ conn' = conn /\ queue' = queue
<1>1. /\ g \in ToSet(applied'[d]) /\ g \notin unconfirmed[d]
      /\ applied \in [Devices -> Seq(Guids)] /\ dev \in [Devices -> Device]
    BY HistoryStep DEF Settled, BaseInv, TypeOK
<1>2. CASE applied' = applied
    BY <1>1, <1>2 DEF Settled
<1>3. ASSUME NEW e \in Devices, DeviceApply(e)
      PROVE  Settled(d, g) \/ (Applies(d) /\ g = Head(dev[d].todo))
  <2>1. /\ dev[e].todo \in Seq(Guids) /\ dev[e].todo # <<>>
        /\ applied' = [applied EXCEPT ![e] = Append(@, Head(dev[e].todo))]
        /\ dev[e].at = "apply"
      BY <1>3 DEF DeviceApply, BaseInv, Wiring, DeviceWired, TypeOK, Device
  <2>2. Head(dev[e].todo) \in Guids
      BY <2>1, TailOf
  <2>3. CASE d # e
      BY <1>1, <2>1, <2>3 DEF Settled
  <2>4. CASE d = e
    <3>1. ToSet(applied'[d]) = ToSet(applied[d]) \cup {Head(dev[d].todo)}
        BY <1>1, <2>1, <2>2, <2>4, AppendToSet
    <3>2. PICK f : f = [dev[d] EXCEPT !.at = "done"]
        OBVIOUS
    <3>3. f.at = "done" /\ f.todo = dev[d].todo
        BY <1>1, <3>2 DEF Device
    <3>4. dev'[d] = f
        BY <1>1, <1>3, <2>4, <3>2 DEF DeviceApply
    <3> QED BY <1>1, <1>3, <2>4, <3>1, <3>3, <3>4 DEF Settled, Applies
  <2> QED BY <2>3, <2>4
<1>4. \A e \in Devices : DeviceApply(e) => conn' = conn /\ queue' = queue
    BY DEF DeviceApply, store
<1>5. applied' = applied \/ \E e \in Devices : DeviceApply(e)
    BY ZenonT(40)
       DEF Next, Handle, Cycle, DeviceSend, DeviceReceive, Timeout, Unauthorized, GetServerInfos,
           PostMyStatusEntry, PostMyStatusEnd, GetMyActions, PostDone, PostAdminInject, Drop,
           BadBody, LostHeaders, AdminSend, Restart, history
<1> QED BY <1>2, <1>3, <1>4, <1>5

\* Every step keeps a settled action out of the queue and of the device's list.
LEMMA NotAgainStep ==
    ASSUME BaseInv, BaseInv', Delivering, Once, Next, NEW d \in Devices
    PROVE  NotAgain(d)'
<1> SUFFICES ASSUME NEW g \in Guids, Settled(d, g)'
             PROVE  /\ g \in ToSet(queue') \cup ToSet(dev'[d].todo) =>
                          dev'[d].at = "done" /\ g = Head(dev'[d].todo)
                    /\ \A x \in Slots : conn'[x].awaited /\ conn'[x].from = d =>
                          g \notin ToSet(conn'[x].actions)
    BY DEF NotAgain
<1>0. /\ DeviceList(d) /\ DoneServed(d) /\ NotAgain(d) /\ DeviceWired(d)
      /\ dev[d].todo \in Seq(Guids) /\ dev[d].conn \in Slots \cup {0}
      /\ \A x \in Slots : SlotWired(x)
      /\ ToSet(queue') \cap ToSet(order) \subseteq ToSet(queue)
      /\ g \notin unconfirmed[d] /\ g \notin unconfirmed'[d] /\ unconfirmed[d] \subseteq unconfirmed'[d]
    BY HistoryStep DEF Delivering, Once, BaseInv, Wiring, TypeOK, Device, Settled
<1>1. CASE Settled(d, g)
  <2>1. /\ g \in ToSet(order)
        /\ g \in ToSet(queue) \cup ToSet(dev[d].todo) =>
              dev[d].at = "done" /\ g = Head(dev[d].todo)
        /\ \A x \in Slots : conn[x].awaited /\ conn[x].from = d =>
              g \notin ToSet(conn[x].actions)
      BY <1>0, <1>1 DEF Settled, DeviceList, NotAgain
  <2>2. g \in ToSet(queue') => g \in ToSet(queue)
      BY <1>0, <2>1
  <2>3. g \in ToSet(queue') \cup ToSet(dev'[d].todo) =>
            dev'[d].at = "done" /\ g = Head(dev'[d].todo)
    <3>1. CASE Stays(d)
        BY <2>1, <2>2, <3>1 DEF Stays
    <3>2. CASE Emptied(d)
        BY <1>0, <2>1, <2>2, <3>2 DEF Emptied, DoneServed, ToSet
    <3>3. CASE Applies(d)
        BY <2>1, <2>2, <3>3 DEF Applies, DeviceApply
    <3>4. CASE Fetched(d)
      <4>1. dev[d].conn \in Slots /\ conn[dev[d].conn].awaited /\ conn[dev[d].conn].from = d
          BY <1>0, <3>4 DEF Fetched, DeviceWired
      <4> QED BY <2>1, <2>2, <3>4, <4>1 DEF Fetched
    <3>5. CASE Proceeds(d)
      <4>1. dev[d].todo # <<>>
          BY <3>5, EmptySeq DEF Proceeds
      <4>2. /\ Head(dev[d].todo) \notin ToSet(Tail(dev[d].todo))
            /\ ToSet(dev[d].todo) = {Head(dev[d].todo)} \cup ToSet(Tail(dev[d].todo))
          BY <1>0, <4>1, TailListed DEF DeviceList
      <4> QED BY <1>0, <2>1, <2>2, <3>5, <4>2 DEF Proceeds, DoneServed
    <3> QED BY <3>1, <3>2, <3>3, <3>4, <3>5, DeviceStep
  <2>4. ASSUME NEW x \in Slots, conn'[x].awaited, conn'[x].from = d
        PROVE  g \notin ToSet(conn'[x].actions)
    <3>0. ToSet(<<>>) = {}
        BY DEF ToSet
    <3>1. CASE Keeps(x)
        BY <2>1, <2>4, <3>1 DEF Keeps, SameRequest
    <3>2. CASE Ends(x)
        BY <2>4, <3>2, IdleType DEF Ends
    <3>3. CASE Answers(x)
      <4>1. ASSUME GetMyActions(x) PROVE g \notin ToSet(queue)
        <5>1. conn[x].op = "myactions" /\ conn[x].awaited /\ conn[x].from = d
            BY <2>4, <3>3, <4>1 DEF GetMyActions, Handling, Answers, SameRequest
        <5>2. dev[d].conn = x
            BY <1>0, <5>1 DEF SlotWired
        <5>3. dev[d].at = "myactions"
            BY <1>0, <5>1, <5>2, SlotsType DEF DeviceWired
        <5> QED BY <2>1, <5>3
      <4> QED BY <3>0, <3>3, <4>1 DEF Answers
    <3>4. CASE Sends(x)
        BY <3>0, <3>4 DEF Sends
    <3> QED BY <3>1, <3>2, <3>3, <3>4, SlotStep
  <2> QED BY <2>3, <2>4
<1>2. CASE Applies(d) /\ g = Head(dev[d].todo) /\ conn' = conn /\ queue' = queue
  <2>1. dev[d].conn = 0
      BY <1>0, <1>2 DEF Applies, DeviceApply, DeviceWired
  <2>2. \A x \in Slots : conn[x].awaited => conn[x].from # d
      BY <1>0, <2>1, SlotsType DEF SlotWired
  <2> QED BY <1>2, <2>2 DEF Applies
<1> QED BY <1>1, <1>2, SettledStep

\* Every step keeps this: an answered done left its action out of the queue.
LEMMA DoneServedStep ==
    ASSUME BaseInv, BaseInv', Admitted, Delivering, Once, Next, NEW d \in Devices
    PROVE  DoneServed(d)'
<1> DEFINE x == dev'[d].conn
<1> SUFFICES ASSUME dev'[d].at = "done", x # 0, conn'[x].st = "answered"
             PROVE  Head(dev'[d].todo) \notin ToSet(queue') \/ Head(dev'[d].todo) \in unconfirmed'[d]
    BY DEF DoneServed
<1>0. /\ DeviceList(d) /\ DoneServed(d) /\ DeviceWired(d) /\ dev[d].todo \in Seq(Guids)
      /\ ToSet(queue') \cap ToSet(order) \subseteq ToSet(queue)
      /\ unconfirmed[d] \subseteq unconfirmed'[d]
      /\ x \in Slots /\ SlotWired(x)
      /\ conn'[x].awaited /\ conn'[x].from = d /\ conn'[x].op = "done"
      /\ conn'[x].guid = Head(dev'[d].todo)
  <2>1. DeviceWired(d)' /\ x \in Slots
      BY DEF BaseInv, Wiring, TypeOK, Device
  <2>2. /\ DeviceList(d) /\ DoneServed(d) /\ DeviceWired(d) /\ SlotWired(x)
        /\ dev[d].todo \in Seq(Guids)
      BY <2>1 DEF Delivering, Once, BaseInv, Wiring, TypeOK, Device
  <2> QED BY <2>1, <2>2, HistoryStep DEF DeviceWired
<1> HIDE DEF x
<1>1. CASE Keeps(x)
  <2>1. /\ conn[x].awaited /\ conn[x].from = d /\ conn[x].op = "done"
        /\ conn[x].st = "answered" /\ conn[x].guid = Head(dev'[d].todo)
      BY <1>0, <1>1 DEF Keeps, SameRequest
  <2>2. dev[d].conn = x
      BY <1>0, <2>1 DEF SlotWired
  <2>3. dev[d].at = "done" /\ Head(dev[d].todo) = Head(dev'[d].todo)
      BY <1>0, <2>1, <2>2, SlotsType DEF DeviceWired
  <2>4. /\ Head(dev[d].todo) \notin ToSet(queue) \/ Head(dev[d].todo) \in unconfirmed[d]
        /\ Head(dev[d].todo) \in ToSet(order)
      BY <1>0, <2>1, <2>2, <2>3, SlotsType DEF DoneServed, DeviceList
  <2> QED BY <1>0, <2>3, <2>4
<1>2. CASE Ends(x)
    BY <1>0, <1>2, IdleType DEF Ends
<1>3. CASE Answers(x)
  <2>1. /\ conn[x].op = "done" /\ conn[x].guid = Head(dev'[d].todo) /\ conn[x].from = d
        /\ conn[x].st # "free"
      BY <1>0, <1>3 DEF Answers, SameRequest
  <2>2. CASE PostDone(x)
    <3>1. /\ queue' = RemoveFirst(queue, conn[x].guid) /\ queue \in Seq(Guids)
          /\ Distinct(queue)
        BY <2>2 DEF PostDone, BaseInv, TypeOK, Queued
    <3>2. conn[x].guid \notin ToSet(queue')
        BY <3>1, RemoveFirstDistinct
    <3> QED BY <2>1, <3>2
  <2>3. CASE LostHeaders(x)
      BY <2>1, <2>3 DEF LostHeaders, BaseInv, TypeOK
  <2>4. ~Unauthorized(x)
      BY <1>0, <2>1, DoneAuthorized DEF Unauthorized
  <2> QED BY <1>3, <2>1, <2>2, <2>3, <2>4 DEF Answers
<1>4. CASE Sends(x)
    BY <1>4 DEF Sends, x
<1> QED BY <1>0, <1>1, <1>2, <1>3, <1>4, SlotStep

\* Every step keeps repetitions to the actions whose done was not confirmed.
LEMMA RepeatsStep ==
    ASSUME BaseInv, Delivering, Once, Next
    PROVE  RepeatsOnlyUnconfirmed'
<1>0. /\ RepeatsOnlyUnconfirmed /\ applied \in [Devices -> Seq(Guids)]
      /\ \A d \in Devices : unconfirmed[d] \subseteq unconfirmed'[d]
    BY HistoryStep DEF Once, BaseInv, TypeOK
<1>1. CASE applied' = applied
    BY <1>0, <1>1 DEF RepeatsOnlyUnconfirmed
<1>2. ASSUME NEW e \in Devices, DeviceApply(e) PROVE RepeatsOnlyUnconfirmed'
  <2> DEFINE h == Head(dev[e].todo)
             s == applied[e]
  <2>1. /\ dev[e].todo \in Seq(Guids) /\ dev[e].todo # <<>> /\ dev[e].at = "apply"
        /\ applied' = [applied EXCEPT ![e] = Append(s, h)] /\ s \in Seq(Guids)
        /\ unconfirmed' = unconfirmed
      BY <1>0, <1>2 DEF DeviceApply, BaseInv, Wiring, DeviceWired, TypeOK, Device
  <2>2. h \in Guids /\ h \in ToSet(dev[e].todo)
    <3>1. Head(dev[e].todo) = dev[e].todo[1] /\ 1 \in DOMAIN dev[e].todo
        BY <2>1, TailOf
    <3> QED BY <2>1, <3>1, TailOf DEF ToSet
  <2>3. h \in ToSet(s) => h \in unconfirmed[e]
    <3>1. NotAgain(e)
        BY DEF Once
    <3> QED BY <2>1, <2>2, <3>1 DEF NotAgain, Settled
  <2> HIDE DEF h
  <2>4. PICK t : t = Append(s, h)
      OBVIOUS
  <2>5. /\ DOMAIN t = 1 .. Len(s) + 1 /\ DOMAIN s = 1 .. Len(s) /\ Len(s) \in Nat
        /\ \A i \in 1 .. Len(s) : t[i] = s[i]
        /\ t[Len(s) + 1] = h
    <3>1. t \in Seq(Guids) /\ Len(t) = Len(s) + 1
        BY <2>1, <2>2, <2>4, AppendProperties
    <3> QED BY <2>1, <2>2, <2>4, <3>1, AppendProperties, LenProperties
  <2>6. \A i, j \in DOMAIN s : i < j /\ s[i] = s[j] => s[i] \in unconfirmed[e]
      BY <1>0 DEF RepeatsOnlyUnconfirmed
  <2>7. ASSUME NEW i \in DOMAIN t, NEW j \in DOMAIN t, i < j, t[i] = t[j]
        PROVE  t[i] \in unconfirmed[e]
    <3>1. CASE j = Len(s) + 1
      <4>1. i \in DOMAIN s /\ s[i] = h
          BY <2>5, <2>7, <3>1
      <4> QED BY <2>3, <2>5, <4>1 DEF ToSet
    <3>2. CASE j # Len(s) + 1
      <4>1. i \in DOMAIN s /\ j \in DOMAIN s /\ s[i] = t[i] /\ s[j] = t[j]
          BY <2>5, <2>7, <3>2
      <4> QED BY <2>6, <2>7, <4>1
    <3> QED BY <3>1, <3>2
  <2>8. applied'[e] = t /\ \A d \in Devices : d # e => applied'[d] = applied[d]
      BY <1>0, <2>1, <2>4
  <2> QED BY <1>0, <2>1, <2>7, <2>8 DEF RepeatsOnlyUnconfirmed
<1>3. applied' = applied \/ \E e \in Devices : DeviceApply(e)
    BY DEF Next, Handle, Cycle, DeviceSend, DeviceReceive, Timeout, Unauthorized,
           GetServerInfos, PostMyStatusEntry, PostMyStatusEnd, GetMyActions, PostDone,
           PostAdminInject, Drop, BadBody, LostHeaders, AdminSend, Restart, history
<1> QED BY <1>1, <1>2, <1>3

\* A stutter keeps Once.
LEMMA OnceUnchanged == ASSUME Once, UNCHANGED vars PROVE Once'
<1>1. /\ queue' = queue /\ conn' = conn /\ dev' = dev
      /\ applied' = applied /\ unconfirmed' = unconfirmed
    BY DEF vars, store, history
<1>2. \A d \in Devices : NotAgain(d)' /\ DoneServed(d)'
    BY <1>1 DEF Once, NotAgain, Settled, DoneServed
<1>3. RepeatsOnlyUnconfirmed'
    BY <1>1 DEF Once, RepeatsOnlyUnconfirmed
<1> QED BY <1>2, <1>3 DEF Once

\* A device applies an action twice only if a done for it was lost, given up
\* or refused: for any number of devices, faults and restarts.
THEOREM RepeatsAreUnconfirmed == Spec => []RepeatsOnlyUnconfirmed
<1>1. Init => Once
  <2> SUFFICES ASSUME Init PROVE Once
      OBVIOUS
  <2>1. \A d \in Devices : applied[d] = <<>> /\ dev[d].at = "serverinfos"
      BY DEF Init, CycleStart
  <2> QED BY <2>1 DEF Once, NotAgain, Settled, DoneServed, RepeatsOnlyUnconfirmed, ToSet
<1>2. BaseInv /\ BaseInv' /\ Admitted /\ Delivering /\ Once /\ [Next]_vars => Once'
  <2>1. ASSUME BaseInv, BaseInv', Admitted, Delivering, Once, Next PROVE Once'
      BY <2>1, NotAgainStep, DoneServedStep, RepeatsStep DEF Once
  <2> QED BY <2>1, OnceUnchanged
<1>3. Once => RepeatsOnlyUnconfirmed
    BY DEF Once
<1> QED BY <1>1, <1>2, <1>3, Base, AdmittedAlways, Delivers, PTL DEF Spec

-----------------------------------------------------------------------------
(* Delivery in order.  The queue keeps the order of injection; and a list   *)
(* that device d works through, or is about to receive, names an action     *)
(* only after the older ones that are still queued and that d has not       *)
(* applied.                                                                 *)

InTurn(s, d) == \A i \in DOMAIN s : \A g \in Before(order, s[i]) \cap ToSet(queue) :
    g \in ToSet(applied[d]) \/ \E j \in DOMAIN s : j < i /\ s[j] = g

Turns(d) ==
    /\ InTurn(dev[d].todo, d)
    /\ \A x \in Slots : conn[x].awaited /\ conn[x].from = d => InTurn(conn[x].actions, d)

InOrder == KeepsOrder(queue, order) /\ \A d \in Devices : Turns(d)

\* The steps that change the queue or the order of injection.
LEMMA QueueStep ==
    ASSUME BaseInv, Next
    PROVE  \/ order' = order /\ queue' = queue
           \/ order' = order /\ queue' = <<>>
           \/ \E x \in Slots : /\ order' = order
                               /\ PostDone(x) /\ queue' = RemoveFirst(queue, conn[x].guid)
           \/ \E g \in Guids \ ToSet(order) : order' = Append(order, g) /\ queue' = Append(queue, g)
BY ZenonT(40)
   DEF Next, Handle, Cycle, DeviceSend, DeviceReceive, DeviceApply, Timeout, Unauthorized,
       GetServerInfos, PostMyStatusEntry, PostMyStatusEnd, GetMyActions, PostDone, PostAdminInject,
       Drop, BadBody, LostHeaders, AdminSend, Restart, history, store

\* Every step keeps the queue in the order of the injections.
LEMMA QueueOrderStep ==
    ASSUME BaseInv, KeepsOrder(queue, order), Next
    PROVE  KeepsOrder(queue', order')
<1>1. /\ queue \in Seq(Guids) /\ order \in Seq(Guids)
      /\ Distinct(queue) /\ Distinct(order) /\ ToSet(queue) \subseteq ToSet(order)
    BY DEF BaseInv, TypeOK, Queued
<1>2. CASE order' = order /\ queue' = queue
    BY <1>2
<1>3. CASE queue' = <<>>
    BY <1>3 DEF KeepsOrder
<1>4. ASSUME NEW x \in Slots, order' = order, queue' = RemoveFirst(queue, conn[x].guid)
      PROVE  KeepsOrder(queue', order')
    BY <1>1, <1>4, OrderAfterRemove
<1>5. ASSUME NEW g \in Guids \ ToSet(order), order' = Append(order, g), queue' = Append(queue, g)
      PROVE  KeepsOrder(queue', order')
    BY <1>1, <1>5, OrderAfterAppend
<1> QED BY <1>2, <1>3, <1>4, <1>5, QueueStep

\* What is older than an injected action, and still queued, only shrinks.
LEMMA OlderStep ==
    ASSUME BaseInv, Next, NEW h \in ToSet(order)
    PROVE  Before(order', h) \cap ToSet(queue') \subseteq Before(order, h) \cap ToSet(queue)
<1>1. queue \in Seq(Guids) /\ order \in Seq(Guids)
    BY DEF BaseInv, TypeOK
<1>2. CASE order' = order
  <2>1. Before(order, h) \subseteq ToSet(order)
      BY BeforeAt DEF ToSet
  <2> QED BY <1>2, <2>1, HistoryStep
<1>3. ASSUME NEW g \in Guids \ ToSet(order), order' = Append(order, g), queue' = Append(queue, g)
      PROVE  Before(order', h) \cap ToSet(queue') \subseteq Before(order, h) \cap ToSet(queue)
  <2>1. Before(order', h) = Before(order, h) /\ g \notin Before(order', h)
      BY <1>1, <1>3, BeforeAppend
  <2>2. ToSet(queue') = ToSet(queue) \cup {g}
      BY <1>1, <1>3, AppendToSet
  <2> QED BY <2>1, <2>2
<1> QED BY <1>2, <1>3, QueueStep

\* A list whose turn it is stays so, whatever happens elsewhere.
LEMMA InTurnStep ==
    ASSUME BaseInv, Next, NEW d \in Devices, NEW s, Listed(s), InTurn(s, d)
    PROVE  \A i \in DOMAIN s : \A g \in Before(order', s[i]) \cap ToSet(queue') :
              g \in ToSet(applied'[d]) \/ \E j \in DOMAIN s : j < i /\ s[j] = g
<1> TAKE i \in DOMAIN s
<1>1. s[i] \in ToSet(order)
    BY DEF Listed, ToSet
<1>2. /\ Before(order', s[i]) \cap ToSet(queue') \subseteq Before(order, s[i]) \cap ToSet(queue)
      /\ ToSet(applied[d]) \subseteq ToSet(applied'[d])
    BY <1>1, OlderStep, HistoryStep
<1> QED BY <1>2 DEF InTurn

\* The device goes on to the rest of its list when it has applied the head.
LEMMA InTurnTail ==
    ASSUME NEW s \in Seq(Guids), s # <<>>, NEW d \in Devices, InTurn(s, d),
           Head(s) \in ToSet(applied[d])
    PROVE  InTurn(Tail(s), d)
<1>1. /\ Head(s) = s[1] /\ Len(s) \in Nat \ {0}
      /\ DOMAIN s = 1 .. Len(s) /\ DOMAIN Tail(s) = 1 .. Len(s) - 1
      /\ \A i \in 1 .. Len(s) - 1 : Tail(s)[i] = s[i + 1]
    BY TailOf
<1>2. ASSUME NEW i \in DOMAIN Tail(s), NEW g \in Before(order, Tail(s)[i]) \cap ToSet(queue)
      PROVE  g \in ToSet(applied[d]) \/ \E j \in DOMAIN Tail(s) : j < i /\ Tail(s)[j] = g
  <2>1. i + 1 \in DOMAIN s /\ Tail(s)[i] = s[i + 1]
      BY <1>1
  <2>2. g \in ToSet(applied[d]) \/ \E j \in DOMAIN s : j < i + 1 /\ s[j] = g
      BY <1>2, <2>1 DEF InTurn
  <2>3. ASSUME NEW j \in DOMAIN s, j < i + 1, s[j] = g
        PROVE  g \in ToSet(applied[d]) \/ \E k \in DOMAIN Tail(s) : k < i /\ Tail(s)[k] = g
    <3>1. CASE j = 1
        BY <1>1, <2>3, <3>1
    <3>2. CASE j # 1
      <4>1. j - 1 \in DOMAIN Tail(s) /\ j - 1 < i /\ Tail(s)[j - 1] = g
          BY <1>1, <1>2, <2>3, <3>2
      <4> QED BY <4>1
    <3> QED BY <3>1, <3>2
  <2> QED BY <2>2, <2>3
<1> QED BY <1>2 DEF InTurn

\* The whole queue, as myactions lists it, is in turn.
LEMMA InTurnQueue ==
    ASSUME KeepsOrder(queue, order), NEW d \in Devices
    PROVE  InTurn(queue, d)
BY DEF InTurn, KeepsOrder, ToSet

\* Every step keeps a device's list in the order of the injections, and
\* after what it has applied for the first time.
LEMMA TurnsStep ==
    ASSUME BaseInv, Delivering, InOrder, Next, NEW d \in Devices
    PROVE  Turns(d)'
<1>0. /\ DeviceList(d) /\ Turns(d) /\ DeviceWired(d)
      /\ dev[d].todo \in Seq(Guids) /\ dev[d].conn \in Slots \cup {0}
      /\ \A x \in Slots : SlotList(x)
    BY DEF Delivering, InOrder, BaseInv, Wiring, TypeOK, Device
<1>1. ASSUME NEW s, Listed(s), InTurn(s, d)
      PROVE  \A t : t = s => \A i \in DOMAIN t :
                \A g \in Before(order', t[i]) \cap ToSet(queue') :
                    g \in ToSet(applied'[d]) \/ \E j \in DOMAIN t : j < i /\ t[j] = g
    BY <1>1, InTurnStep
<1>2. InTurn(dev[d].todo, d)'
  <2>1. ASSUME NEW s, Listed(s), InTurn(s, d), dev'[d].todo = s PROVE InTurn(dev[d].todo, d)'
      BY <1>1, <2>1 DEF InTurn
  <2>2. Stays(d) \/ Applies(d) => InTurn(dev[d].todo, d)'
      BY <1>0, <2>1 DEF Stays, Applies, DeviceList, Turns
  <2>3. Emptied(d) => InTurn(dev[d].todo, d)'
      BY DEF Emptied, InTurn
  <2>4. Fetched(d) => InTurn(dev[d].todo, d)'
    <3>1. ASSUME Fetched(d)
          PROVE  /\ dev[d].conn \in Slots
                 /\ conn[dev[d].conn].awaited /\ conn[dev[d].conn].from = d
        BY <1>0, <3>1 DEF Fetched, DeviceWired
    <3>2. ASSUME Fetched(d)
          PROVE  /\ Listed(conn[dev[d].conn].actions) /\ InTurn(conn[dev[d].conn].actions, d)
                 /\ dev'[d].todo = conn[dev[d].conn].actions
        BY <1>0, <3>1, <3>2 DEF Fetched, SlotList, Turns
    <3> QED BY <2>1, <3>2
  <2>5. Proceeds(d) => InTurn(dev[d].todo, d)'
    <3>1. ASSUME Proceeds(d) PROVE dev[d].todo # <<>> /\ dev'[d].todo = Tail(dev[d].todo)
        BY <3>1, EmptySeq DEF Proceeds
    <3>2. ASSUME Proceeds(d) PROVE Listed(Tail(dev[d].todo)) /\ InTurn(Tail(dev[d].todo), d)
      <4>1. Head(dev[d].todo) \in ToSet(applied[d])
          BY <1>0, <3>2 DEF Proceeds, DeviceList
      <4> QED BY <1>0, <3>1, <3>2, <4>1, TailListed, InTurnTail DEF DeviceList, Turns
    <3> QED BY <2>1, <3>1, <3>2
  <2> QED BY <2>2, <2>3, <2>4, <2>5, DeviceStep
<1>3. ASSUME NEW x \in Slots, conn'[x].awaited, conn'[x].from = d
      PROVE  InTurn(conn[x].actions, d)'
  <2>1. CASE Keeps(x)
    <3>1. /\ Listed(conn[x].actions) /\ InTurn(conn[x].actions, d)
          /\ conn'[x].actions = conn[x].actions
        BY <1>0, <1>3, <2>1 DEF Keeps, SameRequest, SlotList, Turns
    <3> QED BY <1>1, <3>1 DEF InTurn
  <2>2. conn'[x].actions = <<>> => InTurn(conn[x].actions, d)'
      BY DEF InTurn
  <2>3. ASSUME GetMyActions(x), conn'[x].actions = queue PROVE InTurn(conn[x].actions, d)'
    <3>1. Listed(queue) /\ InTurn(queue, d)
        BY InTurnQueue DEF BaseInv, Queued, Listed, InOrder
    <3> QED BY <1>1, <2>3, <3>1 DEF InTurn
  <2> QED BY <2>1, <2>2, <2>3, SlotStep, IdleType DEF Ends, Answers, Sends
<1> QED BY <1>2, <1>3 DEF Turns

\* Always, the queue and every list under way are in the order of the
\* injections, which is why a device applies in that order.
THEOREM InOrderAlways == Spec => []InOrder
<1>1. Init => InOrder
  <2> SUFFICES ASSUME Init PROVE InOrder
      OBVIOUS
  <2>1. KeepsOrder(queue, order)
      BY DEF Init, KeepsOrder
  <2>2. ASSUME NEW d \in Devices PROVE Turns(d)
    <3>1. dev[d].todo = <<>> /\ \A x \in Slots : conn[x] = Idle
        BY DEF Init, CycleStart
    <3> QED BY <3>1, IdleType DEF Turns, InTurn
  <2> QED BY <2>1, <2>2 DEF InOrder
<1>2. BaseInv /\ Delivering /\ InOrder /\ [Next]_vars => InOrder'
  <2>1. ASSUME BaseInv, Delivering, InOrder, Next PROVE InOrder'
      BY <2>1, QueueOrderStep, TurnsStep DEF InOrder
  <2>2. ASSUME InOrder, UNCHANGED vars PROVE InOrder'
      BY <2>2 DEF InOrder, Turns, InTurn, vars, store, history
  <2> QED BY <2>1, <2>2
<1> QED BY <1>1, <1>2, Base, Delivers, PTL DEF Spec

\* Delivery and Gateway mean the same by the operations on the queue.
LEMMA SameOperations ==
    /\ \A s : Promise!ToSet(s) = ToSet(s)
    /\ \A s, e : Promise!RemoveFirst(s, e) = RemoveFirst(s, e)
<1>1. \A s : Promise!ToSet(s) = ToSet(s)
    BY DEF Promise!ToSet, ToSet
<1>2. ASSUME NEW s, NEW e PROVE Promise!RemoveFirst(s, e) = RemoveFirst(s, e)
  <2>1. \A i : Promise!RemoveAt(s, i) = RemoveAt(s, i)
      BY DEF Promise!RemoveAt, RemoveAt
  <2>2. \A I : Promise!Min(I) = Min(I)
      BY DEF Promise!Min, Min
  <2>3. Promise!SelectInSeq(s, LAMBDA v : v = e) = SelectInSeq(s, LAMBDA v : v = e)
      BY <2>2 DEF Promise!SelectInSeq, SelectInSeq
  <2> QED BY <2>1, <2>3 DEF Promise!RemoveFirst, RemoveFirst
<1> QED BY <1>1, <1>2

\* The requests, handlers, faults and retries of Gateway implement Delivery:
\* each step injects, applies or settles an action as Delivery allows, or
\* is a restart, or does nothing that Delivery sees.
THEOREM DeliveryImplemented == Spec => KeepsDeliveryPromise
<1> USE DEF Promise!vars
<1>1. Init => Promise!Init
    BY DEF Init, Promise!Init
<1>2. ASSUME BaseInv, Admitted, Delivering, InOrder, Next
      PROVE  Promise!Next \/ UNCHANGED Promise!vars
  <2>0. TypeOK /\ \A x \in Slots : SlotWired(x) /\ SlotList(x)
      BY <1>2 DEF BaseInv, Wiring, Delivering
  <2>1. ASSUME NEW x \in Slots, PostAdminInject(x) PROVE \E g \in Guids : Promise!Submit(g)
      BY <2>1, SameOperations DEF PostAdminInject, Promise!Submit
  <2>2. ASSUME NEW d \in Devices, DeviceApply(d) PROVE \E g \in Guids : Promise!Apply(d, g)
    <3> DEFINE s == dev[d].todo
               g == Head(s)
    <3>1. /\ s \in Seq(Guids) /\ s # <<>> /\ Listed(s) /\ InTurn(s, d)
        BY <1>2, <2>2 DEF DeviceApply, BaseInv, Wiring, DeviceWired, TypeOK, Device,
             Delivering, DeviceList, InOrder, Turns
    <3>2. /\ g \in Guids /\ g = s[1] /\ 1 \in DOMAIN s /\ DOMAIN s = 1 .. Len(s)
        BY <3>1, TailOf
    <3>3. g \in ToSet(order)
        BY <3>1, TailListed DEF Listed
    <3>4. Before(order, g) \cap ToSet(queue) \subseteq ToSet(applied[d])
        BY <3>1, <3>2 DEF InTurn
    <3>5. Promise!Older(g) = Before(order, g)
        BY DEF Promise!Older, Before
    <3>6. Promise!Apply(d, g)
        BY <2>2, <3>3, <3>4, <3>5, SameOperations DEF DeviceApply, Promise!Apply, store
    <3> QED BY <3>2, <3>6
  <2>3. ASSUME NEW x \in Slots, PostDone(x)
        PROVE  (\E g \in Guids : Promise!Settle(g)) \/ UNCHANGED Promise!vars
    <3> DEFINE g == conn[x].guid
    <3>1. conn[x].st # "free" /\ conn[x].op = "done"
        BY <2>3 DEF PostDone, Handling
    <3>2. g \in Guids /\ g \in ToSet(applied[conn[x].from]) /\ conn[x].from \in Devices
        BY <2>0, <3>1 DEF SlotWired, SlotList
    <3>3. queue' = RemoveFirst(queue, g) /\ UNCHANGED <<order, applied, restarts>>
        BY <2>3 DEF PostDone
    <3>4. CASE g \in ToSet(queue)
      <4>1. Promise!Settle(g)
          BY <3>2, <3>3, <3>4, SameOperations DEF Promise!Settle
      <4> QED BY <3>2, <4>1
    <3>5. CASE g \notin ToSet(queue)
      <4>1. queue' = queue
          BY <2>0, <3>3, <3>5, RemoveFirstMissing DEF TypeOK
      <4> QED BY <3>3, <4>1
    <3> QED BY <3>4, <3>5
  <2>4. Restart => Promise!Restart
      BY DEF Restart, Promise!Restart
  <2>5. \/ UNCHANGED <<order, queue, applied, restarts>> \/ Restart
        \/ \E d \in Devices : DeviceApply(d)
        \/ \E x \in Slots : PostDone(x) \/ PostAdminInject(x)
    <3>1. ASSUME NEW d \in Devices, Cycle(d) \/ Timeout(d)
          PROVE  UNCHANGED <<order, queue, applied, restarts>> \/ DeviceApply(d)
        BY <3>1 DEF Cycle, DeviceSend, DeviceReceive, Timeout, store, history
    <3>2. ASSUME NEW x \in Slots, Handle(x)
          PROVE  \/ UNCHANGED <<order, queue, applied, restarts>>
                 \/ PostDone(x) \/ PostAdminInject(x)
        BY <3>2 DEF Handle, Unauthorized, GetServerInfos, PostMyStatusEntry, PostMyStatusEnd,
                    GetMyActions, store, history
    <3>3. ASSUME NEW x \in Slots, Drop(x) \/ BadBody(x) \/ LostHeaders(x)
          PROVE  UNCHANGED <<order, queue, applied, restarts>>
        BY <3>3 DEF Drop, BadBody, LostHeaders, store, history
    <3>4. AdminSend => UNCHANGED <<order, queue, applied, restarts>>
        BY DEF AdminSend, store, history
    <3> QED BY <1>2, <3>1, <3>2, <3>3, <3>4 DEF Next
  <2> QED BY <2>1, <2>2, <2>3, <2>4, <2>5 DEF Promise!Next
<1>3. UNCHANGED vars => UNCHANGED Promise!vars
    BY DEF vars, store, history
<1>4. BaseInv /\ Admitted /\ Delivering /\ InOrder /\ [Next]_vars => [Promise!Next]_(Promise!vars)
    BY <1>2, <1>3
<1> QED BY <1>1, <1>4, Base, AdmittedAlways, Delivers, InOrderAlways, PTL
        DEF Spec, KeepsDeliveryPromise, Promise!Spec

-----------------------------------------------------------------------------
(* Reports under way.                                                      *)

\* A report of device d whose handler has not finished.
Storing(x, d) ==
    conn[x].st \in {"sent", "serving"} /\ conn[x].op = "mystatus" /\ conn[x].from = d

\* How a step of the system changes the request in slot y, if it is a report
\* afterwards: nothing happened to it, an entry was stored, it was answered.
Continues(y) ==
    /\ conn[y].st # "free" /\ conn[y].op = "mystatus"
    /\ conn'[y].from = conn[y].from /\ conn'[y].n = conn[y].n
    /\ conn'[y].alone = conn[y].alone /\ (conn'[y].awaited => conn[y].awaited)
    /\ \/ conn'[y].st = conn[y].st /\ conn'[y].pos = conn[y].pos /\ conn'[y].code = conn[y].code
       \/ PostMyStatusEntry(y) /\ conn'[y].st = "serving" /\ conn'[y].pos = conn[y].pos + 1
       \/ /\ conn'[y].st = "answered" /\ conn[y].st # "answered"
          /\ conn'[y].code = 201 => PostMyStatusEnd(y)

\* Or it was sent just now.
Starts(y) == \E d \in Devices :
    /\ DeviceSend(d) /\ dev[d].at = "mystatus"
    /\ conn[y].st = "free" /\ conn'[y].st = "sent"
    /\ conn'[y].from = d /\ conn'[y].pos = 1 /\ conn'[y].n = dev'[d].n
    /\ conn'[y].alone => ~ReportInFlight(d)
    /\ \A z \in Slots : z # y => conn'[z] = conn[z]

\* Answering one connection continues every report, or starts none.
LEMMA ReportAnswered ==
    ASSUME BaseInv, NEW x \in Slots, NEW code \in Codes, NEW actions \in Seq(Guids),
           Answer(x, code, actions), conn[x].st \in {"sent", "serving"},
           conn[x].op = "mystatus" /\ code = 201 => PostMyStatusEnd(x),
           NEW y \in Slots, conn'[y].st # "free", conn'[y].op = "mystatus"
    PROVE  Continues(y)
<1>1. /\ \A z \in Slots : z # x => conn'[z] = conn[z]
      /\ ~conn[x].awaited => conn'[x] = Idle
      /\ conn[x].awaited =>
            /\ conn'[x].st = "answered"
            /\ conn'[x].op = conn[x].op /\ conn'[x].from = conn[x].from
            /\ conn'[x].n = conn[x].n /\ conn'[x].alone = conn[x].alone
            /\ conn'[x].code = code
    BY AnswerFacts
<1>2. CASE y # x
    BY <1>1, <1>2 DEF Continues
<1>3. CASE y = x /\ ~conn[x].awaited
    BY <1>1, <1>3, IdleType
<1>4. CASE y = x /\ conn[x].awaited
    BY <1>1, <1>4 DEF Continues
<1> QED BY <1>2, <1>3, <1>4

\* A report under way after a step was under way before it, or starts with it.
LEMMA ReportStep ==
    ASSUME BaseInv, Next, NEW y \in Slots, conn'[y].st # "free", conn'[y].op = "mystatus"
    PROVE  Continues(y) \/ Starts(y)
<1>0. TypeOK /\ \A x \in Slots : SlotWired(x)
    BY DEF BaseInv, Wiring
<1>1. ASSUME NEW d \in Devices, DeviceSend(d) PROVE Continues(y) \/ Starts(y)
  <2>1. PICK x \in Slots :
          /\ conn[x].st = "free" /\ conn'[x].st = "sent"
          /\ \A z \in Slots : z # x => conn'[z] = conn[z]
          /\ conn'[x].op = dev[d].at /\ conn'[x].from = d /\ conn'[x].pos = 1
          /\ conn'[x].alone => ~ReportInFlight(d)
          /\ dev[d].at = "mystatus" => conn'[x].n = dev'[d].n
      BY <1>1, DeviceSendFacts
  <2>2. CASE y = x
      BY <1>1, <2>1, <2>2 DEF Starts
  <2>3. CASE y # x
      BY <2>1, <2>3 DEF Continues
  <2> QED BY <2>2, <2>3
<1>2. ASSUME NEW d \in Devices, DeviceReceive(d) PROVE Continues(y)
  <2>1. PICK x : x = dev[d].conn
      OBVIOUS
  <2>2. conn'[x] = Idle /\ \A z \in Slots : z # x => conn'[z] = conn[z]
      BY <1>2, <2>1, DeviceReceiveFacts
  <2> QED BY <2>2, IdleType DEF Continues
<1>3. ASSUME NEW d \in Devices, DeviceApply(d) PROVE Continues(y)
    BY <1>3 DEF DeviceApply, Continues
<1>4. ASSUME NEW d \in Devices, Timeout(d) PROVE Continues(y)
  <2>1. PICK x : x = dev[d].conn
      OBVIOUS
  <2>2. /\ x \in Slots
        /\ \A z \in Slots : z # x => conn'[z] = conn[z]
        /\ conn[x].st = "answered" => conn'[x] = Idle
        /\ conn[x].st # "answered" =>
              /\ conn'[x].st = conn[x].st /\ ~conn'[x].awaited
              /\ conn'[x].op = conn[x].op /\ conn'[x].from = conn[x].from
              /\ conn'[x].n = conn[x].n /\ conn'[x].pos = conn[x].pos
              /\ conn'[x].alone = conn[x].alone /\ conn'[x].code = conn[x].code
      BY <1>4, <2>1, TimeoutFacts
  <2> QED BY <2>2, IdleType DEF Continues
<1>5. ASSUME NEW x \in Slots, Unauthorized(x) \/ LostHeaders(x) \/ BadBody(x) PROVE Continues(y)
  <2>1. PICK code \in Codes \ {201} : Answer(x, code, <<>>)
      BY <1>5, AnswerArguments DEF Unauthorized, LostHeaders, BadBody
  <2>2. conn[x].st \in {"sent", "serving"}
      BY <1>5 DEF Unauthorized, LostHeaders, BadBody
  <2> QED BY <2>1, <2>2, ReportAnswered, AnswerArguments
<1>6. ASSUME NEW x \in Slots, GetServerInfos(x) \/ PostAdminInject(x) PROVE Continues(y)
  <2>1. Answer(x, 200, <<>>) /\ conn[x].st \in {"sent", "serving"} /\ conn[x].op # "mystatus"
      BY <1>6 DEF GetServerInfos, PostAdminInject, Handling
  <2> QED BY <2>1, ReportAnswered, AnswerArguments
<1>7. ASSUME NEW x \in Slots, PostMyStatusEntry(x) PROVE Continues(y)
  <2>1. /\ \A z \in Slots : z # x => conn'[z] = conn[z]
        /\ conn'[x].st = "serving" /\ conn'[x].pos = conn[x].pos + 1
        /\ conn[x].op = "mystatus" /\ conn'[x].from = conn[x].from
        /\ conn'[x].n = conn[x].n /\ conn'[x].alone = conn[x].alone
        /\ conn'[x].awaited = conn[x].awaited
      BY <1>7, EntryFacts
  <2>2. conn[x].st # "free"
      BY <1>7 DEF PostMyStatusEntry, Handling
  <2> QED BY <1>7, <2>1, <2>2 DEF Continues
<1>8. ASSUME NEW x \in Slots, PostMyStatusEnd(x) PROVE Continues(y)
  <2>1. Answer(x, 201, <<>>) /\ conn[x].st \in {"sent", "serving"}
      BY <1>8 DEF PostMyStatusEnd, Handling
  <2> QED BY <1>8, <2>1, ReportAnswered, AnswerArguments
<1>9. ASSUME NEW x \in Slots, GetMyActions(x) PROVE Continues(y)
  <2>1. /\ Answer(x, 200, queue) /\ conn[x].st \in {"sent", "serving"}
        /\ conn[x].op # "mystatus" /\ queue \in Seq(Guids)
      BY <1>0, <1>9 DEF GetMyActions, Handling, TypeOK
  <2> QED BY <2>1, ReportAnswered, AnswerArguments
<1>10. ASSUME NEW x \in Slots, PostDone(x) PROVE Continues(y)
  <2>1. PICK code \in Codes : Answer(x, code, <<>>)
      BY <1>10, AnswerArguments DEF PostDone
  <2>2. conn[x].st \in {"sent", "serving"} /\ conn[x].op # "mystatus"
      BY <1>10 DEF PostDone, Handling
  <2> QED BY <2>1, <2>2, ReportAnswered, AnswerArguments
<1>11. ASSUME NEW x \in Slots, Drop(x) PROVE Continues(y)
    BY <1>0, <1>11, IdleType DEF Drop, TypeOK, Continues
<1>12. CASE AdminSend
  <2>1. PICK x \in Slots :
          (\A z \in Slots : z # x => conn'[z] = conn[z]) /\ conn'[x].op = "inject"
      BY <1>12, AdminSendFacts
  <2> QED BY <2>1 DEF Continues
<1>13. CASE Restart
    BY <1>13, RestartFacts, IdleType
<1> QED BY <1>1, <1>2, <1>3, <1>4, <1>5, <1>6, <1>7, <1>8, <1>9, <1>10, <1>11, <1>12,
           <1>13 DEF Next, Handle, Cycle

\* The tables change entry by entry, or all at once when the server restarts.
LEMMA TableStep ==
    ASSUME BaseInv, Next
    PROVE  table' = table \/ Restart \/ \E x \in Slots : PostMyStatusEntry(x)
BY DEF Next, Handle, Cycle, DeviceSend, DeviceReceive, DeviceApply, Timeout, Unauthorized,
       GetServerInfos, PostMyStatusEnd, GetMyActions, PostDone, PostAdminInject, Drop,
       BadBody, LostHeaders, AdminSend, store

\* Storing entry i changes entry i of the sender's table, and nothing else of the store.
LEMMA EntryTable ==
    ASSUME BaseInv, NEW x \in Slots, PostMyStatusEntry(x)
    PROVE  LET d == conn[x].from
               i == conn[x].pos
           IN  /\ d \in Devices /\ Storing(x, d) /\ i \in 1 .. Len(Ek) /\ Ek[i] \in ToSet(Ek)
               /\ <<d, conn[x].n>> # NoReport
               /\ \A c \in Clients : \A k \in ToSet(Ek) :
                     table'[c][k] = IF c = ClientOf(d) /\ k = Ek[i] THEN <<d, conn[x].n>>
                                    ELSE table[c][k]
<1> DEFINE d == conn[x].from
           i == conn[x].pos
<1>1. /\ conn[x].st \in {"sent", "serving"} /\ conn[x].op = "mystatus" /\ conn[x] \in Conn
      /\ SlotWired(x) /\ i \in 1 .. Len(Ek)
      /\ table' = [table EXCEPT ![ClientOf(d)][Ek[i]] = <<d, conn[x].n>>]
      /\ table \in [Clients -> [ToSet(Ek) -> (Devices \X (1 .. MaxReports)) \cup {NoReport}]]
    BY EntryFacts DEF PostMyStatusEntry, Handling, BaseInv, Wiring, TypeOK
<1>2. /\ d \in Devices /\ Ek[i] \in ToSet(Ek) /\ ClientOf(d) \in Clients /\ conn[x].n \in Nat
    BY <1>1, EkType, GatewayAssumption DEF SlotWired, Conn, ClientOf, Clients
<1>3. <<d, conn[x].n>> # NoReport
    BY <1>2, GatewayAssumption
<1> HIDE DEF d, i
<1>4. \A c \in Clients : \A k \in ToSet(Ek) :
         table'[c][k] = IF c = ClientOf(d) /\ k = Ek[i] THEN <<d, conn[x].n>> ELSE table[c][k]
    BY <1>1, <1>2
<1> QED BY <1>1, <1>2, <1>3, <1>4 DEF Storing, d, i

-----------------------------------------------------------------------------
(* A client is connected only after a whole report.                        *)

EntriesStored(x) == \A d \in Devices : Storing(x, d) =>
    \A i \in 1 .. conn[x].pos - 1 : table[ClientOf(d)][Ek[i]] # NoReport

Reported == ConnectedHasReport /\ \A x \in Slots : EntriesStored(x)

\* Every step keeps stored the entries that a report has passed.
LEMMA EntriesStoredStep ==
    ASSUME BaseInv, BaseInv', Reported, Next, NEW x \in Slots
    PROVE  EntriesStored(x)'
<1> SUFFICES ASSUME NEW d \in Devices, Storing(x, d)', NEW i \in 1 .. conn'[x].pos - 1
             PROVE  table'[ClientOf(d)][Ek[i]] # NoReport
    BY DEF EntriesStored, ClientOf
<1>0. /\ EntriesStored(x) /\ ClientOf(d) \in Clients /\ Len(Ek) \in Nat
      /\ conn[x].pos \in 1 .. Len(Ek) + 1 /\ conn'[x].pos \in 1 .. Len(Ek) + 1
  <2>1. conn[x] \in Conn /\ conn'[x] \in Conn
      BY DEF BaseInv, TypeOK
  <2>2. conn[x].pos \in 1 .. Len(Ek) + 1 /\ conn'[x].pos \in 1 .. Len(Ek) + 1
      BY <2>1 DEF Conn
  <2> QED BY <2>2, EkType DEF Reported, ClientOf, Clients
<1>1. Ek[i] \in ToSet(Ek)
    BY <1>0, EkType
<1>2. ~Restart
    BY RestartFacts, IdleType DEF Storing
<1>3. CASE Starts(x)
    BY <1>3 DEF Starts
<1>4. CASE Continues(x)
  <2>1. Storing(x, d) /\ (conn'[x].pos = conn[x].pos \/ PostMyStatusEntry(x))
      BY <1>4 DEF Continues, Storing, PostMyStatusEntry, Handling
  <2>2. ASSUME NEW y \in Slots, PostMyStatusEntry(y)
        PROVE  \/ table'[ClientOf(d)][Ek[i]] # NoReport
               \/ table'[ClientOf(d)][Ek[i]] = table[ClientOf(d)][Ek[i]]
      BY <1>0, <1>1, <2>2, EntryTable
  <2>3. CASE PostMyStatusEntry(x)
    <3>1. conn'[x].pos = conn[x].pos + 1 /\ conn[x].from = d
        BY <2>1, <2>3, EntryFacts DEF Storing
    <3>2. CASE i = conn[x].pos
        BY <1>0, <1>1, <2>3, <3>1, <3>2, EntryTable
    <3>3. CASE i # conn[x].pos
      <4>1. i \in 1 .. conn[x].pos - 1
          BY <1>0, <3>1, <3>3
      <4> QED BY <1>0, <2>1, <2>2, <2>3, <4>1 DEF EntriesStored
    <3> QED BY <3>2, <3>3
  <2>4. CASE ~PostMyStatusEntry(x)
    <3>1. table[ClientOf(d)][Ek[i]] # NoReport
        BY <1>0, <2>1, <2>4 DEF EntriesStored
    <3> QED BY <1>2, <2>2, <3>1, TableStep
  <2> QED BY <2>3, <2>4
<1> QED BY <1>3, <1>4, ReportStep DEF Storing

\* Every step keeps a whole report in the table of a connected client.
LEMMA ConnectedStep ==
    ASSUME BaseInv, Reported, Next
    PROVE  ConnectedHasReport'
<1> SUFFICES ASSUME NEW c \in Clients, connected'[c], NEW k \in ToSet(Ek)
             PROVE  table'[c][k] # NoReport
    BY DEF ConnectedHasReport
<1>0. connected \in [Clients -> BOOLEAN] /\ ConnectedHasReport
    BY DEF Reported, BaseInv, TypeOK
<1>1. CASE UNCHANGED <<table, connected>>
    BY <1>0, <1>1 DEF ConnectedHasReport
<1>2. ASSUME NEW x \in Slots, PostMyStatusEntry(x) PROVE table'[c][k] # NoReport
  <2>1. connected' = connected
      BY <1>2 DEF PostMyStatusEntry
  <2>2. /\ table'[c][k] = table[c][k] \/ table'[c][k] = <<conn[x].from, conn[x].n>>
        /\ <<conn[x].from, conn[x].n>> # NoReport
      BY <1>2, EntryTable, ZenonT(40)
  <2> QED BY <1>0, <2>1, <2>2 DEF ConnectedHasReport
<1>3. ASSUME NEW x \in Slots, PostMyStatusEnd(x) PROVE table'[c][k] # NoReport
  <2>1. /\ table' = table /\ connected' = [connected EXCEPT ![ClientOf(conn[x].from)] = TRUE]
        /\ conn[x].pos > Len(Ek) /\ conn[x].st \in {"sent", "serving"}
        /\ conn[x].op = "mystatus" /\ SlotWired(x) /\ conn[x] \in Conn
      BY <1>3 DEF PostMyStatusEnd, Handling, BaseInv, Wiring, TypeOK
  <2>2. conn[x].from \in Devices /\ Storing(x, conn[x].from)
      BY <2>1 DEF SlotWired, Storing
  <2>3. CASE c = ClientOf(conn[x].from)
    <3>1. PICK i \in 1 .. Len(Ek) : Ek[i] = k
        BY EkType
    <3>2. i \in 1 .. conn[x].pos - 1
        BY <2>1, EkType DEF Conn
    <3> QED BY <2>1, <2>2, <2>3, <3>1, <3>2 DEF Reported, EntriesStored
  <2>4. CASE c # ClientOf(conn[x].from)
      BY <1>0, <2>1, <2>4 DEF ConnectedHasReport
  <2> QED BY <2>3, <2>4
<1>4. ~Restart
    BY DEF Restart
<1>5. \/ UNCHANGED <<table, connected>> \/ Restart
      \/ \E x \in Slots : PostMyStatusEntry(x) \/ PostMyStatusEnd(x)
    BY ZenonT(40)
       DEF Next, Handle, Cycle, DeviceSend, DeviceReceive, DeviceApply, Timeout, Unauthorized,
           GetServerInfos, GetMyActions, PostDone, PostAdminInject, Drop, BadBody, LostHeaders,
           AdminSend, store
<1> QED BY <1>1, <1>2, <1>3, <1>4, <1>5

\* A client is marked connected only when each of its indices has been set:
\* for reports of any length that any number of devices send at once, late,
\* cut down or repeated.
THEOREM ConnectedAfterReport == Spec => []ConnectedHasReport
<1>1. Init => Reported
  <2> SUFFICES ASSUME Init PROVE Reported
      OBVIOUS
  <2>1. \A x \in Slots, d \in Devices : ~Storing(x, d)
      BY IdleType DEF Init, Storing
  <2> QED BY <2>1 DEF Init, Reported, ConnectedHasReport, EntriesStored
<1>2. BaseInv /\ BaseInv' /\ Reported /\ [Next]_vars => Reported'
  <2>1. ASSUME BaseInv, BaseInv', Reported, Next PROVE Reported'
      BY <2>1, EntriesStoredStep, ConnectedStep DEF Reported
  <2>2. ASSUME Reported, UNCHANGED vars PROVE Reported'
      BY <2>2 DEF Reported, ConnectedHasReport, EntriesStored, Storing, ClientOf, vars, store
  <2> QED BY <2>1, <2>2
<1>3. Reported => ConnectedHasReport
    BY DEF Reported
<1> QED BY <1>1, <1>2, <1>3, Base, PTL DEF Spec

-----------------------------------------------------------------------------
(* Each device its own table.  With credentials in every request each      *)
(* device is a client of its own; without them a single device is.         *)

OwnTables == \A d, e \in Devices : ClientOf(d) = ClientOf(e) => d = e

\* Devices have tables of their own with authentication, or if there is one device.
LEMMA AuthenticationSeparates ==
    /\ AuthEnabled => OwnTables
    /\ (\A d, e \in Devices : d = e) => OwnTables
BY DEF OwnTables, ClientOf

\* With tables of their own, every step leaves only a client's own values in its table.
LEMMA EachTableStep ==
    ASSUME OwnTables, BaseInv, EachClientItsTable, Next
    PROVE  EachClientItsTable'
<1> SUFFICES ASSUME NEW d \in Devices, NEW k \in ToSet(Ek),
                    table'[ClientOf(d)][k] # NoReport
             PROVE  table'[ClientOf(d)][k][1] = d
    BY DEF EachClientItsTable, ClientOf
<1>0. ClientOf(d) \in Clients
    BY DEF ClientOf, Clients
<1>1. CASE table' = table
    BY <1>1 DEF EachClientItsTable
<1>2. ASSUME NEW x \in Slots, PostMyStatusEntry(x) PROVE table'[ClientOf(d)][k][1] = d
  <2>1. PICK e : e = conn[x].from
      OBVIOUS
  <2>2. /\ e \in Devices
        /\ table'[ClientOf(d)][k] = IF ClientOf(d) = ClientOf(e) /\ k = Ek[conn[x].pos]
                                    THEN <<e, conn[x].n>> ELSE table[ClientOf(d)][k]
      BY <1>0, <1>2, <2>1, EntryTable
  <2>3. ClientOf(d) = ClientOf(e) => d = e
      BY <2>2 DEF OwnTables
  <2> QED BY <2>2, <2>3 DEF EachClientItsTable
<1>3. ~Restart
    BY <1>0 DEF Restart, EmptyTables
<1> QED BY <1>1, <1>2, <1>3, TableStep

\* When devices are clients of their own, which authentication makes them,
\* a client's table holds what that device reported and nothing else.
THEOREM EachItsTable == ASSUME OwnTables PROVE Spec => []EachClientItsTable
<1>1. Init => EachClientItsTable
    BY DEF Init, EmptyTables, EachClientItsTable, ClientOf, Clients
<1>2. BaseInv /\ EachClientItsTable /\ [Next]_vars => EachClientItsTable'
  <2>1. ASSUME EachClientItsTable, UNCHANGED vars PROVE EachClientItsTable'
      BY <2>1 DEF EachClientItsTable, ClientOf, vars, store
  <2> QED BY <2>1, EachTableStep
<1> QED BY <1>1, <1>2, Base, PTL DEF Spec

-----------------------------------------------------------------------------
(* What a 201 promises.  While device d waits for its only report, nobody  *)
(* else stores for d: what the handler has stored stays, and with the 201  *)
(* the table is the report.                                                *)

Whole(d, n) == \A k \in ToSet(Ek) : table[ClientOf(d)][k] = <<d, n>>

Alone(x, d) ==
    conn[x].op = "mystatus" /\ conn[x].alone /\ conn[x].awaited /\ conn[x].from = d =>
        /\ conn[x].n = dev[d].n
        /\ \A y \in Slots : y # x => ~Storing(y, d)
        /\ Storing(x, d) => \A i \in 1 .. conn[x].pos - 1 :
                                table[ClientOf(d)][Ek[i]] = <<d, conn[x].n>>
        /\ conn[x].st = "answered" /\ conn[x].code = 201 => Whole(d, conn[x].n)

Stored(d) == dev[d].stored => Whole(d, dev[d].n) /\ ~ReportInFlight(d)

Stores == \A d \in Devices : Stored(d) /\ \A x \in Slots : Alone(x, d)

\* The last report of a device changes only when it sends the next one, and
\* is taken for stored only when its answer comes.
LEMMA ReportNumberStep ==
    ASSUME BaseInv, Next, NEW d \in Devices
    PROVE  \/ dev'[d].n = dev[d].n /\ (dev'[d].stored => dev[d].stored)
           \/ DeviceSend(d) /\ dev[d].at = "mystatus" /\ dev[d].conn = 0 /\ ~dev'[d].stored
           \/ /\ DeviceReceive(d) /\ dev'[d].n = dev[d].n
              /\ dev[d].conn \in Slots /\ conn[dev[d].conn].st = "answered"
              /\ conn[dev[d].conn].op = "mystatus" /\ conn[dev[d].conn].code = 201
              /\ dev'[d].stored = conn[dev[d].conn].alone
<1>0. /\ TypeOK /\ \A x \in Slots : SlotWired(x)
      /\ \A e \in Devices : dev[e] \in Device
    BY DEF BaseInv, Wiring, TypeOK
<1> DEFINE Same == dev'[d].n = dev[d].n /\ (dev'[d].stored => dev[d].stored)
<1>1. dev' = dev => Same
    OBVIOUS
<1>2. ASSUME NEW e \in Devices, DeviceSend(e)
      PROVE  Same \/ (DeviceSend(d) /\ dev[d].at = "mystatus" /\ dev[d].conn = 0 /\ ~dev'[d].stored)
  <2>1. /\ \A f \in Devices : f # e => dev'[f] = dev[f]
        /\ dev[e].at # "mystatus" => dev'[e].n = dev[e].n
        /\ dev'[e].stored <=> dev[e].at # "mystatus" /\ dev[e].stored
      BY <1>2, DeviceSendFacts
  <2>2. dev[e].conn = 0
      BY <1>2 DEF DeviceSend
  <2> QED BY <1>2, <2>1, <2>2
<1>3. ASSUME NEW e \in Devices, DeviceReceive(e)
      PROVE  \/ Same
             \/ /\ DeviceReceive(d) /\ dev'[d].n = dev[d].n
                /\ dev[d].conn \in Slots /\ conn[dev[d].conn].st = "answered"
                /\ conn[dev[d].conn].op = "mystatus" /\ conn[dev[d].conn].code = 201
                /\ dev'[d].stored = conn[dev[d].conn].alone
    BY <1>3, DeviceReceiveFacts
<1>4. ASSUME NEW e \in Devices, DeviceApply(e) PROVE Same
  <2>1. PICK f : f = [dev[e] EXCEPT !.at = "done"]
      OBVIOUS
  <2>2. f.n = dev[e].n /\ f.stored = dev[e].stored
      BY <1>0, <2>1 DEF Device
  <2>3. dev'[e] = f /\ \A g \in Devices : g # e => dev'[g] = dev[g]
      BY <1>0, <1>4, <2>1 DEF DeviceApply, TypeOK
  <2> QED BY <2>2, <2>3
<1>5. ASSUME NEW e \in Devices, dev[e].conn \in Slots, GiveUp(e, dev[e].conn) PROVE Same
    BY <1>5, GiveUpFacts
<1>6. ASSUME NEW e \in Devices, Timeout(e) PROVE Same
    BY <1>5, <1>6, TimeoutFacts
<1>7. ASSUME NEW x \in Slots, Drop(x) PROVE Same
  <2>1. CASE conn[x].awaited
    <3>1. /\ conn[x].from \in Devices /\ dev[conn[x].from].conn = x
          /\ GiveUp(conn[x].from, x)
        BY <1>0, <1>7, <2>1 DEF SlotWired, Drop
    <3> QED BY <1>5, <3>1
  <2>2. CASE ~conn[x].awaited
      BY <1>7, <2>2 DEF Drop
  <2> QED BY <2>1, <2>2
<1>8. Restart => Same
    BY RestartFacts
<1> QED BY <1>1, <1>2, <1>3, <1>4, <1>6, <1>7, <1>8 DEF Next, Handle, Cycle,
      Unauthorized, GetServerInfos, PostMyStatusEntry, PostMyStatusEnd, GetMyActions,
      PostDone, PostAdminInject, BadBody, LostHeaders, AdminSend

\* A report is in flight after a step only if it was before, or was just sent.
LEMMA StoringStep ==
    ASSUME BaseInv, Next, NEW y \in Slots, NEW d \in Devices, Storing(y, d)'
    PROVE  \/ Storing(y, d)
           \/ DeviceSend(d) /\ dev[d].at = "mystatus"
<1>1. conn'[y].st # "free" /\ conn'[y].op = "mystatus"
    BY DEF Storing
<1>2. Starts(y) => DeviceSend(d) /\ dev[d].at = "mystatus"
    BY DEF Starts, Storing
<1>3. Continues(y) => Storing(y, d)
    BY DEF Continues, Storing, PostMyStatusEntry, Handling
<1> QED BY <1>1, <1>2, <1>3, ReportStep

\* Nobody but d stores in the table of d.
LEMMA ForeignEntry ==
    ASSUME OwnTables, BaseInv, Next, NEW d \in Devices, \A y \in Slots : ~Storing(y, d), ~Restart,
           NEW k \in ToSet(Ek)
    PROVE  table'[ClientOf(d)][k] = table[ClientOf(d)][k]
<1>1. ClientOf(d) \in Clients
    BY DEF ClientOf, Clients
<1>2. ASSUME NEW x \in Slots, PostMyStatusEntry(x)
      PROVE  table'[ClientOf(d)][k] = table[ClientOf(d)][k]
  <2>1. PICK e : e = conn[x].from
      OBVIOUS
  <2>2. /\ e \in Devices /\ Storing(x, e)
        /\ table'[ClientOf(d)][k] = IF ClientOf(d) = ClientOf(e) /\ k = Ek[conn[x].pos]
                                    THEN <<e, conn[x].n>> ELSE table[ClientOf(d)][k]
      BY <1>1, <1>2, <2>1, EntryTable
  <2>3. ClientOf(d) # ClientOf(e)
      BY <2>2 DEF OwnTables
  <2> QED BY <2>2, <2>3
<1> QED BY <1>2, TableStep

\* With tables of their own, every step keeps an answered report in the table
\* until its device sends the next one.
LEMMA StoredStep ==
    ASSUME OwnTables, BaseInv, Stores, Next, NEW d \in Devices
    PROVE  Stored(d)'
<1> SUFFICES ASSUME dev'[d].stored
             PROVE  /\ \A k \in ToSet(Ek) : table'[ClientOf(d)][k] = <<d, dev'[d].n>>
                    /\ \A y \in Slots : ~Storing(y, d)'
    BY DEF Stored, Whole, ClientOf, ReportInFlight, Storing
<1>1. ~Restart
    BY RestartFacts
<1>2. ~(DeviceSend(d) /\ dev[d].at = "mystatus")
    BY DeviceSendFacts
<1>3. dev'[d].n = dev[d].n /\ Whole(d, dev[d].n) /\ \A y \in Slots : ~Storing(y, d)
  <2>1. Stored(d) /\ DeviceWired(d) /\ \A x \in Slots : Alone(x, d)
      BY DEF Stores, BaseInv, Wiring
  <2>2. CASE dev'[d].n = dev[d].n /\ dev[d].stored
      BY <2>1, <2>2 DEF Stored, ReportInFlight, Storing
  <2>3. CASE /\ dev'[d].n = dev[d].n
             /\ dev[d].conn \in Slots /\ conn[dev[d].conn].st = "answered"
             /\ conn[dev[d].conn].op = "mystatus" /\ conn[dev[d].conn].code = 201
             /\ conn[dev[d].conn].alone
    <3>1. conn[dev[d].conn].awaited /\ conn[dev[d].conn].from = d
        BY <2>1, <2>3, SlotsType DEF DeviceWired
    <3>2. Alone(dev[d].conn, d)
        BY <2>1, <2>3
    <3> QED BY <2>3, <3>1, <3>2 DEF Alone, Storing
  <2> QED BY <1>2, <2>2, <2>3, ReportNumberStep
<1>4. \A y \in Slots : ~Storing(y, d)'
    BY <1>2, <1>3, StoringStep
<1>5. \A k \in ToSet(Ek) : table'[ClientOf(d)][k] = table[ClientOf(d)][k]
    BY <1>1, <1>3, ForeignEntry
<1> QED BY <1>3, <1>4, <1>5 DEF Whole

\* With tables of their own, every step keeps a report that was sent alone the only
\* one of its device being stored, and what it has stored in the table.
LEMMA AloneStep ==
    ASSUME OwnTables, BaseInv, BaseInv', Stores, Next, NEW d \in Devices, NEW x \in Slots
    PROVE  Alone(x, d)'
<1> SUFFICES ASSUME conn'[x].op = "mystatus", conn'[x].alone, conn'[x].awaited, conn'[x].from = d
             PROVE  /\ conn'[x].n = dev'[d].n
                    /\ \A y \in Slots : y # x => ~Storing(y, d)'
                    /\ Storing(x, d)' => \A i \in 1 .. conn'[x].pos - 1 :
                          table'[ClientOf(d)][Ek[i]] = <<d, conn'[x].n>>
                    /\ conn'[x].st = "answered" /\ conn'[x].code = 201 =>
                          \A k \in ToSet(Ek) : table'[ClientOf(d)][k] = <<d, conn'[x].n>>
    BY DEF Alone, Whole, ClientOf
<1>0. /\ conn'[x].st # "free" /\ ~Restart /\ ClientOf(d) \in Clients
      /\ conn[x] \in Conn /\ conn'[x] \in Conn
  <2>1. SlotWired(x)' /\ conn[x] \in Conn /\ conn'[x] \in Conn
      BY DEF BaseInv, Wiring, TypeOK
  <2>2. conn'[x] # Idle
      BY IdleType
  <2> QED BY <2>1, <2>2, RestartFacts DEF SlotWired, ClientOf, Clients
<1>1. CASE Starts(x)
  <2>1. /\ conn'[x].pos = 1 /\ conn'[x].n = dev'[d].n /\ conn'[x].st = "sent"
        /\ ~ReportInFlight(d) /\ \A z \in Slots : z # x => conn'[z] = conn[z]
      BY <1>1 DEF Starts
  <2>2. \A y \in Slots : y # x => ~Storing(y, d)'
      BY <2>1 DEF ReportInFlight, Storing
  <2> QED BY <2>1, <2>2
<1>2. CASE Continues(x)
  <2>1. /\ conn[x].op = "mystatus" /\ conn[x].st # "free" /\ conn[x].alone /\ conn[x].awaited
        /\ conn[x].from = d /\ conn'[x].n = conn[x].n
      BY <1>2 DEF Continues
  <2>2. /\ conn[x].n = dev[d].n
        /\ \A y \in Slots : y # x => ~Storing(y, d)
        /\ Storing(x, d) => \A i \in 1 .. conn[x].pos - 1 :
              table[ClientOf(d)][Ek[i]] = <<d, conn[x].n>>
        /\ conn[x].st = "answered" /\ conn[x].code = 201 => Whole(d, conn[x].n)
      BY <2>1 DEF Stores, Alone
  <2>3. dev[d].conn = x
      BY <2>1 DEF BaseInv, Wiring, SlotWired
  <2>4. ~DeviceSend(d)
      BY <2>3, SlotsType DEF DeviceSend
  <2>5. dev'[d].n = dev[d].n
      BY <2>4, ReportNumberStep
  <2>6. \A y \in Slots : y # x => ~Storing(y, d)'
      BY <2>2, <2>4, StoringStep
  <2>7. ASSUME NEW k \in ToSet(Ek), ~PostMyStatusEntry(x)
        PROVE  table'[ClientOf(d)][k] = table[ClientOf(d)][k]
    <3>1. ASSUME NEW z \in Slots, PostMyStatusEntry(z)
          PROVE  table'[ClientOf(d)][k] = table[ClientOf(d)][k]
      <4>1. PICK e : e = conn[z].from
          OBVIOUS
      <4>2. /\ e \in Devices /\ Storing(z, e)
            /\ table'[ClientOf(d)][k] = IF ClientOf(d) = ClientOf(e) /\ k = Ek[conn[z].pos]
                                        THEN <<e, conn[z].n>> ELSE table[ClientOf(d)][k]
          BY <1>0, <3>1, <4>1, EntryTable
      <4>3. e # d
          BY <2>2, <2>7, <3>1, <4>2
      <4>4. ClientOf(d) # ClientOf(e)
          BY <4>2, <4>3 DEF OwnTables
      <4> QED BY <4>2, <4>4
    <3> QED BY <1>0, <3>1, TableStep
  <2>8. Storing(x, d)' => \A i \in 1 .. conn'[x].pos - 1 :
            table'[ClientOf(d)][Ek[i]] = <<d, conn[x].n>>
    <3> SUFFICES ASSUME Storing(x, d)', NEW i \in 1 .. conn'[x].pos - 1
                 PROVE  table'[ClientOf(d)][Ek[i]] = <<d, conn[x].n>>
        OBVIOUS
    <3>1. Storing(x, d)
        BY <2>4, StoringStep
    <3>2. conn[x].pos \in 1 .. Len(Ek) + 1 /\ conn'[x].pos \in 1 .. Len(Ek) + 1
        BY <1>0 DEF Conn
    <3>3. Ek[i] \in ToSet(Ek) /\ Len(Ek) \in Nat
        BY <3>2, EkType
    <3>4. CASE PostMyStatusEntry(x)
      <4>1. /\ conn'[x].pos = conn[x].pos + 1
            /\ table'[ClientOf(d)][Ek[i]] = IF Ek[i] = Ek[conn[x].pos] THEN <<d, conn[x].n>>
                                            ELSE table[ClientOf(d)][Ek[i]]
          BY <1>0, <2>1, <3>3, <3>4, EntryFacts, EntryTable
      <4>2. i # conn[x].pos => i \in 1 .. conn[x].pos - 1
          BY <3>2, <3>3, <4>1
      <4> QED BY <2>2, <3>1, <4>1, <4>2
    <3>5. CASE ~PostMyStatusEntry(x)
      <4>1. conn'[x].pos = conn[x].pos
          BY <1>2, <3>5 DEF Continues, Storing
      <4> QED BY <2>2, <2>7, <3>1, <3>3, <3>5, <4>1
    <3> QED BY <3>4, <3>5
  <2>9. conn'[x].st = "answered" /\ conn'[x].code = 201 =>
            \A k \in ToSet(Ek) : table'[ClientOf(d)][k] = <<d, conn[x].n>>
    <3> SUFFICES ASSUME conn'[x].st = "answered", conn'[x].code = 201, NEW k \in ToSet(Ek)
                 PROVE  table'[ClientOf(d)][k] = <<d, conn[x].n>>
        OBVIOUS
    <3>1. ~PostMyStatusEntry(x)
        BY EntryFacts
    <3>2. table[ClientOf(d)][k] = <<d, conn[x].n>>
      <4>1. CASE conn[x].st = "answered" /\ conn[x].code = 201
          BY <2>2, <4>1 DEF Whole
      <4>2. CASE PostMyStatusEnd(x)
        <5>1. Storing(x, d) /\ conn[x].pos > Len(Ek)
            BY <2>1, <4>2 DEF PostMyStatusEnd, Handling, Storing
        <5>2. PICK i \in 1 .. Len(Ek) : Ek[i] = k
            BY EkType
        <5>3. i \in 1 .. conn[x].pos - 1
            BY <1>0, <5>1, EkType DEF Conn
        <5> QED BY <2>2, <5>1, <5>2, <5>3
      <4> QED BY <1>2, <3>1, <4>1, <4>2 DEF Continues
    <3> QED BY <2>7, <3>1, <3>2
  <2> QED BY <2>1, <2>2, <2>5, <2>6, <2>8, <2>9
<1> QED BY <1>0, <1>1, <1>2, ReportStep

\* Where devices have tables of their own, a report that was answered 201
\* and overlapped no older one of the device is what its table holds, until
\* the device sends the next one.
THEOREM AnsweredIsStored == ASSUME OwnTables PROVE Spec => []AnsweredReportIsStored
<1>1. Init => Stores
  <2> SUFFICES ASSUME Init PROVE Stores
      OBVIOUS
  <2>1. \A d \in Devices : ~dev[d].stored
      BY DEF Init, CycleStart
  <2>2. \A x \in Slots : ~conn[x].awaited
      BY IdleType DEF Init
  <2> QED BY <2>1, <2>2 DEF Stores, Stored, Alone
<1>2. BaseInv /\ BaseInv' /\ Stores /\ [Next]_vars => Stores'
  <2>1. ASSUME BaseInv, BaseInv', Stores, Next PROVE Stores'
      BY <2>1, StoredStep, AloneStep DEF Stores
  <2>2. ASSUME Stores, UNCHANGED vars PROVE Stores'
    <3>1. table' = table /\ conn' = conn /\ dev' = dev
        BY <2>2 DEF vars, store
    <3> QED BY <2>2, <3>1 DEF Stores, Stored, Alone, Whole, ClientOf, Storing, ReportInFlight
  <2> QED BY <2>1, <2>2
<1>3. Stores => AnsweredReportIsStored
    BY DEF Stores, Stored, Whole, AnsweredReportIsStored
<1> QED BY <1>1, <1>2, <1>3, Base, PTL DEF Spec
==============================================================================
