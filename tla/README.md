# Verification of essensys-server-backend

TLA+ models of the Go server in `src/`, checked with TLC; every safety and action
property that a passing run checks is also proved with TLAPS, and so are the two
refinements but for the liveness of `Store`. The server is polled by BP_MQX_ETH controllers
("devices"): each cycle a device asks which values are wanted, reports them,
fetches the pending actions, applies them and acknowledges each one. An
administrator injects the actions. Everything is kept in memory.

## 1. Inventory

| Part | State it keeps | Operations | Depends on |
|---|---|---|---|
| Data store, `internal/data/memory_store.go` | the map of clients, each with an exchange table and a connection flag; ONE action queue for all clients; three kinds of mutex | the eight methods of `Store` | nothing |
| Action service, `internal/core/action_service.go` | none | `AddAction`, `GenerateCompleteBlock`, `BitwiseFusion` (only called by tests), `ProcessAction` (a stub) | the store |
| Status service, `internal/core/status_service.go` | none | `UpdateStatus`: one `SetValue` per entry, then `SetClientConnected` | the store |
| API handlers and router, `internal/api/handlers.go`, `router.go` | none | `GetServerInfos`, `PostMyStatus`, `GetMyActions`, `PostDone`, `PostAdminInject`, `/health` | both services, the store, the middleware |
| JSON normaliser, `internal/api/json_normalizer.go` | none | `NormalizeJSON`: six textual rewrites, then a validity test | nothing |
| Basic authentication, `internal/middleware/auth.go` | the credentials map, read only | `BasicAuth` answers 401 or passes the user name on as the client | nothing |
| Recovery and logging, `internal/middleware/recovery.go`, `logging.go` | the status of the request in flight | turn a panic into a 500; remember the first status | nothing |
| Connection server, `internal/server/legacy_http_server.go` | per connection: what was read, the buffered answer | `Serve` starts one goroutine per connection; `handleConnection` reads with a 10 s deadline, repairs the request line, calls the router, writes the answer with one write | the router |
| Configuration, `internal/config/config.go` | the configuration, read once | defaults, then YAML, then environment, then `Validate`; a refused value is skipped with a warning, an invalid result ends the process | nothing |
| Start and stop, `cmd/server/main.go` | listener, signal channel | loads the configuration, opens the listener, starts `Serve`, waits for its error or a signal; on a signal closes the listener and waits two seconds | all |

How they interact: a connection's goroutine runs the whole chain (recovery,
logging, authentication, handler, services) by direct calls; goroutines meet
only in the store. There are no callbacks and no messages inside the server.
Between device and server there is one request per connection, and either side
may stop at any time.

What is hard here:

- goroutines interleave inside the store: the lookup-or-insert of clients, the
  in-place removal from the action slice, pointers used after an unlock, a
  method that locks twice;
- a handler is several store calls, so handlers interleave with each other, and
  a handler whose device has given up runs on;
- a request or an answer may be lost at any point, the device then starts its
  cycle over; several devices share the queue; the process may restart and
  loses everything;
- an action is useless unless its block of indices is complete and ascending;
- who may act depends on two sources that may each be half readable, on two
  places that split credentials, and on headers that may not arrive;
- the devices send bodies that are no JSON, and the repair is textual.

What makes each part correct: the store's methods are atomic and its calls
return; actions are delivered at least once, in order, and are not dropped
before some device applied them; a 201 to a report means the report is in the
table; a client is connected only after a whole report; with authentication
asked for nobody acts but a listed client, and no listed client is refused; a
body is read as its sender meant or refused; a light block is complete and
keeps what was asked. The hazards, each with the line where it bites and the properties that
watch it, are listed in `PROJECT.json`.

## 2. Modules

| Module | Models |
|---|---|
| `StoreCalls` | the methods of the `Store` interface: their arguments and results |
| `Store` | what the interface promises: every method takes effect at one instant |
| `MemoryStore` | `memory_store.go`, one lock operation or shared access per step |
| `MemoryStoreProofs` | its inductive invariant: types, no races, current pointers; that it implements `Store` |
| `Delivery` | what the server promises about actions, without requests |
| `Gateway` | devices, administrator, connections, handlers, faults |
| `GatewayProofs` | its inductive invariant; what strangers can do; the way of an action, and that it implements `Delivery`; what a 201 to a report means |
| `SequenceLemmas` | facts about queues and induction, cited by the proofs |
| `ActionBlock` | `GenerateCompleteBlock`, and what a block must be |
| `ActionBlockProofs` | that every block is, for every list of parameters |
| `ActionFusion` | `BitwiseFusion`, and the claim that `AddAction` applies it |
| `Config` | `config.go` and `BasicAuth`, as operators |
| `ConfigProofs` | that the configuration accepts exactly the credentials that are listed |
| `LegacyHTTP` | a connection's life: reading, routes, middleware, response writers; start and stop of the process; extends `Config` |
| `LegacyHTTPProofs` | its inductive invariant, and who acts, on what, and what is answered |
| `Bodies` | `NormalizeJSON` and what the handlers decode, as operators; a body from its sender to the handler |
| `LexemeProofs` | the lexemes a report is written with, and that nothing else is written with them |
| `BodiesProofs` | that the repair changes no value, that it repairs what devices write, and that cut bodies are refused |
| `MCMemoryStore`, `MCGateway`, `MCActionBlock`, `MCLegacyHTTP` | small instances for TLC |

Composition: `MemoryStore` implements `Store` (`Linearizable`, `KeepsPromise`).
That is what entitles `Gateway` to take one step per store call. `Gateway`
implements `Delivery` (`KeepsDeliveryPromise`). `Gateway` names an action by
its GUID and `ActionBlock` says what its parameters are. `LegacyHTTP` is what
entitles `Gateway` to its faults: a connection either ends before its request
line and without an effect (`Drop`), or is refused with 400 or 401 without an
effect (`BadBody`, `LostHeaders`, `Unauthorized`), or its handler ran on an intact
request; `ActsOnIntactOnly` and `AnswerTellsEffect` say so. An answer whose write
fails after the handler acted is, for `Gateway`, a request that is served and that
its device gives up (`Timeout`). `LegacyHTTP` in turn
takes from `Bodies` that a body that was cut is refused (`NeverMisread`), and
from `Config` who may act.

### MemoryStore

`pc[p]` is the point goroutine `p` has reached in its method; a label names the
access that comes next. The state is the three mutexes, the map `clients`, and
per `ClientData` its table and flag, and the queue's slice as an array plus the
length in the header. The slice is split this way because `append` and the
removal `append(a[:i], a[i+1:]...)` touch the array and the header separately,
and between the two the array is in a state no caller may see. A ClientData is
named by its client and the goroutine that made it, so that a second object
for one client is visible as such.

`sync.RWMutex` is modelled with its announcement: a waiting writer holds back
new readers. Without it TLC finds a writer starved by readers that overlap for
ever, which Go excludes; `CanRLockBarging` is that lock, and it breaks
`KeepsPromise`.

The refinement mapping lets a client without ClientData have an empty table,
hides the last slot between the shift and the shorter header, and makes a call
take effect with the access that decides its result. Its operators are named
`Abs...`, one per variable of `Store`.

### Gateway

A slot of `conn` is one connection: free, sent, being served, answered. A
device has one request outstanding; when it gives up, the connection stays, with
`awaited = FALSE`, and the handler runs to its end. Faults are `Timeout` (the
device gives up at any moment), `Drop` (the request line never arrives),
`BadBody` (the body arrives cut: 400), `LostHeaders` (the request is cut before
its credentials: 401) and `Restart`. An answer that is lost is
a `Timeout` of an answered request. `order`, `applied`, `unconfirmed` and
`successes` are history and no action reads `applied`, `unconfirmed` or
`successes`; `order` also serves as the bound on injections and as the record
of used GUIDs.

The device is not in the repository. Its cycle is taken from
`docs/protocol_diagram.md`, which the server's answers are built around, and is
marked external in the map.

### ActionBlock

The Go map is a function that the loop over the parameters builds entry by entry
(`ExplicitValues`), `FilledIn` adds what is missing, and its random iteration
order followed by the sort is `Sorted`. Values are numbers or texts that
`strconv.Atoi` rejects. `Complete` and `Preserving` state without an algorithm
what a block must be. `BitwiseFusion` has a module of its own because the module
`Bitwise` defines the bits of a number by recursion, which the provers cannot
use.

### LegacyHTTP

A request is the sequence of its pieces, and `rest` is what the server has not
read. `Cut` makes every further read fail; it stands for a peer that closes, a
network that breaks and the ten-second deadline, and it is fair because time
passes. `at` follows `handleConnection`: request line, headers, body, parsing,
handler, flush. The three response writers are operators on one record: the
buffer at the bottom, the logging writer that lets one status through, and
`http.Error` called by the recovery below it. `out` is what reached the peer: the
one write of an answer may fail, its error is dropped, and the connection closes
with nothing in `out` though the handler has acted (`FlushFails`; `RefusalFails` for
the bare 400). A handler is the flag `acted` and
the steps it takes on its writer, and it may panic before or after any of them.
Of several Content-Length lines only the first counts (`Heard`): if it is spelled so
that Sscanf does not read it, the body stays unread whatever follows.
A request carries the text of its credentials; whether its header arrives is
another matter. `takes` says whether the peer takes its answer: `conn.Write`
returns once the buffers hold the answer, and only the list of actions grows
with the queue, so only that request may have a peer that blocks the write.

`main` goes through the stages of `main()`: `load`, `listen`, `serve` (the
goroutine runs, `signal.Notify` was not called yet), `select`, then `closing`
and `draining`, or the exit. `given` is what the operator set up and never
changes; `cfg` is what `Load` makes of it. An error of Accept ends `Serve` and
with it the process.

That a JSON text ending in zero bytes, and an empty one, is refused is taken
into `BodyValid`; the run `action_block` checks it on the handlers' decoding.

### Config

A source is a function from the fields it mentions to values, and `Bad` is a
value the field's parser refuses. A missing file, one that is no YAML and an
empty one all mention nothing; one bad field leaves the others. Credentials are
sequences of the words between their colons, so that splitting at the first
colon is Head and Tail. `Listed` and `AuthAsked` say what the operator asked
for without the steps of `Load`; `OnlyListedActs` and `ListedNotRefused` compare
that with what happens at the end of a connection, through `Load`, `Validate`,
the router and `BasicAuth`. A name with a colon, possible in the file only,
locks its client out; `ListedNotRefused` leaves that out. `AUTH_ENABLED` with a
value `ParseBool` refuses leaves authentication as the file or the default has
it, which is off.

### Bodies

A text is a sequence of tokens, and a regular expression of the repair matches
three of them. `encoding/json` is outside the repository and is modelled as the
inverse of writing: a text is read as the value whose quoted rendering, in
either order of its members, has the same lexemes. A string is one lexeme, so a
rewrite inside a string is visible. Members that are missing, doubled or unknown
do not occur in the texts, nor do strings with an escaped quote. `Repair` and
`Scan` are recursive functions, so that they can be reasoned about.

`Sent` is the set of bodies that are sent: what is meant, how it is written, and
how many tokens at the end did not arrive, which `handleConnection` leaves zero
(`Received`). `ReceiveBody` is the handler that reads one. `MCActionBlock` puts a
small set for `Sent` and lets `ReceiveBody` interleave with the steps of
`ActionBlock`, with which it shares no variable, so every behaviour of `MCSpec` is
one of `ReceiveSpec`.

## 3. Runs

| Run | Instance | Question | Result |
|---|---|---|---|
| `store_queue` | 3 goroutines, 3 GUIDs | are the queue's methods atomic and free of races? | holds |
| `store_clients` | 3 goroutines, 2 clients, 2 indices, 2 values | the same for tables and connection flags while clients are created; are pointers current? | holds |
| `store_live` | 3 goroutines, 1 client, the calls that take a read-write lock, fairness | does every such call return? | holds |
| `store_per_client` | 2 goroutines, 2 clients | is a client handed only its own actions, as design.md says? | violated: one global queue |
| `gateway_queue` | 2 devices, 2 actions, 1 fault | delivery with devices that share the queue | holds |
| `gateway_retry` | 1 registered device and 1 stranger, 1 action, 2 faults, 1 restart, fairness | delivery with retries, does every action settle, does a stranger change anything? | holds |
| `gateway_reports` | 2 devices, 2 reports of 2 entries, 2 faults | what does a 201 to a report mean? | holds |
| `action_block` | up to 3 parameters; bodies of up to 2 entries in 64 spellings, or cut | is every block complete, ascending, faithful, stable; is a body read as meant or refused? | holds |
| `legacy_request` | 14 configurations, 1 connection, 33 requests, fairness | who acts, on what, and what is answered when a request is cut, a handler panics or a write fails; does the connection end; is one accepted during the shutdown? | holds |
| `legacy_spelling` | a Content-Length spelled differently, alone, before or after a readable one | is an announced body read? | violated: it is left out |
| `legacy_stall` | a peer that does not take its answer, fairness | does a write end, as a write timeout promises? | violated: it has no deadline |
| `action_fusion` | up to 2 parameters | are two values for one light merged by OR, as the comment says? | violated: the last one is kept |

Bounds. Three goroutines give one inside a lock, one waiting and one elsewhere;
every conflict in the store is between two. Three GUIDs let an acknowledgement
remove the first, a middle and the last element. Two clients and two indices
tell apart what must not be mixed, two entries make a report that can be half
stored. Two reports let an old one overtake a new one. Two actions are needed
for order (`gateway_queue`), two faults for a lost done whose retry is lost too,
one restart for a loss in the middle of a cycle (`gateway_retry`). For liveness
(`store_live`) one goroutine waits and two overlap for ever; its calls are `SetValue`,
`GetAllValues`, `SetClientConnected` and `IsClientConnected`, which between them take
the store's and the table's lock in every mode and order the code has. `GetValue` locks
as `GetAllValues` does, and the queue's methods hold one plain mutex, no other, and never
wait while they hold it. One
connection is enough in `LegacyHTTP`: connections share only `main` and the
listener, and what they share through the store is the subject of the other
modules. The configurations are chosen, not enumerated: each branch of `Load`
and `Validate` is taken, with and without authentication, and the credentials
include a replaced key, a key with a colon, an empty key and unknown users. The
bodies have one entry with every value, or two with fixed ones; the values hold
a blank and two of the patterns of the repair. The injected indices lie on both
sides of each limit of the light range, and three entries allow a duplicate
around another.
A body of two parts can be half read.
`MaxReports`, `MaxFaults`, `MaxRestarts`, the number of GUIDs, `MaxParams`,
`MaxEntries` and `MaxBody` are the only bounds; beyond its last report a device
keeps polling with the same number, so its cycle never stops.

Symmetry is used over goroutines and devices in safety runs only, and no
formula tells them apart. `CHECK_DEADLOCK` is off for the runs of
`MCActionBlock`, where a body is read once, and for those of `MCLegacyHTTP`,
where the process exits.

Fairness. `MemoryStore`: strong fairness of acquiring, since `sync.Mutex` and
`sync.RWMutex` starve nobody, weak fairness of every other step, since the Go
scheduler runs what is runnable; calling a method is not fair. `Gateway`: a
device polls for ever and a handler runs to its end; the administrator, the
faults and restarts are not fair. `LegacyHTTP`: the read deadline passes and the
scheduler runs the goroutines, that of `main` and the one that accepts included;
a peer need not send anything, nor take its answer, a write need not fail, and a
signal need not come.
`EveryActionSettles` is about bounded faults: with a device that fails for ever nothing is promised.

Every property of a passing run has a mutant, a definition that changes one
modelled operation the way a plausible bug would, named after it and marked
"Mutant" where it is defined; `PROJECT.json` pairs them.

## 4. Proofs

The theorems hold for every value of the constants that satisfies the named
ASSUMEs of the modules; nothing else is assumed, save the one hypothesis of the
report theorems given below. Every run of a module evaluates its ASSUMEs.

### Data store

For any goroutines, clients, indices, values and GUIDs. The assumptions are
`CallsAssumption` (calls are well typed, a GetAll asks for at least one index,
the null values are distinct from real ones) and `NoObjAssumption`.

- `TypeCorrect`: `Spec => []TypeOK`;
- `NoRaces`: `Spec => []RaceFree`;
- `PointersStayCurrent`: `Spec => []PointersCurrent`;
- `StoreImplemented`: `Spec => Linearizable`, the refinement of `Store`.

The first three follow from `Invariance`: `Spec => []IInv`. None of them is
inductive alone: that two goroutines are not both about to write a table needs
who holds which lock at which label (`StoreLockInv`, `TableLockInv`,
`QueueLockInv`), that a lock excludes (`ExclusiveInv`), which method a label
belongs to (`CallInv`), and, because the lock of a table is found through the
pointer, that pointers are what the map holds (`PtrInv`); that the slice stays
well formed needs the facts of `LoopInv`. There is one lemma per action, and
under it one step per group of conjuncts.

The refinement adds `ProgressInv` to `IInv`: a ClientData belongs to the client
it is stored under, so two clients never share one (`OwnerInv`); the half-read
list of a GetAll is what the table holds now, because no writer enters under its
read lock (`ResultInv`); what Acknowledge has passed is not the GUID it looks
for, and what it shifts over is (`ScanInv`). Its induction rests on one lemma,
`OthersUndisturbed`: a step of one goroutine leaves what another has locked as it
was. Then each method takes effect at one access: `WriteTable`, the last
`ReadTable`, `SetFlag`, `ReadFlag`, `ExtendSlice`, `CopySlice`, `ScanMiss` or
`ShiftSlots` (the lemmas named `...Seen`), and every other step leaves what
callers observe as it was (`...Unseen`). That the shift removes the first
occurrence is `RemoveFirstAt` of `SequenceLemmas`.

### Gateway

For any devices, GUIDs, indices, credentials and bounds, under
`GatewayAssumption`. The invariants come in layers; each layer is inductive
given those above it, and the step lemmas under it are by what one step does to
one request, one device and the history, not by each action anew.

| Layer | Says | Gives |
|---|---|---|
| `BaseInv` | types; an awaited connection and its device point at each other (`Wiring`); the queue holds injected actions, each once (`Queued`) | `TypeCorrect` |
| `Strangers` | with authentication on, who is not registered leaves nothing behind, hears neither 200 nor 201 and so never has an action to do | `NoTrace` |
| `Delivering` | every list under way names injected actions once each, a done names an applied action, an acknowledged action left the queue | `OneSuccessEver` |
| `Once` | an action that a device applied, and whose done was not given up, is in no list for that device but the one it is working on | `RepeatsAreUnconfirmed` |
| `InOrder` | the queue, and each list as far as its device has not applied it, are in the order of injection | `DeliveryImplemented` |
| `Reported` | a handler that is at entry k has stored the entries before it | `ConnectedAfterReport` |
| `EachClientItsTable`, `Stores` | while a device has one report under way, the entries stored so far stay | `EachItsTable`, `AnsweredIsStored` |

`EachItsTable` and `AnsweredIsStored` have the hypothesis `OwnTables`: no two
devices are one client. The lemma `AuthenticationSeparates` derives it from
authentication being on, or from a single device. Without it both properties are
false: all unauthenticated devices write the table of "default". The run
`gateway_reports` has authentication on.

### Connections and configuration

For any sources, requests and connections, under `LegacyAssumption` (what a
request is) and `SourcesAssumption` (the fields of a source have their types).

- `BaseInv` of `LegacyHTTPProofs`: what was read is a prefix of the request, in
  order (`ReadInOrder`); where the request is on its way to its answer
  (`Answering`: untouched, responding, unsent, told); who acted was let in and
  its body was whole (`Entitled`); a connection exists only under the loaded
  configuration (`Started`). It gives `TypeCorrect`, `OneWriteAlways`,
  `AnswersTell`, `ActsOnIntact`, `OnlyListed` and the action property `Drains`.
  `AnswersTell` allows that something was done and no answer arrived only where the
  writer was flushed, so that the write is what failed.
- `RefusedInv`: a 401 that is decided, set or sent is for a request that is not
  let in. It gives `ListedServed`.
- `OnlyListed` and `ListedServed` need what the configuration makes of the
  listed credentials: `LastEntryCounts` says that the map built by
  `parseClientCredentials` holds for each name the key of its last entry, for a
  list of any length. `AcceptedIsListed`, `ListedIsAccepted` and `AskedIsLoaded`
  lift this through `Load` and `BasicAuth`.

### Blocks

For any light range, any scenario index (inside the range or not) and any set of
parameter lists, under `ActionBlockAssumption` (indices are integers):
`LightBlocks`, `AskedValues` and `AgainSame`. They rest on three facts about every
list that touches a light: `BlockComplete`, `BlockPreserves`, `BlockAgain`.

- `LastValueCounts`: the map built by the loop has the indices of the list, each
  with the value given last; by induction over the list.
- `Ranks`, `AscendingOf`, `SortedOf`: counting the smaller members numbers a
  finite set without a gap, so sorting a map loses no key and doubles none. The
  numbering is an injection into an interval of the same cardinality, hence onto
  it; no induction is needed.

### Bodies

For any set of bodies, their values, lists and strings of any length, in any
spelling, under `SentAssumption` (a body is a report or entries, written in some
style, a number of its tokens lost) and `NumbersAssumption` (a number is no name
and no punctuation; words may be any tokens). The lemma
`BodyHandledHolds` carries the reachable states over to the operators, which the rest
is about.

- *Which lexemes.* `ClosedReport` and `ClosedEntries` give every lexeme of a
  rendering by its place: an entry is nine lexemes, a comma between two. They come
  from how the lexer composes (`Closed`: after a text that leaves no string open
  the lexer goes on as if it had just begun), by induction over the list.
- *Nothing else has them.* `ReportUnique`, `EntriesUnique` and `EntryUnique`: two
  renderings with the same lexemes but for quotes around names, each in an order
  and spacing of its own, are of one value. So decoding finds at most one.
- *The repair.* A rule is followed through a text token by token. `Follows`
  relates the lexer on the text as it was with the lexer on the text as it becomes:
  they are in a string at the same time and have the same lexemes but for names
  that gained their quotes, or else the text is broken (`Doomed`): a quote that a
  rule put into a string makes that string end at a name, and two lexemes stand
  side by side that no JSON has. The invariant has to say that broken texts stay
  broken, and that the third rule, which opens an object that nothing closes, applies
  outside strings only where no rendering has a name (`BareArray`). `Kept` is what follows for the rules one
  after the other, and with `ReportUnique` it gives the reading half of
  `NeverMisreadHolds`.
- *Cut bodies.* No rule removes a zero byte (`ZeroedRewrite`), and the lexer makes a
  lexeme of it that no rendering has (`ZeroedScan`).
- *Repaired reports.* `LegacyReportReadHolds` needs that every rule applies wherever
  it should. If blanks stand in strings only (`Tight`) and no string holds a brace,
  bracket or comma (`Free`), a name is preceded and followed in the text by the
  tokens that precede and follow it among the lexemes (`Linked`), so each rule quotes
  its name everywhere (`Quoting`); it keeps `Tight` and `Kept`, and six
  rules later every name is quoted. Reports without bare names need none of this:
  no rule finds anything in them.
- `InjectionReadHolds`: the text is not repaired, so it is read if and only if its
  lexemes are those of a quoted rendering, and a bare name is not one of them.

### Induction over data

The library's induction theorems take an operator as a parameter and cannot be
instantiated by the provers. `NatSetInduction` of `SequenceLemmas` states
induction for a set and derives it from the well-foundedness of < on the
naturals. `Parsed` (configuration) and `Built` (blocks) show with it that the
recursive function of a loop exists, `LastEntryCounts` and `LastValueCounts` what
it computes. `Recursion` of `LexemeProofs` does the first part once for every
such function: it exists, and there is one. `Scanned`, `Normalized` and `Flattened`
apply it to the lexer, the six rules and the concatenation of a rewritten text.

### Only model-checked

Liveness (`KeepsPromise`, `EveryActionSettles`, `ConnectionsEnd`) is out of the
prover's reach. The four violations are counterexamples and nothing to prove.

## 5. Where code and documents disagree

- `AddAction` does not merge values by OR, though its comment, README and
  requirements 3.4 and 10.1 say so (run `action_fusion`).
- A block that names index 590 keeps the value it was given, as
  `action_service_test.go:132` asserts, though requirements 4.2
  (`.kiro/specs/essensys-backend-go/requirements.md:66`), Property 12
  (`design.md:377`) and `docs/essensys-client.md:286` give it the value "1" in every
  light block. `AskedValuesKept` follows the code and its test (and requirements 4.4).
- The action queue is global, though design.md puts it into each client's data
  (run `store_per_client`).
- A Content-Length header is searched for in any spelling but scanned in one,
  so the body that it announces is not read (run `legacy_spelling`).
- The timeouts of the configuration are validated and logged but never used: the
  read deadline is ten seconds, a write has none (run `legacy_stall`).
- The comment in `json_normalizer.go:28` says that the third rewrite turns `[k:`
  into `["k":`; the code writes `[{"k":`, an object that nothing closes. Either
  way the text is refused.
- `config.go:192` says that all requests are rejected when authentication has no
  clients; `/health` and paths outside `/api/` are not.

## 6. Not modelled, and the plan

Modelling is done but for what this list leaves out, and every property that the
provers can reach is proved. What would extend the project is escaped quotes in
`Values` and members that are missing or doubled, which change `Lex` and the
decoding and therefore `ClosedReport` and `ReportUnique`.

Left out: the retry of an injection whose answer was lost, because the request
has no identity and the code makes no promise about it; the length of the queue,
because the code has no limit (design.md:621 speaks of 100); the answer to a body
that is valid JSON but no report, which is read as an empty one;
`internal/middleware/debug.go` and the log lines of
`internal/server/logging_listener.go`; of `pkg/protocol/types.go` the layout of
the answers; the mux's redirect from `/api/done` to `/api/done/`;
`docs/server.sample.go` (an older sample), the scripts under `test/`.
