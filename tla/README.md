# Verification of the Matter / LwM2M bridge

TLA+ modules, TLC configurations and TLAPS proofs about the bridge in `src/`: an ESP32-H2 program that lets Matter
devices use LwM2M objects over CoAP, and CoAP clients use Matter devices bound to the bridge.

All line numbers refer to the files under `src/`. The repository has no tests; the comments in its code are the only
statement of what it is meant to do.

## 1. Inventory

### Tasks

The chip has one core and FreeRTOS schedules by priority (`sdkconfig`, `dependencies.lock`):

| task | priority | created | does |
|---|---|---|---|
| CHIP | 1 | by the Matter stack from `app_main` | events of the Matter stack and a queue of 25 work items (`ScheduleWork`) |
| AppTask | 1 | `main/AppTask.cpp`, from `app_main` | events of the button, from a queue of 10 |
| coap_server | 5 | `main/main.cpp:732`, at the end of `InitServer` | `InitCoapServer`: loads the LwM2M file, creates the resources, then serves CoAP requests for ever |

`coap_server` pre-empts the CHIP task anywhere, and gives the core back only where it sleeps or waits for a packet.
CHIP task and AppTask share a priority and are time-sliced. Nothing is protected by a lock.

### Components

| component | state | operations | talks to |
|---|---|---|---|
| Binding handler (`BindingHandler.cpp`) | binding table, `BindingCommandData` blocks, pending notifications, `result_ptr` | `InitBindingHandler(Internal)`, `SwitchWorkerFunction`, `BindingWorkerFunction`, `StateChangedHandler`, the four `Process...`, `ContextReleaseHandler`, `onSuccess`, `onFailure` | gets blocks from the CoAP server and the AppTask through the CHIP queue; hands values back through `result_ptr` |
| CoAP server, request handlers (`CoapServer.cpp`) | the request being served, a count of tries | `hnd_attribute_get`, `hnd_attribute_put`, `hnd_command_put`, the `Forward...` functions | binding handler, id mapping |
| CoAP server, lifecycle (`CoapServer.cpp`, `InitCoapServer`) | `coap_ctx`, registered resources | `init_server`, `cleanup_server`, `start_server`, `Register...`, `GenerateCoapResource` | LwM2M object definition, address text |
| CoAP client (`CoapClient.cpp`) | `ctx`, `optlist`, `have_response`, five document globals | nine functions `Load...` and `CoapClient...` with one body | called by the start-up, by `coap_server`, and by the Matter callbacks |
| Matter callbacks (`main.cpp:376`-`490`) | none | external attribute read and write, instant action | id mapping, CoAP client |
| Id mapping (`BridgeUtils.h`, `main.cpp:503`) | four `BiMap`s in `coap_mapping` and in `matter_mapping` | `insert`, `get_ipso_id`, `get_matter_id`, `GenerateMatterIpsoMapping`, `ExtractBetweenSlashes` | filled by the start-up, read by the handlers and the Matter callbacks |
| Start-up (`app_main`, `InitServer`, `ConvertAndDeployMatter`) | how far it has come | the steps in order | everything |
| Device table (`main.cpp`) | `gDevices`, `gCurrentEndpointId`, `gFirstDynamicEndpointId` | `AddDeviceEndpoint`, `RemoveDeviceEndpoint`, `CreateCustomDevice` | Matter data model |
| Device, DeviceCallbacks | name, location, reachable, change callback | setters, `HandleDeviceStatusChanged`, event callbacks | CHIP queue |
| AppTask and Button | event queue of 10 | `ButtonEventHandler` (interrupt), `PostEvent`, `SwitchActionEventHandler` | CHIP queue |
| Address text (`BridgeUtils.cpp`) | none | `decToHexa`, `Ip6ToStr` | server lifecycle |
| LwM2M object definition (`LwM2MObject.hpp`, `ParseObjectDefinition`) | none | one parser | server lifecycle |

sdf-matter-converter, nlohmann json and pugixml are submodules whose content is not in the repository; the data model
(`.zap`, `.matter`) is generated.

### What a CoAP read goes through

1. `hnd_attribute_get` on `coap_server` allocates a `BindingCommandData`, fills it from the id mapping and posts it with
   `ScheduleWork(SwitchWorkerFunction, data)`. It then sleeps ten times for five seconds and looks at `result_ptr` each
   time it wakes.
2. The CHIP task takes the item. `NotifyBoundClusterChanged` hands the block to every matching entry of the binding
   table: a multicast entry at once, a unicast entry when there is a session with the peer.
3. `StateChangedHandler` sends the read. When its last notification is done, `ContextReleaseHandler` deletes the block.
4. `onSuccess` assigns a new cell to the global `std::unique_ptr` `result_ptr`.
5. The handler finds a cell, copies the value, resets `result_ptr` and answers. If it finds none it answers too, with
   the number of bytes an uninitialised variable says.

Writes and commands go through steps 1 to 3 and are answered at once; a button press is a command without an answer.

### What is hard, and what makes each component correct

* **Forwarding.** Two tasks share `result_ptr` without a lock; a value may arrive after its read has given up; blocks
  pass through a bounded queue and an unknown number of notifications that may fail. Correct when: no block is used
  after its release or released twice, and every block that is taken is released; a value answers one read, and the
  right one; no cell is lost or deleted twice; a read is always answered; a request is not lost.
* **Start-up.** A document keeps what it held when a load fails; the button may be pressed before `InitServer` has run,
  and the binding manager is initialised by a work item behind those already queued. Correct when: the binding manager is
  ready before the first CoAP request reaches it, each mapping is made from its own file, and nothing changes any more once the server reads it.
* **CoAP client.** Nine functions share globals and are called from two tasks, with a dozen steps that may fail.
  Correct when: every exit leaves the globals clean; an answer goes to its call; every call returns; no context is used
  after it has been freed.
* **Id mapping.** Ids become `int` and come back; collisions are refused silently; -1 is an id and an error. Each
  direction has a mapping and a file of its own. Correct when: a translation is never changed and is missing only because
  of a collision, each `BiMap` is inverse both ways, and the two directions fit together where the two files do.
* **Server lifecycle.** `coap_ctx` after `cleanup_server`, an ignored result of `init_server`, a text for an address
  that loses zeros. Correct when: no resource is registered on, and no server started with, a freed or null context.
* **Device table.** The endpoint id wraps around, a slot of `gDevices` is kept when its endpoint is refused, arrays on
  a stack are registered, a report names an endpoint that may be gone. Correct when: a slot holds a device exactly when
  its endpoint exists, ids are unique, and a report names an endpoint of its device.
* **AppTask.** A bounded queue fed from an interrupt that may come before the queue exists.

`PROJECT.json` lists each hazard at its line, with the properties that are about it or the reason there is none. Where the
code lets something fail and promises nothing, a property that says when it fails is not counted as covering the hazard.

## 2. Plan

| order | module | composes | state |
|---|---|---|---|
| 1 | `BindingHandler` | | done |
| 2 | `CoapServer`, `MCCoapServer` | extends `BindingHandler` | done |
| 3 | `ReadService` | abstract specification of the GET path, refined by `CoapServer` | done |
| 4 | `CoapServerProofs`, `ForwardOrderProofs` | theorems about 1 to 3 | done |
| 5 | `CoapClient`, `MCCoapClient`, `CoapClientProofs` | | done |
| 6 | `IdMapping`, `MCIdMapping`, `IdMappingProofs` | | done |
| 7 | `AddressText`, `AddressTextProofs` | used by `Startup` | done |
| 8 | `AppTask` | used by `Startup` | done |
| 9 | `DeviceTable`, `DeviceReports`, `MCDeviceReports`, `DeviceReportsProofs` | the table, and the devices and reports on top of it | done |
| 10 | `Startup`, `MCStartup`, `StartupProofs` | extends `AppTask`, `AddressText` and `DeviceTable`: the start-up and the life of the server | done |
| 11 | `ClientCall` | abstract specification of a client call, refined by `CoapClient` as long as calls do not overlap | done |

Every invariant and every action property that a passing run checks is stated by a theorem, and so are both refinements
(section 5). The properties that are left to TLC are those of liveness.

## 3. The modules and the code

Names are those of the code where TLA+ allows it. Definitions introduced as "a slip" are variants of the definition
that follows them, with a plausible mistake; `PROJECT.json` says which property notices which slip.

### BindingHandler

Everything the CHIP task does for the forwarding path. A *request* names one `BindingCommandData`: every CoAP request
and every button press allocates exactly one. A *cell* is the value one read interaction reports.

| state | code |
|---|---|
| `phase` | progress of `InitServer` (`main.cpp:683`-`744`) |
| `queue`, `dropped` | the CHIP event queue; history of what it refused |
| `data` | the block of each request: not allocated, its content, or freed |
| `table` | the binding table |
| `bmReady` | `InitBindingHandlerInternal` has run |
| `pending` | notifications the binding manager keeps until there is a session |
| `reading`, `sent` | reads under way; history of the interactions sent |
| `result_ptr`, `fresh`, `old`, `cells` | the global pointer, the move assignment under way in `onSuccess`, the heap |
| `fault` | why the program has died |

`InitServer` is three steps because the AppTask may run between them. `onSuccess` is two steps, `OnReadSuccess` and
`AssignResult`, because the move assignment of a `unique_ptr` reads the old pointer, stores the new one and deletes the
old one, and `coap_server` may run in between. A `unique_ptr` shared without a lock is a data race; this is the split
the compiled code has. All other steps of the CHIP task touch nothing another task uses except the queue, which has a
lock of its own, and are atomic.

Two steps end the behaviour: an attribute access that reaches a multicast entry uses the null `peer_device`
(`BindingHandler.cpp:157`), and a cell may be deleted twice.

External, modelled from how the code uses it: the work queue (bounded, `ScheduleWork` returns an error nobody looks at);
the binding manager (refuses notifications before `Init`; a multicast entry is notified at once, a unicast one once there
is a session; a pending notification may be dropped, in any order; the release handler runs when the last reference to
the block drops).

### CoapServer

The handlers on `coap_server` and the handler of the button. libcoap calls the handlers one at a time, and they run
without interruption up to where they sleep, so `hnd_attribute_put` and `hnd_command_put` are one step and
`hnd_attribute_get` is one step up to its first sleep, followed by `Poll` steps (`CoapServer.cpp:119`-`138`): the value is
there, the tries are used up, or it sleeps again. `method`, `reply` and `value` are history: what each request was, and
what it was answered with.

Attribute values are abstracted to the identity of their cell, payloads are left out. The reply `"undefined"` stands for
the response whose length is uninitialised.

### ReadService

What the GET path promises: reads are served one at a time; reports of accepted reads land in a mailbox of one slot, where
a new one replaces an old one; the read being served is answered with the mailbox, which is left empty; a report answers
at most one read. It does **not** promise that the answer belongs to the read: the code does not provide that.
`CoapServer` implements it with `result_ptr` as the mailbox and the handler that sleeps as the read being served.

### CoapClient

The nine functions have one body; what tells them apart (method, sink, parser) is a record. One step per call into
libcoap at which the function may fail or the other task may get the core: `Begin` (startup, URI, address),
`NewContext`, `NewSession`, `Send`, `LoopEnter`, `LoopExit`, the four outcomes of `coap_io_process`, `Finish`, `FreeContext`.
A context is named by the call that created it. `HasCore` states who runs: the CHIP task moves only while `coap_server` is
outside a call or inside `coap_io_process`; then `coap_server` may move at any step of the CHIP task.

libcoap is external: it frees the sessions of a context together with the context, and gives an answer to the handler
registered on the context it arrives on. A document that is no JSON is a fault: `parse` throws inside the handler
(`CoapClient.cpp:226`) and nobody catches it.

### IdMapping

`InitServer` calls `GenerateMatterIpsoMapping` twice (`main.cpp:714`-`726`): for `coap_mapping`, from the file
sdf-lwm2m-to-matter-merged, and then for `matter_mapping`, from sdf-matter-to-lwm2m-merged. The model has both: an entry is a
key of one of the two files, `document` is the map section of each file, `todo` the entries not yet visited, and `left_map` and
`right_map` are the two halves of each of the eight `BiMap`s, four per mapping. The CoAP handlers look ids up in
`coap_mapping` (`AddressedBy`), the Matter callbacks in `matter_mapping` (`Target`). Each entry has a Matter and an LwM2M id, of
which either may be absent or no number. A string key is the sequence of its segments, and `ExtractBetweenSlashes` includes
the case in which the position wraps around (`BridgeUtils.h:137`). Ids are unsigned numbers below `2 * Half` that become
`int` by wrapping around, and back.

The loop visits the keys of a file in their order; the model visits them in every order, which is every file with the
same keys. What a load that fails leaves in a document is in `Startup`.

The code never applies `get_ipso_id` and `get_matter_id` to one `BiMap`, and nothing in it makes the two files fit together.
So there are two properties: `MutuallyInverse` is about each `BiMap` by itself; `RoundTrip` is about the bridge and has a
condition, `FilesAgree`: the LwM2M-to-Matter file has the id, and no pair of it shares just one id with a pair that the other
file gives for the id. Then a target found in `matter_mapping` leads through `coap_mapping` back to where it came from,
whatever else either file holds. Without the condition TLC finds files for which it does not.

### ClientCall

What the code around a client function may rely on, as long as the calls of the two tasks do not overlap: one call is
under way; it is answered at most once, before it returns, and returns as answered just if it was; a document changes
only by the answer to the call that loads it. When calls have overlapped it allows everything.

### DeviceTable and DeviceReports

`DeviceTable` is `AddDeviceEndpoint` and `RemoveDeviceEndpoint` (`main.cpp:186`-`243`). The loop that looks for an endpoint
id is one step per round: the stack takes the id, has it already, or refuses. `gDevices`, `gCurrentEndpointId` and
`mEndpointId` are the code's; `endpoints` are the dynamic endpoints of the Matter stack, one per place of `gDevices`; `adding`
is the device and the place of the `AddDeviceEndpoint` under way; `refused` is history.

`DeviceReports` adds what may be done with the devices: the four setters of `Device`, which compare before they assign, the
change callback, and the reports `ScheduleReportingCallback` puts on the CHIP queue, which refuses them when it is full. A
report holds the endpoint id of the moment of the change. The code calls these functions "leftover from the original
implementation" (`main.cpp:430`): the bridge itself adds two devices, removes none and sets no callback. They are modelled
as the interface they are, with callers that add a device only if it is not in the table or was refused, which is what
the code's own calls do. An item has two values; the second one of a text is longer than the buffer that keeps it.

### AppTask

`StartAppTask`, `AppTaskMain`, the button and its interrupt. Creating the queue and creating the task are two steps of
`app_main`, enabling the interrupt and setting the handler two steps of the task, and an interrupt may come between any
two. A press is ignored (no handler), refused (no queue, or a full one), queued or sent. What becomes of it after
`ScheduleWork` is in `CoapServer`.

### AddressText

`decToHexa` and `Ip6ToStr`. An address is eight blocks of 16 bits, its text the digits of its eight groups; colons and the
characters of digits are left out. `decToHexa(0)` has no digit, so a text may have empty groups: it is then the text of an
address if two colons stand for one zero block, or for two at an end, and of none otherwise. A text that begins or ends
with a single colon is read by some resolvers and not by others; the model allows both. The digits are a recursive
function on the values of a block, and the value of a group one on its positions, so that both can be proved about.

### Startup

`app_main`, `InitServer` with `ConvertAndDeployMatter` and `CreateCustomDevice` on the CHIP task, and `InitCoapServer` on its own,
beside `AppTask` and over `DeviceTable`. One step per load, conversion and call of the library; they may run between each
other in any order, although the priorities allow fewer.

| state | code |
|---|---|
| `initServer`, `coap_server` | where `InitServer` and `InitCoapServer` are |
| `doc` | the file each document holds, by name, or `"empty"` |
| `coap_mapping`, `matter_mapping` | the file each mapping was generated from |
| `net` | the default interface: up or down, with its addresses |
| `address` | `ip6_addr[2]`, read once |
| `todo`, `object` | the resources still to be registered, and all of them |
| `coap_ctx`, `listening`, `initialised` | the context: null, valid, or freed with a pointer left; the address of its endpoint; history |
| `handlers`, `type_map` | what the Register functions set up |
| `fault` | why the program has died |

A load stores the file, leaves the document as it was, or throws, as `CoapClient` shows; what `GenerateMatterIpsoMapping`
makes of a file is in `IdMapping`. `init_server` is one step with its three outcomes, because nothing else touches its state:
no context, no endpoint, or success.

## 4. The runs

`CHECK_DEADLOCK FALSE` in all of them: requests, calls, keys and presses are used up, a device table may be full, and a
fault stops the program.

| run | checks | shows |
|---|---|---|
| `Forward` | `TypeOK`, `NoUseAfterRelease`, `AnswerUsedOnce`, `ForeignAnswerNeedsSurplus`, `DoubleFreeNeedsSurplus`, `NoCellLeaked`, `ForwardLostOnlyByFullQueue` | the ownership of blocks and cells through every interleaving of start-up, button, handlers, CHIP task and bindings (682,436 states) |
| `ForwardLive` | `GetAnswered`, `BlockReleased`, `ServesReads` | every read is answered, every block in the queue of a ready binding manager is released, and the GET path implements `ReadService` (40,800 states) |
| `Client` | `TypeOK`, `GlobalsClean`, `AnswersGoHome`, `ContextsValid`, `CallReturns`, `PromisesCalls` | what the globals are worth as long as calls do not overlap, after any failure, and that the client then implements `ClientCall`; that calls return even when they overlap (70,230 states) |
| `Mapping` | `TypeOK`, `MutuallyInverse`, `RoundTrip`, `OnlyConflictsAreLeftOut`, `FirstInsertionWins` | both mappings from two files of three keys, in every order: the translations of each, and how the two fit together (1,001,240 states) |
| `DeviceTable` | `TypeOK`, `DynamicIdsApart`, `StrayNeedsRefusal`, `ChangeIsReported`, `StaleReportNeedsRemoval`, `AddEnds` | that table, endpoints, told ids and waiting reports fit together while devices come and go, are refused and tried again, and the endpoint id wraps round; that an add always ends (453,568 states) |
| `Startup` | `TypeOK`, `PostFindsQueue`, `MappingsFromTheirFiles`, `ListensOnItsAddress`, `OperationsOffered`, `TypesKnown`, `FaultNeedsFailedInit`, `SettledBeforeServer`, `ServerComesUp`, `PressIsSent` | that whatever fails each mapping is made from its own file, and nothing the server reads changes once it runs; that the server listens on its address with every resource, or the program has stopped for one of the reasons listed (75,357 states) |

Six runs show a disagreement of the code with its comments; TLC finds each property violated:

| run | property | what happens |
|---|---|---|
| `StaleAnswer` | `AnswerBelongsToRequest` | a read gives up, its report arrives afterwards, and the next GET is answered with it, whatever its resource (`CoapServer.cpp:123`) |
| `LostWrite` | `ChangedIsForwarded` | a full CHIP queue refuses the block of a PUT, which is answered 2.04 Changed (`CoapServer.cpp:76`) |
| `ClientOverlap` | `ContextIsOwn` | the CHIP task serves a Matter read while `coap_server` waits for the LwM2M file: each works on, and frees, the other's context (`CoapClient.cpp:715`) |
| `ClientRead` | `ReadReturnsResponse` | a Matter read of a bridged attribute is Success without any response (`main.cpp:394`) |
| `IdCollision` | `EveryPairTranslates` | two attributes of different objects have one id in a file; the second has no translation (`BridgeUtils.h:25`) |
| `EndpointStorage` | `EndpointStorageLives` | the endpoint of the custom device is registered with arrays local to `CreateCustomDevice` and is still there when it has returned (`main.cpp:362`) |

### Bounds

| bound | value | in the code | why it is enough |
|---|---|---|---|
| `Requests` | 3 (2 for liveness) | unbounded | one that waits, one whose report is late, and a button press that fills the queue |
| table entries | 2 unicast, 1 multicast | set by the Matter stack | a read that goes to two peers, and a group; any subset may be in the table from the start, others are added later |
| `QueueSize` | 2 | 25 | the room left at the moment of interest: a queue with one free place, with none, and with an item ahead |
| `Tries` | 2 | 10 | the last look and one that is not the last |
| `Calls` | 2 | unbounded | one after the other, or one inside the other |
| `Wait` | 2 | 6 s, counted in rounds of `coap_io_process` of up to 1 s | the last round and one that is not the last |
| `Paths` | 3 keys per file: two attributes that may collide, one cluster whose key has the wrap-around | the files | a collision on either side, in either file or between them; that it takes no more is proved |
| `Ids` | 3, one below and two above `Half` | 2^32 | -1 (`2 * Half - 1`) is one of them, and another negative one that is no error |
| `Sections` | two pairs of ids for the cluster; for an attribute any pair, one without an id or one that is no number | any | files that agree, that contradict each other, and that kill the program |
| `Half` | 4 | 2^31 | only the wrap-around matters |
| `SlotCount` | 2 | `CHIP_DEVICE_CONFIG_DYNAMIC_ENDPOINT_COUNT`, from the build | a device, another one, and a table that is full |
| `IdCount`, `FirstDynamic` | 4 and 2 in `DeviceTable`, 5 and 3 in `Startup` | 2^16, and what the data model says | as few ids as places: the id wraps round and finds the other one in use |
| `Items`, `ReportQueue` | a name and a location, 1 | four, 25 | one item with an attribute and one without; a full queue |
| `Presses`, `EventQueueSize` | 2, 1 | unbounded, 10 | one press in the queue while another is dispatched, and a full queue |
| `Nets` | down, two addresses, or three | what the interface has | every branch of the loop; the third address has one zero block, two apart, or one at the end |
| `ObjectFiles` | one object with a resource for each set of operations | any | every branch of `GenerateCoapResource`; an object without resources if nothing was loaded |

The theorems below do not depend on these values. `Forward`, `StaleAnswer` and `LostWrite` use the symmetry of the
requests, which no property names and nothing orders; `ForwardLive` and `Client` check liveness and use no symmetry.

### Fairness

* `WF(Poll)`: the sleep of a handler ends.
* `WF` of the start-up and the work of the CHIP task: `coap_server` sleeps or waits for packets in between, and
  then the CHIP task, next in priority, gets the core.
* `WF` of the result of a connection, per request and entry: the stack's own timers give up on a session.
* Nothing is assumed of answers from peers, nor of CoAP clients, controllers or the button.
* `DeviceReports`: `WF` of the rounds of the loop of `AddDeviceEndpoint`, without the refusal, which may never come.
* `Startup`: `WF` of the steps of each task. `coap_server` has the higher priority but waits for packets and sleeps; the
  CHIP task and the AppTask are time-sliced; and a load ends, which is `CallReturns` of `CoapClient`. Nothing is assumed of
  the interface: `ServerComesUp` says what happens if it keeps three addresses from some time on.
* `CoapClient`: `WF` of the steps of a task, and `SF` of `IoElapsed`: `coap_io_process` does not return an error for
  ever. The loop ignores errors and counts nothing for them, so without this a call need not return. `SF` is needed
  because each error leads out of the state in which the elapsed time would be noticed.

## 5. What is proved

`CoapServerProofs`, for any number of requests, entries, resources, tries and queue slots:

| theorem | states |
|---|---|
| `TypeCorrect` | `TypeOK` |
| `BlocksReleasedOnce` | `NoUseAfterRelease` |
| `EachValueAnswersOnce` | `AnswerUsedOnce` |
| `EveryCellIsHeld` | `NoCellLeaked` |
| `ForeignAnswerIsLate` | `ForeignAnswerNeedsSurplus` |
| `DoubleFreeIsLate` | `DoubleFreeNeedsSurplus` |
| `BridgeServesReads` | `ServesReads`: `CoapServer` implements `ReadService` |

They follow from one inductive invariant, `IInv`, whose parts are each proved to be preserved by every step:

* `TypeOK`.
* `BlockInv`: `NoUseAfterRelease` is not inductive alone. A request that has not arrived has no block, is not queued and
  has no notification, so a new block cannot be a second one; and a request in the queue has sent nothing, so that no
  cell of it can exist.
* `ServeInv`: `coap_server` sleeps exactly when it serves a GET without an answer, all earlier GETs are answered, and a
  request has a value exactly when it was answered with content.
* `CellInv`: a cell is being read, on the heap or the value of an answer, never two of them; what is on the heap is
  `result_ptr` or the cell being assigned; and the assignment under way has read the pointer it will delete, or the handler
  has reset it since. This is `NoCellLeaked` and `AnswerUsedOnce` with what makes them inductive.
* `OwnInv`: only GETs read and have cells; and as long as no read has timed out or gone to two entries, whatever is being
  read or on the heap belongs to the GET being served, and an assignment has no old pointer to delete. `ForeignAnswerNeedsSurplus` and `DoubleFreeNeedsSurplus` follow: a handler
  that resets `result_ptr` in the middle of an assignment has found the cell of an earlier report.

The refinement maps `hnd_attribute_get` to `Accept`, `AssignResult` to `Report`, the end of the handler to `Answer` and all
other steps to stuttering; `IInv` gives the guards of these steps.

`ForwardOrderProofs` proves `OnlyAFullQueueLoses`: `ForwardLostOnlyByFullQueue`. Its `OrderInv` says that no CoAP request
exists before `coap_server` does, that the initialisation of the binding manager is by then done, refused or queued, and
that it is ahead of every forwarded block in the queue. It needs `BlockInv` and not the other parts of `IInv`.
`ChangedMeansForwarded` follows: as long as the queue has refused nothing, `ChangedIsForwarded` holds.

`IdMappingProofs`, for every two files over any keys and ids, and every `Half`:

| theorem | states |
|---|---|
| `MapsWellTyped` | `TypeOK` |
| `MapsStayInverse` | `MutuallyInverse` |
| `AgreedFilesRoundTrip` | `RoundTrip` |
| `TranslationsStay` | `FirstInsertionWins` |
| `NothingElseIsLeftOut` | `OnlyConflictsAreLeftOut` |
| `ConsistentIsTranslated` | `EveryPairTranslates`, if no two entries of a kind in one file share one id and not the other |

`MutuallyInverse` is inductive together with `TypeOK`. `NothingElseIsLeftOut` adds that what an entry has translated stays
translated, and `ConsistentIsTranslated` follows from both. So does `AgreedFilesRoundTrip`, one kind at a time (lemma
`AgreedIdReturns`): the translation in `matter_mapping` comes from an entry of its file; the other file, which agrees, has an
entry with the same ids; and whatever entry of that file has taken one of these ids has both of them, so `coap_mapping` leads
back. That `AsInt` and `AsId` are inverse to each other on ids is lemma `Conversion`.

`DeviceReportsProofs`, for any number of devices, places and ids, any set of items and any length of the queue:

| theorem | states |
|---|---|
| `ReportsWellTyped` | `TypeOK` |
| `IdsStayApart` | `DynamicIdsApart` |
| `DevicesHaveEndpoints` | `StrayNeedsRefusal` |
| `ChangesAreReported` | `ChangeIsReported` |
| `ReportsNameTheirDevice` | `StaleReportNeedsRemoval` |

The first three follow from `TableInv`. `StrayNeedsRefusal` says nothing of the time a device is being added; `StrayInv` does,
and needs `AddInv`: the place of an add under way holds the device and its endpoint is not set, and the id to try is a
dynamic one (lemma `NextIdIsDynamic` for the wrap-around). `ChangeIsReported` is inductive with the types. For
`StaleReportNeedsRemoval` an invariant about devices is missing: `StaleInv` adds that the id a device was told is that of one
of its endpoints, was never given, or is being looked for, so that the next report names an endpoint as well.

`CoapClientProofs`, for any number of calls and any number of rounds `Wait`:

| theorem | states |
|---|---|
| `ClientTypes` | `TypeOK` |
| `CleanBetweenCalls` | `GlobalsClean` |
| `AnswersStayHome` | `AnswersGoHome` |
| `ContextsStayValid` | `ContextsValid` |
| `OwnContextAlone` | `ContextIsOwn`, as long as calls do not overlap |
| `ClientImplementsCalls` | `PromisesCalls`: `CoapClient` implements `ClientCall` |

The types hold whether or not calls overlap and need `CallInv`: a task is inside a call exactly if it is not idle. The others
follow from `ClientInv`, which says nothing once calls have overlapped, because then the code gives no guarantee
(`ClientOverlap`). As long as they have not, one task at most is inside a call, and what the globals hold is a function of
where it is: no context before `coap_new_context`; a context of the call without a session; with one; in the loop the flag
`have_response` is up exactly if the call was answered, and a GET's handler is on its context; from `finish` on the outcome
is decided and says the same as the flag. Between calls everything is clear. `GlobalsClean` alone is not inductive: that
the error paths clean up what there is depends on what there is at each place.

The refinement maps the variables of `ClientCall` to the call under way, the documents loaded, what was answered and how calls
returned; an outcome the client has decided and not yet returned with is hidden (`HiddenStep`). `Begin` maps to the begin
of a call, a response in `coap_io_process` to its answer (`AnswerMaps`, which needs that the context is the call's own and
that it has not been answered), `FreeContext` to its return, every other step to stuttering, and every step after an overlap
to the step of `ClientCall` that allows anything.

`AddressTextProofs`, for all addresses:

| theorem | states |
|---|---|
| `TextOfNoOtherAddress` | the text of an address is read as that address or as none |
| `OnlyZeroBlocksGetLost` | its empty groups are the zero blocks; without one it is always resolved, with two among the middle six blocks never |

A block has at most four digits (lemma `FourRounds`), so the recursion of `DigitsBackwards` is unfolded four times and its
value written out (`DigitsBackwardsIs`; the function it equals is given explicitly, no induction is needed), and read
back the same way (`GroupValueIs`, `ReadBack`).

`StartupProofs`, for any interface, any LwM2M files with unique ids, any number of presses, places and endpoint ids:

| theorem | states |
|---|---|
| `StartupWellTyped` | `TypeOK` |
| `QueueBeforePress` | `PostFindsQueue` |
| `MappingsKeepApart` | `MappingsFromTheirFiles` |
| `ServerOnItsAddress` | `ListensOnItsAddress` |
| `EveryResourceOffered` | `OperationsOffered` |
| `TypesAlwaysKnown` | `TypesKnown` |
| `OnlyFailedInitIsFatal` | `FaultNeedsFailedInit` |
| `NothingMovesUnderServer` | `SettledBeforeServer` |

Three lemmas say which variables each task writes (`ButtonEffect`, `DeployEffect`, `ServerEffect`); the parts of the invariant are
then preserved by the steps of one task each, and left alone by the others:

* `ButtonInv`: a task exists only beside its queue, and the interrupt is enabled only by the task. So no press finds the
  queue missing, although `xTaskCreate` and `xQueueCreate` may fail.
* `SettledInv`: the server exists only when `InitServer` is done and no device is being added. From then on every step of
  `InitServer` is disabled, which is `SettledBeforeServer`.
* `MappingInv`: the document of the second mapping has never held another file; that of the first one has, and is cleared.
* `Pristine`, `ContextInv`: before `init_server` there is no context and no resource; after it a valid context listens on
  the address that was read (by `TextOfNoOtherAddress`), and success of `init_server` means a valid context.
* `RegisterInv`: the resources still to be visited are the rest of the object; those visited have the handlers their
  operations call for, or, without a valid context, had no operation; those to come have no handlers. It needs that ids
  within an object are unique, so that one registration does not replace another, and yields `OperationsOffered` as well
  as the odd case of `FaultNeedsFailedInit`, the task that returns.

The assumptions are those named in the modules: there are at least as many ids for dynamic endpoints as places; entries are
unicast or multicast, a null pointer is no request, no cell, no call and no document, a block differs from its place
holders, the queues and the loop have at least one place and try, ids have 32 bits, addresses eight blocks of 16 bits, and
the ids in an LwM2M object are unique.

Only model-checked: liveness (`GetAnswered`, `BlockReleased`, `CallReturns`, `AddEnds`, `ServerComesUp`, `PressIsSent`), which is
out of reach of the prover, and the violations of the six runs that show a disagreement. For four of these a theorem
says that nothing but the circumstance the run shows leads there: `ForeignAnswerIsLate` for `StaleAnswer`,
`ChangedMeansForwarded` for `LostWrite`, `OwnContextAlone` for `ClientOverlap` and `ConsistentIsTranslated` for `IdCollision`.

## 6. What is not modelled

* `DeviceCallbacks.cpp`: it logs changes and answers reads of the Actions cluster with constants, and has no state.
* The attributes and commands of the endpoint that `CreateCustomDevice` builds; and which reasons the Matter stack has to
  refuse an endpoint: in the model it may refuse any.
* `coap_cleanup`, which each client call ends with while the server runs: what it does depends on the build of libcoap.
* The list of addresses beyond the third, and addresses that change after the loop of `InitCoapServer` has read them.
* Values and payloads: conversion of a value to text and its length, the value read from a PUT without payload, the
  copy of an answer into the buffer of an attribute. They are listed as hazards.
* Memory of libcoap (a PDU that is not deleted when its options cannot be added).
* `LwM2MObject`, the SDF converter, JSON and XML libraries: pure functions or code that is not in the repository.
* The Matter stack beyond the binding manager, its work queue and the callbacks.
