----------------------------- MODULE StartupProofs -----------------------------
(***************************************************************************)
(* Proofs about the start-up and the life of the server (module Startup),  *)
(* for any interface, any LwM2M object, any number of presses, places and  *)
(* ids.                                                                    *)
(***************************************************************************)
EXTENDS Startup, AddressTextProofs

-----------------------------------------------------------------------------
(* The inductive invariant *)

\* A task exists only beside its queue, and the interrupt only from the first
\* step of the task on: no event is posted without a queue.
ButtonInv ==
  /\ ~nullPost
  /\ appTask # "none" => sAppEventQueue # NoQueue
  /\ app_main \in {"init", "schedule", "queue", "task"} => appTask = "none"
  /\ app_main = "task" => sAppEventQueue # NoQueue
  /\ hooked => appTask \in {"hooked", "receive", "dispatch"}

\* InitServer runs after it was scheduled, and the server after InitServer.
SettledInv ==
  /\ app_main \in {"init", "schedule"} => initServer = "none"
  /\ coap_server # "none" => initServer = "up"
  /\ initServer = "up" => ~Adding

\* The document of the second mapping has never held another file.
MappingInv ==
  /\ MappingsFromTheirFiles
  /\ doc["sdf_mapping_lwm2m_file"] \in {"sdf-matter-to-lwm2m-merged", "empty"}

\* Up to init_server there is no context and no resource.
Pristine ==
  coap_server \in {"none", "poll", "load", "init"} =>
    /\ coap_ctx = "null"
    /\ ~initialised
    /\ handlers = NoHandlers
    /\ type_map = {}

\* A context that is valid listens on the address that was read.
ContextInv ==
  /\ coap_server \in {"load", "init", "generate", "start", "serving"} =>
       address \in AddressType
  /\ initialised => coap_ctx = "valid"
  /\ coap_ctx = "valid" => listening = address
  /\ coap_server = "serving" => Running /\ coap_ctx = "valid"

\* A resource answers the operations it is defined with.
Offered(r) ==
  LET handler == handlers[r.id]
  IN /\ (handler.GET = "hnd_attribute_get") <=> "R" \in r.operations
     /\ (handler.PUT = "hnd_attribute_put") <=> "W" \in r.operations
     /\ (handler.PUT = "hnd_command_put") <=> "E" \in r.operations

\* How many resources GenerateCoapResource has visited.
Visited == Len(object) - Len(todo)

\* Those visited are registered, and unless the context is valid there was
\* nothing to register; those to come have no handlers, and are the rest of the
\* object.
RegisterInv ==
  /\ coap_server = "init" => todo = object
  /\ Running /\ coap_server \in {"generate", "start", "serving"} =>
       /\ Len(todo) <= Len(object)
       /\ \A j \in DOMAIN todo : todo[j] = object[Visited + j]
       /\ \A i \in DOMAIN object :
            IF i > Visited
            THEN handlers[object[i].id] = [GET |-> "none", PUT |-> "none"]
            ELSE /\ coap_ctx = "valid" => Offered(object[i])
                 /\ coap_ctx # "valid" => object[i].operations = {}
       /\ coap_server # "generate" => todo = <<>>

ServerInv == Pristine /\ ContextInv /\ RegisterInv

\* The types of the variables InitServer and the server work on.
ChipTypeOK ==
  /\ initServer \in {"none", "queued", "light", "model", "mapping", "convert",
                     "create", "custom", "merged", "lwm2m", "server", "up"}
  /\ doc \in [Documents -> Files]
  /\ coap_mapping \in Files
  /\ matter_mapping \in Files

ServerTypeOK ==
  /\ net \in Nets
  /\ coap_server \in {"none", "poll", "load", "init", "generate", "start",
                      "serving"}
  /\ address \in AddressType \cup {Nothing}
  /\ todo \in Seq([id : ResourceIds, operations : Operations])
  /\ object \in ObjectFiles \cup {<<>>}
  /\ coap_ctx \in {"null", "valid", "freed"}
  /\ listening \in AddressType \cup {Nothing}
  /\ initialised \in BOOLEAN
  /\ handlers \in [ResourceIds -> Handlers]
  /\ type_map \subseteq ResourceIds
  /\ fault \in {"none", "json exception", "null context", "freed context",
                "task returned"}

IInv ==
  /\ TypeOK
  /\ ButtonInv
  /\ SettledInv
  /\ MappingInv
  /\ ServerInv
  /\ TypesKnown
  /\ FaultNeedsFailedInit

-----------------------------------------------------------------------------
(* Who writes what *)

ButtonStep ==
  \/ AppMainStep
  \/ Beside(AppTaskMain)
  \/ \E p \in Presses : Beside(gpio_isr_handler(p))

\* app_main, the AppTask and the interrupt write nothing of the other tasks, but
\* for the work item that app_main schedules.
LEMMA ButtonEffect ==
  ASSUME ButtonStep
  PROVE  /\ Running
         /\ UNCHANGED <<tableVars, doc, coap_mapping, matter_mapping, serverVars,
                        net, fault>>
         /\ app_main' \in {"init", "schedule"} => app_main \in {"init", "schedule"}
         /\ \/ initServer' = initServer
            \/ app_main = "schedule" /\ app_main' = "queue" /\ initServer' = "queued"
<1>1. CASE InitStack
  BY <1>1 DEF InitStack, chipVars
<1>2. CASE ScheduleInitServer
  BY <1>2 DEF ScheduleInitServer
<1>3. CASE Beside(StartAppTask)
  BY <1>3 DEF Beside, chipVars, StartAppTask, CreateEventQueue, CreateAppTask
<1>4. CASE Beside(AppTaskMain)
  BY <1>4 DEF Beside, chipVars, AppTaskMain, ButtonInit, SetButtonPressCallback,
              ReceiveEvent, DispatchEvent
<1>5. ASSUME NEW p \in Presses, Beside(gpio_isr_handler(p))
      PROVE  /\ Running /\ app_main' = app_main
             /\ UNCHANGED <<tableVars, chipVars, serverVars, net, fault>>
  BY <1>5 DEF Beside, gpio_isr_handler
<1> QED
  BY <1>1, <1>2, <1>3, <1>4, <1>5 DEF ButtonStep, AppMainStep, chipVars

serverRest == <<address, todo, object, coap_ctx, listening, initialised,
                handlers, type_map>>

\* InitServer writes nothing of the other tasks, but for the task it creates at
\* its end.
LEMMA DeployEffect ==
  ASSUME DeployStep
  PROVE  /\ Running
         /\ UNCHANGED <<appTaskVars, net, serverRest>>
         /\ fault' \in {fault, "json exception"}
         /\ \/ Adding /\ UNCHANGED <<initServer, coap_server, fault>>
            \/ /\ ~Adding
               /\ initServer \notin {"none", "up"}
               /\ initServer' \notin {"none", "up"}
               /\ UNCHANGED coap_server
            \/ /\ ~Adding
               /\ initServer = "server" /\ initServer' = "up"
               /\ UNCHANGED <<adding, fault>>
               /\ coap_server' \in {"poll", "none"}
<1>1. CASE InitServer
  BY <1>1 DEF InitServer, At, serverVars, serverRest
<1>2. CASE AddLight
  BY <1>2 DEF AddLight, At, serverVars, serverRest
<1>3. CASE TryEndpoint
  BY <1>3 DEF TryEndpoint, TryEndpointId, EndpointTaken, EndpointDuplicate,
              EndpointRefused, chipVars, serverVars, serverRest
<1>4. CASE LoadSdfModel
  BY <1>4 DEF LoadSdfModel, Load, At, serverVars, serverRest
<1>5. CASE LoadSdfMapping
  BY <1>5 DEF LoadSdfMapping, Load, At, serverVars, serverRest
<1>6. CASE ConvertSdfToMatter
  BY <1>6 DEF ConvertSdfToMatter, At, serverVars, serverRest
<1>7. CASE CreateCustomDevice
  BY <1>7 DEF CreateCustomDevice, At, serverVars, serverRest
<1>8. CASE CustomDeviceCreated
  BY <1>8 DEF CustomDeviceCreated, At, serverVars, serverRest
<1>9. CASE GenerateCoapMapping
  BY <1>9 DEF GenerateCoapMapping, Load, At, serverVars, serverRest
<1>10. CASE GenerateMatterMapping
  BY <1>10 DEF GenerateMatterMapping, Load, At, serverVars, serverRest
<1>11. CASE CreateCoapServer
  BY <1>11 DEF CreateCoapServer, At, tableVars, serverRest
<1> QED
  BY <1>1, <1>2, <1>3, <1>4, <1>5, <1>6, <1>7, <1>8, <1>9, <1>10, <1>11
     DEF DeployStep

\* The server writes nothing of the other tasks.
LEMMA ServerEffect ==
  ASSUME ServerStep \/ NetChanges
  PROVE  /\ Running
         /\ coap_server # "none"
         /\ UNCHANGED <<appTaskVars, tableVars, chipVars>>
BY DEF ServerStep, NetChanges, ServerAt, PollInterface, LoadLwm2mFile,
       init_server, GenerateCoapResource, start_server

LEMMA NextIs == Next <=> ButtonStep \/ DeployStep \/ ServerStep \/ NetChanges
BY DEF Next, ButtonStep

LEMMA TypeOKIs ==
  TypeOK <=> AppTaskTypeOK /\ TableTypeOK /\ ChipTypeOK /\ ServerTypeOK
BY DEF TypeOK, ChipTypeOK, ServerTypeOK

-----------------------------------------------------------------------------
(* The button and its task *)

LEMMA ButtonKeeps ==
  ASSUME AppTaskTypeOK, ButtonInv, [Next]_vars
  PROVE  AppTaskTypeOK' /\ ButtonInv'
<1>0. CASE UNCHANGED appTaskVars
  BY <1>0 DEF appTaskVars, AppTaskTypeOK, ButtonInv
<1>1. CASE InitStack
  BY <1>1 DEF InitStack, AppTaskTypeOK, ButtonInv
<1>2. CASE ScheduleInitServer
  BY <1>2 DEF ScheduleInitServer, AppTaskTypeOK, ButtonInv
<1>3. CASE CreateEventQueue
  <2>1. PICK empty : empty = <<>>
    OBVIOUS
  <2>2. empty \in Seq(Presses) /\ Len(empty) = 0
    BY <2>1
  <2>3. sAppEventQueue' = <<>> => /\ sAppEventQueue' \in Seq(Presses)
                                  /\ Len(sAppEventQueue') = 0
                                  /\ sAppEventQueue' # NoQueue
    BY <2>1, <2>2, AppTaskAssumption
  <2> QED
    BY <1>3, <2>3, AppTaskAssumption DEF CreateEventQueue, AppTaskTypeOK, ButtonInv
<1>4. CASE CreateAppTask
  BY <1>4 DEF CreateAppTask, AppTaskTypeOK, ButtonInv
<1>5. CASE ButtonInit
  BY <1>5 DEF ButtonInit, AppTaskTypeOK, ButtonInv
<1>6. CASE SetButtonPressCallback
  BY <1>6 DEF SetButtonPressCallback, AppTaskTypeOK, ButtonInv
<1>7. CASE ReceiveEvent
  <2>1. /\ sAppEventQueue \in Seq(Presses) /\ sAppEventQueue # <<>>
        /\ Len(sAppEventQueue) <= EventQueueSize
    BY <1>7 DEF ReceiveEvent, AppTaskTypeOK
  <2>2. /\ Tail(sAppEventQueue) \in Seq(Presses)
        /\ Len(Tail(sAppEventQueue)) <= EventQueueSize
        /\ Head(sAppEventQueue) \in Presses
    BY <2>1, AppTaskAssumption
  <2>3. sAppEventQueue' \in Seq(Presses) /\ Len(sAppEventQueue') <= EventQueueSize
        /\ event' \in Presses /\ sAppEventQueue' # NoQueue
    BY <1>7, <2>2, AppTaskAssumption DEF ReceiveEvent
  <2> QED
    BY <1>7, <2>3 DEF ReceiveEvent, AppTaskTypeOK, ButtonInv
<1>8. CASE DispatchEvent
  BY <1>8 DEF DispatchEvent, AppTaskTypeOK, ButtonInv
<1>9. ASSUME NEW p \in Presses, gpio_isr_handler(p)
      PROVE  AppTaskTypeOK' /\ ButtonInv'
  <2>1. sAppEventQueue # NoQueue
    BY <1>9 DEF gpio_isr_handler, ButtonInv
  <2>2. sAppEventQueue \in Seq(Presses) /\ Len(sAppEventQueue) <= EventQueueSize
    BY <2>1 DEF AppTaskTypeOK
  <2>3. Len(sAppEventQueue) < EventQueueSize =>
          /\ Append(sAppEventQueue, p) \in Seq(Presses)
          /\ Len(Append(sAppEventQueue, p)) <= EventQueueSize
    BY <2>2, AppTaskAssumption
  <2>4. /\ sAppEventQueue' \in Seq(Presses)
        /\ Len(sAppEventQueue') <= EventQueueSize
        /\ sAppEventQueue' # NoQueue
        /\ UNCHANGED <<nullPost, app_main, appTask, event, hooked,
                       button_press_handler>>
    BY <1>9, <2>1, <2>2, <2>3, AppTaskAssumption DEF gpio_isr_handler, PostEvent
  <2>5. \E f \in {"ignored", "queued", "refused"} : fate' = [fate EXCEPT ![p] = f]
    BY <1>9 DEF gpio_isr_handler, PostEvent
  <2>6. fate' \in [Presses -> {"none", "ignored", "refused", "queued", "sent"}]
    BY <2>5 DEF AppTaskTypeOK
  <2> QED
    BY <2>4, <2>6 DEF AppTaskTypeOK, ButtonInv
<1>10. CASE DeployStep \/ ServerStep \/ NetChanges \/ UNCHANGED vars
  BY <1>0, <1>10, DeployEffect, ServerEffect DEF vars
<1>11. CASE ButtonStep
  BY <1>1, <1>2, <1>3, <1>4, <1>5, <1>6, <1>7, <1>8, <1>9, <1>11
     DEF ButtonStep, AppMainStep, Beside, StartAppTask, AppTaskMain
<1> QED
  BY <1>10, <1>11, NextIs

-----------------------------------------------------------------------------
(* InitServer and the table *)

LEMMA SettledKeeps ==
  ASSUME SettledInv, [Next]_vars
  PROVE  /\ SettledInv'
         /\ coap_server # "none" => UNCHANGED <<chipVars, tableVars>>
<1>1. CASE ButtonStep
  BY <1>1, ButtonEffect DEF SettledInv, Adding, tableVars, serverVars, chipVars
<1>2. CASE DeployStep
  <2>1. UNCHANGED app_main
    BY <1>2, DeployEffect DEF appTaskVars
  <2> QED
    BY <1>2, <2>1, DeployEffect DEF SettledInv, Adding
<1>3. CASE ServerStep \/ NetChanges
  BY <1>3, ServerEffect DEF SettledInv, Adding, appTaskVars, tableVars, chipVars
<1>4. CASE UNCHANGED vars
  BY <1>4 DEF SettledInv, Adding, vars, appTaskVars, tableVars, chipVars,
              serverVars
<1> QED
  BY <1>1, <1>2, <1>3, <1>4, NextIs

\* The next id, and the place an add is under way for, have their types.
LEMMA NextIdTyped ==
  ASSUME NEW id \in Ids
  PROVE  NextEndpointId(id) \in Ids
<1>1. IdCount \in Nat /\ FirstDynamic \in Ids /\ id \in Nat /\ id < IdCount
  BY TableAssumption DEF Ids
<1>2. (id + 1) % IdCount \in 0..(IdCount - 1)
  BY <1>1
<1> QED
  BY <1>1, <1>2 DEF NextEndpointId, Ids

LEMMA AddTyped ==
  ASSUME TableTypeOK, NEW d \in Devices, AddDeviceEndpoint(d)
  PROVE  TableTypeOK'
<1>1. PICK i \in Slots : /\ gDevices' = [gDevices EXCEPT ![i] = d]
                         /\ adding' = <<d, i>>
  BY DEF AddDeviceEndpoint
<1>2. adding' \in Devices \X Slots
  BY <1>1
<1>3. gDevices' \in [Slots -> Devices \cup {NoDevice}]
  BY <1>1 DEF TableTypeOK
<1> QED
  BY <1>2, <1>3 DEF AddDeviceEndpoint, TableTypeOK

LEMMA TryTyped ==
  ASSUME TableTypeOK, EndpointTaken \/ EndpointDuplicate \/ EndpointRefused
  PROVE  TableTypeOK'
<1>1. /\ adding[1] \in Devices
      /\ UNCHANGED gDevices
      /\ mEndpointId' = [mEndpointId EXCEPT ![adding[1]] = gCurrentEndpointId]
  BY DEF TableTypeOK, EndpointTaken, EndpointDuplicate, EndpointRefused,
         TryEndpointId, SetEndpointId, Adding
<1>2. mEndpointId' \in [Devices -> Ids]
  BY <1>1 DEF TableTypeOK
<1>3. gCurrentEndpointId' \in Ids
  BY NextIdTyped DEF TableTypeOK, EndpointTaken, EndpointDuplicate,
                     EndpointRefused
<1>4. \/ UNCHANGED endpoints
      \/ endpoints' = [endpoints EXCEPT ![adding[2]] = gCurrentEndpointId]
  BY DEF EndpointTaken, EndpointDuplicate, EndpointRefused
<1>5. endpoints' \in [Slots -> Ids \cup {NoEndpoint}]
  BY <1>4 DEF TableTypeOK
<1>6. adding' \in {adding, <<>>} /\ refused' \in {refused, refused \cup {adding[1]}}
  BY DEF EndpointTaken, EndpointDuplicate, EndpointRefused
<1> QED
  BY <1>1, <1>2, <1>3, <1>5, <1>6 DEF TableTypeOK

LEMMA TableKeeps ==
  ASSUME TableTypeOK, [Next]_vars
  PROVE  TableTypeOK'
<1>1. gLight1 \in Devices /\ bridged_custom_device \in Devices
  BY StartupAssumption
<1>2. CASE UNCHANGED tableVars
  BY <1>2 DEF TableTypeOK, tableVars
<1>3. CASE UNCHANGED vars \/ ButtonStep \/ ServerStep \/ NetChanges
  BY <1>2, <1>3, ButtonEffect, ServerEffect DEF vars
<1>4. CASE InitServer
  <2>1. FirstDynamic \in Ids
    BY TableAssumption
  <2> QED
    BY <1>4, <2>1 DEF InitServer, TableTypeOK
<1>5. CASE AddLight \/ CreateCustomDevice
  BY <1>1, <1>5, AddTyped DEF AddLight, CreateCustomDevice
<1>6. CASE TryEndpoint
  BY <1>6, TryTyped DEF TryEndpoint
<1>7. CASE DeployStep /\ ~InitServer /\ ~AddLight /\ ~CreateCustomDevice
           /\ ~TryEndpoint
  BY <1>2, <1>7 DEF DeployStep, LoadSdfModel, LoadSdfMapping,
                    ConvertSdfToMatter, CustomDeviceCreated,
                    GenerateCoapMapping, GenerateMatterMapping, CreateCoapServer
<1> QED
  BY <1>3, <1>4, <1>5, <1>6, <1>7, NextIs

-----------------------------------------------------------------------------
(* The documents and the mappings *)

LEMMA FilesTyped ==
  ASSUME ChipTypeOK, NEW documents \in SUBSET Documents
  PROVE  Cleared(doc, documents) \in [Documents -> Files]
BY DEF ChipTypeOK, Cleared, Files

\* What a load does to the documents it is given.
LEMMA LoadTyped ==
  ASSUME NEW docs \in [Documents -> Files], NEW document \in Documents,
         NEW file \in Files, Load(docs, document, file)
  PROVE  /\ doc' \in [Documents -> Files]
         /\ doc'[document] \in {docs[document], file}
         /\ \A d \in Documents \ {document} : doc'[d] = docs[d]
<1>1. doc' \in {docs, [docs EXCEPT ![document] = file]}
  BY DEF Load
<1> QED
  BY <1>1

LEMMA ChipKeeps ==
  ASSUME ChipTypeOK, MappingInv, [Next]_vars
  PROVE  ChipTypeOK' /\ MappingInv'
<1>0. /\ "sdf_model_file" \in Documents
      /\ "sdf_mapping_matter_file" \in Documents
      /\ "sdf_mapping_lwm2m_file" \in Documents
      /\ {"sdf-model", "sdf-mapping", "sdf-lwm2m-to-matter-merged",
          "sdf-matter-to-lwm2m-merged", "empty"} = Files
      /\ doc \in [Documents -> Files]
  BY DEF Documents, Files, ChipTypeOK
<1>1. CASE UNCHANGED <<doc, coap_mapping, matter_mapping>>
           /\ (initServer' = initServer \/ initServer' \in
                {"queued", "light", "model", "create", "custom", "merged", "up"})
  BY <1>1 DEF ChipTypeOK, MappingInv, MappingsFromTheirFiles
<1>2. CASE UNCHANGED vars \/ ButtonStep \/ ServerStep \/ NetChanges
  BY <1>1, <1>2, ButtonEffect, ServerEffect DEF vars, chipVars
<1>3. CASE InitServer \/ AddLight \/ TryEndpoint \/ CreateCustomDevice
           \/ CustomDeviceCreated \/ CreateCoapServer
  BY <1>1, <1>3 DEF InitServer, AddLight, TryEndpoint, CreateCustomDevice,
                    CustomDeviceCreated, CreateCoapServer, chipVars
<1>4. CASE LoadSdfModel
  <2>1. /\ Load(doc, "sdf_model_file", "sdf-model")
        /\ initServer' = "mapping" /\ UNCHANGED <<coap_mapping, matter_mapping>>
    BY <1>4 DEF LoadSdfModel
  <2>2. /\ doc' \in [Documents -> Files]
        /\ doc'["sdf_mapping_lwm2m_file"] = doc["sdf_mapping_lwm2m_file"]
    BY <1>0, <2>1, LoadTyped
  <2> QED
    BY <2>1, <2>2 DEF ChipTypeOK, MappingInv, MappingsFromTheirFiles
<1>5. CASE LoadSdfMapping
  <2>1. /\ Load(doc, "sdf_mapping_matter_file", "sdf-mapping")
        /\ initServer' = "convert" /\ UNCHANGED <<coap_mapping, matter_mapping>>
    BY <1>5 DEF LoadSdfMapping
  <2>2. /\ doc' \in [Documents -> Files]
        /\ doc'["sdf_mapping_lwm2m_file"] = doc["sdf_mapping_lwm2m_file"]
    BY <1>0, <2>1, LoadTyped
  <2> QED
    BY <2>1, <2>2 DEF ChipTypeOK, MappingInv, MappingsFromTheirFiles
<1>6. CASE ConvertSdfToMatter
  <2>1. LET cleared == Cleared(doc, {"sdf_model_file", "sdf_mapping_matter_file"})
        IN /\ cleared \in [Documents -> Files]
           /\ cleared["sdf_mapping_lwm2m_file"] = doc["sdf_mapping_lwm2m_file"]
    BY <1>0, FilesTyped DEF Cleared
  <2>2. /\ doc' \in [Documents -> Files]
        /\ doc'["sdf_mapping_lwm2m_file"] = doc["sdf_mapping_lwm2m_file"]
        /\ initServer' \in {initServer, "create", "merged"}
        /\ UNCHANGED <<coap_mapping, matter_mapping>>
    BY <1>0, <1>6, <2>1 DEF ConvertSdfToMatter
  <2> QED
    BY <2>2 DEF ChipTypeOK, MappingInv, MappingsFromTheirFiles
<1>7. CASE GenerateCoapMapping
  <2> DEFINE cleared == Cleared(doc, {"sdf_mapping_matter_file"})
  <2>1. /\ cleared \in [Documents -> Files]
        /\ cleared["sdf_mapping_matter_file"] = "empty"
        /\ cleared["sdf_mapping_lwm2m_file"] = doc["sdf_mapping_lwm2m_file"]
    BY <1>0, FilesTyped DEF Cleared
  <2> HIDE DEF cleared
  <2>2. /\ Load(cleared, "sdf_mapping_matter_file", "sdf-lwm2m-to-matter-merged")
        /\ initServer' = "lwm2m" /\ UNCHANGED matter_mapping
        /\ coap_mapping' = doc'["sdf_mapping_matter_file"]
    BY <1>7 DEF GenerateCoapMapping, cleared
  <2>3. /\ doc' \in [Documents -> Files]
        /\ doc'["sdf_mapping_matter_file"] \in
             {"empty", "sdf-lwm2m-to-matter-merged"}
        /\ doc'["sdf_mapping_lwm2m_file"] = doc["sdf_mapping_lwm2m_file"]
    BY <1>0, <2>1, <2>2, LoadTyped
  <2> QED
    BY <1>0, <2>2, <2>3 DEF ChipTypeOK, MappingInv, MappingsFromTheirFiles
<1>8. CASE GenerateMatterMapping
  <2>1. /\ Load(doc, "sdf_mapping_lwm2m_file", "sdf-matter-to-lwm2m-merged")
        /\ initServer' = "server" /\ UNCHANGED coap_mapping
        /\ matter_mapping' = doc'["sdf_mapping_lwm2m_file"]
    BY <1>8 DEF GenerateMatterMapping
  <2>2. /\ doc' \in [Documents -> Files]
        /\ doc'["sdf_mapping_lwm2m_file"] \in
             {doc["sdf_mapping_lwm2m_file"], "sdf-matter-to-lwm2m-merged"}
    BY <1>0, <2>1, LoadTyped
  <2> QED
    BY <1>0, <2>1, <2>2 DEF ChipTypeOK, MappingInv, MappingsFromTheirFiles
<1> QED
  BY <1>2, <1>3, <1>4, <1>5, <1>6, <1>7, <1>8, NextIs DEF DeployStep

-----------------------------------------------------------------------------
(* The server *)

ResourceType == [id : ResourceIds, operations : Operations]

LEMMA ElementOf ==
  ASSUME NEW S, NEW s \in Seq(S)
  PROVE  /\ DOMAIN s = 1..Len(s) /\ Len(s) \in Nat
         /\ \A i \in DOMAIN s : s[i] \in S
OBVIOUS

\* An object is a sequence of resources with ids of their own.
LEMMA ObjectTyped ==
  ASSUME NEW file \in ObjectFiles \cup {<<>>}
  PROVE  /\ file \in Seq(ResourceType)
         /\ \A i, j \in DOMAIN file : file[i].id = file[j].id => i = j
<1>1. CASE file = <<>>
  BY <1>1
<1>2. CASE file \in ObjectFiles
  <2>1. /\ file \in Seq([id : Nat, operations : Operations])
        /\ \A i, j \in DOMAIN file : file[i].id = file[j].id => i = j
    BY <1>2, StartupAssumption
  <2>2. ASSUME NEW i \in 1..Len(file)
        PROVE  file[i] \in ResourceType
    <3>1. file[i] \in [id : Nat, operations : Operations] /\ i \in DOMAIN file
      <4> DEFINE S == [id : Nat, operations : Operations]
      <4>1. file \in Seq(S)
        BY <2>1
      <4> HIDE DEF S
      <4>2. file[i] \in S /\ i \in DOMAIN file
        BY <4>1, ElementOf
      <4> QED
        BY <4>2 DEF S
    <3>2. file[i].id \in ResourceIds
      BY <1>2, <3>1 DEF ResourceIds
    <3> QED
      BY <3>1, <3>2 DEF ResourceType
  <2> QED
    BY <2>1, <2>2
<1> QED
  BY <1>1, <1>2

\* The address that is read is one.
LEMMA ThirdAddress ==
  ASSUME net \in Nets, EnoughAddresses(net.ip6)
  PROVE  net.ip6[3] \in AddressType
<1>1. net.ip6 \in Seq(AddressType)
  BY StartupAssumption
<1>2. PICK ip6 \in Seq(AddressType) : ip6 = net.ip6
  BY <1>1
<1>3. Len(ip6) \in Nat /\ Len(ip6) >= 3
  BY <1>2 DEF EnoughAddresses
<1>4. ip6[3] \in AddressType
  BY <1>3
<1> QED
  BY <1>2, <1>4

ServerAll ==
  ServerTypeOK /\ ServerInv /\ TypesKnown /\ FaultNeedsFailedInit

LEMMA ServerStutters ==
  ASSUME ServerAll, UNCHANGED <<serverVars, fault>>, net' \in Nets
  PROVE  ServerAll'
<1>1. UNCHANGED <<coap_server, address, todo, object, coap_ctx, listening,
                  initialised, handlers, type_map, fault>>
  BY DEF serverVars
<1>2. ServerTypeOK'
  <2>1. initialised' \in BOOLEAN
    BY <1>1 DEF ServerAll, ServerTypeOK
  <2> QED
    BY <1>1, <2>1 DEF ServerAll, ServerTypeOK
<1>3. Pristine' /\ ContextInv'
  BY <1>1 DEF ServerAll, ServerInv, Pristine, ContextInv, Running
<1>4. RegisterInv'
  <2>1. Visited' = Visited
    BY <1>1 DEF Visited
  <2>2. \A i \in DOMAIN object : Offered(object[i])' <=> Offered(object[i])
    BY <1>1 DEF Offered
  <2> QED
    BY <1>1, <2>1, <2>2 DEF ServerAll, ServerInv, RegisterInv, Running
<1>5. TypesKnown' /\ FaultNeedsFailedInit'
  BY <1>1 DEF ServerAll, TypesKnown, FaultNeedsFailedInit
<1> QED
  BY <1>2, <1>3, <1>4, <1>5 DEF ServerAll, ServerInv

\* What the other tasks do leaves the server as it is, or creates its task.
LEMMA OthersKeep ==
  ASSUME ServerAll, SettledInv, ButtonStep \/ DeployStep \/ UNCHANGED vars
  PROVE  ServerAll'
<1>1. CASE UNCHANGED <<serverVars, net, fault>>
  BY <1>1, ServerStutters DEF ServerAll, ServerTypeOK
<1>2. CASE /\ Running
           /\ coap_server = "none" /\ coap_server' \in {"none", "poll"}
           /\ UNCHANGED <<serverRest, net>>
           /\ fault' \in {"none", "json exception"}
  BY <1>2 DEF ServerAll, serverRest, ServerTypeOK, ServerInv, Pristine,
     ContextInv, RegisterInv, TypesKnown, FaultNeedsFailedInit
<1>3. CASE DeployStep
  <2>1. coap_server = "none"
    BY <1>3, DeployEffect DEF SettledInv, Adding
  <2> QED
    BY <1>1, <1>2, <1>3, <2>1, DeployEffect DEF Running, ServerAll, ServerTypeOK
<1> QED
  BY <1>1, <1>3, ButtonEffect DEF vars

LEMMA NetKeeps ==
  ASSUME ServerAll, NetChanges
  PROVE  ServerAll'
BY ServerStutters DEF NetChanges

LEMMA PollKeeps ==
  ASSUME ServerAll, PollInterface
  PROVE  ServerAll'
<1>1. /\ ServerAt("poll") /\ coap_server' = "load" /\ address' \in AddressType
      /\ UNCHANGED <<todo, object, coap_ctx, listening, initialised, handlers,
                     type_map, net, fault>>
  BY ThirdAddress DEF PollInterface, ServerAll, ServerTypeOK
<1>2. coap_ctx = "null" /\ ~initialised
  BY <1>1 DEF ServerAll, ServerInv, Pristine, ServerAt
<1> QED
  BY <1>1, <1>2 DEF ServerAll, ServerAt, ServerTypeOK, ServerInv, Pristine,
     ContextInv, RegisterInv, TypesKnown, FaultNeedsFailedInit, Running

LEMMA LoadKeeps ==
  ASSUME ServerAll, LoadLwm2mFile
  PROVE  ServerAll'
<1>1. /\ ServerAt("load") /\ coap_server' = "init"
      /\ object' \in ObjectFiles \cup {<<>>} /\ todo' = object'
      /\ UNCHANGED <<address, coap_ctx, listening, initialised, handlers,
                     type_map, net, fault>>
  BY DEF LoadLwm2mFile
<1>2. todo' \in Seq([id : ResourceIds, operations : Operations])
  BY <1>1, ObjectTyped DEF ResourceType
<1>3. coap_ctx = "null" /\ ~initialised
  BY <1>1 DEF ServerAll, ServerInv, Pristine, ServerAt
<1> QED
  BY <1>1, <1>2, <1>3 DEF ServerAll, ServerAt, ServerTypeOK, ServerInv, Pristine,
     ContextInv, RegisterInv, TypesKnown, FaultNeedsFailedInit, Running

LEMMA InitKeeps ==
  ASSUME ServerAll, init_server
  PROVE  ServerAll'
<1>1. /\ ServerAt("init") /\ coap_server' = "generate"
      /\ UNCHANGED <<address, todo, object, handlers, type_map, net, fault>>
  BY DEF init_server
<1>2. /\ coap_ctx = "null" /\ ~initialised
      /\ handlers = NoHandlers /\ address \in AddressType /\ todo = object
  BY <1>1 DEF ServerAll, ServerInv, Pristine, ContextInv, RegisterInv, ServerAt
<1>3. Resolve(Ip6ToStr(address)) \subseteq {address}
  BY <1>2, TextOfNoOtherAddress
<1>4. \/ coap_ctx' \in {"null", "freed"} /\ UNCHANGED <<listening, initialised>>
      \/ coap_ctx' = "valid" /\ initialised' = TRUE /\ listening' = address
  BY <1>2, <1>3 DEF init_server, cleanup_server
<1>5. ServerTypeOK'
  <2>1. initialised' \in BOOLEAN
    BY <1>4 DEF ServerAll, ServerTypeOK
  <2>2. coap_ctx' \in {"null", "valid", "freed"}
        /\ listening' \in AddressType \cup {Nothing}
    BY <1>2, <1>4 DEF ServerAll, ServerTypeOK
  <2> QED
    BY <1>1, <2>1, <2>2 DEF ServerAll, ServerTypeOK
<1>6. Pristine' /\ ContextInv'
  BY <1>1, <1>2, <1>4 DEF Pristine, ContextInv
<1>7. object \in Seq(ResourceType)
  BY ObjectTyped DEF ServerAll, ServerTypeOK
<1>8. RegisterInv'
  <2>1. todo' = object' /\ object' \in Seq(ResourceType)
    BY <1>1, <1>2, <1>7
  <2>2. Len(object') \in Nat /\ Len(todo') = Len(object') /\ Visited' = 0
    BY <2>1 DEF Visited
  <2>3. DOMAIN object' = 1..Len(object') /\ DOMAIN todo' = 1..Len(object')
    BY <2>1
  <2>4. \A i \in DOMAIN object' : i > 0
           /\ handlers'[object'[i].id] = [GET |-> "none", PUT |-> "none"]
    <3>1. \A i \in DOMAIN object' : object'[i] \in ResourceType
      BY <2>1, ElementOf
    <3>2. \A i \in DOMAIN object' : object'[i].id \in ResourceIds
      BY <3>1 DEF ResourceType
    <3> QED
      BY <1>1, <1>2, <2>2, <2>3, <3>2 DEF NoHandlers
  <2>5. \A j \in DOMAIN todo' : todo'[j] = object'[0 + j]
    BY <2>1, <2>2, <2>3
  <2> QED
    BY <1>1, <2>2, <2>3, <2>4, <2>5 DEF RegisterInv
<1>9. TypesKnown' /\ FaultNeedsFailedInit'
  BY <1>1 DEF ServerAll, TypesKnown, FaultNeedsFailedInit, ServerAt, Running
<1> QED
  BY <1>5, <1>6, <1>8, <1>9 DEF ServerAll, ServerInv

\* The handlers h are those for the operations of a resource.
Serves(h, r) ==
  /\ (h.GET = "hnd_attribute_get") <=> "R" \in r.operations
  /\ (h.PUT = "hnd_attribute_put") <=> "W" \in r.operations
  /\ (h.PUT = "hnd_command_put") <=> "E" \in r.operations

\* An attribute has its type in the map.
TypeKept(r) ==
  \/ type_map' = type_map \cup {r.id}
  \/ type_map' = type_map /\ "R" \notin r.operations /\ "W" \notin r.operations

\* What the loop of GenerateCoapResource does for one resource: nothing, a fault,
\* or its registration.
Registered(r) ==
  \/ r.operations = {} /\ UNCHANGED <<handlers, type_map, fault>>
  \/ /\ coap_ctx # "valid"
     /\ fault' \in {"null context", "freed context"}
     /\ UNCHANGED handlers
     /\ TypeKept(r)
  \/ /\ coap_ctx = "valid"
     /\ UNCHANGED fault
     /\ \E h \in Handlers :
          handlers' = [handlers EXCEPT ![r.id] = h] /\ Serves(h, r)
     /\ TypeKept(r)

LEMMA RegisterEffect ==
  ASSUME NEW r \in ResourceType, Register(r)
  PROVE  Registered(r)
<1>1. \A get \in {"none", "hnd_attribute_get"},
         put \in {"none", "hnd_attribute_put", "hnd_command_put"} :
        [GET |-> get, PUT |-> put] \in Handlers
  BY DEF Handlers
<1>2. CASE r.operations = {"R", "W"}
           /\ RegisterAttribute(r, "hnd_attribute_get", "hnd_attribute_put")
  <2> DEFINE h == [GET |-> "hnd_attribute_get", PUT |-> "hnd_attribute_put"]
  <2>1. h \in Handlers
    BY <1>1
  <2>2. Serves(h, r)
    BY <1>2 DEF Serves
  <2> QED
    BY <1>2, <2>1, <2>2 DEF Registered, RegisterAttribute, AddResources, TypeKept
<1>3. CASE r.operations = {"R"}
           /\ RegisterAttribute(r, "hnd_attribute_get", "none")
  <2> DEFINE h == [GET |-> "hnd_attribute_get", PUT |-> "none"]
  <2>1. h \in Handlers
    BY <1>1
  <2>2. Serves(h, r)
    BY <1>3 DEF Serves
  <2> QED
    BY <1>3, <2>1, <2>2 DEF Registered, RegisterAttribute, AddResources, TypeKept
<1>4. CASE r.operations = {"W"}
           /\ RegisterAttribute(r, "none", "hnd_attribute_put")
  <2> DEFINE h == [GET |-> "none", PUT |-> "hnd_attribute_put"]
  <2>1. h \in Handlers
    BY <1>1
  <2>2. Serves(h, r)
    BY <1>4 DEF Serves
  <2> QED
    BY <1>4, <2>1, <2>2 DEF Registered, RegisterAttribute, AddResources, TypeKept
<1>5. CASE r.operations = {"E"} /\ RegisterCommandResource(r)
  <2> DEFINE h == [GET |-> "none", PUT |-> "hnd_command_put"]
  <2>1. h \in Handlers
    BY <1>1
  <2>2. Serves(h, r)
    BY <1>5 DEF Serves
  <2>3. "R" \notin r.operations /\ "W" \notin r.operations
    BY <1>5
  <2> QED
    BY <1>5, <2>1, <2>2, <2>3
       DEF Registered, RegisterCommandResource, AddResources, TypeKept
<1>6. CASE r.operations = {} /\ UNCHANGED <<handlers, type_map, fault>>
  BY <1>6 DEF Registered
<1> QED
  BY <1>2, <1>3, <1>4, <1>5, <1>6 DEF Register

LEMMA VisitKeeps ==
  ASSUME ServerAll, GenerateCoapResource, todo # <<>>
  PROVE  ServerAll'
<1>1. /\ Running /\ coap_server = "generate"
      /\ UNCHANGED <<coap_server, address, object, coap_ctx, listening,
                     initialised, net>>
      /\ Register(Head(todo)) /\ todo' = Tail(todo)
  BY DEF GenerateCoapResource, ServerAt
<1>2. /\ object \in Seq(ResourceType) /\ todo \in Seq(ResourceType)
      /\ \A i, j \in DOMAIN object : object[i].id = object[j].id => i = j
  BY ObjectTyped DEF ServerAll, ServerTypeOK, ResourceType
<1>3. /\ Len(todo) <= Len(object)
      /\ \A j \in DOMAIN todo : todo[j] = object[Visited + j]
      /\ \A i \in DOMAIN object :
           IF i > Visited
           THEN handlers[object[i].id] = [GET |-> "none", PUT |-> "none"]
           ELSE /\ coap_ctx = "valid" => Offered(object[i])
                /\ coap_ctx # "valid" => object[i].operations = {}
  BY <1>1 DEF ServerAll, ServerInv, RegisterInv
\* The resource visited is the one behind those already visited.
<1>4. PICK n \in Nat, m \in Nat, k \in Nat :
        n = Len(object) /\ m + 1 = Len(todo) /\ n = k + m + 1 /\ Visited = k
  <2>1. Len(object) \in Nat /\ Len(todo) \in Nat /\ Len(todo) # 0
    BY <1>2
  <2> QED
    BY <1>3, <2>1 DEF Visited
<1>5. PICK r \in ResourceType : r = Head(todo)
  BY <1>2
<1>6. r = object[k + 1] /\ k + 1 \in DOMAIN object /\ DOMAIN object = 1..n
  <2>1. 1 \in DOMAIN todo /\ r = todo[1]
    BY <1>2, <1>4, <1>5
  <2>2. todo[1] = object[k + 1]
    BY <1>3, <1>4, <2>1
  <2>3. DOMAIN object = 1..n
    BY <1>2, <1>4, ElementOf
  <2>4. k + 1 \in 1..n
    BY <1>4
  <2> QED
    BY <2>1, <2>2, <2>3, <2>4
<1>7. /\ todo' \in Seq(ResourceType) /\ Len(todo') = m /\ Visited' = k + 1
      /\ \A j \in DOMAIN todo' : todo'[j] = object[k + 1 + j]
  <2>1. todo' \in Seq(ResourceType) /\ Len(todo') = m
    BY <1>1, <1>2, <1>4
  <2>2. \A j \in 1..m : todo'[j] = todo[j + 1] /\ j + 1 \in DOMAIN todo
    BY <1>1, <1>2, <1>4
  <2>3. Visited' = k + 1
    BY <1>1, <1>4, <2>1 DEF Visited
  <2>4. \A j \in 1..m : todo'[j] = object[k + 1 + j]
    <3>1. ASSUME NEW j \in 1..m
          PROVE  todo[j + 1] = object[k + 1 + j]
      <4>1. todo[j + 1] = object[Visited + (j + 1)]
        BY <1>3, <2>2
      <4>2. Visited + (j + 1) = k + 1 + j
        BY <1>4
      <4> QED
        BY <4>1, <4>2
    <3> QED
      BY <2>2, <3>1
  <2>5. DOMAIN todo' = 1..m
    BY <2>1, ElementOf
  <2> QED
    BY <2>1, <2>3, <2>4, <2>5
<1>8. Registered(r) /\ handlers \in [ResourceIds -> Handlers] /\ r.id \in ResourceIds
  BY <1>1, <1>5, RegisterEffect DEF ServerAll, ServerTypeOK, ResourceType
\* Types
<1>9. ServerTypeOK'
  <2>1. /\ handlers' \in [ResourceIds -> Handlers]
        /\ type_map' \subseteq ResourceIds
    BY <1>8 DEF Registered, TypeKept, ServerAll, ServerTypeOK
  <2>2. fault' \in {fault, "null context", "freed context"}
    BY <1>8 DEF Registered
  <2>3. initialised' \in BOOLEAN
    BY <1>1 DEF ServerAll, ServerTypeOK
  <2> QED
    BY <1>1, <1>7, <2>1, <2>2, <2>3 DEF ServerAll, ServerTypeOK, ResourceType
<1>10. Pristine' /\ ContextInv'
  BY <1>1 DEF ServerAll, ServerInv, Pristine, ContextInv
\* The handlers of the other resources stay as they are.
<1>11. \A i \in DOMAIN object : i # k + 1 => handlers'[object[i].id] = handlers[object[i].id]
  <2>1. \A i \in DOMAIN object : i # k + 1 => object[i].id # r.id
    BY <1>2, <1>6
  <2>2. \A i \in DOMAIN object : object[i].id \in ResourceIds
    <3>1. \A i \in DOMAIN object : object[i] \in ResourceType
      BY <1>2, ElementOf
    <3> QED
      BY <3>1 DEF ResourceType
  <2>3. \A id \in ResourceIds : id # r.id => handlers'[id] = handlers[id]
    BY <1>8 DEF Registered
  <2> QED
    BY <2>1, <2>2, <2>3
<1>12. RegisterInv'
  <2>1. ASSUME Running', NEW i \in DOMAIN object
        PROVE  IF i > k + 1
               THEN handlers'[object[i].id] = [GET |-> "none", PUT |-> "none"]
               ELSE /\ coap_ctx = "valid" => Offered(object[i])'
                    /\ coap_ctx # "valid" => object[i].operations = {}
    <3>0. i \in Nat
      BY <1>6
    <3>1. CASE i > k + 1
      BY <1>3, <1>4, <1>11, <3>0, <3>1
    <3>2. CASE i < k + 1
      <4>1. /\ coap_ctx = "valid" => Offered(object[i])
            /\ coap_ctx # "valid" => object[i].operations = {}
        BY <1>3, <1>4, <3>0, <3>2
      <4>2. handlers'[object[i].id] = handlers[object[i].id]
        BY <1>11, <3>0, <3>2
      <4> QED
        BY <1>1, <1>4, <3>0, <3>2, <4>1, <4>2 DEF Offered
    <3>3. CASE i = k + 1
      <4>1. object[i] = r /\ handlers[r.id] = [GET |-> "none", PUT |-> "none"]
        BY <1>3, <1>4, <1>6, <3>3
      <4>2. fault' = "none"
        BY <2>1 DEF Running
      <4>3. CASE r.operations = {} /\ UNCHANGED <<handlers, type_map, fault>>
        <5>1. handlers'[r.id].GET = "none" /\ handlers'[r.id].PUT = "none"
          BY <4>1, <4>3
        <5> QED
          BY <1>1, <3>3, <4>1, <4>3, <5>1 DEF Offered
      <4>4. ASSUME NEW h \in Handlers, coap_ctx = "valid",
                   handlers' = [handlers EXCEPT ![r.id] = h], Serves(h, r)
            PROVE  coap_ctx = "valid" /\ Offered(object[i])'
        <5>1. handlers'[r.id] = h
          BY <1>8, <4>4
        <5> QED
          BY <1>1, <4>1, <4>4, <5>1 DEF Offered, Serves
      <4> QED
        BY <1>8, <3>3, <4>2, <4>3, <4>4 DEF Registered
    <3> QED
      BY <1>4, <3>0, <3>1, <3>2, <3>3
  <2>2. Len(todo') <= Len(object')
    BY <1>1, <1>4, <1>7
  <2> QED
    BY <1>1, <1>7, <2>1, <2>2 DEF RegisterInv
<1>13. TypesKnown'
  <2>1. ASSUME NEW id \in ResourceIds, id # r.id
        PROVE  handlers'[id] = handlers[id]
    BY <1>8, <2>1 DEF Registered
  <2>2. type_map \subseteq type_map'
    BY <1>8 DEF Registered, TypeKept
  <2>3. handlers' = handlers => TypesKnown'
    BY <2>2 DEF ServerAll, TypesKnown
  <2>4. ASSUME NEW h \in Handlers, handlers' = [handlers EXCEPT ![r.id] = h],
               Serves(h, r), TypeKept(r)
        PROVE  TypesKnown'
    <3>1. handlers'[r.id] = h
      BY <1>8, <2>4
    <3>2. h.GET = "hnd_attribute_get" \/ h.PUT = "hnd_attribute_put"
            => r.id \in type_map'
      BY <2>4 DEF Serves, TypeKept
    <3> QED
      BY <2>1, <2>2, <3>1, <3>2 DEF ServerAll, TypesKnown
  <2> QED
    BY <1>8, <2>3, <2>4 DEF Registered
<1>14. FaultNeedsFailedInit'
  <2>1. CASE UNCHANGED fault
    BY <1>1, <2>1 DEF FaultNeedsFailedInit, Running
  <2>2. CASE coap_ctx # "valid" /\ fault' \in {"null context", "freed context"}
    <3>1. ~initialised
      BY <2>2 DEF ServerAll, ServerInv, ContextInv
    <3> QED
      BY <1>1, <2>2, <3>1 DEF FaultNeedsFailedInit
  <2> QED
    BY <1>8, <2>1, <2>2 DEF Registered
<1> QED
  BY <1>9, <1>10, <1>12, <1>13, <1>14 DEF ServerAll, ServerInv

LEMMA VisitedAllKeeps ==
  ASSUME ServerAll, GenerateCoapResource, todo = <<>>
  PROVE  ServerAll'
<1>1. /\ Running /\ coap_server = "generate" /\ coap_server' = "start"
      /\ UNCHANGED <<todo, handlers, type_map, fault, address, object, coap_ctx,
                     listening, initialised, net>>
  BY DEF GenerateCoapResource, ServerAt
<1>2. ServerTypeOK'
  <2>1. initialised' \in BOOLEAN
    BY <1>1 DEF ServerAll, ServerTypeOK
  <2> QED
    BY <1>1, <2>1 DEF ServerAll, ServerTypeOK
<1>3. Pristine' /\ ContextInv'
  BY <1>1 DEF ServerAll, ServerInv, Pristine, ContextInv
<1>4. RegisterInv'
  <2>1. Visited' = Visited
    BY <1>1 DEF Visited
  <2>2. \A i \in DOMAIN object : Offered(object[i])' <=> Offered(object[i])
    BY <1>1 DEF Offered
  <2> QED
    BY <1>1, <2>1, <2>2 DEF ServerAll, ServerInv, RegisterInv, Running
<1>5. TypesKnown' /\ FaultNeedsFailedInit'
  BY <1>1 DEF ServerAll, TypesKnown, FaultNeedsFailedInit
<1> QED
  BY <1>2, <1>3, <1>4, <1>5 DEF ServerAll, ServerInv

\* The task returns only if there was nothing to register.
LEMMA StartKeeps ==
  ASSUME ServerAll, start_server
  PROVE  ServerAll'
<1>1. /\ Running /\ coap_server = "start"
      /\ UNCHANGED <<todo, handlers, type_map, address, object, coap_ctx,
                     listening, initialised, net>>
  BY DEF start_server, ServerAt
<1>2. \/ coap_ctx = "valid" /\ coap_server' = "serving" /\ UNCHANGED fault
      \/ coap_ctx = "null" /\ fault' = "task returned" /\ UNCHANGED coap_server
      \/ coap_ctx = "freed" /\ fault' = "freed context" /\ UNCHANGED coap_server
  BY DEF start_server
<1>3. ServerTypeOK'
  <2>1. initialised' \in BOOLEAN
    BY <1>1 DEF ServerAll, ServerTypeOK
  <2> QED
    BY <1>1, <1>2, <2>1 DEF ServerAll, ServerTypeOK
<1>4. Pristine' /\ ContextInv'
  BY <1>1, <1>2 DEF ServerAll, ServerInv, Pristine, ContextInv, Running
<1>5. RegisterInv'
  <2>1. Visited' = Visited
    BY <1>1 DEF Visited
  <2>2. \A i \in DOMAIN object : Offered(object[i])' <=> Offered(object[i])
    BY <1>1 DEF Offered
  <2> QED
    BY <1>1, <1>2, <2>1, <2>2 DEF ServerAll, ServerInv, RegisterInv, Running
<1>6. TypesKnown'
  BY <1>1 DEF ServerAll, TypesKnown
<1>7. FaultNeedsFailedInit'
  <2>1. CASE UNCHANGED fault
    BY <1>1, <2>1 DEF FaultNeedsFailedInit, Running
  <2>2. CASE coap_ctx \in {"null", "freed"}
    <3>1. ~initialised
      BY <2>2 DEF ServerAll, ServerInv, ContextInv
    <3>2. \A i \in DOMAIN object : object[i].operations = {}
      <4>1. todo = <<>> /\ object \in Seq(ResourceType)
        BY <1>1, ObjectTyped
           DEF ServerAll, ServerInv, RegisterInv, ServerTypeOK
      <4>2. Len(object) \in Nat /\ DOMAIN object = 1..Len(object)
            /\ Visited = Len(object)
        BY <4>1, ElementOf DEF Visited
      <4>3. \A i \in DOMAIN object : ~(i > Visited)
        BY <4>2
      <4> QED
        BY <1>1, <2>2, <4>3 DEF ServerAll, ServerInv, RegisterInv
    <3> QED
      BY <1>1, <1>2, <2>2, <3>1, <3>2 DEF FaultNeedsFailedInit
  <2> QED
    BY <1>2, <2>1, <2>2
<1> QED
  BY <1>3, <1>4, <1>5, <1>6, <1>7 DEF ServerAll, ServerInv

LEMMA ServerKeeps ==
  ASSUME ServerAll, SettledInv, [Next]_vars
  PROVE  ServerAll'
<1>1. CASE GenerateCoapResource
  BY <1>1, VisitKeeps, VisitedAllKeeps
<1>2. CASE ServerStep \/ NetChanges
  BY <1>1, <1>2, NetKeeps, PollKeeps, LoadKeeps, InitKeeps, StartKeeps
     DEF ServerStep
<1> QED
  BY <1>2, OthersKeep, NextIs

-----------------------------------------------------------------------------
(* The theorems *)

LEMMA InitEstablishes == Init => IInv
<1> SUFFICES ASSUME Init
             PROVE  IInv
  OBVIOUS
<1>1. AppTaskTypeOK /\ ButtonInv
  BY DEF Init, AppTaskInit, AppTaskTypeOK, ButtonInv
<1>2. TableTypeOK
  <2>1. 0 \in Ids
    BY TableAssumption DEF Ids
  <2> QED
    BY <2>1 DEF Init, TableInit, TableTypeOK
<1>3. ChipTypeOK /\ MappingInv
  BY DEF Init, ChipTypeOK, MappingInv, MappingsFromTheirFiles, Documents, Files
<1>4. SettledInv
  BY DEF Init, AppTaskInit, TableInit, SettledInv
<1>5. ServerTypeOK
  <2>1. NoHandlers \in [ResourceIds -> Handlers]
    BY DEF NoHandlers, Handlers
  <2>2. initialised \in BOOLEAN
    BY DEF Init
  <2>3. <<>> \in Seq(ResourceType)
    OBVIOUS
  <2> QED
    BY <2>1, <2>2, <2>3 DEF Init, ServerTypeOK, ResourceType
<1>6. ServerInv /\ FaultNeedsFailedInit
  BY DEF Init, ServerInv, Pristine, ContextInv, RegisterInv,
         FaultNeedsFailedInit
<1>7. TypesKnown
  BY DEF Init, NoHandlers, TypesKnown
<1> QED
  BY <1>1, <1>2, <1>3, <1>4, <1>5, <1>6, <1>7, TypeOKIs DEF IInv

LEMMA NextKeeps == IInv /\ [Next]_vars => IInv'
<1> SUFFICES ASSUME IInv, [Next]_vars
             PROVE  IInv'
  OBVIOUS
<1>1. AppTaskTypeOK /\ TableTypeOK /\ ChipTypeOK /\ ServerTypeOK
  BY TypeOKIs DEF IInv
<1>2. AppTaskTypeOK' /\ ButtonInv'
  BY <1>1, ButtonKeeps DEF IInv
<1>3. TableTypeOK'
  BY <1>1, TableKeeps
<1>4. ChipTypeOK' /\ MappingInv'
  BY <1>1, ChipKeeps DEF IInv
<1>5. SettledInv'
  BY SettledKeeps DEF IInv
<1>6. ServerAll'
  BY <1>1, ServerKeeps DEF IInv, ServerAll
<1>7. TypeOK'
  BY <1>2, <1>3, <1>4, <1>6 DEF TypeOK, ChipTypeOK, ServerTypeOK, ServerAll
<1> QED
  BY <1>2, <1>4, <1>5, <1>6, <1>7 DEF IInv, ServerAll

LEMMA Inductive == Spec => []IInv
BY InitEstablishes, NextKeeps, PTL DEF Spec

\* The types of the state, with every value the code gives it.
THEOREM StartupWellTyped == Spec => []TypeOK
<1>1. IInv => TypeOK
  BY DEF IInv
<1> QED
  BY <1>1, Inductive, PTL

\* The interrupt posts no event before there is a queue (main/AppTask.cpp),
\* whichever of the steps of StartAppTask fails, however early a press.
THEOREM QueueBeforePress == Spec => []PostFindsQueue
<1>1. IInv => PostFindsQueue
  BY DEF IInv, ButtonInv, PostFindsQueue
<1> QED
  BY <1>1, Inductive, PTL

\* Each mapping is generated from its own file, or from an empty document,
\* whichever of the loads of InitServer fail (main/main.cpp).
THEOREM MappingsKeepApart == Spec => []MappingsFromTheirFiles
<1>1. IInv => MappingsFromTheirFiles
  BY DEF IInv, MappingInv
<1> QED
  BY <1>1, Inductive, PTL

\* The server listens on the third address of its interface, for any address
\* (InitCoapServer, main/main.cpp).
THEOREM ServerOnItsAddress == Spec => []ListensOnItsAddress
<1>1. IInv => ListensOnItsAddress
  BY DEF IInv, ServerInv, ContextInv, ListensOnItsAddress
<1> QED
  BY <1>1, Inductive, PTL

\* A server that serves offers the operations of each resource, for any object
\* (GenerateCoapResource, main/CoapServer.cpp).
THEOREM EveryResourceOffered == Spec => []OperationsOffered
<1>1. IInv => OperationsOffered
  <2> SUFFICES ASSUME IInv, coap_server = "serving", NEW i \in DOMAIN object
               PROVE  Offered(object[i])
    BY DEF OperationsOffered, Offered
  <2>1. Running /\ coap_ctx = "valid"
    BY DEF IInv, ServerInv, ContextInv
  <2>2. todo = <<>> /\ object \in Seq(ResourceType)
    BY <2>1, ObjectTyped DEF IInv, ServerInv, RegisterInv, TypeOK
  <2>3. Len(object) \in Nat /\ DOMAIN object = 1..Len(object)
        /\ Visited = Len(object)
    BY <2>2, ElementOf DEF Visited
  <2>4. ~(i > Visited)
    BY <2>3
  <2> QED
    BY <2>1, <2>4 DEF IInv, ServerInv, RegisterInv
<1> QED
  BY <1>1, Inductive, PTL

\* The handlers of attributes find the type of their resource: at() does not
\* throw (main/CoapServer.cpp).
THEOREM TypesAlwaysKnown == Spec => []TypesKnown
<1>1. IInv => TypesKnown
  BY DEF IInv
<1> QED
  BY <1>1, Inductive, PTL

\* A null or freed context is used only after init_server has failed, and the
\* task returns only if there was no memory and nothing to register.
THEOREM OnlyFailedInitIsFatal == Spec => []FaultNeedsFailedInit
<1>1. IInv => FaultNeedsFailedInit
  BY DEF IInv
<1> QED
  BY <1>1, Inductive, PTL

\* Nothing the server reads without a lock changes once its task exists.
THEOREM NothingMovesUnderServer == Spec => SettledBeforeServer
<1>1. IInv /\ [Next]_vars =>
        [coap_server # "none" => UNCHANGED <<chipVars, tableVars>>]_vars
  BY SettledKeeps DEF IInv
<1> QED
  BY <1>1, Inductive, PTL DEF Spec, SettledBeforeServer
=============================================================================
