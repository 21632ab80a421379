------------------------------- MODULE Startup -------------------------------
(***************************************************************************)
(* From app_main to a CoAP server that serves (main/main.cpp,              *)
(* main/CoapServer.cpp): app_main, InitServer on the CHIP task, and        *)
(* InitCoapServer on the coap_server task, beside the AppTask and the      *)
(* button.  Documents are loaded with the CoAP client: a load stores the   *)
(* file, leaves the document as it was, or dies of what it was sent.       *)
(*                                                                         *)
(* A document is the name of the file it holds, and a mapping the name of  *)
(* the file it was generated from.                                         *)
(***************************************************************************)
EXTENDS AppTask, AddressText, DeviceTable

CONSTANTS
  gLight1, bridged_custom_device,  \* the two devices
  Nets,         \* what the interface may be like: up or down, its addresses
  ObjectFiles,  \* the LwM2M files: the resources of an object
  Nothing       \* an empty document, a null address or context

\* The operations of a resource as LwM2M allows them.
Operations == {{}, {"R"}, {"W"}, {"R", "W"}, {"E"}}

ASSUME StartupAssumption ==
  /\ Devices = {gLight1, bridged_custom_device}
  /\ gLight1 # bridged_custom_device
  /\ Nets \subseteq [up : BOOLEAN, ip6 : Seq(AddressType)]
  /\ \A file \in ObjectFiles :
       /\ file \in Seq([id : Nat, operations : Operations])
       /\ \A i, j \in DOMAIN file : file[i].id = file[j].id => i = j
  /\ Nothing \notin Nat \cup AddressType

ResourceIds == UNION {{file[i].id : i \in DOMAIN file} : file \in ObjectFiles}

Documents ==
  {"sdf_model_file", "sdf_mapping_matter_file", "sdf_mapping_lwm2m_file"}

Files == {"sdf-model", "sdf-mapping", "sdf-lwm2m-to-matter-merged",
          "sdf-matter-to-lwm2m-merged", "empty"}

VARIABLES
  initServer,      \* where InitServer is on the CHIP task
  doc,             \* the file each document holds
  coap_mapping,    \* the files the two mappings were generated from
  matter_mapping,
  net,             \* the default interface
  coap_server,     \* where InitCoapServer is on its task
  address,         \* ip6_addr[2]
  todo,            \* the resources GenerateCoapResource has to visit
  object,          \* history: all resources of the object
  coap_ctx,        \* the context of the server
  listening,       \* the address its endpoint is bound to
  initialised,     \* history: init_server returned EXIT_SUCCESS
  handlers,        \* the handler of each resource and method
  type_map,        \* the resources with a type
  fault            \* why the program has died

chipVars == <<initServer, doc, coap_mapping, matter_mapping>>
serverVars == <<coap_server, address, todo, object, coap_ctx, listening,
                initialised, handlers, type_map>>
vars == <<appTaskVars, tableVars, chipVars, serverVars, net, fault>>

NoHandlers == [id \in ResourceIds |-> [GET |-> "none", PUT |-> "none"]]

Handlers == [GET : {"none", "hnd_attribute_get"},
             PUT : {"none", "hnd_attribute_put", "hnd_command_put"}]

TypeOK ==
  /\ AppTaskTypeOK
  /\ TableTypeOK
  /\ initServer \in {"none", "queued", "light", "model", "mapping", "convert",
                     "create", "custom", "merged", "lwm2m", "server", "up"}
  /\ doc \in [Documents -> Files]
  /\ coap_mapping \in Files
  /\ matter_mapping \in Files
  /\ net \in Nets
  /\ coap_server \in {"none", "poll", "load", "init", "generate", "start",
                      "serving"}
  /\ address \in AddressType \cup {Nothing}
  /\ todo \in Seq([id : ResourceIds, operations : Operations])
  /\ object \in ObjectFiles \cup {<<>>}
  /\ coap_ctx \in {"null", "valid", "freed"}
  /\ listening \in AddressType \cup {Nothing}
  /\ initialised \in BOOLEAN
  /\ handlers \in [ResourceIds -> Handlers]
  /\ type_map \subseteq ResourceIds
  /\ fault \in {"none", "json exception", "null context", "freed context",
                "task returned"}

Init ==
  /\ AppTaskInit
  /\ TableInit
  /\ gCurrentEndpointId = 0
  /\ initServer = "none"
  /\ doc = [d \in Documents |-> "empty"]
  /\ coap_mapping = "empty"
  /\ matter_mapping = "empty"
  /\ net \in Nets
  /\ ~net.up
  /\ coap_server = "none"
  /\ address = Nothing
  /\ todo = <<>>
  /\ object = <<>>
  /\ coap_ctx = "null"
  /\ listening = Nothing
  /\ initialised = FALSE
  /\ handlers = NoHandlers
  /\ type_map = {}
  /\ fault = "none"

Running == fault = "none"

-----------------------------------------------------------------------------
(* app_main *)

\* Flash, event loop, device manager: if one of them fails app_main returns and
\* nothing else is started.
InitStack ==
  /\ Running
  /\ app_main = "init"
  /\ app_main' \in {"schedule", "returned"}
  /\ UNCHANGED <<sAppEventQueue, appTask, event, hooked, button_press_handler,
                 fate, nullPost, tableVars, chipVars, serverVars, net, fault>>

\* InitServer is the first item of the CHIP queue.
ScheduleInitServer ==
  /\ Running
  /\ app_main = "schedule"
  /\ app_main' = "queue"
  /\ initServer' = "queued"
  /\ UNCHANGED <<sAppEventQueue, appTask, event, hooked, button_press_handler,
                 fate, nullPost, tableVars, doc, coap_mapping, matter_mapping,
                 serverVars, net, fault>>

Beside(step) == Running /\ step /\ UNCHANGED <<tableVars, chipVars, serverVars,
                                               net, fault>>

-----------------------------------------------------------------------------
(* InitServer and ConvertAndDeployMatter *)

\* InitServer is at a step and no device is being added.
At(step) == Running /\ initServer = step /\ ~Adding

\* The first dynamic id is behind those of the fixed endpoints; then the first
\* light is added.  The table is empty, so there is a place for it.
InitServer ==
  /\ At("queued")
  /\ initServer' = "light"
  /\ gCurrentEndpointId' = FirstDynamic
  /\ UNCHANGED <<gDevices, endpoints, mEndpointId, adding, refused, doc,
                 coap_mapping, matter_mapping, appTaskVars, serverVars, net,
                 fault>>

AddLight ==
  /\ At("light")
  /\ initServer' = "model"
  /\ AddDeviceEndpoint(gLight1)
  /\ UNCHANGED <<doc, coap_mapping, matter_mapping, appTaskVars, serverVars,
                 net, fault>>

\* The loop of AddDeviceEndpoint; its result is not looked at.
TryEndpoint ==
  /\ Running
  /\ EndpointTaken \/ EndpointDuplicate \/ EndpointRefused
  /\ UNCHANGED <<chipVars, appTaskVars, serverVars, net, fault>>

\* What a load makes of the documents it is given: a file that is no JSON is an
\* exception nobody catches.
Load(docs, document, file) ==
  \/ doc' = [docs EXCEPT ![document] = file] /\ UNCHANGED fault
  \/ doc' = docs /\ UNCHANGED fault
  \/ doc' = docs /\ fault' = "json exception"

\* A slip: nothing is cleared.
ClearedNever(docs, documents) == docs

\* clear() of json
Cleared(docs, documents) ==
  [d \in Documents |-> IF d \in documents THEN "empty" ELSE docs[d]]

LoadSdfModel ==
  /\ At("model")
  /\ initServer' = "mapping"
  /\ Load(doc, "sdf_model_file", "sdf-model")
  /\ UNCHANGED <<coap_mapping, matter_mapping, tableVars, appTaskVars,
                 serverVars, net>>

LoadSdfMapping ==
  /\ At("mapping")
  /\ initServer' = "convert"
  /\ Load(doc, "sdf_mapping_matter_file", "sdf-mapping")
  /\ UNCHANGED <<coap_mapping, matter_mapping, tableVars, appTaskVars,
                 serverVars, net>>

\* The converter finds clusters in the model, or does not, or throws; then both
\* documents are cleared.  Without a cluster CreateCustomDevice returns at once.
ConvertSdfToMatter ==
  /\ At("convert")
  /\ \/ /\ \/ doc["sdf_model_file"] # "empty" /\ initServer' = "create"
           \/ initServer' = "merged"
        /\ doc' = Cleared(doc, {"sdf_model_file", "sdf_mapping_matter_file"})
        /\ UNCHANGED fault
     \/ /\ fault' = "json exception"
        /\ UNCHANGED <<initServer, doc>>
  /\ UNCHANGED <<coap_mapping, matter_mapping, tableVars, appTaskVars,
                 serverVars, net>>

\* CreateCustomDevice loads the client cluster, builds the endpoint and adds it
\* to the second place, if the first is taken, as it always is.
CreateCustomDevice ==
  /\ At("create")
  /\ initServer' = "custom"
  /\ AddDeviceEndpoint(bridged_custom_device)
  /\ UNCHANGED <<doc, coap_mapping, matter_mapping, appTaskVars, serverVars,
                 net, fault>>

\* The device is set reachable, without a callback to tell, and the function
\* returns.
CustomDeviceCreated ==
  /\ At("custom")
  /\ initServer' = "merged"
  /\ UNCHANGED <<doc, coap_mapping, matter_mapping, tableVars, appTaskVars,
                 serverVars, net, fault>>

\* A slip: the task is created once the mapping it uses is there.
GenerateCoapMappingEarly ==
  /\ At("merged")
  /\ initServer' = "lwm2m"
  /\ Load(Cleared(doc, {"sdf_mapping_matter_file"}),
          "sdf_mapping_matter_file", "sdf-lwm2m-to-matter-merged")
  /\ coap_mapping' = doc'["sdf_mapping_matter_file"]
  /\ coap_server' = "poll"
  /\ UNCHANGED <<matter_mapping, tableVars, appTaskVars, address, todo, object,
                 coap_ctx, listening, initialised, handlers, type_map, net>>

\* The document is cleared once more and loaded with the merged mapping.  What
\* GenerateMatterIpsoMapping makes of its content is in IdMapping.
GenerateCoapMapping ==
  /\ At("merged")
  /\ initServer' = "lwm2m"
  /\ Load(Cleared(doc, {"sdf_mapping_matter_file"}),
          "sdf_mapping_matter_file", "sdf-lwm2m-to-matter-merged")
  /\ coap_mapping' = doc'["sdf_mapping_matter_file"]
  /\ UNCHANGED <<matter_mapping, tableVars, appTaskVars, serverVars, net>>

GenerateMatterMapping ==
  /\ At("lwm2m")
  /\ initServer' = "server"
  /\ Load(doc, "sdf_mapping_lwm2m_file", "sdf-matter-to-lwm2m-merged")
  /\ matter_mapping' = doc'["sdf_mapping_lwm2m_file"]
  /\ UNCHANGED <<coap_mapping, tableVars, appTaskVars, serverVars, net>>

\* xTaskCreate: its result is not looked at.
CreateCoapServer ==
  /\ At("server")
  /\ initServer' = "up"
  /\ coap_server' \in {"poll", "none"}
  /\ UNCHANGED <<doc, coap_mapping, matter_mapping, tableVars, appTaskVars,
                 address, todo, object, coap_ctx, listening, initialised,
                 handlers, type_map, net, fault>>

DeployStep ==
  \/ InitServer \/ AddLight \/ TryEndpoint \/ LoadSdfModel \/ LoadSdfMapping
  \/ ConvertSdfToMatter \/ CreateCustomDevice \/ CustomDeviceCreated
  \/ GenerateCoapMapping \/ GenerateMatterMapping \/ CreateCoapServer

-----------------------------------------------------------------------------
(* InitCoapServer on the coap_server task *)

ServerAt(step) == Running /\ coap_server = step

\* Prefixes get lost and found again, as they please; as nothing but the loop of
\* InitCoapServer looks, only as long as it does.
NetChanges ==
  /\ ServerAt("poll")
  /\ net' \in Nets
  /\ UNCHANGED <<appTaskVars, tableVars, chipVars, serverVars, fault>>

\* A slip: one address too many.
EnoughAddressesPlus(ip6) == Len(ip6) > 3

\* "ret > 1", and then "ret >= 3"
EnoughAddresses(ip6) == Len(ip6) > 1 /\ Len(ip6) >= 3

\* The loop looks until the interface is up and has three addresses; otherwise
\* it sleeps five seconds and looks again.  The list is read once.
PollInterface ==
  /\ ServerAt("poll")
  /\ net.up
  /\ EnoughAddresses(net.ip6)
  /\ address' = net.ip6[3]
  /\ coap_server' = "load"
  /\ UNCHANGED <<todo, object, coap_ctx, listening, initialised, handlers,
                 type_map, appTaskVars, tableVars, chipVars, net, fault>>

\* LoadLwm2mFile and ParseObjectDefinition: the resources of the object, none
\* if nothing was loaded.
LoadLwm2mFile ==
  /\ ServerAt("load")
  /\ object' \in ObjectFiles \cup {<<>>}
  /\ todo' = object'
  /\ coap_server' = "init"
  /\ UNCHANGED <<address, coap_ctx, listening, initialised, handlers, type_map,
                 appTaskVars, tableVars, chipVars, net, fault>>

\* cleanup_server frees the context and leaves the pointer as it is.
cleanup_server(context) == IF context = "null" THEN "null" ELSE "freed"

\* A slip: what cleanup_server has to do is done and init_server goes on.
init_serverGoingOn ==
  /\ ServerAt("init")
  /\ coap_ctx' \in {"valid", cleanup_server("valid")}
  /\ listening' = address
  /\ initialised' = TRUE
  /\ coap_server' = "generate"
  /\ UNCHANGED <<address, todo, object, handlers, type_map, appTaskVars,
                 tableVars, chipVars, net, fault>>

\* init_server: there is no context, or no endpoint for the text of the address,
\* or an endpoint.  Its result is not looked at.
init_server ==
  /\ ServerAt("init")
  /\ \/ /\ coap_ctx' = cleanup_server("null")
        /\ UNCHANGED <<listening, initialised>>
     \/ /\ coap_ctx' = cleanup_server("valid")
        /\ UNCHANGED <<listening, initialised>>
     \/ /\ coap_ctx' = "valid"
        /\ listening' \in Resolve(Ip6ToStr(address))
        /\ initialised' = TRUE
  /\ coap_server' = "generate"
  /\ UNCHANGED <<address, todo, object, handlers, type_map, appTaskVars,
                 tableVars, chipVars, net, fault>>

\* coap_add_resource uses the context.
AddResources(new, types) ==
  \/ /\ coap_ctx = "valid"
     /\ handlers' = new
     /\ type_map' = types
     /\ UNCHANGED fault
  \/ /\ coap_ctx # "valid"
     /\ fault' = IF coap_ctx = "null" THEN "null context" ELSE "freed context"
     /\ type_map' = types
     /\ UNCHANGED handlers

\* A slip: the type of the resource is not kept.
RegisterAttributeUntyped(r, get, put) ==
  AddResources([handlers EXCEPT ![r.id] = [GET |-> get, PUT |-> put]], type_map)

\* RegisterAttributeResource and RegisterAttributeRWResource
RegisterAttribute(r, get, put) ==
  AddResources([handlers EXCEPT ![r.id] = [GET |-> get, PUT |-> put]],
               type_map \cup {r.id})

RegisterCommandResource(r) ==
  AddResources([handlers EXCEPT ![r.id] = [GET |-> "none",
                                           PUT |-> "hnd_command_put"]],
               type_map)

\* A slip: whatever can be read is registered for reading only.
RegisterReadFirst(r) ==
  \/ "R" \in r.operations
     /\ RegisterAttribute(r, "hnd_attribute_get", "none")
  \/ r.operations = {"W"}
     /\ RegisterAttribute(r, "none", "hnd_attribute_put")
  \/ r.operations = {"E"} /\ RegisterCommandResource(r)
  \/ r.operations = {} /\ UNCHANGED <<handlers, type_map, fault>>

\* What the loop of GenerateCoapResource does for one resource.
Register(r) ==
  \/ r.operations = {"R", "W"}
     /\ RegisterAttribute(r, "hnd_attribute_get", "hnd_attribute_put")
  \/ r.operations = {"R"}
     /\ RegisterAttribute(r, "hnd_attribute_get", "none")
  \/ r.operations = {"W"}
     /\ RegisterAttribute(r, "none", "hnd_attribute_put")
  \/ r.operations = {"E"} /\ RegisterCommandResource(r)
  \/ r.operations = {} /\ UNCHANGED <<handlers, type_map, fault>>

GenerateCoapResource ==
  /\ ServerAt("generate")
  /\ \/ /\ todo # <<>>
        /\ Register(Head(todo))
        /\ todo' = Tail(todo)
        /\ UNCHANGED coap_server
     \/ /\ todo = <<>>
        /\ coap_server' = "start"
        /\ UNCHANGED <<todo, handlers, type_map, fault>>
  /\ UNCHANGED <<address, object, coap_ctx, listening, initialised,
                 appTaskVars, tableVars, chipVars, net>>

\* start_server notices a null pointer and returns, and InitCoapServer with it,
\* which FreeRTOS does not allow a task.  It works on any other context.
start_server ==
  /\ ServerAt("start")
  /\ \/ coap_ctx = "valid" /\ coap_server' = "serving" /\ UNCHANGED fault
     \/ coap_ctx = "null" /\ fault' = "task returned" /\ UNCHANGED coap_server
     \/ coap_ctx = "freed" /\ fault' = "freed context" /\ UNCHANGED coap_server
  /\ UNCHANGED <<address, todo, object, coap_ctx, listening, initialised,
                 handlers, type_map, appTaskVars, tableVars, chipVars, net>>

ServerStep ==
  \/ PollInterface \/ LoadLwm2mFile \/ init_server \/ GenerateCoapResource
  \/ start_server

AppMainStep == InitStack \/ ScheduleInitServer \/ Beside(StartAppTask)

Next ==
  \/ AppMainStep
  \/ Beside(AppTaskMain)
  \/ \E p \in Presses : Beside(gpio_isr_handler(p))
  \/ DeployStep
  \/ ServerStep
  \/ NetChanges

Spec == Init /\ [][Next]_vars

\* Every task gets the core and goes on; a load ends (CallReturns of
\* CoapClient), and so does the sleep between two looks at the interface.
Fairness ==
  /\ WF_vars(AppMainStep)
  /\ WF_vars(Beside(AppTaskMain))
  /\ WF_vars(DeployStep)
  /\ WF_vars(ServerStep)

FairSpec == Spec /\ Fairness

-----------------------------------------------------------------------------
(* Properties *)

\* Each mapping is generated from its own file or is empty: nothing of a
\* document that was loaded before, or for the other direction, gets into it,
\* whichever of the loads fail.
MappingsFromTheirFiles ==
  /\ coap_mapping \in {"sdf-lwm2m-to-matter-merged", "empty"}
  /\ matter_mapping \in {"sdf-matter-to-lwm2m-merged", "empty"}

\* The coap_server task reads the mappings and nothing protects them: from the
\* moment it exists they do not change any more, nor does the table of devices.
SettledBeforeServer ==
  [][coap_server # "none" => UNCHANGED <<chipVars, tableVars>>]_vars

\* The server listens on the third address of the interface: its text, if it
\* can be resolved, is the text of no other address.
ListensOnItsAddress == coap_server = "serving" => listening = address

\* When requests can come, each resource of the object answers the operations
\* it is defined with, by the handler for them, and no others.
OperationsOffered ==
  coap_server = "serving" =>
    \A i \in DOMAIN object :
      LET operations == object[i].operations
          handler    == handlers[object[i].id]
      IN /\ (handler.GET = "hnd_attribute_get") <=> "R" \in operations
         /\ (handler.PUT = "hnd_attribute_put") <=> "W" \in operations
         /\ (handler.PUT = "hnd_command_put") <=> "E" \in operations

\* The handlers of attributes look the type of their resource up with at(),
\* which throws if it is not there.
TypesKnown ==
  \A id \in ResourceIds :
    \/ handlers[id].GET = "hnd_attribute_get"
    \/ handlers[id].PUT = "hnd_attribute_put"
    => id \in type_map

\* A context that is null or freed is used, and the task of the server returns,
\* only after init_server has failed; the task can return only if there was no
\* memory for a context and the object has no resource to register.
FaultNeedsFailedInit ==
  /\ fault \in {"null context", "freed context", "task returned"} =>
       ~initialised
  /\ fault = "task returned" =>
       coap_ctx = "null" /\ \A i \in DOMAIN object : object[i].operations = {}

\* As long as the interface keeps its addresses the server comes up, or the
\* start-up has failed where the code lets it: app_main gave up, the task could
\* not be created, or a fault.
StartFailed ==
  \/ app_main = "returned" /\ initServer = "none"
  \/ initServer = "up" /\ coap_server = "none"
  \/ ~Running

ServerComesUp ==
  <>[](net.up /\ Len(net.ip6) >= 3) => <>(coap_server = "serving" \/ StartFailed)

\* A press the queue has taken is dispatched, none is skipped by the two loops
\* of AppTaskMain.
PressIsSent ==
  \A p \in Presses : fate[p] = "queued" ~> (fate[p] = "sent" \/ ~Running)

\* What the comment above client_cluster in CreateCustomDevice says an endpoint
\* needs: to "ensure its lifetime beyond this function".  The cluster list, the
\* attribute lists and the data versions of bridged_custom_device are local to
\* the function, those of gLight1 are global.
EndpointStorageLives ==
  \A i \in Slots :
    endpoints[i] # NoEndpoint /\ gDevices[i] = bridged_custom_device =>
      initServer = "custom"
=============================================================================
