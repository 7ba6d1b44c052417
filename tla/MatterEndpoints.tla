--------------------------- MODULE MatterEndpoints ---------------------------
(***************************************************************************)
(* matter_endpoints: how a device, or a Matter controller for the node it  *)
(* commissioned, finds out which endpoints there are, which class serves   *)
(* each, and which clusters an endpoint object offers; together with what  *)
(* changes the answer: commissioning and decommissioning by                *)
(* MatterControllerChipTool, an upgrade of the sample app, reset(). The    *)
(* controller's subscription to an attribute is here too.                  *)
(***************************************************************************)
EXTENDS Naturals, Sequences, FiniteSets

CONSTANTS
  NoNode,           \* matter_node_id is None
  Nodes,            \* end devices
  Layouts,          \* pairs <<endpoints of a node, endpoints after an upgrade>>
  MaxEndpointOps,   \* operations in a behaviour
  MaxReports        \* reports of a subscription

\* An endpoint of a node: its device type ID and the clusters it serves.
NodeEndpoint == [type : Nat, servers : SUBSET STRING]

ASSUME EndpointsAssumption ==
  /\ NoNode \notin Nodes /\ MaxEndpointOps \in Nat /\ MaxReports \in Nat
  /\ Layouts \subseteq Seq(NodeEndpoint) \X Seq(NodeEndpoint)

-----------------------------------------------------------------------------
(* The endpoint classes: the device type ID of the interface and the       *)
(* clusters that the class has a property for.                             *)

AirQualitySensorBase == 44
AirQualitySensorEndpoint == {"AirQuality"}
ColorTemperatureLightBase == 268
ColorTemperatureLightEndpoint == {"OnOff", "LevelControl", "ColorControl"}
ContactSensorBase == 21
ContactSensorEndpoint == {"BooleanState"}
DimmableLightBase == 257
DimmableLightEndpoint == {"OnOff", "LevelControl", "OccupancySensing"}
DoorLockBase == 10
DoorLockEndpoint == {"DoorLock"}
ExtendedColorLightBase == 269
ExtendedColorLightEndpoint == {"OnOff", "LevelControl", "ColorControl"}
FanBase == 43
FanEndpoint == {"FanControl"}
FlowSensorBase == 774
FlowSensorEndpoint == {"Flow"}
GenericSwitchBase == 15
GenericSwitchEndpoint == {"Switch"}
HeatingCoolingUnitBase == 768
HeatingCoolingUnitEndpoint == {"OnOff", "LevelControl", "FanControl"}
HumiditySensorBase == 775
HumiditySensorEndpoint == {"RelativeHumidity"}
LightSensorBase == 262
LightSensorEndpoint == {"Illuminance"}
OccupancySensorBase == 263
OccupancySensorEndpoint == {"OccupancySensing"}
OnOffLightBase == 256
OnOffLightEndpoint == {"OnOff", "LevelControl", "OccupancySensing"}
OnOffLightSwitchBase == 259
OnOffLightSwitchEndpoint == {"OnOff"}
OnOffPluginUnitBase == 266
OnOffPluginUnitEndpoint == {"OnOff", "LevelControl"}
PressureSensorBase == 773
PressureSensorEndpoint == {"Pressure"}
PumpBase == 771
PumpEndpoint == {"Temperature", "Pressure", "Flow"}
RoomAirConditionerBase == 114
RoomAirConditionerEndpoint == {"OnOff", "Thermostat", "FanControl"}
RootNodeBase == 22
RootNodeEndpoint == {"BasicInformation"}
SpeakerBase == 34
SpeakerEndpoint == {"OnOff", "LevelControl"}
TemperatureSensorBase == 770
TemperatureSensorEndpoint == {"Temperature"}
ThermostatBase == 769
ThermostatEndpoint ==
  {"Thermostat", "RelativeHumidity", "Temperature", "OccupancySensing", "FanControl"}
WindowCoveringBase == 514
WindowCoveringEndpoint == {"WindowCovering"}

ClustersOf ==
  [air_quality_sensor |-> AirQualitySensorEndpoint,
   color_temperature_light |-> ColorTemperatureLightEndpoint,
   contact_sensor |-> ContactSensorEndpoint,
   dimmable_light |-> DimmableLightEndpoint, door_lock |-> DoorLockEndpoint,
   extended_color_light |-> ExtendedColorLightEndpoint, fan |-> FanEndpoint,
   flow_sensor |-> FlowSensorEndpoint,
   generic_switch |-> GenericSwitchEndpoint,
   heating_cooling_unit |-> HeatingCoolingUnitEndpoint,
   humidity_sensor |-> HumiditySensorEndpoint,
   light_sensor |-> LightSensorEndpoint,
   occupancy_sensor |-> OccupancySensorEndpoint,
   on_off_light |-> OnOffLightEndpoint,
   on_off_light_switch |-> OnOffLightSwitchEndpoint,
   on_off_plugin_unit |-> OnOffPluginUnitEndpoint,
   pressure_sensor |-> PressureSensorEndpoint, pump |-> PumpEndpoint,
   room_air_conditioner |-> RoomAirConditionerEndpoint,
   root_node |-> RootNodeEndpoint, speaker |-> SpeakerEndpoint,
   temperature_sensor |-> TemperatureSensorEndpoint,
   thermostat |-> ThermostatEndpoint,
   window_covering |-> WindowCoveringEndpoint]

DeviceTypeId ==
  [air_quality_sensor |-> AirQualitySensorBase,
   color_temperature_light |-> ColorTemperatureLightBase,
   contact_sensor |-> ContactSensorBase,
   dimmable_light |-> DimmableLightBase, door_lock |-> DoorLockBase,
   extended_color_light |-> ExtendedColorLightBase, fan |-> FanBase,
   flow_sensor |-> FlowSensorBase, generic_switch |-> GenericSwitchBase,
   heating_cooling_unit |-> HeatingCoolingUnitBase,
   humidity_sensor |-> HumiditySensorBase, light_sensor |-> LightSensorBase,
   occupancy_sensor |-> OccupancySensorBase, on_off_light |-> OnOffLightBase,
   on_off_light_switch |-> OnOffLightSwitchBase,
   on_off_plugin_unit |-> OnOffPluginUnitBase,
   pressure_sensor |-> PressureSensorBase, pump |-> PumpBase,
   room_air_conditioner |-> RoomAirConditionerBase,
   root_node |-> RootNodeBase, speaker |-> SpeakerBase,
   temperature_sensor |-> TemperatureSensorBase,
   thermostat |-> ThermostatBase, window_covering |-> WindowCoveringBase]

EndpointClasses == DOMAIN DeviceTypeId

SUPPORTED_CLUSTERS_PW_RPC ==
  {"AirQuality", "BasicInformation", "BooleanState", "ColorControl", "DoorLock",
   "FanControl", "Flow", "Illuminance", "LevelControl", "OccupancySensing",
   "OnOff", "Pressure", "RelativeHumidity", "Switch", "Temperature",
   "Thermostat", "WindowCovering"}

SUPPORTED_CLUSTERS_CHIP_TOOL ==
  {"BasicInformation", "DoorLock", "Flow", "Illuminance", "LevelControl",
   "OccupancySensing", "OnOff", "Pressure", "RelativeHumidity", "Switch",
   "Temperature", "Thermostat"}

\* The properties of MatterEndpointAliasesMixin, in the order of the class.
AliasesAToH == {"air_quality_sensor", "color_temperature_light", "contact_sensor",
   "dimmable_light", "door_lock", "extended_color_light", "fan",
   "flow_sensor", "heating_cooling_unit", "humidity_sensor"}
AliasesLToP == {"light_sensor", "occupancy_sensor", "on_off_light", "on_off_light_switch",
   "on_off_plugin_unit", "pressure_sensor"}
AliasesPToW == {"pump", "room_air_conditioner", "root_node", "speaker",
   "temperature_sensor", "thermostat", "window_covering"}
Aliases == AliasesAToH \cup AliasesLToP \cup AliasesPToW

-----------------------------------------------------------------------------

VARIABLES
  epVia,      \* "pw_rpc": the device itself; "chip_tool": a controller
  epBoard,    \* node -> sequence of [type, servers], endpoint 1 first
  epNext,     \* node -> the endpoints after an upgrade
  epVersion,  \* node -> number of upgrades
  epNode,     \* matter_node_id
  epPaired,   \* nodes in the fabric of the controller
  epMap,      \* [of, classOf, idOf, clusters]: the four mappings
  epObjects,  \* _endpoints: endpoint id -> object
  epGot,      \* what the last operation returned
  epOld,      \* what happened to the mapping's node since it was fetched
  epUnsure,   \* the fabric and matter_node_id may differ: an answer was lost,
              \* or the controller was factory reset
  epSubs,     \* number of chip-tool processes that report
  epLog,      \* the reports in the log file, by subscription
  epSubNo,    \* subscriptions started
  epOps       \* operations so far

epVars == <<epVia, epBoard, epNext, epVersion, epNode, epPaired, epMap,
            epObjects, epGot, epOld, epUnsure, epSubs, epLog, epSubNo, epOps>>

accessorVars == <<epMap, epObjects, epOld>>
controllerVars == <<epNode, epPaired, epUnsure>>
boardVars == <<epBoard, epNext, epVersion>>
subVars == <<epSubs, epLog, epSubNo>>

NoFunction == [i \in {} |-> 0]
EmptyMap == [of |-> <<NoNode, 0>>, classOf |-> NoFunction,
             idOf |-> NoFunction, clusters |-> NoFunction]
Nothing == [what |-> "nothing"]
Failed(kind) == [what |-> "error", kind |-> kind]

\* MATTER_DEVICE_TYPE_ID_TO_CLASS.get(device_type_id, UnsupportedEndpoint)
ClassOf(type) ==
  IF \E c \in EndpointClasses : DeviceTypeId[c] = type
    THEN CHOOSE c \in EndpointClasses : DeviceTypeId[c] = type
    ELSE "unsupported"

Implemented == IF epVia = "pw_rpc" THEN SUPPORTED_CLUSTERS_PW_RPC
                                   ELSE SUPPORTED_CLUSTERS_CHIP_TOOL

\* PartsList with the root node in front: endpoint ids 0, 1, ...
RootNode == [type |-> RootNodeBase, servers |-> {"BasicInformation", "Descriptor"}]
Parts(n) == <<RootNode>> \o epBoard[n]
Here == <<epNode, IF epNode = NoNode THEN 0 ELSE epVersion[epNode]>>

\* get_endpoint_class_and_device_type_id and get_supported_clusters.
ReadClass(n, id)    == ClassOf(Parts(n)[id + 1].type)
ReadClusters(n, id) == Parts(n)[id + 1].servers \cap Implemented

\* _fetch_endpoints_and_clusters: ids before `upto` are complete; the class
\* of `upto` itself was stored as well when only its clusters failed.
Fetched(n, upto, classToo) ==
  LET ids   == 0 .. (upto - 1)
      known == IF classToo THEN 0 .. upto ELSE ids
      class(c) == {i \in known : ReadClass(n, i) = c}
  IN  [of |-> Here,
       classOf |-> [i \in known |-> ReadClass(n, i)],
       idOf |-> [c \in {ReadClass(n, i) : i \in known} |->
                   CHOOSE i \in class(c) : \A j \in class(c) : i <= j],
       clusters |-> [i \in ids |-> ReadClusters(n, i)]]

\* The mappings after an access to them that succeeds, and that fails at
\* one of the requests.
MapsAfter == IF DOMAIN epMap.classOf # {} THEN {epMap}
             ELSE {Fetched(epNode, Len(Parts(epNode)), FALSE)}
MapsAfterFailure ==
  IF DOMAIN epMap.classOf # {} THEN {}
  ELSE {EmptyMap} \cup {Fetched(epNode, k, b) : k \in 0 .. (Len(Parts(epNode)) - 1),
                                                b \in BOOLEAN}

\* matter_endpoints of a controller needs a commissioned node.
Accessible == epNode # NoNode

Operation == epOps < MaxEndpointOps /\ epOps' = epOps + 1
                                    /\ UNCHANGED <<epVia>>
-----------------------------------------------------------------------------
(* The accessor.                                                           *)

\* get(id) with the mappings m: the object, made on the first access. The
\* clusters of an endpoint whose fetch was cut short are a KeyError.
GetWith(m, id, alias) ==
  LET object == IF id \in DOMAIN epObjects THEN epObjects[id]
                ELSE [class |-> m.classOf[id], clusters |-> m.clusters[id], of |-> m.of]
  IN  IF id \notin DOMAIN m.classOf
        THEN epGot' = Failed("DeviceError") /\ UNCHANGED epObjects
      ELSE IF id \notin DOMAIN epObjects \cup DOMAIN m.clusters
        THEN epGot' = Failed("KeyError") /\ UNCHANGED epObjects
      ELSE /\ epObjects' = [i \in DOMAIN epObjects \cup {id} |->
                              IF i = id THEN object ELSE epObjects[i]]
           /\ epGot' = [what |-> "endpoint", id |-> id, is |-> object, alias |-> alias]

\* An access to the mappings fails: DeviceError, and what was fetched stays.
FetchFails ==
  /\ Operation /\ Accessible
  /\ epMap' \in MapsAfterFailure
  /\ epGot' = Failed("DeviceError")
  /\ UNCHANGED <<boardVars, controllerVars, subVars, epObjects, epOld>>

Get(id) ==
  /\ Operation /\ Accessible
  /\ \E m \in MapsAfter :
       /\ epMap' = m
       /\ GetWith(m, id, "none")
  /\ UNCHANGED <<boardVars, controllerVars, subVars, epOld>>

\* A property of MatterEndpointAliasesMixin: get_endpoint_instance_by_class.
Alias(c) ==
  /\ Operation /\ Accessible /\ c \in Aliases
  /\ \E m \in MapsAfter :
       /\ epMap' = m
       /\ IF c \in DOMAIN m.idOf THEN GetWith(m, m.idOf[c], c)
          ELSE epGot' = Failed("DeviceError") /\ UNCHANGED epObjects
  /\ UNCHANGED <<boardVars, controllerVars, subVars, epOld>>

\* A property of an endpoint object: cluster_lazy_init.
Cluster(id, cluster) ==
  /\ Operation /\ id \in DOMAIN epObjects
  /\ epObjects[id].class # "unsupported"
  /\ cluster \in ClustersOf[epObjects[id].class]
  /\ epGot' = IF cluster \notin epObjects[id].clusters THEN Failed("DeviceError")
              ELSE [what |-> "cluster", id |-> id, cluster |-> cluster, of |-> epObjects[id].of]
  /\ UNCHANGED <<boardVars, controllerVars, subVars, accessorVars>>

Reset ==
  /\ epMap' = EmptyMap /\ epObjects' = NoFunction /\ epOld' = FALSE

ResetEndpoints ==
  /\ Operation /\ Accessible
  /\ Reset
  /\ epGot' = Nothing
  /\ UNCHANGED <<boardVars, controllerVars, subVars>>

-----------------------------------------------------------------------------
(* What changes the node.                                                  *)

\* The mappings, when there are any, are now those of another node.
Outdated == epOld' = (epOld \/ DOMAIN epMap.classOf # {})

Install(n) ==
  /\ epVersion[n] = 0
  /\ epBoard' = [epBoard EXCEPT ![n] = epNext[n]]
  /\ epVersion' = [epVersion EXCEPT ![n] = 1]
  /\ UNCHANGED epNext

\* Mutant: the endpoints are not reset.
SampleAppUpgradeKeeps ==
  /\ Operation /\ epVia = "pw_rpc"
  /\ Install(epNode)
  /\ epGot' = Nothing
  /\ UNCHANGED <<controllerVars, subVars, accessorVars>>

\* MatterSampleAppShell.upgrade: the new app is installed and answers, and
\* the last step is the reset of the endpoints.
SampleAppUpgrade ==
  /\ Operation /\ epVia = "pw_rpc"
  /\ Install(epNode)
  /\ Reset
  /\ epGot' = Nothing
  /\ UNCHANGED <<controllerVars, subVars>>

\* The app is installed but does not answer in time.
SampleAppUpgradeFails ==
  /\ Operation /\ epVia = "pw_rpc"
  /\ Install(epNode)
  /\ Outdated
  /\ epGot' = Failed("DeviceError")
  /\ UNCHANGED <<controllerVars, subVars, epMap, epObjects>>

\* commission(): the node joins the fabric, then the property is set.
Commission(n) ==
  /\ Operation /\ epVia = "chip_tool"
  /\ epPaired' = epPaired \cup {n}
  /\ epNode' = n
  /\ IF epNode = n THEN UNCHANGED epOld ELSE Outdated
  /\ epGot' = Nothing
  /\ UNCHANGED <<boardVars, subVars, epMap, epObjects, epUnsure>>

\* No success message in time; the node may have joined.
CommissionFails(n) ==
  /\ Operation /\ epVia = "chip_tool"
  /\ epPaired' \in {epPaired, epPaired \cup {n}}
  /\ epGot' = Failed("DeviceError")
  /\ UNCHANGED <<boardVars, subVars, accessorVars, epNode, epUnsure>>

Decommission ==
  /\ Operation /\ epVia = "chip_tool" /\ epNode # NoNode
  /\ epPaired' = epPaired \ {epNode}
  /\ epNode' = NoNode
  /\ Outdated
  /\ epGot' = Nothing
  /\ UNCHANGED <<boardVars, subVars, epMap, epObjects, epUnsure>>

DecommissionFails ==
  /\ Operation /\ epVia = "chip_tool" /\ epNode # NoNode
  /\ epPaired' \in {epPaired, epPaired \ {epNode}}
  /\ epUnsure' = (epUnsure \/ epPaired' # epPaired)
  /\ epGot' = Failed("DeviceError")
  /\ UNCHANGED <<boardVars, subVars, accessorVars, epNode>>

\* factory_reset(): the storage of chip-tool and its files in /tmp go.
ControllerFactoryReset ==
  /\ Operation /\ epVia = "chip_tool"
  /\ epPaired' = {}
  /\ epUnsure' = (epUnsure \/ epNode # NoNode)
  /\ epLog' = <<>>
  /\ epGot' = Nothing
  /\ UNCHANGED <<boardVars, accessorVars, epNode, epSubs, epSubNo>>

-----------------------------------------------------------------------------
(* Subscriptions: a chip-tool in the background writes to one log file.    *)

StartSubscription ==
  /\ Operation /\ epVia = "chip_tool" /\ epNode # NoNode
  /\ epSubNo' = epSubNo + 1
  /\ epSubs' = epSubs + 1
  /\ epLog' = <<>>
  /\ epGot' = Nothing
  /\ UNCHANGED <<boardVars, controllerVars, accessorVars>>

Report ==
  /\ epSubs > 0 /\ Len(epLog) < MaxReports
  /\ epLog' = Append(epLog, epSubNo)
  /\ UNCHANGED <<boardVars, controllerVars, accessorVars, epVia, epGot, epSubs, epSubNo, epOps>>

\* kill, grep the reports, remove the file.
StopSubscription ==
  /\ Operation /\ epVia = "chip_tool"
  /\ epSubs' = 0
  /\ epGot' = [what |-> "reports", list |-> epLog]
  /\ epLog' = <<>>
  /\ UNCHANGED <<boardVars, controllerVars, accessorVars, epSubNo>>

\* close() of the capability only kills the processes.
CloseController ==
  /\ Operation /\ epVia = "chip_tool"
  /\ epSubs' = 0
  /\ epGot' = Nothing
  /\ UNCHANGED <<boardVars, controllerVars, accessorVars, epLog, epSubNo>>

-----------------------------------------------------------------------------

EndpointsInit ==
  /\ epVia \in {"pw_rpc", "chip_tool"}
  /\ \E layout \in Layouts, n \in Nodes :
       /\ epBoard = [k \in Nodes |-> IF k = n THEN layout[1] ELSE layout[2]]
       /\ epNext  = [k \in Nodes |-> IF k = n THEN layout[2] ELSE layout[1]]
       /\ epNode \in IF epVia = "pw_rpc" THEN {n} ELSE {n, NoNode}
       /\ epPaired = {epNode} \ {NoNode}
  /\ epVersion = [k \in Nodes |-> 0]
  /\ epMap = EmptyMap /\ epObjects = NoFunction /\ epGot = Nothing
  /\ epOld = FALSE /\ epUnsure = FALSE
  /\ epSubs = 0 /\ epLog = <<>> /\ epSubNo = 0 /\ epOps = 0

EndpointsDone == epOps = MaxEndpointOps /\ UNCHANGED epVars

EndpointsNext ==
  \/ FetchFails \/ ResetEndpoints \/ SampleAppUpgrade \/ SampleAppUpgradeFails
  \/ Decommission \/ DecommissionFails \/ ControllerFactoryReset
  \/ StartSubscription \/ Report \/ StopSubscription \/ CloseController
  \/ EndpointsDone
  \/ \E n \in Nodes : Commission(n) \/ CommissionFails(n)
  \/ \E id \in 0..3 : Get(id)
  \/ \E c \in {ReadClass(n, i) : n \in Nodes, i \in 0..1} : Alias(c)
  \/ \E id \in DOMAIN epObjects : \E c \in SUPPORTED_CLUSTERS_PW_RPC : Cluster(id, c)

EndpointsSpec == EndpointsInit /\ [][EndpointsNext]_epVars

-----------------------------------------------------------------------------
(* Properties.                                                             *)

\* The mappings and the objects keep their types.
EndpointsTypeOK ==
  /\ epNode \in Nodes \cup {NoNode} /\ epPaired \subseteq Nodes
  /\ DOMAIN epMap.clusters \subseteq DOMAIN epMap.classOf
  /\ \A c \in DOMAIN epMap.idOf : epMap.idOf[c] \in DOMAIN epMap.classOf
  /\ epSubs <= epSubNo

\* An alias returns the first endpoint of its device type that the node has,
\* made from the node's present firmware: also when an earlier fetch was cut
\* short or the endpoints were reset. The exceptions are a node commissioned
\* instead of another and an upgrade that failed at its last step: neither
\* resets the mappings.
AliasFitsNode ==
  epGot.what = "endpoint" /\ epGot.alias # "none" /\ ~epOld =>
    LET ids == {i \in 0 .. (Len(Parts(epNode)) - 1) : Parts(epNode)[i + 1].type = DeviceTypeId[epGot.alias]}
    IN  /\ epGot.id \in ids /\ \A i \in ids : epGot.id <= i
        /\ epGot.is.class = epGot.alias /\ epGot.is.of = Here

\* A cluster object is one the endpoint serves and this flavor implements.
ClusterFitsEndpoint ==
  epGot.what = "cluster" /\ ~epOld =>
    /\ epGot.cluster \in Parts(epNode)[epGot.id + 1].servers
    /\ epGot.cluster \in Implemented
    /\ epGot.of = Here

\* An upgrade that returns, and reset(), leave no mapping of the old node:
\* the mappings are of the node and firmware there is, or epOld says why.
MappingIsOfNode ==
  DOMAIN epMap.classOf # {} /\ epMap.of # Here => epOld

\* matter_node_id names a node of the controller's fabric, unless an answer
\* to decommission() was lost or the controller was factory reset.
NodeIsPaired == epVia = "chip_tool" /\ epNode # NoNode /\ ~epUnsure => epNode \in epPaired

\* stop_subscription returns reports of the subscription started last, none
\* that an earlier one left in the file.
ReportsAreFresh ==
  epGot.what = "reports" => \A i \in DOMAIN epGot.list : epGot.list[i] = epSubNo

\* Aliases, endpoint and cluster objects, the node id and the reports are those
\* of the node there is now.
EndpointsAreTheNodes ==
  /\ EndpointsTypeOK
  /\ AliasFitsNode
  /\ ClusterFitsEndpoint
  /\ MappingIsOfNode
  /\ NodeIsPaired
  /\ ReportsAreFresh
=============================================================================
