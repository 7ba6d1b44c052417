--------------------------- MODULE MCCapabilities ---------------------------
(***************************************************************************)
(* The capabilities of devices and the transports below them in one run.   *)
(* They share no state with one another, so a behaviour moves one of them; *)
(* the others rest in one of their initial states.                         *)
(***************************************************************************)
EXTENDS MatterCluster, MatterEndpoints, Wpan, PowerHubs, EventParser, AdbDevice, Transports

VARIABLE part   \* the component that moves

MovingParts == {"cluster", "endpoints", "wpan", "hubs", "parser", "adb", "transports"}

-----------------------------------------------------------------------------
(* Instances.                                                              *)

\* Two firmwares of a node: endpoints of one type twice, another type, and one of no class.
After(c) == LET later == {d \in EndpointClasses : DeviceTypeId[d] > DeviceTypeId[c]}
            IN  IF later = {} THEN "root_node"
                ELSE CHOOSE d \in later : \A e \in later : DeviceTypeId[d] <= DeviceTypeId[e]
EveryOther == {c \in EndpointClasses :
                 Cardinality({d \in EndpointClasses : DeviceTypeId[d] < DeviceTypeId[c]}) % 2 = 0}
Ep(c, drop) == [type |-> DeviceTypeId[c], servers |-> (ClustersOf[c] \cup {"Groups"}) \ drop]
MCLayouts == {<< <<Ep(c, {}), Ep(After(c), {}), Ep(c, {"OnOff"})>>,
                 <<[type |-> 9999, servers |-> {"OnOff"}], Ep(c, {"OnOff"})>> >> : c \in EveryOther}

\* Log lines, one whose text names a label besides those of its filters.
K(matched, text) == [has |-> matched, says |-> text]
MCKinds == {K({"trigger"}, {}), K({"boot", "x.a"}, {}), K({"boot"}, {"trigger"})}
F(n, b) == [name |-> n, ok |-> b]
MCFile(l, fs) == [json |-> TRUE, loads |-> l, filters |-> fs]
\* A good file, one that is refused half way, one that then finds a name taken, a bad one.
MCFiles == {MCFile(TRUE, <<F("x.a", TRUE), F("x.b", TRUE)>>),
            MCFile(TRUE, <<F("y.a", TRUE), F("y.b", FALSE)>>),
            MCFile(TRUE, <<F("y.a", TRUE), F("y.b", TRUE)>>),
            MCFile(FALSE, <<>>)}
MCPaths == LET basic == MCFile(TRUE, <<F("trigger", TRUE), F("boot", TRUE)>>)
               readme == [json |-> FALSE, loads |-> FALSE, filters |-> <<>>]
           IN  {<<[is |-> "directory", files |-> <<readme, basic>>]>>,
                <<[is |-> "file", files |-> <<basic>>], [is |-> "missing", files |-> <<>>]>>}
MCGroups == [l \in {"trigger", "boot", "x.a"} |-> IF l = "boot" THEN 1 ELSE 0]
MCLists == {<<"trigger">>, <<"boot", "trigger">>, <<"trigger", "trigger">>, <<"x.a">>}
MCWaits == {<<>>, <<"boot", "trigger">>, <<"trigger", "trigger">>}
\* Old logs of up to five characters: "c" is what the filter "trigger" matches.
MCTexts == UNION {[1..n -> {"c", "x", "n"}] : n \in 1..5}

-----------------------------------------------------------------------------
(* At rest.                                                                *)

ClusterRests ==
  /\ mcCall = [class |-> "OnOff", via |-> "pw_rpc", method |-> <<"get", "onoff">>, arg |-> 1, verify |-> TRUE]
  /\ mcSteps = <<>> /\ mcAttr = <<>> /\ mcStart = <<>> /\ mcOthers = <<>> /\ mcTries = 1
  /\ mcReg = 0 /\ mcResent = FALSE /\ mcRaced = FALSE /\ mcOut = "running"
EndpointsRest ==
  /\ epVia = "pw_rpc" /\ epBoard = [n \in Nodes |-> <<>>] /\ epNext = epBoard
  /\ epNode \in Nodes /\ epNode = CHOOSE n \in Nodes : TRUE
  /\ epPaired = {epNode} /\ epVersion = [n \in Nodes |-> 0]
  /\ epMap = EmptyMap /\ epObjects = NoFunction /\ epGot = Nothing /\ epOld = FALSE
  /\ epUnsure = FALSE /\ epSubs = 0 /\ epLog = <<>> /\ epSubNo = 0 /\ epOps = 0
WpanRests == WpanInit /\ ncp = FactoryNew
HubsRest == HubsInit /\ hub.kind = "yepkit"
AdbRests ==
  AdbInit /\ dev.mode = "device" /\ dev.verity = "on" /\ dev.apks = {} /\ ~alog.ip
TransportRests == TransportsInit /\ tkind = "serial" /\ tlog.auto

MCInit ==
  /\ part \in MovingParts
  /\ IF part = "endpoints" THEN EndpointsInit ELSE EndpointsRest
  /\ IF part = "wpan" THEN WpanInit ELSE WpanRests
  /\ IF part = "hubs" THEN HubsInit ELSE HubsRest
  /\ IF part = "adb" THEN AdbInit ELSE AdbRests
  /\ IF part = "transports" THEN TransportsInit ELSE TransportRests
  /\ IF part = "cluster" THEN ClusterInit ELSE ClusterRests
  /\ ParserInit /\ (part = "parser" \/ ~oldLog)

MCVars == <<part, mcVars, epVars, wpVars, hubVars, epsVars, adbVars, trVars>>

MCNext ==
  /\ UNCHANGED part
  /\ \/ part = "cluster" /\ ClusterNext
        /\ UNCHANGED <<epVars, wpVars, hubVars, epsVars, adbVars, trVars>>
     \/ part = "endpoints" /\ EndpointsNext
        /\ UNCHANGED <<mcVars, wpVars, hubVars, epsVars, adbVars, trVars>>
     \/ part = "wpan" /\ WpanNext
        /\ UNCHANGED <<mcVars, epVars, hubVars, epsVars, adbVars, trVars>>
     \/ part = "hubs" /\ HubsNext
        /\ UNCHANGED <<mcVars, epVars, wpVars, epsVars, adbVars, trVars>>
     \/ part = "parser" /\ ParserNext
        /\ UNCHANGED <<mcVars, epVars, wpVars, hubVars, adbVars, trVars>>
     \/ part = "adb" /\ AdbNext
        /\ UNCHANGED <<mcVars, epVars, wpVars, hubVars, epsVars, trVars>>
     \/ part = "transports" /\ TransportsNext
        /\ UNCHANGED <<mcVars, epVars, wpVars, hubVars, epsVars, adbVars>>

MCSpec == MCInit /\ [][MCNext]_MCVars
=============================================================================
