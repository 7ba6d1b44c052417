--------------------------- MODULE DeviceDetector ---------------------------
(***************************************************************************)
(* Detection of devices (device_detector.py, detect_criteria/,             *)
(* get_comms_addresses() of switchboard/communication_types/) by a process *)
(* that has registered some packages.  Each communication type lists its   *)
(* connections; every new connection is asked the queries of its type and  *)
(* compared with the criteria of the device classes; a device object is    *)
(* created for each match and asked for its serial number, which names it. *)
(* A board need not answer: a query, a listing or the set-up may fail.     *)
(***************************************************************************)
EXTENDS PackageRegistrar

CONSTANTS
    Board,          \* board |-> what it is, where it is, and what it answers
    Bench,          \* sets of boards that may be attached together
    BoardOrder,     \* the boards, by address
    CommOrder,      \* the names of the communication types, sorted
    Criteria,       \* device class |-> DETECT_MATCH_CRITERIA
    TypeFilter,     \* values of detect()'s communication_types
    Flaky,          \* bound: the benches on which calls fail
    MaxGlitches     \* bound: calls that fail

ASSUME BoardsKnown ==
    /\ Range(BoardOrder) = DOMAIN Board
    /\ Bench \subseteq SUBSET DOMAIN Board /\ Flaky \subseteq Bench
    /\ {Comm[c].name : c \in DOMAIN Comm} \subseteq Range(CommOrder)
    /\ DOMAIN Criteria = DOMAIN Device
    \* two boards that are attached together have two addresses and serials
    /\ \A S \in Bench : \A a, b \in S :
         (Board[a].address = Board[b].address \/ Board[a].serial = Board[b].serial) => a = b

VARIABLES
    conf,    \* devices.json: name |-> entry
    det,     \* the detection in progress, or the end of the last one
    seen     \* [unanswered, ambiguous, freed, glitches]: history

dvars == <<conf, det, seen>>
allvars == <<ext, names, reg, cli, todo, parent, odd, count, conf, det, seen>>

-----------------------------------------------------------------------------
(* What the classes of gazoo_device_controllers accept.  A criterion is    *)
(* the set of answers that match it; an answer is a string, also where the *)
(* query returns a bool.                                                   *)

Yes == {"True"}
No  == {"False"}
Silabs == {"silicon labs"}
\* r"(silicon(_| )labs|1a86|)" matches any text: "CH9102F model has an empty
\* string for MANUFACTURER_NAME".
AnyText == {"", "error", "silicon labs", "1a86", "segger", "ftdi", "other"}
Esp32Products == {"cp2104", "usb single serial"}

CambrionixCriteria == [PRODUCT_NAME |-> {"ft230x basic uart", "ps15-usb3", "supersync15"}]
M5StickCriteria    == [ADDRESS |-> {"by-id"}, PRODUCT_NAME |-> {"m5stack"}]
Esp32Criteria      == [IS_MATTER |-> No, MANUFACTURER_NAME |-> AnyText,
                       PRODUCT_NAME |-> Esp32Products]
Esp32MatterCriteria == [IS_MATTER |-> Yes, MANUFACTURER_NAME |-> AnyText,
                        PRODUCT_NAME |-> Esp32Products]
Efr32Criteria      == [IS_MATTER |-> No, MANUFACTURER_NAME |-> Silabs,
                       PRODUCT_NAME |-> {"j-link"}]
Efr32MatterCriteria == [IS_MATTER |-> Yes, MANUFACTURER_NAME |-> Silabs,
                        PRODUCT_NAME |-> {"j-link"}]
\* Mutant: the query for OpenThread firmware is left out.
Nrf52840AnyFirmware == [IS_MATTER |-> No, MANUFACTURER_NAME |-> {"segger"},
                        PRODUCT_NAME |-> {"j-link"}]

Nrf52840Criteria   == [IS_MATTER |-> No, MANUFACTURER_NAME |-> {"segger"},
                       PRODUCT_NAME |-> {"j-link"}, IS_NRF_OPENTHREAD |-> No]
NrfMatterCriteria  == [IS_MATTER |-> Yes, MANUFACTURER_NAME |-> {"segger"},
                       PRODUCT_NAME |-> {"j-link"}]
NrfOpenThreadCriteria == [IS_NRF_OPENTHREAD |-> Yes, PRODUCT_NAME |-> {"j-link"}]
RaspberryPiCriteria == [IS_RASPBIAN_RPI |-> Yes, IS_CHIP_TOOL_PRESENT |-> No,
                        IS_MATTER_LINUX_APP_RUNNING |-> No]
RpiMatterControllerCriteria == [IS_UBUNTU_RPI |-> Yes, IS_CHIP_TOOL_PRESENT |-> Yes]
RpiMatterCriteria  == [IS_UBUNTU_RPI |-> Yes, IS_MATTER_LINUX_APP_RUNNING |-> Yes]
UnifiCriteria      == [IS_UNIFI |-> Yes]
DliCriteria        == [IS_DLI |-> Yes]
DlinkCriteria      == [IS_DLINK |-> Yes]
ChipToolCriteria   == [IS_CHIP_TOOL_PRESENT |-> Yes]
Dc2200Criteria     == [VENDOR_PRODUCT_ID |-> {"1313:80c8"}, PRODUCT_NAME |-> {"dc2200"}]
YepkitCriteria     == [ALWAYS_TRUE |-> Yes]

\* The queries of the communication types.
SerialQueries  == {"ADDRESS", "IS_NRF_OPENTHREAD", "PRODUCT_NAME", "SERIAL_NUMBER",
                   "VENDOR_PRODUCT_ID"}
PigweedQueries == {"IS_MATTER", "IS_NRF_OPENTHREAD", "PRODUCT_NAME", "MANUFACTURER_NAME"}
SshQueries     == {"IS_DLI", "IS_RASPBIAN_RPI", "IS_UBUNTU_RPI", "IS_UNIFI",
                   "IS_CHIP_TOOL_PRESENT", "IS_MATTER_LINUX_APP_RUNNING"}
UsbQueries     == {"PRODUCT_NAME", "SERIAL_NUMBER", "VENDOR_PRODUCT_ID"}
SnmpQueries    == {"IS_DLINK"}
HostShellQueries == {"IS_CHIP_TOOL_PRESENT"}
GenericQueries == {"ALWAYS_TRUE"}
BuiltInCriteria ==
    ("HostShellComms" :> HostShellQueries) @@ ("JlinkSerialComms" :> SerialQueries) @@
    ("PigweedSerialComms" :> PigweedQueries) @@ ("PigweedSocketComms" :> SshQueries) @@
    ("SerialComms" :> SerialQueries) @@ ("SnmpComms" :> SnmpQueries) @@
    ("SshComms" :> SshQueries) @@ ("UsbComms" :> UsbQueries) @@
    ("YepkitComms" :> GenericQueries)

-----------------------------------------------------------------------------
(* The queries: the answers board b may give, up or not answering.         *)

Bool(p) == IF p THEN Yes ELSE No
Runs(b, what) == what \in Board[b].runs

\* An exception of a query is answered with its text.
Failed == {"error"}

\* A board that is gone has an empty UsbInfo.
GetDeviceInfo(b, up) ==
    IF up THEN [product |-> Board[b].product, maker |-> Board[b].maker, id |-> Board[b].id]
          ELSE [product |-> "", maker |-> "", id |-> ":"]
UsbProductName(b, up)   == {GetDeviceInfo(b, up).product}
ManufacturerName(b, up) == {GetDeviceInfo(b, up).maker}
VendorProductId(b, up)  == {GetDeviceInfo(b, up).id}
SerialNumber(b, up)     == {IF up THEN Board[b].serial ELSE ""}
CommunicationAddress(b) == {Board[b].path}

\* Two RPCs are tried; no answer means the board is not a Matter device.
IsMatter(b, up) == IF up THEN Bool(Runs(b, "matter")) ELSE No \cup Failed

IsNrfBoard(b) == Board[b].path = "SEGGER_J-Link"
IsNrfOpenThread(b, up) ==
    CASE ~IsNrfBoard(b) -> No
      [] IsNrfBoard(b) /\ up -> Bool(Runs(b, "openthread"))
      [] OTHER -> No \cup Failed

\* ssh_command() raises RuntimeError without an answer: the query is false.
IsDli(b, up)          == Bool(up /\ Runs(b, "dli"))
IsRaspbianRpi(b, up)  == Bool(up /\ Runs(b, "raspbian"))
IsUbuntuRpi(b, up)    == Bool(up /\ Runs(b, "ubuntu"))
IsUnifi(b, up)        == Bool(up /\ Runs(b, "unifi"))
\* Both are asked as user "ubuntu".
IsChipToolOnRpi(b, up) == Bool(up /\ Runs(b, "ubuntu") /\ Runs(b, "chip-tool"))
IsMatterApp(b, up)     == Bool(up /\ Runs(b, "ubuntu") /\ Runs(b, "matter-app"))
\* A timeout is not caught in the query.
IsDlink(b, up)         == IF up THEN Bool(Runs(b, "dlink")) ELSE No \cup Failed
IsChipToolOnHost(b)    == Bool(Runs(b, "chip-tool"))
AlwaysTrue             == Yes
\* The query of a package: what the board has under its name.
ExtensionQuery(b, q, up) == IF up THEN Bool(Runs(b, q)) ELSE No \cup Failed

Answers(t, b, q, up) ==
    CASE q = "ADDRESS" -> CommunicationAddress(b)
      [] q = "IS_MATTER" -> IsMatter(b, up)
      [] q = "IS_NRF_OPENTHREAD" -> IsNrfOpenThread(b, up)
      [] q = "PRODUCT_NAME" -> UsbProductName(b, up)
      [] q = "MANUFACTURER_NAME" -> ManufacturerName(b, up)
      [] q = "SERIAL_NUMBER" -> SerialNumber(b, up)
      [] q = "VENDOR_PRODUCT_ID" -> VendorProductId(b, up)
      [] q = "IS_DLI" -> IsDli(b, up)
      [] q = "IS_RASPBIAN_RPI" -> IsRaspbianRpi(b, up)
      [] q = "IS_UBUNTU_RPI" -> IsUbuntuRpi(b, up)
      [] q = "IS_UNIFI" -> IsUnifi(b, up)
      [] q = "IS_CHIP_TOOL_PRESENT" /\ t # "HostShellComms" -> IsChipToolOnRpi(b, up)
      [] q = "IS_CHIP_TOOL_PRESENT" /\ t = "HostShellComms" -> IsChipToolOnHost(b)
      [] q = "IS_MATTER_LINUX_APP_RUNNING" -> IsMatterApp(b, up)
      [] q = "IS_DLINK" -> IsDlink(b, up)
      [] q = "ALWAYS_TRUE" -> AlwaysTrue
      [] OTHER -> ExtensionQuery(b, q, up)

-----------------------------------------------------------------------------
(* get_comms_addresses() of the communication types, over the boards S.    *)

Usb(S) == {b \in S : Board[b].link = "usb"}
\* os.access() and ANDROID_NAMES.
GetSpecificSerialAddresses(S) ==
    {b \in S : Board[b].access /\ Board[b].product \notin {"android", "pixel"}}
SerialAddresses(S) ==
    GetSpecificSerialAddresses({b \in Usb(S) : Board[b].product # "j-link"})
PigweedSerialAddresses(S) ==
    GetSpecificSerialAddresses(
        {b \in Usb(S) : /\ Board[b].product \in {"j-link", "cp2104", "usb single serial"}
                        /\ Board[b].path \in {"SEGGER_J-Link", "Silicon_Labs_J-Link",
                                              "Silicon_Labs_CP2104", "1a86"}})
JlinkSerialAddresses(S) ==
    GetSpecificSerialAddresses(
        {b \in Usb(S) : Board[b].product = "j-link" /\ Board[b].path = "SEGGER_J-Link"})
SshAddresses(S)    == {b \in S : Board[b].link = "ip" /\ "ssh" \in Board[b].runs}
SnmpAddresses(S)   == {b \in S : Board[b].link = "ip" /\ "snmp" \in Board[b].runs}
\* Every USB device with a serial number, by its serial number.
UsbAddresses(S)    == {b \in S : Board[b].link \in {"usb", "usbserial"}}
YepkitAddresses(S) == {b \in S : Board[b].link = "yepkit"}
HostAddresses(S)   == {b \in S : Board[b].link = "host"}

GetCommsAddresses(t, S) ==
    CASE t = "SerialComms" -> SerialAddresses(S)
      [] t = "PigweedSerialComms" -> PigweedSerialAddresses(S)
      [] t = "JlinkSerialComms" -> JlinkSerialAddresses(S)
      [] t \in {"SshComms", "PigweedSocketComms"} -> SshAddresses(S)
      [] t = "SnmpComms" -> SnmpAddresses(S)
      [] t = "UsbComms" -> UsbAddresses(S)
      [] t = "YepkitComms" -> YepkitAddresses(S)
      [] t = "HostShellComms" -> HostAddresses(S)
      [] OTHER -> {b \in S : Board[b].link = t}

Address(t, b) == IF t = "UsbComms" THEN Board[b].serial ELSE Board[b].address

-----------------------------------------------------------------------------
(* Detection.                                                              *)

\* _create_known_connections(): the addresses of the configuration.
KnownConnections == {conf[n].address : n \in DOMAIN conf}

\* _identify_connection_device_class() goes by type, then by address.
InOrder(found) ==
    LET byType(t) == SelectSeq(BoardOrder, LAMBDA b : b \in found[t])
        after[k \in 0..Len(CommOrder)] ==
          IF k = 0 THEN <<>>
          ELSE LET t == CommOrder[k]
               IN  after[k - 1] \o (IF t \in DOMAIN found
                                      THEN [j \in DOMAIN byType(t) |-> <<t, byType(t)[j]>>]
                                      ELSE <<>>)
    IN  after[Len(CommOrder)]

Resting(end, asked, here) ==
    [pc |-> "idle", here |-> here, todo |-> <<>>, matches |-> <<>>, conf |-> conf, told |-> {},
     end |-> end, asked |-> asked, sure |-> FALSE, types |-> {}]

DetAt(pc) == det.pc = pc

\* A Python user, or a gdm process that has its command to obey.
Ready == /\ Idle /\ todo = <<>> /\ DetAt("idle")
         /\ (parent.kind = "none" \/ Commanded)

\* The detector works on copies of the configuration.
Detect(S, types) ==
    /\ Ready /\ count.steps < MaxSteps
    /\ count' = [count EXCEPT !.steps = @ + 1]
    /\ det' = [pc |-> "connect", here |-> S, todo |-> <<>>, matches |-> <<>>, conf |-> conf,
               told |-> {}, end |-> "none", asked |-> {}, sure |-> TRUE,
               types |-> types]
    /\ UNCHANGED <<ext, names, reg, cli, todo, parent, odd, conf, seen>>

\* A call that may fail: `ok`, or else one glitch more.
Fine(ok)  == ok \/ (seen.glitches < MaxGlitches /\ det.here \in Flaky)
Glitch(ok, b) == [seen EXCEPT !.glitches = IF ok THEN @ ELSE @ + 1,
                              !.unanswered = IF ok THEN @ ELSE @ \cup b]

\* detect_connections() and _filter_out_known_connections(): a type whose
\* listing raises is skipped.
Connections(types, S, broken) ==
    [t \in DOMAIN ext.comms |->
        IF t \in types \ broken
          THEN {b \in GetCommsAddresses(t, S) : Address(t, b) \notin KnownConnections}
          ELSE {}]

DetectConnections ==
    /\ DetAt("connect")
    /\ \E silent \in {{}} \cup {{b} : b \in det.here} :
       \E broken \in {{}} \cup {{t} : t \in {k \in det.types \cap DOMAIN ext.comms :
                                            GetCommsAddresses(k, det.here) # {}}} :
          LET ok   == silent = {} /\ broken = {}
              list == InOrder(Connections(det.types, det.here \ silent, broken))
          IN  /\ Fine(ok) /\ (silent = {} \/ broken = {})
              /\ seen' = Glitch(ok, silent)
              /\ det' = [det EXCEPT !.pc = "identify", !.todo = list, !.asked = Range(list),
                                    !.sure = ok]
    /\ UNCHANGED conf

\* _get_communication_type_classes(): auxiliary ones first, then primary,
\* then virtual ones; the order within a list is that of a set.
ClassesOf(t, table) == {d \in table : Comm[Device[d].comm].name = t}

\* _matches_criteria(), _find_matching_device_class().
Matches(d, responses) ==
    /\ DOMAIN Criteria[d] \subseteq DOMAIN responses
    /\ \A q \in DOMAIN Criteria[d] : responses[q] \in Criteria[d][q]
MatchingClasses(t, responses, table) == {d \in ClassesOf(t, table) : Matches(d, responses)}
FirstClasses(t, responses) ==
    LET aux  == MatchingClasses(t, responses, ext.auxiliary)
        prim == MatchingClasses(t, responses, ext.primary)
    IN  IF aux # {} THEN aux
        ELSE IF prim # {} THEN prim
        ELSE MatchingClasses(t, responses, ext.virtual)

\* _get_detect_query_response(): at most one query, of the set bad, is not
\* answered as the board would.
AnswersUp(t, b) == [q \in ext.criteria[t] |-> CHOOSE a \in Answers(t, b, q, TRUE) : TRUE]
QueryResponses(t, b, bad) ==
    IF bad = {} THEN {AnswersUp(t, b)}
    ELSE UNION {{[AnswersUp(t, b) EXCEPT ![q] = a] : a \in Answers(t, b, q, FALSE)} : q \in bad}

\* The class of the next connection.
Identify ==
    /\ DetAt("identify") /\ det.todo # <<>>
    /\ Head(det.todo)[1] \in DOMAIN ext.criteria
    /\ LET t == Head(det.todo)[1]
           b == Head(det.todo)[2]
       IN  \E bad \in {{}} \cup {{q} : q \in ext.criteria[t]} :
           \E r \in QueryResponses(t, b, bad) :
             LET all   == MatchingClasses(t, r, Devices(ext))
                 first == FirstClasses(t, r)
                 rest  == [det EXCEPT !.todo = Tail(@), !.sure = @ /\ bad = {}]
             IN  /\ Fine(bad = {})
                 /\ seen' = [Glitch(bad = {}, {b}) EXCEPT
                               !.ambiguous = IF Cardinality(all) > 1 THEN @ \cup {b} ELSE @]
                 /\ IF first = {} THEN det' = rest
                    ELSE \E d \in first : det' = [rest EXCEPT !.matches = Append(@, <<d, t, b>>)]
    /\ UNCHANGED conf

\* `extensions.detect_criteria[communication_type]` raises KeyError for a type
\* nobody registered criteria for: the whole detection ends.
KeyError ==
    /\ DetAt("identify") /\ det.todo # <<>>
    /\ Head(det.todo)[1] \notin DOMAIN ext.criteria
    /\ det' = Resting("KeyError", det.asked, det.here)
    /\ UNCHANGED <<conf, seen>>

Identified ==
    /\ DetAt("identify") /\ det.todo = <<>>
    /\ det' = [det EXCEPT !.pc = "info"]
    /\ UNCHANGED <<conf, seen>>

\* Mutant: names are always short.
GenerateNameShort(d, b) == <<Device[d].type, Board[b].last4>>

\* _generate_name(): four characters of the serial number, or eight if another
\* device has that name.
GenerateName(d, b) ==
    LET name == <<Device[d].type, Board[b].last4>>
    IN  IF name \in DOMAIN det.conf /\ Board[b].serial # det.conf[name].serial
          THEN <<Device[d].type, Board[b].last8>> ELSE name

Entry(d, t, b) == [class |-> d, board |-> b, address |-> Address(t, b),
                   serial |-> Board[b].serial]

\* _add_to_configs(): a name that is taken raises DetectionOvewriteConfigError.
AddToConfigs(c, name, entry) == IF name \in DOMAIN c THEN c ELSE c @@ (name :> entry)

\* _detect_get_info() for the next match: make_device_ready() and
\* get_detection_info() may raise; the name is reported before it is added.
GetInfo ==
    /\ DetAt("info") /\ det.matches # <<>>
    /\ LET d == Head(det.matches)[1]
           t == Head(det.matches)[2]
           b == Head(det.matches)[3]
           name == GenerateName(d, b)
       IN  \E ok \in BOOLEAN :
             /\ Fine(ok)
             /\ seen' = Glitch(ok, {b})
             /\ det' = IF ok /\ Board[b].last4 # "short"
                         THEN [det EXCEPT !.matches = Tail(@), !.told = @ \cup {name},
                                          !.conf = AddToConfigs(@, name, Entry(d, t, b))]
                         ELSE [det EXCEPT !.matches = Tail(@), !.sure = @ /\ ok]
    /\ UNCHANGED conf

\* Manager.detect() saves the configuration.
Save ==
    /\ DetAt("info") /\ det.matches = <<>>
    /\ conf' = det.conf
    /\ det' = [det EXCEPT !.pc = "idle", !.end = "saved", !.conf = conf]
    /\ UNCHANGED seen

\* Manager.delete().
Delete(n) ==
    /\ Ready /\ det.end # "deleted"
    /\ conf' = [k \in DOMAIN conf \ {n} |-> conf[k]]
    /\ det' = Resting("deleted", {}, {})
    /\ seen' = [seen EXCEPT !.freed = @ \cup {n}]

DInit ==
    /\ Init
    /\ conf = Empty
    /\ det = Resting("none", {}, {})
    /\ seen = [unanswered |-> {}, ambiguous |-> {}, freed |-> {}, glitches |-> 0]

Detecting ==
    \/ DetectConnections \/ Identify \/ KeyError \/ Identified \/ GetInfo \/ Save
    \/ \E n \in DOMAIN conf : Delete(n)

\* Bound: new processes start before the first detection.
DNext ==
    \/ Detecting /\ UNCHANGED vars
    \/ \E S \in Bench : \E T \in TypeFilter : Detect(S, T)
    \/ DetAt("idle") /\ Registering /\ UNCHANGED dvars
    \/ det.end = "none" /\ DetAt("idle") /\ (SpawnWorker \/ StartCli) /\ UNCHANGED dvars

DSpec == DInit /\ [][DNext]_allvars

-----------------------------------------------------------------------------
(* Properties.                                                             *)

DTypeOK ==
    /\ TypeOK
    /\ \A n \in DOMAIN conf : /\ conf[n].class \in DOMAIN Device
                              /\ conf[n].board \in DOMAIN Board
    /\ det.pc \in {"idle", "connect", "identify", "info"}
    /\ det.end \in {"none", "saved", "KeyError", "deleted"}
    /\ \A c \in Range(det.todo) : c[1] \in DOMAIN ext.comms /\ c[2] \in DOMAIN Board
    /\ seen.glitches \in 0..MaxGlitches

Excused(b) == b \in seen.unanswered \cup seen.ambiguous

\* A device of the configuration is what its class says, as long as it
\* answered every query of every detection and one class matched: the
\* criteria of the built-in classes tell the boards apart.
EntriesAreRight ==
    \A n \in DOMAIN conf :
        conf[n].class \in Board[conf[n].board].is \/ Excused(conf[n].board)

\* A device that comes back at another address is not added a second time:
\* its name is taken.  Only after the deletion of the other device that had
\* its short name is it given a second name.
OneNamePerSerial ==
    \A n, m \in DOMAIN conf :
        conf[n].serial = conf[m].serial /\ conf[n].class = conf[m].class =>
            n = m \/ {n, m} \cap seen.freed # {}

\* Board b is in the configuration as class c, or cannot be added as one.
Found(b, c) ==
    \/ \E n \in DOMAIN conf : conf[n].serial = Board[b].serial /\ conf[n].class = c
    \/ Address(Comm[Device[c].comm].name, b)
         \in {det.conf[n].address : n \in DOMAIN det.conf}
    \/ {<<Device[c].type, Board[b].last4>>, <<Device[c].type, Board[b].last8>>}
         \subseteq DOMAIN conf
    \/ Board[b].last4 = "short" \/ ~Board[b].access \/ b \in seen.ambiguous

\* A detection in which everything was answered finds every supported board
\* it listed, unless its address is already in the configuration, or both its
\* names are another device's.
DetectionIsComplete ==
    [][Save /\ det.sure =>
         \A b \in det.here : \A c \in Board[b].is \cap Devices(ext) :
            Comm[Device[c].comm].name \in det.types => Found(b, c)']_allvars

\* A detection, whatever fails in it, keeps the devices it did not find, and
\* names in its summary each device it adds.
DetectionOnlyAdds ==
    [][Detecting => \/ \E n \in DOMAIN conf : Delete(n)
                    \/ /\ \A n \in DOMAIN conf : n \in DOMAIN conf' /\ conf'[n] = conf[n]
                       /\ DOMAIN conf' \ DOMAIN conf \subseteq det.told]_allvars

\* The tables of extensions.py fit together after any packages in any order:
\* names are unique, a capability is one kind of object, and what a device
\* class needs is there.
TablesCoherent ==
  /\ DTypeOK
  /\ DeviceTypesUnique
  /\ NamesDistinct
  /\ CapabilitiesCoherent
  /\ DevicesComplete

\* The configuration names each board once, and as what it is.
ConfigurationIsRight == EntriesAreRight /\ OneNamePerSerial

\* A detection adds the boards that it found, all of them, and takes nothing
\* away.
DetectionIsFaithful == DetectionIsComplete /\ DetectionOnlyAdds
=============================================================================
