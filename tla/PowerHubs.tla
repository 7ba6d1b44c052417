------------------------------ MODULE PowerHubs ------------------------------
(***************************************************************************)
(* switch_power of the hubs and usb_hub above it: Cambrionix (a serial     *)
(* line that processes share), Yepkit (a command line program), the UniFi  *)
(* PoE switch (nested telnet sessions typed into one shell), the D-Link    *)
(* switch (SNMP) and the DLI power switch (HTTP). A call is the sequence   *)
(* of steps that its method takes; the hub may refuse a request, or leave  *)
(* it unanswered having obeyed or not.                                     *)
(***************************************************************************)
EXTENDS Integers, Sequences, FiniteSets, SequencesExt

CONSTANTS
  HubPorts,       \* the ports of the hub
  MaxHubCalls,    \* calls in a behaviour
  MaxMeddling     \* times that somebody else switches a port

ASSUME HubsAssumption ==
  HubPorts \in Nat \ {0, 1} /\ MaxHubCalls \in Nat /\ MaxMeddling \in Nat

VARIABLES
  hub,       \* [kind, mode]: the hub and the mode of each port
  term,      \* the shell of the UniFi switch: [queue, cap, level, sel]
  line,      \* the serial line of the Cambrionix: "free", "ours" or "theirs"
  entered,   \* ports in the ENTER_CMD list of ENTER_TELNET_PORT_CONFIG
  hcall,     \* the call in progress
  hlog       \* what happened, for the properties

hubVars == <<hub, term, line, entered, hcall, hlog>>

HubKinds == {"cambrionix", "yepkit", "unifi", "dlink", "dli"}
Ports(kind) == IF kind = "dli" THEN 0..(HubPorts - 1) ELSE 1..HubPorts
SupportedModes(kind) ==
  CASE kind = "cambrionix" -> {"off", "on", "charge"} [] OTHER -> {"off", "on"}

-----------------------------------------------------------------------------
(* The steps of the methods. "on" is sync of the USB hubs.                 *)

Req(op, port, mode) == [do |-> "request", op |-> op, port |-> port, mode |-> mode]
Do(what) == [do |-> what, op |-> "", port |-> 0, mode |-> ""]
Check(mode) == [do |-> "verify", op |-> "", port |-> 0, mode |-> mode]
Type(cmd, port, expect) == [do |-> "type", op |-> cmd, port |-> port, mode |-> expect]

\* The layer between switch_power and the hub. Cambrionix._command has the port
\* open for one command; ykushcmd is a process; send_http_* try once.
SerialCommand(step) == <<Do("open"), step, Do("close")>>
CambrionixShell(step) == SerialCommand(step)
CambrionixShellWithRegex(step) == CambrionixShell(step)
YepkitShell(step) == <<step>>
YepkitShellWithRegex(step) == YepkitShell(step)
send_http_get(step) == <<step>>
send_http_post(step) == <<step>>
DliWriteCommand(step) == IF step.op = "get" THEN send_http_get(step) ELSE send_http_post(step)

\* UniFi: into the session, out of it, one level per prompt.
TelnetConfigSend(body) ==
  <<Type("telnet", 0, "1"), Type("enable", 0, "2"), Type("config", 0, "3")>> \o body
  \o <<Type("exit", 0, "2"), Type("exit", 0, "1"), Type("exit", 0, "0")>>
TelnetPortConfigSend(ports, body) ==
  <<Type("telnet", 0, "1"), Type("enable", 0, "2"), Type("config", 0, "3")>>
  \o [i \in 1..Len(ports) |-> Type("interface", ports[i], "4")] \o body
  \o <<Type("exit", 0, "3"), Type("exit", 0, "2"), Type("exit", 0, "1"), Type("exit", 0, "0")>>
\* The dictionary is copied, its lists are not: they grow with every call.
CreatePortConfigCommand(port) == Append(entered, port)

UnifiGetMode(port) == TelnetConfigSend(<<Type("show", port, "mode")>>)
UnifiVerifyMode(port, mode) == UnifiGetMode(port) \o <<Check(mode)>>
UnifiPowerOn(ports, port) ==
  TelnetPortConfigSend(ports, <<Type("opmode", port, "on")>>) \o UnifiVerifyMode(port, "on")
UnifiPowerOff(ports, port) ==
  TelnetPortConfigSend(ports, <<Type("opmode", port, "off")>>) \o UnifiVerifyMode(port, "off")
UnifiSetMode(port, mode) ==
  LET ports == CreatePortConfigCommand(port)
  IN  IF mode = "off" THEN UnifiPowerOff(ports, port) ELSE UnifiPowerOn(ports, port)

SnmpGetMode(port) == <<Req("get", port, "")>>
SnmpSetMode(port, mode) == <<Req("set", port, mode)>>
\* Mutant: the loop over the ports begins at the uplink.
SnmpSetUplinkToo(mode) == [i \in 1..HubPorts |-> Req("set", i, mode)]
SnmpSetAllPortsMode(mode) == [i \in 1..(HubPorts - 1) |-> Req("set", i + 1, mode)]
DliGetMode(port) == DliWriteCommand(Req("get", port, ""))
DliPowerOn(port) == DliWriteCommand(Req("set", port, "on"))
DliPowerOff(port) == DliWriteCommand(Req("set", port, "off"))
DliSetMode(port, mode) == IF mode = "on" THEN DliPowerOn(port) ELSE DliPowerOff(port)
DliSetAllPortsMode(mode) == DliWriteCommand(Req("set all", 0, mode))
UsbGetMode(port) == YepkitShellWithRegex(Req("get", port, ""))
UsbPowerOn(port) == YepkitShell(Req("set", port, "on"))
UsbPowerOff(port) == YepkitShell(Req("set", port, "off"))
UsbSetMode(port, mode) == IF mode = "off" THEN UsbPowerOff(port) ELSE UsbPowerOn(port)
UsbSetAllPortsMode(mode) ==
  FlattenSeq([i \in 1..HubPorts |-> UsbSetMode(i, mode)])
ChargeGetMode(port) == CambrionixShellWithRegex(Req("get", port, ""))
ChargeSetMode(port, mode) == CambrionixShell(Req("set", port, mode))
ChargeSetAllPortsMode(mode) ==
  FlattenSeq([i \in 1..HubPorts |-> ChargeSetMode(i, mode)])
CambrionixReboot == SerialCommand(Req("reboot", 0, ""))

GetMode(kind, port) ==
  CASE kind = "unifi" -> UnifiGetMode(port)
    [] kind = "dlink" -> SnmpGetMode(port)
    [] kind = "dli" -> DliGetMode(port)
    [] kind = "yepkit" -> UsbGetMode(port)
    [] kind = "cambrionix" -> ChargeGetMode(port)
SetMode(kind, port, mode) ==
  CASE kind = "unifi" -> UnifiSetMode(port, mode)
    [] kind = "dlink" -> SnmpSetMode(port, mode)
    [] kind = "dli" -> DliSetMode(port, mode)
    [] kind = "yepkit" -> UsbSetMode(port, mode)
    [] kind = "cambrionix" -> ChargeSetMode(port, mode)
SetAll(kind, mode) ==
  CASE kind = "dlink" -> SnmpSetAllPortsMode(mode)
    [] kind = "dli" -> DliSetAllPortsMode(mode)
    [] kind = "yepkit" -> UsbSetAllPortsMode(mode)
    [] kind = "cambrionix" -> ChargeSetAllPortsMode(mode)

\* _validate_port of the capability. The USB one takes negative numbers.
ValidatePort(kind, port) ==
  CASE kind \in {"yepkit", "cambrionix"} -> port # 0 /\ port <= HubPorts
    [] kind = "dli" -> port > -1 /\ port < HubPorts
    [] OTHER -> port >= 1 /\ port <= HubPorts
SettablePort(kind, port) == ValidatePort(kind, port) /\ (kind = "dlink" => port # 1)

\* UsbHubDefault on a Cambrionix: the current mode of the device's own port
\* (port 1) decides whether the given port is set.
DevicePort == 1
VerifyPowerChangeNeeded(mode) ==
  ChargeGetMode(DevicePort) \o <<[Check(mode) EXCEPT !.do = "unless"]>>
SetPortMode(mode, port) == VerifyPowerChangeNeeded(mode) \o ChargeSetMode(port, mode)

-----------------------------------------------------------------------------
(* A call.                                                                 *)

Target(kind, op, port) ==
  CASE op = "set all" -> IF kind = "dlink" THEN 2..HubPorts ELSE Ports(kind)
    [] op \in {"set", "usb"} -> {port}
    [] OTHER -> {}
NoHubCall == [op |-> "none", port |-> 0, mode |-> "", prog |-> <<>>, at |-> "over",
              err |-> FALSE, val |-> ""]
Calls(op, port, mode, prog, valid) ==
  /\ hcall.at = "over" /\ hlog.calls < MaxHubCalls
  /\ hcall' = [op |-> op, port |-> port, mode |-> mode, err |-> ~valid, val |-> "",
               prog |-> IF valid THEN prog ELSE <<>>,
               at |-> IF valid THEN "run" ELSE "over"]
  /\ hlog' = [hlog EXCEPT !.calls = @ + 1, !.touched = {}, !.meddled = FALSE, !.silent = FALSE,
                          !.ignored = FALSE, !.pending = term.queue # <<>>,
                          !.seen = IF port \in Ports(hub.kind) THEN {hub.mode[port]} ELSE {}]
  /\ UNCHANGED <<hub, term, line>>

CallGetMode == \E p \in -1..(HubPorts + 1) :
  Calls("get", p, "", GetMode(hub.kind, p), ValidatePort(hub.kind, p)) /\ UNCHANGED entered
\* The list of the UniFi commands has grown even when the call fails later.
CallSetMode == \E p \in -1..(HubPorts + 1), m \in SupportedModes(hub.kind) :
  /\ Calls("set", p, m, SetMode(hub.kind, p, m), SettablePort(hub.kind, p))
  /\ entered' = IF hub.kind = "unifi" /\ SettablePort("unifi", p) THEN Append(entered, p) ELSE entered
\* UniFi sets all ports one call after the other.
CallSetAll == \E m \in SupportedModes(hub.kind) :
  /\ hub.kind # "unifi"
  /\ Calls("set all", 0, m, SetAll(hub.kind, m), TRUE) /\ UNCHANGED entered
CallUsbHub == \E p \in 1..HubPorts, m \in SupportedModes(hub.kind) :
  /\ hub.kind = "cambrionix"
  /\ Calls("usb", p, m, SetPortMode(m, p), TRUE) /\ UNCHANGED entered
CallReboot ==
  /\ hub.kind = "cambrionix"
  /\ Calls("reboot", 0, "", CambrionixReboot, TRUE) /\ UNCHANGED entered

StepIs(what) == hcall.at = "run" /\ hcall.prog # <<>> /\ Head(hcall.prog).do = what
HubStep == Head(hcall.prog)
\* The step is done; what it read; an error ends the call, after the close of
\* the finally clause when the port is open.
Advance(v) ==
  hcall' = [hcall EXCEPT !.prog = Tail(@), !.val = v,
                         !.at = IF Len(hcall.prog) = 1 THEN "over" ELSE "run"]
Fails ==
  hcall' = IF line = "ours" THEN [hcall EXCEPT !.prog = <<Do("close")>>, !.err = TRUE]
           ELSE [hcall EXCEPT !.prog = <<>>, !.err = TRUE, !.at = "over"]

-----------------------------------------------------------------------------
(* Requests: SNMP, HTTP, ykushcmd and the serial line of the Cambrionix.   *)

Switched(ports, mode) ==
  [hub EXCEPT !.mode = [p \in DOMAIN @ |-> IF p \in ports THEN mode ELSE @[p]]]
Wanted == CASE HubStep.op = "set" -> {HubStep.port} \cap Ports(hub.kind)
            [] HubStep.op = "set all" -> Ports(hub.kind)
            [] OTHER -> {}
ExistingPort == HubStep.op \in {"set", "get"} => HubStep.port \in Ports(hub.kind)
Obey(ports) ==
  /\ hub' = Switched(ports, HubStep.mode)
  /\ hlog' = [hlog EXCEPT !.touched = @ \cup ports]

Answered ==
  /\ StepIs("request") /\ ExistingPort
  /\ Obey(Wanted)
  /\ Advance(IF HubStep.op = "get" THEN hub.mode[HubStep.port] ELSE "")
  /\ UNCHANGED <<term, line, entered>>

\* The hub says no. ykushcmd prints its help and exits with 0: shell() of
\* power_on looks at neither.
Refused ==
  /\ StepIs("request") /\ ((hub.kind = "cambrionix" /\ HubStep.op # "reboot")
                            \/ hub.kind = "yepkit" \/ ~ExistingPort)
  /\ IF hub.kind = "yepkit"
     THEN /\ Advance(IF HubStep.op = "get" THEN "off" ELSE "")
          /\ hlog' = [hlog EXCEPT !.ignored = TRUE]
     ELSE IF HubStep.op = "get"
     THEN Advance("charge") /\ hlog' = [hlog EXCEPT !.silent = TRUE]
     ELSE Fails /\ UNCHANGED hlog
  /\ UNCHANGED <<hub, term, line, entered>>

\* No answer within the timeout, the request obeyed or not. get_mode of the
\* Cambrionix asks five times and takes no answer for "neither O nor S".
Unanswered ==
  /\ StepIs("request")
  /\ \E obeyed \in {{}, Wanted} :
       IF hub.kind = "cambrionix" /\ HubStep.op = "get"
       THEN /\ Advance("charge") /\ UNCHANGED hub
            /\ hlog' = [hlog EXCEPT !.silent = TRUE]
       ELSE Obey(obeyed) /\ Fails
  /\ UNCHANGED <<term, line, entered>>

\* Cambrionix._open: the exclusive open is tried until it works or 30 s are over.
OpenLine ==
  /\ StepIs("open") /\ line = "free"
  /\ line' = "ours" /\ Advance("")
  /\ UNCHANGED <<hub, term, entered, hlog>>
OpenFails ==
  /\ StepIs("open") /\ line # "free"
  /\ Fails
  /\ UNCHANGED <<hub, term, line, entered, hlog>>
CloseLine ==
  /\ StepIs("close")
  /\ line' = "free"
  /\ IF hcall.err THEN hcall' = [hcall EXCEPT !.prog = <<>>, !.at = "over"]
     ELSE Advance(hcall.val)
  /\ UNCHANGED <<hub, term, entered, hlog>>

VerifyMode ==
  /\ StepIs("verify")
  /\ IF hcall.val = HubStep.mode THEN Advance(hcall.val) ELSE Fails
  /\ UNCHANGED <<hub, term, line, entered, hlog>>
NoChangeNeeded ==
  /\ StepIs("unless")
  /\ IF hcall.val # HubStep.mode THEN Advance(hcall.val)
     ELSE hcall' = [hcall EXCEPT !.prog = <<>>, !.at = "over"]
  /\ UNCHANGED <<hub, term, line, entered, hlog>>

-----------------------------------------------------------------------------
(* The UniFi shell: prompts tell the level, and the port at level 4.       *)

Prompt(level, sel) == [level |-> level, sel |-> sel, show |-> 0, mode |-> ""]
Matches(step, out) ==
  CASE step.mode = "mode" -> out.show = step.port
    [] step.mode = "4" -> out.level = 4 /\ out.sel = step.port
    [] OTHER -> out.show = 0 /\ out.level = CASE step.mode = "0" -> 0 [] step.mode = "1" -> 1
                                              [] step.mode = "2" -> 2 [] OTHER -> 3
NoWait(step) == step.op = "opmode"

\* send_and_expect forgets what was printed before; send does not wait.
TypeCommand ==
  /\ StepIs("type")
  /\ term' = [term EXCEPT !.queue = Append(@, HubStep), !.cap = <<>>]
  /\ IF NoWait(HubStep) THEN Advance("") ELSE hcall' = [hcall EXCEPT !.at = "wait"]
  /\ UNCHANGED <<hub, line, entered, hlog>>
PoeTelnetSendAndExpect ==
  /\ hcall.at = "wait"
  /\ \E i \in 1..Len(term.cap) :
       /\ Matches(HubStep, term.cap[i])
       /\ \A j \in 1..(i - 1) : ~Matches(HubStep, term.cap[j])
       /\ Advance(IF HubStep.op = "show" THEN term.cap[i].mode ELSE hcall.val)
  /\ UNCHANGED <<hub, term, line, entered, hlog>>
PromptTimesOut ==
  /\ hcall.at = "wait"
  /\ \A i \in 1..Len(term.cap) : ~Matches(HubStep, term.cap[i])
  /\ hcall' = [hcall EXCEPT !.prog = <<>>, !.err = TRUE, !.at = "over"]
  /\ UNCHANGED <<hub, term, line, entered, hlog>>

\* The switch: a command of another level prints an error and the same prompt.
TermHandles ==
  /\ term.queue # <<>>
  /\ LET c == Head(term.queue)
         level == CASE c.op = "telnet" /\ term.level = 0 -> 1
                    [] c.op = "enable" /\ term.level = 1 -> 2
                    [] c.op = "config" /\ term.level = 2 -> 3
                    [] c.op = "interface" /\ term.level >= 3 -> 4
                    [] c.op = "exit" /\ term.level > 0 -> term.level - 1
                    [] OTHER -> term.level
         sel == IF c.op = "interface" /\ term.level >= 3 THEN c.port
                ELSE IF level < 4 THEN 0 ELSE term.sel
         sets == IF c.op = "opmode" /\ term.level = 4 THEN {term.sel} ELSE {}
         shows == c.op = "show" /\ term.level > 0
         out == IF shows THEN <<[Prompt(level, sel) EXCEPT !.show = c.port, !.mode = hub.mode[c.port]]>>
                ELSE <<>>
     IN  /\ term' = [queue |-> Tail(term.queue), level |-> level, sel |-> sel,
                     cap |-> term.cap \o out \o <<Prompt(level, sel)>>]
         /\ hub' = Switched(sets, c.mode)
         /\ hlog' = [hlog EXCEPT !.touched = @ \cup sets, !.strayed = @ \cup (sets \ {c.port})]
  /\ UNCHANGED <<line, entered, hcall>>

-----------------------------------------------------------------------------
(* Everybody else.                                                         *)

SomebodySwitches ==
  /\ hlog.meddling < MaxMeddling
  /\ \E p \in Ports(hub.kind), m \in SupportedModes(hub.kind) :
       /\ m # hub.mode[p]
       /\ hub' = Switched({p}, m)
       /\ hlog' = [hlog EXCEPT !.meddling = @ + 1, !.meddled = TRUE, !.seen = @ \cup {m}]
  /\ UNCHANGED <<term, line, entered, hcall>>
OthersUseTheLine ==
  /\ hub.kind = "cambrionix" /\ line # "ours"
  /\ line' = IF line = "free" THEN "theirs" ELSE "free"
  /\ UNCHANGED <<hub, term, entered, hcall, hlog>>

HubsInit ==
  /\ hub \in UNION {[kind : {k}, mode : {[p \in Ports(k) |-> "on"]}] : k \in HubKinds}
  /\ term = [queue |-> <<>>, cap |-> <<>>, level |-> 0, sel |-> 0]
  /\ line = "free" /\ entered = <<>> /\ hcall = NoHubCall
  /\ hlog = [calls |-> 0, touched |-> {}, strayed |-> {}, meddled |-> FALSE, silent |-> FALSE,
             ignored |-> FALSE, pending |-> FALSE, seen |-> {}, meddling |-> 0]

HubsDone ==
  /\ hcall.at = "over" /\ hlog.calls = MaxHubCalls /\ term.queue = <<>>
  /\ UNCHANGED hubVars

HubsNext ==
  \/ CallGetMode \/ CallSetMode \/ CallSetAll \/ CallUsbHub \/ CallReboot
  \/ Answered \/ Refused \/ Unanswered \/ OpenLine \/ OpenFails \/ CloseLine
  \/ VerifyMode \/ NoChangeNeeded
  \/ TypeCommand \/ PoeTelnetSendAndExpect \/ PromptTimesOut \/ TermHandles
  \/ SomebodySwitches \/ OthersUseTheLine \/ HubsDone

HubsSpec == HubsInit /\ [][HubsNext]_hubVars

-----------------------------------------------------------------------------
(* Properties.                                                             *)

\* Type correctness: modes, levels and steps.
HubsTypeOK ==
  /\ hub.kind \in HubKinds /\ hub.mode \in [Ports(hub.kind) -> SupportedModes(hub.kind)]
  /\ term.level \in 0..4 /\ (term.level < 4 => term.sel = 0)
  /\ line \in {"free", "ours", "theirs"}
  /\ hcall.at \in {"run", "wait", "over"} /\ (hcall.at # "over" => hcall.prog # <<>>)

HubReturned == hcall.at = "over" /\ ~hcall.err /\ hcall.op # "none"

\* Whatever fails or comes late, a call switches the ports it is for and no
\* other: commands for a port are typed only after the prompt of that port,
\* although the command list of the UniFi class keeps the ports of all calls.
\* What a call that was given up typed is still obeyed afterwards, but for the
\* port that it was typed for.
OnlyThatPort ==
  /\ hlog.strayed = {}
  /\ ~hlog.pending => hlog.touched \subseteq Target(hub.kind, hcall.op, hcall.port)

\* Port 1 of the D-Link switch, the uplink of the host, is never switched.
UplinkIsKept == hub.kind = "dlink" => 1 \notin hlog.touched

\* A call that returns has the ports in the mode asked for: read back on the
\* UniFi switch, compared with the response of the D-Link switch. Not so when
\* ykushcmd refused, when somebody else switched a port, or when the mode of
\* the Cambrionix could not be read; usb_hub is sure of the device's port only.
ModeIsInForce ==
  (HubReturned /\ hcall.op \in {"set", "set all", "usb"}
     /\ ~hlog.meddled /\ ~hlog.ignored /\ ~hlog.silent /\ ~hlog.pending
     /\ (hcall.op = "usb" => hcall.port = DevicePort)) =>
        \A p \in Target(hub.kind, hcall.op, hcall.port) : hub.mode[p] = hcall.mode

\* get_mode returns a mode that the port had during the call, unless the hub
\* did not say: then a Yepkit port counts as off, a Cambrionix port as charging.
ModeIsTrue ==
  (HubReturned /\ hcall.op = "get" /\ ~hlog.ignored /\ ~hlog.silent /\ ~hlog.pending) =>
     hcall.val \in hlog.seen

\* The serial line of the Cambrionix is free for other processes after every
\* call, failed or not; after a call that returns, the shell of the UniFi
\* switch is out of its telnet session.
SessionIsLeft ==
  hcall.at = "over" =>
    /\ line # "ours"
    /\ (~hcall.err /\ term.queue = <<>> /\ hcall.op # "none" /\ ~hlog.pending) => term.level = 0

\* A call switches the ports it is for and no other, says the truth about them,
\* and leaves the session or line that it used.
PortsAsAsked ==
  /\ HubsTypeOK
  /\ UplinkIsKept
  /\ OnlyThatPort
  /\ ModeIsInForce
  /\ ModeIsTrue
  /\ SessionIsLeft
=============================================================================
