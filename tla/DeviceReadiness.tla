-------------------------- MODULE DeviceReadiness --------------------------
(***************************************************************************)
(* One open device, and what make_device_ready(), its power capabilities,  *)
(* its firmware and its Matter endpoint mapping do to it.                  *)
(*                                                                         *)
(* A call of the device is a program: the sequence `stack` of the steps    *)
(* that are left, innermost call first.  A step is one request to the hub, *)
(* the device or the switchboard; it succeeds or raises.  The steps whose  *)
(* names start with "try" are the exception handlers of the code: Raise    *)
(* drops the steps up to the first handler that catches the error, and the *)
(* handler runs with err set (except:) or with err = NoErr (else:).        *)
(*                                                                         *)
(* Classes of devices, `device.class`:                                     *)
(*   "matter"    a Matter board: device_power, a flash_build flavor and    *)
(*               the pigweed endpoint accessor;                            *)
(*   "rpimatter" the Raspberry Pi Matter app, which recovers from three    *)
(*               kinds of errors;                                          *)
(*   "generic"   a class of an extension package that keeps the defaults   *)
(*               of GazooDeviceBase and has comm_power;                    *)
(*   "auxiliary" an auxiliary device with the default health checks.       *)
(***************************************************************************)
EXTENDS Integers, Sequences, FiniteSets

CONSTANTS
    Devices,        \* the device classes, with their configuration
    EndpointIds,    \* the endpoints of every build
    MaxCalls,       \* bound: calls of the user
    MaxFaults       \* bound: things that go wrong outside the program

\* attempts is _RECOVERY_ATTEMPTS of the class, hub whether the properties of
\* its power hub are set.
DeviceType == [class    : {"matter", "rpimatter", "generic", "auxiliary"},
               flavor   : {"esptool", "nrfjprog", "commander", "interface", "none"},
               hub      : BOOLEAN,
               attempts : Nat \ {0}]

ASSUME ReadinessAssumption ==
    /\ Devices \subseteq DeviceType
    /\ \A d \in Devices : d.class \in {"rpimatter", "auxiliary"} => ~d.hub
    /\ EndpointIds \subseteq Nat
    /\ MaxCalls \in Nat
    /\ MaxFaults \in Nat

VARIABLES
    device,     \* the class of the device: a member of Devices
    world,      \* what is outside the program: hub port, hub, cable, firmware, app
    caps,       \* the capabilities of the device object
    run,        \* the call that runs, or ran last
    stack,      \* its steps that are left
    err,        \* the error a handler is about to handle
    result,     \* how the last call ended: NoErr or the error it raised
    seen,       \* history: the errors raised during this call
    excuse,     \* history: what an error, or a call that says so, left undone
    calls, faults

vars == <<device, world, caps, run, stack, err, result, seen, excuse, calls, faults>>

NoErr == "no error"
Bad   == -1     \* a firmware that does not work

\* Subclasses of CheckDeviceReadyError; every DeviceError; everything else.
CheckErrors  == {"NotConnected", "Creation", "NotReady", "NotResponsive",
                 "NotEnabled", "NotRunning", "Process"}
DeviceErrors == CheckErrors \cup {"DeviceError"}
Errors       == DeviceErrors \cup {"TypeError", "KeyError", "FlashTool"}

NoEndpoints == [of |-> Bad, class |-> {}, clusters |-> {}]
NotCalled   == [call |-> "none", setting |-> "off", attempt |-> 0, recoverable |-> NoErr,
                unrecoverable |-> NoErr, flash |-> "done", recoveries |-> <<>>, ready |-> <<>>]

Idle == stack = <<>>

----------------------------------------------------------------------------
(* The state of the world, as the code asks for it.                        *)

Connected == world.cable /\ world.port = "sync"

\* The device answers a shell command or an RPC.
Responds ==
    /\ Connected
    /\ ~world.hung
    /\ caps.sb = "up"
    /\ caps.trans = "open"

RpcWorks ==
    /\ Responds
    /\ world.build # Bad
    /\ device.class = "rpimatter" => world.app = "running"

\* CapabilityBase.healthy: the health check runs once, its answer is kept.
Healthy ==
    IF caps.healthy # "unknown" THEN caps.healthy
    ELSE IF device.hub /\ world.hub THEN "yes" ELSE "no"

----------------------------------------------------------------------------
(* The programs.                                                           *)

HasDevicePower == device.class = "matter"
HasPower       == device.class \in {"matter", "generic"}
HasFlashBuild  == device.flavor # "none"
HasEndpoints   == device.class \in {"matter", "rpimatter"}

\* health_checks of the classes.
MatterChecks    == <<"power_cycling_ready", "power_on", "connected", "create_switchboard",
                     "rpc_working">>
RaspbianChecks  == <<"connected", "create_switchboard", "responsive">>
RpiMatterChecks == RaspbianChecks
                   \o <<"service_enabled", "app_running", "open_all", "rpc_working">>
GenericChecks   == <<"power_cycling_ready", "connected", "create_switchboard">>
AuxiliaryChecks == <<"connected">>

HealthChecks ==
    CASE device.class = "matter"    -> MatterChecks
      [] device.class = "rpimatter" -> RpiMatterChecks
      [] device.class = "generic"   -> GenericChecks
      [] device.class = "auxiliary" -> AuxiliaryChecks

CheckDeviceReady == HealthChecks \o <<"checked">>

\* device_power reads the mode of the port first; comm_power does not, and has
\* no bootup check.
DeviceOff == <<"hub_ready", "stop_if_off", "close_if_healthy", "switch_off", "done">>
CommOff   == <<"hub_ready", "close_if_healthy", "switch_off", "done">>
Off       == IF HasDevicePower THEN DeviceOff ELSE CommOff

DeviceOn(noWait) ==
    <<"hub_ready", "stop_if_on", "switch_on">>
    \o (IF noWait THEN <<>>
                  ELSE <<"connected", "open_if_healthy", "ensure_switchboard", "booted">>)
    \o <<"done">>

\* Mutant: on() does not open the transports again.
CommOnForgetsTransports(noWait) ==
    <<"hub_ready", "switch_on">>
    \o (IF noWait THEN <<>> ELSE <<"connected">>)
    \o <<"done">>

CommOn(noWait) ==
    <<"hub_ready", "switch_on">>
    \o (IF noWait THEN <<>> ELSE <<"connected", "open_if_healthy">>)
    \o <<"done">>

On(noWait) == IF HasDevicePower THEN DeviceOn(noWait) ELSE CommOn(noWait)

DeviceCycle == <<"hub_ready">> \o DeviceOff \o DeviceOn(FALSE)
CommCycle   == <<"hub_ready">> \o CommOff \o CommOn(FALSE)

\* reboot() of a Raspberry Pi: a log marker and the command over the shell,
\* then wait until it is offline and online again.
Reboot == <<"shell", "restart", "close_all", "connected", "open_all", "booted">>

\* upgrade() of the flash_build flavors; "interface" is one of an extension
\* package that keeps to the interface.
UpgradeEsptool ==
    <<"create_switchboard", "close_all", "esptool", "open_all", "booted", "reset_endpoints">>

UpgradeNrfjprog ==
    <<"create_switchboard", "close_all", "flash", "open_all", "reset_endpoints", "flash_code",
      "booted", "flash_error">>

UpgradeCommander ==
    <<"create_switchboard", "close_all", "flash", "open_all", "reset_endpoints", "booted",
      "flash_error", "flash_code">>

UpgradeInterface ==
    <<"create_switchboard", "close_all", "flash", "open_all", "flash_error", "flash_code">>

\* The three flavors of the repository do not take forced_upgrade=True.
Upgrade(forced) ==
    CASE device.flavor = "interface"             -> UpgradeInterface
      [] device.flavor # "interface" /\ forced   -> <<"construct", "bad_argument">>
      [] device.flavor = "esptool" /\ ~forced    -> UpgradeEsptool
      [] device.flavor = "nrfjprog" /\ ~forced   -> UpgradeNrfjprog
      [] device.flavor = "commander" /\ ~forced  -> UpgradeCommander

\* The handlers, and the errors each of them catches.
Catches(step, e) ==
    CASE step \in {"try_check", "try_recover", "try_rpc", "try_rpc_again"} -> e \in DeviceErrors
      [] step = "try_final" -> e \in CheckErrors
      [] step = "try_cycle" -> e = "NotReady"
      [] step = "end"       -> TRUE
      [] OTHER              -> FALSE

----------------------------------------------------------------------------
(* How a step ends.                                                        *)

At(step)      == ~Idle /\ Head(stack) = step /\ err = NoErr
Handler(step) == ~Idle /\ Head(stack) = step

Goto(steps) == stack' = steps /\ err' = NoErr /\ UNCHANGED seen
Continue    == Goto(Tail(stack))
Call(steps) == Goto(steps \o Tail(stack))

\* on() and off() return early: drop what is left of them.
SkipPast(label) ==
    LET i == CHOOSE i \in 1..Len(stack) :
                 stack[i] = label /\ \A j \in 1..(i - 1) : stack[j] # label
    IN Goto(SubSeq(stack, i + 1, Len(stack)))

Raise(e) ==
    LET i == CHOOSE i \in 2..Len(stack) :
                 Catches(stack[i], e) /\ \A j \in 2..(i - 1) : ~Catches(stack[j], e)
    IN /\ stack' = SubSeq(stack, i, Len(stack))
       /\ err' = e
       /\ seen' = seen \cup {e}

\* A step that succeeds exactly when something outside allows it.
ContinueIf(ok, e) == IF ok THEN Continue ELSE Raise(e)

Fault == faults < MaxFaults /\ faults' = faults + 1

\* What no step of a program changes; what only asks the world changes nothing.
Frame == UNCHANGED <<device, run, result, excuse, calls>>
Ask   == Frame /\ UNCHANGED <<world, caps, faults>>

----------------------------------------------------------------------------
(* Power: DevicePowerDefault, CommPowerDefault and the hub.                *)

\* `if not self.healthy: self.health_check()`, the creation of the hub device.
HubReady ==
    /\ At("hub_ready")
    /\ LET ok == caps.healthy = "yes" \/ (device.hub /\ world.hub)
       IN /\ ContinueIf(ok, "NotReady")
          /\ caps' = [caps EXCEPT !.healthy = IF ok THEN "yes" ELSE "no"]
    /\ Frame /\ UNCHANGED <<world, faults>>

\* off() and on() of device_power do nothing when the port has the mode.
StopIf(step, mode) ==
    /\ At(step)
    /\ IF ~world.hub THEN Raise("DeviceError")
       ELSE IF world.port = mode THEN SkipPast("done")
       ELSE Continue
    /\ Ask

StopIfOff == StopIf("stop_if_off", "off")
StopIfOn  == StopIf("stop_if_on", "sync")

SwitchOff ==
    /\ At("switch_off")
    /\ ContinueIf(world.hub, "DeviceError")
    /\ world' = IF world.hub THEN [world EXCEPT !.port = "off", !.hung = FALSE] ELSE world
    /\ Frame /\ UNCHANGED <<caps, faults>>

SwitchOn ==
    /\ At("switch_on")
    /\ ContinueIf(world.hub, "DeviceError")
    /\ world' = IF world.hub THEN [world EXCEPT !.port = "sync"] ELSE world
    /\ Frame /\ UNCHANGED <<caps, faults>>

Done ==
    /\ At("done")
    /\ Continue
    /\ Ask

----------------------------------------------------------------------------
(* The switchboard, as these calls use it.                                 *)

\* device.switchboard and its first use: the constructor may raise, and a
\* health check that fails is remembered for good.
CreateSwitchboard ==
    /\ At("create_switchboard")
    /\ CASE caps.sb = "up" -> Continue /\ UNCHANGED <<caps, faults>>
         [] caps.sb = "failed" -> Raise("NotReady") /\ UNCHANGED <<caps, faults>>
         [] caps.sb = "none" ->
              \/ /\ Connected
                 /\ Continue
                 /\ caps' = [caps EXCEPT !.sb = "up", !.trans = "open"]
                 /\ UNCHANGED faults
              \/ /\ IF Connected THEN Fault ELSE UNCHANGED faults
                 /\ Raise("NotReady")
                 /\ caps' = [caps EXCEPT !.sb = "failed"]
              \/ Fault /\ Raise("Creation") /\ UNCHANGED caps
    /\ Frame /\ UNCHANGED world

\* The bootup check starts the switchboard too, and polls whether that works or not.
EnsureSwitchboard ==
    /\ At("ensure_switchboard")
    /\ \/ /\ Continue
          /\ caps' = CASE caps.sb # "none" -> caps
                       [] caps.sb = "none" /\ Connected ->
                             [caps EXCEPT !.sb = "up", !.trans = "open"]
                       [] OTHER -> [caps EXCEPT !.sb = "failed"]
          /\ UNCHANGED faults
       \/ caps.sb = "none" /\ Fault /\ Raise("Creation") /\ UNCHANGED caps
    /\ Frame /\ UNCHANGED world

\* flash_build is made with the switchboard: its constructor may raise.
Construct ==
    /\ At("construct")
    /\ \/ Continue /\ UNCHANGED faults
       \/ caps.sb = "none" /\ Fault /\ Raise("Creation")
    /\ Frame /\ UNCHANGED <<world, caps>>

\* close_all_transports: a transport that does not close in time is stopped.
CloseTransports ==
    \/ /\ Continue
       /\ caps' = [caps EXCEPT !.trans = IF @ = "open" THEN "closed" ELSE @]
       /\ UNCHANGED faults
    \/ /\ caps.trans = "open"
       /\ Fault
       /\ Raise("Process")
       /\ caps' = [caps EXCEPT !.trans = "stopped"]

\* open_all_transports: so is one that does not open.
OpenTransports ==
    \/ /\ caps.trans # "stopped" /\ Connected
       /\ Continue
       /\ caps' = [caps EXCEPT !.trans = "open"]
       /\ UNCHANGED faults
    \/ /\ caps.trans # "open"
       /\ IF caps.trans = "closed" /\ Connected THEN Fault ELSE UNCHANGED faults
       /\ Raise("Process")
       /\ caps' = [caps EXCEPT !.trans = "stopped"]
    \/ /\ caps.trans = "open" /\ ~Connected
       /\ Continue
       /\ UNCHANGED <<caps, faults>>

CloseAll ==
    /\ At("close_all")
    /\ CloseTransports
    /\ Frame /\ UNCHANGED world

OpenAll ==
    /\ At("open_all")
    /\ OpenTransports
    /\ Frame /\ UNCHANGED world

\* Power changes leave a switchboard alone that is not there or not healthy.
CloseIfHealthy ==
    /\ At("close_if_healthy")
    /\ IF caps.sb = "up" THEN CloseTransports ELSE Continue /\ UNCHANGED <<caps, faults>>
    /\ Frame /\ UNCHANGED world

OpenIfHealthy ==
    /\ At("open_if_healthy")
    /\ IF caps.sb = "up" THEN OpenTransports ELSE Continue /\ UNCHANGED <<caps, faults>>
    /\ Frame /\ UNCHANGED world

----------------------------------------------------------------------------
(* The health checks.                                                      *)

\* check_power_cycling_ready: a hub that is not ready is only logged.
PowerCyclingReady ==
    /\ At("power_cycling_ready")
    /\ Continue
    /\ caps' = [caps EXCEPT !.healthy = IF device.hub /\ world.hub THEN "yes" ELSE @]
    /\ Frame /\ UNCHANGED <<world, faults>>

\* check_power_on of a Matter board.
PowerOn ==
    /\ At("power_on")
    /\ IF Healthy = "yes" THEN Call(On(FALSE)) ELSE Continue
    /\ caps' = [caps EXCEPT !.healthy = Healthy]
    /\ Frame /\ UNCHANGED <<world, faults>>

CheckConnected ==
    /\ At("connected")
    /\ ContinueIf(Connected, "NotConnected")
    /\ Ask

CheckResponsive ==
    /\ At("responsive")
    /\ ContinueIf(Responds, "NotResponsive")
    /\ Ask

CheckService ==
    /\ At("service_enabled")
    /\ IF Responds THEN ContinueIf(world.app # "disabled", "NotEnabled")
                   ELSE Raise("DeviceError")
    /\ Ask

CheckApp ==
    /\ At("app_running")
    /\ IF Responds THEN ContinueIf(world.app = "running", "NotRunning")
                   ELSE Raise("DeviceError")
    /\ Ask

\* check_rpc_working: ask for the endpoints; after a first failure restart the
\* device if its power can be switched, after a second one only log.
RpcWorking ==
    /\ At("rpc_working")
    /\ Call(<<"fetch", "try_rpc">>)
    /\ caps' = [caps EXCEPT !.eps = NoEndpoints]
    /\ Frame /\ UNCHANGED <<world, faults>>

\* Mutant: without a power hub the check asks again until the device answers.
TryRpcForever ==
    /\ Handler("try_rpc")
    /\ IF err = NoErr THEN Continue ELSE Call(<<"rpc_working">>)
    /\ Ask

TryRpc ==
    /\ Handler("try_rpc")
    /\ IF err = NoErr
         THEN Continue /\ UNCHANGED caps
         ELSE /\ IF HasDevicePower /\ Healthy = "yes" THEN Call(DeviceCycle \o <<"rpc_again">>)
                                                      ELSE Continue
              /\ caps' = [caps EXCEPT !.healthy = IF HasDevicePower THEN Healthy ELSE @]
    /\ Frame /\ UNCHANGED <<world, faults>>

RpcAgain ==
    /\ At("rpc_again")
    /\ Call(<<"fetch", "try_rpc_again">>)
    /\ caps' = [caps EXCEPT !.eps = NoEndpoints]
    /\ Frame /\ UNCHANGED <<world, faults>>

TryRpcAgain ==
    /\ Handler("try_rpc_again")
    /\ Continue
    /\ Ask

\* Every check passed.  run.ready remembers the state they passed in.
Checked ==
    /\ At("checked")
    /\ Continue
    /\ run' = [run EXCEPT !.ready = <<world.port, world.build, caps.sb, caps.trans>>]
    /\ UNCHANGED <<device, world, caps, result, excuse, calls, faults>>

----------------------------------------------------------------------------
(* The endpoint mapping of MatterEndpointsBase.                            *)

\* _fetch_endpoints_and_clusters: a mapping that is not empty is taken as it is.
Fetch ==
    /\ At("fetch")
    /\ IF caps.eps.class # {} THEN Continue
       ELSE IF RpcWorks THEN Call(<<"fetch_class">>)
       ELSE Raise("NotResponsive")
    /\ Ask

\* The class of the next endpoint, entered before its clusters are known.
FetchClass ==
    /\ At("fetch_class")
    /\ IF RpcWorks
         THEN LET id == CHOOSE i \in EndpointIds \ caps.eps.class :
                            \A j \in EndpointIds \ caps.eps.class : i <= j
              IN /\ Call(<<"fetch_clusters">>)
                 /\ caps' = [caps EXCEPT !.eps.of = world.build, !.eps.class = @ \cup {id}]
         ELSE Raise("NotResponsive") /\ UNCHANGED caps
    /\ Frame /\ UNCHANGED <<world, faults>>

FetchClusters ==
    /\ At("fetch_clusters")
    /\ IF RpcWorks
         THEN /\ Call(IF caps.eps.class = EndpointIds THEN <<>> ELSE <<"fetch_class">>)
              /\ caps' = [caps EXCEPT !.eps.clusters = caps.eps.class]
         ELSE Raise("NotResponsive") /\ UNCHANGED caps
    /\ Frame /\ UNCHANGED <<world, faults>>

\* get(endpoint_id) on the mapping.
GetEndpoint ==
    /\ At("get")
    /\ \E id \in EndpointIds :
          IF id \notin caps.eps.class THEN Raise("DeviceError")
          ELSE IF id \notin caps.eps.clusters THEN Raise("KeyError")
          ELSE Continue
    /\ Ask

ResetEndpoints ==
    /\ At("reset_endpoints")
    /\ Continue
    /\ caps' = [caps EXCEPT !.eps = NoEndpoints]
    /\ Frame /\ UNCHANGED <<world, faults>>

----------------------------------------------------------------------------
(* Restarts, bootup and flashing.                                          *)

Shell ==
    /\ At("shell")
    /\ ContinueIf(Responds, "DeviceError")
    /\ Ask

\* The reboot command and the wait for the device to go offline.
Restart ==
    /\ At("restart")
    /\ Continue
    /\ world' = [world EXCEPT !.hung = FALSE,
                              !.app = IF @ = "stopped" THEN "running" ELSE @]
    /\ Frame /\ UNCHANGED <<caps, faults>>

\* wait_for_bootup_complete polls an RPC, _ensure_device_is_online the shell.
Booted ==
    /\ At("booted")
    /\ ContinueIf(IF device.class = "rpimatter" THEN Responds ELSE RpcWorks, "DeviceError")
    /\ Ask

NextBuild == IF world.build = Bad THEN 0 ELSE 1 - world.build

Flashed(b) == world' = [world EXCEPT !.build = b, !.hung = FALSE]

\* esptool.main raises when it fails, and nothing after it runs.
Esptool ==
    /\ At("esptool")
    /\ \/ Continue /\ Flashed(NextBuild) /\ UNCHANGED faults
       \/ Fault /\ Raise("FlashTool") /\ Flashed(Bad)
    /\ Frame /\ UNCHANGED caps

\* The other flavors run a program that returns a code or times out, and clean
\* up before they look at it.
Flash ==
    /\ At("flash")
    /\ Continue
    /\ \/ Flashed(NextBuild) /\ run' = [run EXCEPT !.flash = "done"] /\ UNCHANGED faults
       \/ Fault /\ Flashed(Bad) /\ \E f \in {"code", "error"} : run' = [run EXCEPT !.flash = f]
    /\ UNCHANGED <<device, caps, result, excuse, calls>>

FlashCode ==
    /\ At("flash_code")
    /\ ContinueIf(run.flash # "code", "DeviceError")
    /\ Ask

FlashError ==
    /\ At("flash_error")
    /\ ContinueIf(run.flash # "error", "FlashTool")
    /\ Ask

BadArgument ==
    /\ At("bad_argument")
    /\ Raise("TypeError")
    /\ Ask

----------------------------------------------------------------------------
(* make_device_ready and recover.                                          *)

Keep == UNCHANGED <<device, world, caps, result, excuse, calls, faults>>

\* The readiness check of an attempt passed, or raised.
TryCheck ==
    /\ Handler("try_check")
    /\ IF err = NoErr THEN Continue /\ UNCHANGED run
       ELSE IF run.setting = "check_only" THEN Raise(err) /\ UNCHANGED run
       ELSE IF err = run.recoverable
         THEN Goto(<<"give_up", "end">>) /\ run' = [run EXCEPT !.unrecoverable = err]
         ELSE Goto(<<"recover", "try_recover", "end">>) /\ run' = [run EXCEPT !.recoverable = err]
    /\ Keep

\* recover() of the classes: GazooDeviceBase restarts the communication port of
\* a device that has comm_power, RaspberryPiMatter its app or the whole device.
RecoverGazoo(e) ==
    IF e = "Creation" /\ device.class = "generic" THEN Call(CommCycle \o <<"try_cycle">>)
                                                  ELSE Raise(e)

RecoverRaspbian(e) == IF e = "NotResponsive" THEN Call(Reboot) ELSE Raise(e)

RecoverRpiMatter(e) ==
    CASE e = "NotEnabled" -> Call(<<"enable_service">>)
      [] e = "NotRunning" -> Call(<<"start_service">>)
      [] OTHER            -> RecoverRaspbian(e)

RecoverAuxiliary(e) == Raise(e)

Recover ==
    /\ At("recover")
    /\ LET e == run.recoverable
       IN /\ CASE device.class \in {"matter", "generic"} -> RecoverGazoo(e)
               [] device.class = "rpimatter"            -> RecoverRpiMatter(e)
               [] device.class = "auxiliary"            -> RecoverAuxiliary(e)
          /\ run' = [run EXCEPT !.recoveries = Append(@, e)]
    /\ Keep

\* comm_power is not set up: the first error is raised instead.
TryCycle ==
    /\ Handler("try_cycle")
    /\ IF err = NoErr THEN Continue ELSE Raise(run.recoverable)
    /\ Ask

EnableService ==
    /\ At("enable_service")
    /\ ContinueIf(Responds, "DeviceError")
    /\ world' = [world EXCEPT !.app = IF Responds /\ @ = "disabled" THEN "stopped" ELSE @]
    /\ Frame /\ UNCHANGED <<caps, faults>>

StartService ==
    /\ At("start_service")
    /\ ContinueIf(Responds, "DeviceError")
    /\ world' = [world EXCEPT !.app = IF Responds THEN "running" ELSE @]
    /\ Frame /\ UNCHANGED <<caps, faults>>

\* recover() returned: another attempt, or the last check when there is none.
TryRecover ==
    /\ Handler("try_recover")
    /\ IF err # NoErr
         THEN Goto(<<"give_up", "end">>) /\ run' = [run EXCEPT !.unrecoverable = err]
         ELSE /\ run' = [run EXCEPT !.attempt = @ + 1]
              /\ Goto(CheckDeviceReady
                      \o <<IF run.attempt + 1 < device.attempts THEN "try_check"
                                                                ELSE "try_final", "end">>)
    /\ Keep

\* Mutant: the last check is run and its error dropped.
TryFinalSwallows ==
    /\ Handler("try_final")
    /\ Continue /\ UNCHANGED run
    /\ Keep

TryFinal ==
    /\ Handler("try_final")
    /\ IF err = NoErr THEN Continue /\ UNCHANGED run
       ELSE Goto(<<"give_up", "end">>) /\ run' = [run EXCEPT !.unrecoverable = err]
    /\ Keep

\* Mutant: the setting "on" flashes the device too.
GiveUpFlashes ==
    /\ At("give_up")
    /\ IF run.setting # "check_only" /\ device.flavor = "interface"
         THEN Call(Upgrade(TRUE) \o CheckDeviceReady)
         ELSE Raise(IF run.unrecoverable = NoErr THEN "TypeError" ELSE run.unrecoverable)
    /\ Ask

\* Nothing is left but to flash the device, where that was asked for.  In
\* Python, `raise None` raises a TypeError.
GiveUp ==
    /\ At("give_up")
    /\ IF run.setting = "flash_build" /\ HasFlashBuild
         THEN Call(Upgrade(TRUE) \o CheckDeviceReady)
         ELSE Raise(IF run.unrecoverable = NoErr THEN "TypeError" ELSE run.unrecoverable)
    /\ Ask

----------------------------------------------------------------------------
(* The calls of the user.                                                  *)

Begin(name, s, program) ==
    /\ Idle
    /\ calls < MaxCalls
    /\ calls' = calls + 1
    /\ run' = [NotCalled EXCEPT !.call = name, !.setting = s]
    /\ stack' = program \o <<"end">>
    /\ err' = NoErr
    /\ seen' = {}
    /\ UNCHANGED <<device, world, caps, result, excuse, faults>>

MakeDeviceReady(s) ==
    Begin("make_device_ready", s,
          IF s = "off" THEN <<>> ELSE CheckDeviceReady \o <<"try_check">>)

PowerOffCall  == HasPower /\ Begin("off", "off", Off)
PowerOnCall   == HasPower /\ Begin("on", "off", On(FALSE))
PowerOnNoWait == HasPower /\ Begin("on_no_wait", "off", On(TRUE))
CycleCall     == HasPower /\ Begin("cycle", "off", IF HasDevicePower THEN DeviceCycle ELSE CommCycle)
UpgradeCall   == HasFlashBuild /\ Begin("upgrade", "off", Upgrade(FALSE))
EndpointsCall == HasEndpoints /\ Begin("get", "off", <<"create_switchboard", "fetch", "get">>)

\* close(): every capability is closed and forgotten.
Close ==
    /\ Idle
    /\ calls < MaxCalls
    /\ calls' = calls + 1
    /\ caps' = [healthy |-> "unknown", sb |-> "none", trans |-> "closed", eps |-> NoEndpoints]
    /\ run' = [NotCalled EXCEPT !.call = "close"]
    /\ result' = NoErr
    /\ excuse' = [excuse EXCEPT !.closed = FALSE, !.stale = FALSE, !.torn = FALSE]
    /\ UNCHANGED <<device, world, stack, err, seen, faults>>

Mismatch   == caps.sb = "up" /\ (caps.trans = "open") # (world.port = "sync")
Incomplete == caps.eps.class # {} /\ ~(caps.eps.class = EndpointIds /\ caps.eps.clusters = EndpointIds)
Outdated   == caps.eps.class # {} /\ caps.eps.of # world.build

\* The call returns or raises.  An excuse is kept as long as what it is for.
End ==
    /\ Handler("end")
    /\ stack' = <<>>
    /\ err' = NoErr
    /\ result' = err
    /\ excuse' = [closed |-> Mismatch /\ (excuse.closed \/ err # NoErr \/ run.call = "on_no_wait"),
                  off    |-> world.port = "off" /\ (excuse.off \/ err # NoErr \/ run.call = "off"),
                  stale  |-> Outdated /\ (excuse.stale \/ err # NoErr),
                  torn   |-> Incomplete /\ (excuse.torn \/ "NotResponsive" \in seen)]
    /\ UNCHANGED <<device, world, caps, run, seen, calls, faults>>

----------------------------------------------------------------------------
(* The rest of the world.                                                  *)

Change(w) == world' = w /\ UNCHANGED <<device, caps, run, stack, err, result, seen, excuse, calls>>

Unplug  == world.cable /\ Fault /\ Change([world EXCEPT !.cable = FALSE])
Replug  == ~world.cable /\ UNCHANGED faults /\ Change([world EXCEPT !.cable = TRUE])
HubDown == HasPower /\ world.hub /\ Fault /\ Change([world EXCEPT !.hub = FALSE])
HubBack == ~world.hub /\ UNCHANGED faults /\ Change([world EXCEPT !.hub = TRUE])
Hangs   == ~world.hung /\ Fault /\ Change([world EXCEPT !.hung = TRUE])
AppFails ==
    /\ device.class = "rpimatter" /\ world.app = "running"
    /\ Fault
    /\ \E a \in {"stopped", "disabled"} : Change([world EXCEPT !.app = a])

----------------------------------------------------------------------------

Init ==
    /\ device \in Devices
    /\ world = [port |-> "sync", hub |-> TRUE, cable |-> TRUE, hung |-> FALSE, build |-> 0,
                app |-> "running"]
    /\ caps = [healthy |-> "unknown", sb |-> "none", trans |-> "closed", eps |-> NoEndpoints]
    /\ run = NotCalled
    /\ stack = <<>>
    /\ err = NoErr
    /\ result = NoErr
    /\ seen = {}
    /\ excuse = [closed |-> FALSE, off |-> FALSE, stale |-> FALSE, torn |-> FALSE]
    /\ calls = 0
    /\ faults = 0

Settings == {"off", "check_only", "on", "flash_build"}

UserCalls ==
    \/ \E s \in Settings : MakeDeviceReady(s)
    \/ PowerOffCall \/ PowerOnCall \/ PowerOnNoWait \/ CycleCall
    \/ UpgradeCall \/ EndpointsCall \/ Close

Steps ==
    \/ HubReady \/ StopIfOff \/ StopIfOn \/ SwitchOff \/ SwitchOn \/ Done
    \/ CreateSwitchboard \/ EnsureSwitchboard \/ Construct \/ CloseAll \/ OpenAll \/ CloseIfHealthy \/ OpenIfHealthy
    \/ PowerCyclingReady \/ PowerOn \/ CheckConnected \/ CheckResponsive \/ CheckService
    \/ CheckApp \/ RpcWorking \/ TryRpc \/ RpcAgain \/ TryRpcAgain \/ Checked
    \/ Fetch \/ FetchClass \/ FetchClusters \/ GetEndpoint \/ ResetEndpoints
    \/ Shell \/ Restart \/ Booted \/ Esptool \/ Flash \/ FlashCode \/ FlashError \/ BadArgument
    \/ TryCheck \/ Recover \/ TryCycle \/ EnableService \/ StartService \/ TryRecover
    \/ TryFinal \/ GiveUp \/ End

World == Unplug \/ Replug \/ HubDown \/ HubBack \/ Hangs \/ AppFails

Next == UserCalls \/ Steps \/ World

\* A call that began goes on: its steps are the statements of one thread.
Spec == Init /\ [][Next]_vars /\ WF_vars(Steps)

----------------------------------------------------------------------------

TypeOK ==
    /\ device \in Devices
    /\ world \in [port : {"sync", "off"}, hub : BOOLEAN, cable : BOOLEAN, hung : BOOLEAN,
                  build : {Bad, 0, 1}, app : {"running", "stopped", "disabled"}]
    /\ caps.healthy \in {"unknown", "yes", "no"}
    /\ caps.sb \in {"none", "up", "failed"}
    /\ caps.trans \in {"open", "closed", "stopped"}
    /\ caps.eps \in [of : {Bad, 0, 1}, class : SUBSET EndpointIds, clusters : SUBSET EndpointIds]
    /\ run.attempt \in 0..device.attempts
    /\ {err, result, run.recoverable, run.unrecoverable} \subseteq Errors \cup {NoErr}
    /\ Idle => err = NoErr

\* A call that returns leaves the transports open exactly when the device is
\* powered: off(), on(), cycle(), the restart inside a health check, recover()
\* and the flash flavors close them and open them again.  (A call that raises
\* may leave them closed, and on() of a port that is on does not open them.)
TransportsFollowPower == Idle /\ Mismatch => excuse.closed

\* A device is off because a user switched it off, or because the call that
\* would have switched it on raised: no recovery and no health check leaves a
\* device behind without power.
NeverLeftOff == Idle /\ world.port = "off" => excuse.off

\* make_device_ready() returns normally only when a whole readiness check passed
\* and it did not touch the device after that: the port is powered, and a
\* primary device has a switchboard that is up.
ReadyIsChecked ==
    Idle /\ run.call = "make_device_ready" /\ run.setting # "off" /\ result = NoErr =>
        /\ run.ready = <<world.port, world.build, caps.sb, caps.trans>>
        /\ run.ready[1] = "sync"
        /\ device.class # "auxiliary" => run.ready[3] = "up"

\* Unless it flashes, make_device_ready() raises only device errors that happened
\* during the call, as its docstring says, and never `raise None`: each way out of
\* the loop has set unrecoverable_error.
RaisesWhatHappened ==
    Idle /\ run.call = "make_device_ready" /\ run.setting # "flash_build" =>
        result \in (seen \cap DeviceErrors) \cup {NoErr}

\* At most _RECOVERY_ATTEMPTS recoveries, never two in a row from errors of one
\* type, and none when only a check was asked for.
RecoveryIsBounded ==
    LET r == run.recoveries
    IN /\ Len(r) <= IF run.setting = "check_only" THEN 0 ELSE device.attempts
       /\ \A i \in 1..(Len(r) - 1) : r[i] # r[i + 1]

\* The mapping of the endpoints is of the firmware that runs, unless the call
\* that flashed it raised: the flavors reset it after they flash.
EndpointsFresh == Idle /\ Outdated => excuse.stale

\* The mapping has every endpoint, with its clusters, unless an RPC failed in
\* the middle of a fetch: what was fetched so far is then taken for the whole.
MappingComplete == Idle /\ Incomplete => excuse.torn

\* make_device_ready() writes firmware only when it was told to and only after
\* the device was given up.
FlashIsLastResort ==
    [][run.call = "make_device_ready" /\ world'.build # world.build =>
          run.setting = "flash_build" /\ run.unrecoverable # NoErr]_vars

\* Every call returns or raises: the recovery loop and the restarts inside the
\* checks end.
CallsReturn == ~Idle ~> Idle

\* When a call is over, what the program holds agrees with the device:
\* transports with its power, the endpoint mapping with its firmware.
AgreesWithDevice ==
  /\ TypeOK
  /\ TransportsFollowPower
  /\ NeverLeftOff
  /\ EndpointsFresh
  /\ MappingComplete

\* How make_device_ready() ends is true of the device and of what happened,
\* after no more recoveries than the class allows.
ResultIsTrue == ReadyIsChecked /\ RaisesWhatHappened /\ RecoveryIsBounded
====
