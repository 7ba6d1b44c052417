---------------------------- MODULE MatterCluster ----------------------------
(***************************************************************************)
(* The Matter cluster capabilities: what a call of a cluster's method does *)
(* to the attributes of the end device.                                    *)
(*                                                                         *)
(* A method is a short program of requests (read an attribute, write one,  *)
(* send a command, read back and compare) that goes to the device one      *)
(* request at a time, over Pigweed RPC (..PwRpc classes) or through        *)
(* chip-tool in a shell (..ChipTool classes). Between two requests another *)
(* client of the device may change an attribute; a request may fail before *)
(* or after the device acted on it; and the SSH shell of a Raspberry Pi    *)
(* controller sends a command again when the connection died.              *)
(***************************************************************************)
EXTENDS Integers, Sequences, FiniteSets, TLC

CONSTANTS
  ClusterArgs,      \* values handed to setters and commands
  MaxOthers,        \* changes another client makes during the call
  SshTries          \* SshDevice/AuxiliaryDevice shell_capability, tries=2

ASSUME ClusterAssumption ==
  /\ ClusterArgs \subseteq Nat /\ ClusterArgs # {}
  /\ MaxOthers \in Nat /\ SshTries \in Nat \ {0}

VARIABLES
  mcCall,     \* [class, via, method, arg, verify]: the call under way
  mcSteps,    \* the requests of the call that are still to come
  mcReg,      \* the value the last read of the call returned
  mcAttr,     \* attribute -> value, on the end device
  mcStart,    \* mcAttr when the call started
  mcOthers,   \* attribute -> what other clients added to it during the call
  mcTries,    \* sends left for the current request
  mcResent,   \* a command the device had obeyed was sent again
  mcRaced,    \* another client came between a read of the call and its write
  mcOut       \* "running" | "ok" | "error" (DeviceError) | "type_error"

mcVars == <<mcCall, mcSteps, mcReg, mcAttr, mcStart, mcOthers, mcTries,
            mcResent, mcRaced, mcOut>>

-----------------------------------------------------------------------------
(* Requests. A value is given outright or in terms of the value the call   *)
(* last read (for a command: of the attribute the device holds).           *)

Const(v) == [k |-> "const", v |-> v]
Flip     == [k |-> "flip", v |-> 0]
Plus(d)  == [k |-> "plus", v |-> d]

Value(e, now) ==
  CASE e.k = "const" -> e.v
    [] e.k = "flip"  -> 1 - now
    [] e.k = "plus"  -> now + e.v

Request(op, a, e) == [op |-> op, at |-> a, to |-> e]
ReadOf(a)      == Request("read", a, Const(0))
WriteTo(a, e)  == Request("write", a, e)
SendTo(a, e)   == Request("send", a, e)
Compare(a, e)  == Request("compare", a, e)
ClusterRefused        == Request("type_error", "none", Const(0))

Verify(verify, a, e) == IF verify THEN <<Compare(a, e)>> ELSE <<>>

\* The methods of a class: <<"get" | "set" | "do", name>> -> program.
Getters(S)     == [m \in {<<"get", a>> : a \in S} |-> <<ReadOf(m[2])>>]
Setters(S, P(_)) == [m \in {<<"set", a>> : a \in S} |-> P(m[2])]
Method(name, program) == <<"do", name>> :> program

-----------------------------------------------------------------------------
(* The cluster classes. x is the argument of the call.                     *)

OnOffClusterPwRpc(x, verify) ==
  LET Command(e) == <<WriteTo("on_off", e)>> \o Verify(verify, "on_off", e)
  IN  Getters({"on_off"})
      @@ Method("on", Command(Const(1))) @@ Method("off", Command(Const(0)))
      @@ Method("toggle", <<ReadOf("on_off")>> \o Command(Flip))

OnOffClusterChipTool(x, verify) ==
  LET Command(e) == <<SendTo("on_off", e)>> \o Verify(verify, "on_off", e)
  IN  Getters({"on_off"})
      @@ Method("on", Command(Const(1))) @@ Method("off", Command(Const(0)))
      @@ Method("toggle", <<ReadOf("on_off")>> \o Command(Flip))

LevelControlClusterPwRpc(x, verify) ==
  Getters({"current_level", "min_level", "max_level"})
  @@ Method("move_to_level",
            <<ReadOf("current_level"), WriteTo("current_level", Const(x))>>
            \o Verify(verify, "current_level", Const(x)))

LevelControlClusterChipTool(x, verify) ==
  Getters({"current_level", "min_level", "max_level"})
  @@ Method("move_to_level",
            <<ReadOf("current_level"), SendTo("current_level", Const(x))>>
            \o Verify(verify, "current_level", Const(x)))

LOCKED   == 1
UNLOCKED == 2

DoorLockClusterPwRpc(x, verify) ==
  LET Set(a, v, check) ==
        <<WriteTo(a, Const(v))>> \o Verify(check, a, Const(v))
  IN  Getters({"lock_state"})
      @@ Setters({"lock_state"}, LAMBDA a : Set(a, x, TRUE))
      @@ Method("lock_door", Set("lock_state", LOCKED, verify))
      @@ Method("unlock_door", Set("lock_state", UNLOCKED, verify))
      @@ Method("set_require_pin", Set("require_pin", x, verify))
      @@ Method("set_auto_relock_time", Set("auto_relock_time", x, verify))

\* The two attribute setters hand matter_controller.write() the keyword of
\* the other flavor (data_bool=, data_uint16=) and fail before any request.
DoorLockClusterChipTool(x, verify) ==
  LET Command(v) == <<SendTo("lock_state", Const(v))>>
                    \o Verify(verify, "lock_state", Const(v))
  IN  Getters({"lock_state"})
      @@ Method("lock_door", Command(LOCKED))
      @@ Method("unlock_door", Command(UNLOCKED))
      @@ Method("set_require_pin", <<ClusterRefused>>)
      @@ Method("set_auto_relock_time", <<ClusterRefused>>)

WindowCoveringClusterPwRpc(x, verify) ==
  LET Positions == {"lift_percentage", "target_lift",
                    "tilt_percentage", "target_tilt"}
  IN  Getters(Positions)
      @@ Setters(Positions, LAMBDA a : <<WriteTo(a, Const(x)),
                                         Compare(a, Const(x))>>)

\* Raises or lowers a setpoint: amount is in steps of 0.1 degrees, the
\* attribute in steps of 0.01.
RaisePwRpc(a, x) == <<ReadOf(a), WriteTo(a, Plus(x * 10))>>

ThermostatClusterPwRpc(x, verify) ==
  LET Attrs == {"local_temperature", "cooling_setpoint", "occupancy",
                "heating_setpoint", "control_sequence", "system_mode"}
  IN  Getters(Attrs) @@ Setters(Attrs, LAMBDA a : <<WriteTo(a, Const(x))>>)
      @@ Method("ac_louver_position", <<WriteTo("louver", Const(x))>>)

\* Mutant: mode BOTH reads the cooling setpoint and does not write it.
ThermostatRaisesHeat(x) ==
  Method("raise_heat", RaisePwRpc("heating_setpoint", x))
  @@ Method("raise_cool", RaisePwRpc("cooling_setpoint", x))
  @@ Method("raise_both", RaisePwRpc("heating_setpoint", x) \o <<ReadOf("cooling_setpoint")>>)

ThermostatRaisePwRpc(x) ==
  Method("raise_heat", RaisePwRpc("heating_setpoint", x))
  @@ Method("raise_cool", RaisePwRpc("cooling_setpoint", x))
  @@ Method("raise_both", RaisePwRpc("heating_setpoint", x)
                          \o RaisePwRpc("cooling_setpoint", x))

\* One command moves both setpoints: the device adds to what it holds.
ThermostatClusterChipTool(x, verify) ==
  LET Attrs == {"cooling_setpoint", "heating_setpoint", "control_sequence",
                "system_mode"}
      Limits == {"min_heat", "max_heat", "min_cool", "max_cool"}
      Raise(a) == <<SendTo(a, Plus(x * 10))>>
  IN  Getters(Attrs \cup Limits \cup {"local_temperature"})
      @@ Setters(Attrs, LAMBDA a : <<WriteTo(a, Const(x))>>)
      @@ Method("raise_heat", Raise("heating_setpoint"))
      @@ Method("raise_cool", Raise("cooling_setpoint"))
      @@ Method("raise_both", Raise("both_setpoints"))
      @@ Method("ac_louver_position", <<SendTo("louver", Const(x))>>)

TEMPERATURE == 2    \* ColorMode.TEMPERATURE

ColorControlClusterPwRpc(x, verify) ==
  LET Move(a) == <<ReadOf(a), WriteTo(a, Const(x))>>
                 \o Verify(verify, a, Const(x))
  IN  Getters({"hue", "saturation", "mireds", "color_mode"})
      @@ Method("move_to_hue", Move("hue"))
      @@ Method("move_to_saturation", Move("saturation"))

ColorTemperaturePwRpc(x, verify) ==
  Method("move_to_color_temperature",
         <<ReadOf("mireds"), ReadOf("color_mode"), WriteTo("mireds", Const(x)),
           WriteTo("color_mode", Const(TEMPERATURE))>>
         \o Verify(verify, "mireds", Const(x))
         \o Verify(verify, "color_mode", Const(TEMPERATURE)))

\* percent_setting writes, and reads back, fan_mode_sequence.
FanControlClusterPwRpc(x, verify) ==
  LET Attrs == {"fan_mode", "fan_mode_sequence", "percent_setting",
                "percent_current", "speed_max", "speed_setting",
                "speed_current"}
      Of(a) == IF a = "percent_setting" THEN "fan_mode_sequence" ELSE a
  IN  Getters(Attrs)
      @@ Setters(Attrs, LAMBDA a : <<WriteTo(Of(a), Const(x)),
                                     Compare(Of(a), Const(x))>>)

OccupancySensingClusterPwRpc(x, verify) ==
  Getters({"occupancy", "sensor_type", "sensor_type_bitmap"})
  @@ Setters({"occupancy"}, LAMBDA a : <<WriteTo(a, Const(x)),
                                         Compare(a, Const(x))>>)

OccupancySensingClusterChipTool(x, verify) ==
  Getters({"occupancy", "sensor_type", "sensor_type_bitmap"})

\* set_current_position reads the position back whether or not it compares.
SwitchClusterPwRpc(x, verify) ==
  Getters({"position"})
  @@ Method("set_current_position",
            <<WriteTo("position", Const(x)),
              IF verify THEN Compare("position", Const(x))
                        ELSE ReadOf("position")>>)
  @@ Method("generate_initial_press_event", <<WriteTo("position", Const(1))>>)

\* As in the door lock, write() is called with a keyword it does not take.
SwitchClusterChipTool(x, verify) ==
  Getters({"position"}) @@ Method("set_current_position", <<ClusterRefused>>)

BooleanStateClusterPwRpc(x, verify) ==
  Getters({"state_value"})
  @@ Setters({"state_value"}, LAMBDA a : <<SendTo(a, Const(x))>>)

AirQualityClusterPwRpc(x, verify) ==
  Getters({"air_quality"})
  @@ Setters({"air_quality"}, LAMBDA a : <<WriteTo(a, Const(x))>>)

Measured == {"measured_value", "min_measured_value", "max_measured_value"}

\* Flow, pressure and relative humidity; the base of the other two.
MeasurementClusterBase(x, verify) ==
  Getters(Measured)
  @@ Setters(Measured, LAMBDA a : <<WriteTo(a, Const(x)), Compare(a, Const(x))>>)

\* All five measurements through chip-tool (the value goes as a list).
MeasurementClusterChipToolBase(x, verify) ==
  Getters(Measured)
  @@ Setters(Measured, LAMBDA a : <<WriteTo(a, Const(x)), Compare(a, Const(x))>>)

IlluminanceMeasurementClusterPwRpc(x, verify) ==
  Getters({"light_sensor_type"})
  @@ Setters({"light_sensor_type", "measured_value"},
             LAMBDA a : <<WriteTo(a, Const(x))>>)
  @@ MeasurementClusterBase(x, verify)

TemperatureMeasurementClusterPwRpc(x, verify) ==
  Setters({"measured_value"}, LAMBDA a : <<WriteTo(a, Const(x))>>)
  @@ MeasurementClusterBase(x, verify)

Information == {"data_model_revision", "vendor_name", "vendor_id",
                "product_name", "product_id", "node_label", "location",
                "hardware_version", "hardware_version_string",
                "software_version", "software_version_string",
                "capability_minima", "manufacturing_date", "part_number",
                "product_url", "product_label", "serial_number", "unique_id"}

BasicInformationClusterPwRpc(x, verify) ==
  Getters(Information \ {"capability_minima"})
BasicInformationClusterChipTool(x, verify) == Getters(Information)

-----------------------------------------------------------------------------
(* A call.                                                                 *)

PwRpcClasses(x, v) ==
  [OnOff |-> OnOffClusterPwRpc(x, v), LevelControl |-> LevelControlClusterPwRpc(x, v),
   DoorLock |-> DoorLockClusterPwRpc(x, v), WindowCovering |-> WindowCoveringClusterPwRpc(x, v),
   Thermostat |-> ThermostatClusterPwRpc(x, v) @@ ThermostatRaisePwRpc(x),
   ColorControl |-> ColorControlClusterPwRpc(x, v) @@ ColorTemperaturePwRpc(x, v),
   FanControl |-> FanControlClusterPwRpc(x, v), OccupancySensing |-> OccupancySensingClusterPwRpc(x, v),
   Switch |-> SwitchClusterPwRpc(x, v), BooleanState |-> BooleanStateClusterPwRpc(x, v),
   AirQuality |-> AirQualityClusterPwRpc(x, v), Measurement |-> MeasurementClusterBase(x, v),
   Illuminance |-> IlluminanceMeasurementClusterPwRpc(x, v),
   Temperature |-> TemperatureMeasurementClusterPwRpc(x, v),
   BasicInformation |-> BasicInformationClusterPwRpc(x, v)]

ChipToolClasses(x, v) ==
  [OnOff |-> OnOffClusterChipTool(x, v), LevelControl |-> LevelControlClusterChipTool(x, v),
   DoorLock |-> DoorLockClusterChipTool(x, v), Thermostat |-> ThermostatClusterChipTool(x, v),
   OccupancySensing |-> OccupancySensingClusterChipTool(x, v),
   Switch |-> SwitchClusterChipTool(x, v), Measurement |-> MeasurementClusterChipToolBase(x, v),
   BasicInformation |-> BasicInformationClusterChipTool(x, v)]

\* pw_rpc: a board on its RPC port. host: ChipTool, tries=1. ssh: the
\* Raspberry Pi controller.
Classes(via, x, v) == IF via = "pw_rpc" THEN PwRpcClasses(x, v) ELSE ChipToolClasses(x, v)

Tries(via) == IF via = "ssh" THEN SshTries ELSE 1

\* The attributes a request is about.
About(a) == IF a = "both_setpoints" THEN {"heating_setpoint", "cooling_setpoint"}
                                    ELSE {a} \ {"none"}

\* What the method is for, by its documentation: the attributes it sets and
\* their values, given those before the call.
Aim(call, before) ==
  LET To(a, v) == a :> v
      x == call.arg
      m == call.method[2]
      none == [a \in {} |-> 0]
  IN  IF call.method[1] = "get" THEN none
      ELSE IF call.method[1] = "set" THEN To(m, x)
      ELSE CASE m = "on" -> To("on_off", 1)
             [] m = "off" -> To("on_off", 0)
             [] m = "toggle" -> To("on_off", 1 - before["on_off"])
             [] m = "move_to_level" -> To("current_level", x)
             [] m = "lock_door" -> To("lock_state", LOCKED)
             [] m = "unlock_door" -> To("lock_state", UNLOCKED)
             [] m = "set_require_pin" -> To("require_pin", x)
             [] m = "set_auto_relock_time" -> To("auto_relock_time", x)
             [] m = "ac_louver_position" -> To("louver", x)
             [] m = "move_to_hue" -> To("hue", x)
             [] m = "move_to_saturation" -> To("saturation", x)
             [] m = "move_to_color_temperature" ->
                  To("mireds", x) @@ To("color_mode", TEMPERATURE)
             [] m = "set_current_position" -> To("position", x)
             [] m = "generate_initial_press_event" -> To("position", 1)
             [] m = "raise_heat" ->
                  To("heating_setpoint", before["heating_setpoint"] + 10 * x)
             [] m = "raise_cool" ->
                  To("cooling_setpoint", before["cooling_setpoint"] + 10 * x)
             [] m = "raise_both" ->
                  To("heating_setpoint", before["heating_setpoint"] + 10 * x)
                  @@ To("cooling_setpoint", before["cooling_setpoint"] + 10 * x)

Relative == {"toggle", "raise_heat", "raise_cool", "raise_both"}

\* The attributes a call could have to do with.
Concerned(call, steps) ==
  UNION {About(steps[i].at) : i \in DOMAIN steps}
  \cup (IF call.method[1] = "set" THEN {call.method[2]} ELSE {})

Via == {"pw_rpc", "host", "ssh"}

ClusterInit ==
  \E via \in Via, x \in ClusterArgs, v \in BOOLEAN :
  \E class \in DOMAIN Classes(via, x, v) :
  \E method \in DOMAIN Classes(via, x, v)[class] :
    LET call  == [class |-> class, via |-> via, method |-> method,
                  arg |-> x, verify |-> v]
        steps == Classes(via, x, v)[class][method]
        attrs == Concerned(call, steps)
    IN  /\ method[1] = "get" => x \in {1} /\ v
        /\ mcCall = call
        /\ mcSteps = steps
        /\ mcAttr \in [attrs -> {0, 1}]
        /\ mcStart = mcAttr
        /\ mcOthers = [a \in attrs |-> 0]
        /\ mcTries = Tries(via)
        /\ mcReg = 0 /\ mcResent = FALSE /\ mcRaced = FALSE /\ mcOut = "running"

-----------------------------------------------------------------------------
(* Actions.                                                                *)

Step == Head(mcSteps)
Active == mcOut = "running" /\ mcSteps # <<>>

\* What the device does with the request.
Obeyed ==
  [a \in DOMAIN mcAttr |->
     IF a \notin About(Step.at) THEN mcAttr[a]
     ELSE CASE Step.op = "write" -> Value(Step.to, mcReg)
            [] Step.op = "send"  -> Value(Step.to, mcAttr[a])
            [] OTHER             -> mcAttr[a]]

\* The request is answered: the call goes on with the next one, unless the
\* value read back is not the one wanted.
RequestAnswered ==
  /\ Active /\ Step.op # "type_error"
  /\ mcAttr' = Obeyed
  /\ mcReg' = IF Step.op = "read" THEN mcAttr[Step.at] ELSE mcReg
  /\ mcOut' = IF Step.op = "compare" /\ mcAttr[Step.at] # Value(Step.to, mcReg)
                THEN "error" ELSE mcOut
  /\ mcSteps' = Tail(mcSteps)
  /\ mcTries' = Tries(mcCall.via)
  /\ UNCHANGED <<mcCall, mcStart, mcOthers, mcResent, mcRaced>>

\* No answer in time, a status other than 0, or a lost connection: the call
\* raises DeviceError. The device may have obeyed all the same.
RequestFails ==
  /\ Active /\ Step.op # "type_error"
  /\ mcAttr' \in {mcAttr, Obeyed}
  /\ mcOut' = "error"
  /\ UNCHANGED <<mcCall, mcSteps, mcReg, mcStart, mcOthers, mcTries, mcResent, mcRaced>>

\* The SSH connection died with the command; the shell sends it once more.
ShellSendsAgain ==
  /\ Active /\ Step.op # "type_error"
  /\ mcTries > 1
  /\ mcTries' = mcTries - 1
  /\ mcAttr' \in {mcAttr, Obeyed}
  /\ mcResent' = (mcResent \/ mcAttr' # mcAttr)
  /\ UNCHANGED <<mcCall, mcSteps, mcReg, mcStart, mcOthers, mcRaced, mcOut>>

\* write() does not take the keywords of the call.
WriteRefused ==
  /\ Active /\ Step.op = "type_error"
  /\ mcOut' = "type_error"
  /\ UNCHANGED <<mcCall, mcSteps, mcReg, mcAttr, mcStart, mcOthers, mcTries, mcResent, mcRaced>>

CallReturns ==
  /\ mcOut = "running" /\ mcSteps = <<>>
  /\ mcOut' = "ok"
  /\ UNCHANGED <<mcCall, mcSteps, mcReg, mcAttr, mcStart, mcOthers, mcTries, mcResent, mcRaced>>

\* Another client changes an attribute while the call is under way.
OtherClient(a) ==
  /\ mcOut = "running"
  /\ Cardinality({b \in DOMAIN mcOthers : mcOthers[b] # 0}) < MaxOthers
  /\ LET d == IF mcAttr[a] = 1 THEN -1 ELSE 1
     IN  /\ mcOthers[a] = 0
         /\ mcAttr' = [mcAttr EXCEPT ![a] = @ + d]
         /\ mcOthers' = [mcOthers EXCEPT ![a] = d]
  /\ mcRaced' = (mcRaced \/ (Active /\ Step.op = "write" /\ Step.to.k # "const"))
  /\ UNCHANGED <<mcCall, mcSteps, mcReg, mcStart, mcTries, mcResent, mcOut>>

CallEnded == mcOut # "running" /\ UNCHANGED mcVars

ClusterNext ==
  \/ RequestAnswered \/ RequestFails \/ ShellSendsAgain \/ WriteRefused
  \/ CallReturns \/ CallEnded
  \/ \E a \in DOMAIN mcAttr : OtherClient(a)

ClusterSpec == ClusterInit /\ [][ClusterNext]_mcVars

-----------------------------------------------------------------------------
(* Properties.                                                             *)

\* The state of a call keeps its type.
ClusterTypeOK ==
  /\ mcOut \in {"running", "ok", "error", "type_error"}
  /\ mcTries \in 0..SshTries /\ mcReg \in Int
  /\ DOMAIN mcAttr = DOMAIN mcStart /\ DOMAIN mcOthers = DOMAIN mcStart
  /\ \A a \in DOMAIN mcAttr : mcAttr[a] \in Int

\* The methods that read the value back: those with a parameter verify, and
\* these setters, always.
DefaultVerifies(call) ==
  \/ call.method[1] = "set" /\ call.class \in {"WindowCovering", "OccupancySensing", "Measurement"}
  \/ call.method[2] \in {"on", "off", "toggle", "move_to_level", "lock_door", "unlock_door",
                         "set_require_pin", "set_auto_relock_time", "move_to_hue",
                         "move_to_saturation", "move_to_color_temperature", "set_current_position"}

Moved == {a \in DOMAIN mcOthers : mcOthers[a] # 0}

\* FanControl.percent_setting sets another attribute than it is named for.
MisdirectedSetter == mcCall.class = "FanControl" /\ mcCall.method = <<"set", "percent_setting">>

\* A call that returns has set the attributes it is for to the values it is
\* for, and no other attribute: as far as nobody else wrote them meanwhile.
\* (A command sent twice over SSH is the next property's matter.)
CallDoesItsAim ==
  mcOut = "ok" /\ ~mcResent /\ ~MisdirectedSetter =>
    LET aim == Aim(mcCall, mcStart) @@ mcStart
    IN  \A a \in DOMAIN mcAttr \ Moved : mcAttr[a] = aim[a]

\* A call that verified returns only with the value in force, even when the
\* shell sent its command twice: a light toggled twice is reported.
VerifiedHolds ==
  mcOut = "ok" /\ mcCall.verify /\ DefaultVerifies(mcCall) =>
    \A a \in DOMAIN Aim(mcCall, mcStart) \ Moved : mcAttr[a] = Aim(mcCall, mcStart)[a]

\* A relative change (toggle, raise or lower a setpoint) and the changes of
\* other clients add up, unless one of them fell between the read and the
\* write of a read-modify-write; a command the device executes itself never
\* loses one.
ChangesAddUp ==
  mcOut = "ok" /\ mcCall.method[2] \in Relative /\ ~mcResent
    /\ (mcCall.via = "pw_rpc" => ~mcRaced) =>
    \A a \in DOMAIN Aim(mcCall, mcStart) :
       IF mcCall.method[2] = "toggle"
         THEN (mcAttr[a] - Aim(mcCall, mcStart)[a] - mcOthers[a]) % 2 = 0
         ELSE mcAttr[a] = Aim(mcCall, mcStart)[a] + mcOthers[a]

\* A call that fails leaves each attribute as it was or as it should be, and
\* of two attributes the later one only changes after the earlier: a color
\* mode TEMPERATURE never comes without its temperature.
FailureLeavesPrefix ==
  mcOut = "error" /\ ~mcResent /\ ~MisdirectedSetter =>
    LET aim == Aim(mcCall, mcStart)
        done(a) == mcAttr[a] = aim[a]
    IN  /\ \A a \in DOMAIN mcAttr \ Moved :
             mcAttr[a] = mcStart[a] \/ (a \in DOMAIN aim /\ done(a))
        /\ {"mireds", "color_mode"} \subseteq DOMAIN aim \ Moved /\ done("color_mode") => done("mireds")
        /\ {"heating_setpoint", "cooling_setpoint"} \subseteq DOMAIN aim \ Moved
             /\ done("cooling_setpoint") => done("heating_setpoint")

\* A method of a cluster does to the attributes what it is for, or fails
\* leaving a prefix of it, with requests that are repeated and other clients in
\* between.
ClusterCallsAreHonest ==
  /\ ClusterTypeOK
  /\ CallDoesItsAim
  /\ VerifiedHolds
  /\ ChangesAddUp
  /\ FailureLeavesPrefix
=============================================================================
