------------------------------ MODULE AdbDevice ------------------------------
(***************************************************************************)
(* Devices reached with adb and fastboot: utility/adb_utils.py, the        *)
(* capabilities fastboot, package_management and file_transfer above it.   *)
(* A call is the sequence of steps that its function takes; between two of *)
(* them the device may reboot, the adb server notice that it left, another *)
(* program move a forwarded port, or the device update a package.          *)
(* adb may not reach the device, or lose the answer of a command that the  *)
(* device has obeyed. Some functions judge a command by its output, others *)
(* by its exit code, and fastboot commands are not judged at all.          *)
(* adb and fastboot are installed.                                         *)
(***************************************************************************)
EXTENDS Integers, Sequences, FiniteSets, SequencesExt

CONSTANTS
  MaxAdbCalls,    \* bound: calls in a behaviour
  MaxAdbFaults,   \* bound: lost answers, timeouts and events of the device's own
  AdbTries        \* attempts that fit in the timeout of a retry() or a poll

ASSUME AdbAssumption == MaxAdbCalls \in Nat /\ MaxAdbFaults \in Nat /\ AdbTries \in Nat \ {0}

VARIABLES
  dev,      \* the device: [mode, rooted, rw, verity, file, apks, ran, locked]
  server,   \* the adb server: [entry, forwards]
  acall,    \* the call in progress: [op, steps, tries, text, listed]
  seen,     \* what was so at some moment of the call: [now, apks]
  alog      \* faults, calls, what the device did in the call, and the last call's outcome

adbVars == <<dev, server, acall, seen, alog>>

Modes == {"device", "fastboot", "sideload", "booting"}
Serial == "a"        \* the device; "b" is another one of the same host
HostPort == 8008
App(name, v, hidden) == [name |-> name, v |-> v, hidden |-> hidden]
NoCall == [op |-> "idle"]
None == "none"

-----------------------------------------------------------------------------
(* What adb and fastboot list.                                             *)

adb_devices == IF server.entry = None THEN {} ELSE {<<Serial, server.entry>>}
InState(state) == {d[1] : d \in {e \in adb_devices : e[2] = state}}
get_adb_devices == InState("device")
get_sideload_devices == InState("sideload")
is_disconnected == Serial \notin {d[1] : d \in adb_devices}
is_sideload_mode == Serial \in get_sideload_devices
get_fastboot_devices == IF dev.mode = "fastboot" THEN {Serial} ELSE {}
is_fastboot_mode == Serial \in get_fastboot_devices
is_available == Serial \in get_adb_devices
is_pingable == dev.mode = "device"

list_port_forwarding(serial) == {f \in server.forwards : f.serial = serial}

\* What holds now of all that a function may have promised.
AdbNow ==
  {w \in {"available", "up", "away", "unlisted", "sideload", "fastboot", "left"} :
     CASE w = "available" -> is_available
       [] w = "up"        -> is_pingable
       [] w = "away"      -> ~(is_available /\ is_pingable)
       [] w = "unlisted"  -> is_disconnected
       [] w = "sideload"  -> is_sideload_mode
       [] w = "fastboot"  -> is_fastboot_mode
       [] w = "left"      -> ~is_fastboot_mode}

-----------------------------------------------------------------------------
(* What the shell commands of package_management print, and what is made   *)
(* of it. dumpsys lists the hidden system packages last.                   *)

Visible == {a \in dev.apks : ~a.hidden}
PartOf(name, part) == name = part \/ (part = "app" /\ name = "app2")
PmListPackages(part) == {a.name : a \in {b \in Visible : PartOf(b.name, part)}}
DumpsysPackage(name) ==
  <<{a \in Visible : a.name = name}, {a \in dev.apks : a.hidden /\ a.name = name}>>
DumpsysPackages == SetToSeq(Visible) \o SetToSeq(dev.apks \ Visible)

list_packages == {a.name : a \in Visible}
has_package(name) == name \in PmListPackages(name)
\* The part in front of "Hidden system packages:", or the one behind it.
get_package_system_info(name, hidden) == DumpsysPackage(name)[IF hidden THEN 2 ELSE 1]
get_value_from_package_sys_info(info) == {a.v : a \in info}
\* "Don't let the hidden system package version overwrite the value."
AddFirst(result, a) ==
  IF a.name \in DOMAIN result THEN result
  ELSE [n \in DOMAIN result \cup {a.name} |-> IF n = a.name THEN a.v ELSE result[n]]
get_package_versions == FoldLeft(AddFirst, << >>, DumpsysPackages)

-----------------------------------------------------------------------------
(* The steps of the functions.                                             *)

\* _adb_command(name): its output is judged by the failure messages ("text"), by
\* "Success" as well ("success"), by the exit code ("code") or by nobody ("pair");
\* retry() repeats it until its exit code is 0 ("retry") and its text is no failure ("connect").
Cmd(name, how, tries) == [do |-> "adb", name |-> name, how |-> how, tries |-> tries]
Fast(name) == [do |-> "fastboot", name |-> name]
\* Reads a condition until it is as wanted, or raises; or returns early if it is.
Poll(what, want, tries) == [do |-> "look", name |-> what, want |-> want, early |-> FALSE, tries |-> tries]
ReturnIf(what, want) == [do |-> "look", name |-> what, want |-> want, early |-> TRUE, tries |-> 1]
HostPath == [do |-> "path"]
PackageQuery(what) == [do |-> "query", name |-> what]
Call(name) == [do |-> "call", name |-> name]

connect == <<Cmd("connect", "connect", AdbTries), Poll("is_adb_mode", TRUE, AdbTries)>>
disconnect == <<Cmd("disconnect", "retry", AdbTries), Poll("is_disconnected", TRUE, AdbTries)>>
tcpip == <<Cmd("tcpip", "code", 1)>>
\* With include_return_code the first attempt is the answer.
shell(retries, include_return_code) ==
  IF include_return_code THEN <<Cmd("shell", "pair", 1)>> ELSE <<Cmd("shell", "text", retries)>>
reboot_device(retries) == <<Cmd("reboot", "text", retries)>>
root_device == <<Cmd("root", "text", 1)>>
Remount(reboot_fn) == [do |-> "again", fn |-> reboot_fn]
remount_device(reboot_fn) == root_device \o <<Cmd("remount", "text", 1), Remount(reboot_fn)>>
RemountAgain(reboot_fn) ==
  (IF reboot_fn THEN <<Call("reboot_fn")>> ELSE reboot_device(1))
  \o root_device \o <<Cmd("remount", "text", 1)>>
push_to_device(what) == <<HostPath, Cmd(what, "code", 1)>>
pull_from_device == <<HostPath, Cmd("pull", "code", 1)>>
bugreport == <<HostPath, Cmd("bugreport", "code", 1)>>
install_package_on_device == <<HostPath, Cmd("install", "success", 1)>>
uninstall_package_on_device == <<Cmd("uninstall", "success", 1)>>
add_port_forwarding == <<Cmd("forward", "code", 1)>>
remove_port_forwarding == <<Cmd("forward --remove", "code", 1)>>
enter_sideload == <<Cmd("reboot sideload", "text", 1)>>
sideload_package == <<HostPath, Cmd("sideload", "text", 1)>>
enter_fastboot == <<Cmd("reboot bootloader", "text", 1)>>
exit_fastboot == <<Fast("reboot")>>
fastboot_unlock_device == <<Fast("unlock")>>
fastboot_lock_device == <<Fast("lock")>>
fastboot_wipe_userdata == <<Fast("wipe")>>
fastboot_check_is_unlocked == <<Fast("getvar unlocked")>>
wait_for_device == <<Cmd("wait-for-device", "code", 1)>>
wait_for_device_offline == <<Poll("is_adb_mode", FALSE, AdbTries)>>
is_device_online == <<ReturnIf("is_adb_mode", TRUE), Poll("is_fastboot_mode", TRUE, 1)>>

\* FastbootDefault
is_in_fastboot_mode == <<Poll("is_fastboot_mode", TRUE, AdbTries)>>
enter == <<ReturnIf("is_fastboot_mode", TRUE)>> \o enter_fastboot \o is_in_fastboot_mode
exit == <<ReturnIf("is_fastboot_mode", FALSE)>> \o exit_fastboot
        \o <<Call("verify_reboot_fn"), Call("root_device_fn")>>

\* PackageManagementAndroid
install_package == install_package_on_device
uninstall_package == uninstall_package_on_device
\* Mutant: no reboot after the push.
InstallSystemNoReboot == remount_device(TRUE) \o push_to_device("push system")
install_system_package ==
  remount_device(TRUE) \o push_to_device("push system") \o <<Call("reboot_fn")>>
get_package_version(hidden) == <<PackageQuery("has_package"), PackageQuery(IF hidden THEN "hidden" ELSE "version")>>

\* FileTransferAdb
check_adb_mode == <<Poll("is_adb_mode", TRUE, 1)>>
send_file_to_device == <<HostPath>> \o check_adb_mode \o push_to_device("push")
recv_file_from_device == <<HostPath>> \o check_adb_mode \o pull_from_device \o <<HostPath>>

-----------------------------------------------------------------------------
(* The device and the adb server.                                          *)

\* What a command leaves, its output, and whether its exit code is 0.
Does(d, sv, text) == [dev |-> d, server |-> sv, text |-> text, zero |-> TRUE]
Refuses(text) == [dev |-> dev, server |-> server, text |-> text, zero |-> FALSE]
Down(d, mode) == [d EXCEPT !.mode = mode, !.rooted = FALSE, !.rw = FALSE]
Leaves(mode) ==
  IF alog.ip THEN server
  ELSE [entry |-> IF mode = "sideload" THEN mode ELSE None, forwards |-> list_port_forwarding("b")]
Reboots(mode) == Does(Down(dev, mode), Leaves(mode), "ok")

Old(apks, hidden) ==
  {IF a.name = "app" THEN [a EXCEPT !.hidden = hidden] ELSE a : a \in {b \in apks : b.v = 1}}
Installed(apks) == Old(apks, TRUE) \cup {App("app", 2, FALSE)}
Uninstalled(apks) == Old(apks, FALSE)
Forwarded(serial) ==
  {f \in server.forwards : f.host # HostPort} \cup {[serial |-> serial, host |-> HostPort]}
With(forwards) == [server EXCEPT !.forwards = forwards]

\* "adb connect" succeeds if the device is listed already, and may fail with exit code 0;
\* "adb disconnect" fails if it is not listed, and does nothing if it is offline.
DeviceObeys(name) ==
  CASE name = "connect" ->
         IF server.entry = "device" \/ dev.mode = "device"
         THEN Does(dev, [server EXCEPT !.entry = "device"], "ok") ELSE Does(dev, server, "failed to connect")
    [] name = "disconnect" ->
         IF server.entry = None THEN Refuses("no such device")
         ELSE IF server.entry = "offline" THEN Does(dev, server, "ok")
         ELSE Does(dev, [entry |-> None, forwards |-> list_port_forwarding("b")], "ok")
    [] name = "reboot" -> Reboots("booting")
    [] name = "reboot bootloader" -> Reboots("fastboot")
    [] name = "reboot sideload" -> Reboots("sideload")
    [] name = "sideload" -> Reboots("booting")
    [] name = "root" -> Does([dev EXCEPT !.rooted = TRUE], server, "ok")
    [] name = "remount" ->
         IF ~dev.rooted THEN Refuses("not running as root")
         ELSE IF dev.verity = "off" THEN Does([dev EXCEPT !.rw = TRUE], server, "ok")
         ELSE Does([dev EXCEPT !.verity = "pending"], server, "Now reboot your device")
    [] name = "push system" ->
         IF dev.rw THEN Does([dev EXCEPT !.file = "pushed"], server, "ok") ELSE Refuses("read-only")
    [] name = "install" -> Does([dev EXCEPT !.apks = Installed(@)], server, "ok")
    [] name = "uninstall" ->
         IF App("app", 2, FALSE) \in dev.apks THEN Does([dev EXCEPT !.apks = Uninstalled(@)], server, "ok")
         ELSE Refuses("not installed")
    [] name = "shell" -> Does([dev EXCEPT !.ran = @ + 1], server, "ok")
    [] name = "forward" -> Does(dev, With(Forwarded(Serial)), "ok")
    [] name = "forward --remove" ->
         IF list_port_forwarding(Serial) = {} THEN Refuses("no such listener")
         ELSE Does(dev, With(list_port_forwarding("b")), "ok")
    [] OTHER -> Does(dev, server, "ok")   \* push, pull, tcpip, bugreport, wait-for-device

Reached(name) ==
  CASE name \in {"connect", "disconnect", "forward --remove"} -> TRUE
    [] name = "wait-for-device" -> is_available
    [] name = "sideload" -> is_sideload_mode
    [] OTHER -> is_available /\ dev.mode = "device"
Unreached == {Refuses(t) : t \in {"adb: device offline", "device not found"}}
HasTimeout(name) == name \in {"shell", "bugreport", "wait-for-device"}

-----------------------------------------------------------------------------
(* The calls.                                                              *)

AdbInit ==
  /\ \E m \in {"device", "fastboot"}, v \in {"on", "off"}, ip, system, app2 \in BOOLEAN :
       /\ dev = [mode |-> m, rooted |-> FALSE, rw |-> FALSE, verity |-> v, file |-> None, ran |-> 0,
                 locked |-> TRUE,
                 apks |-> (IF system THEN {App("app", 1, FALSE)} ELSE {})
                            \cup (IF app2 THEN {App("app2", 1, FALSE)} ELSE {})]
       /\ server = [entry |-> IF m = "device" /\ ~ip THEN "device" ELSE None, forwards |-> {}]
       /\ alog = [ip |-> ip, calls |-> 0, faults |-> 0, lost |-> 0, blind |-> FALSE, did |-> {},
                  last |-> NoCall]
  /\ acall = NoCall /\ seen = [now |-> {}, apks |-> {}]

Busy == acall # NoCall
Watch ==
  seen' = IF acall' = NoCall THEN [now |-> {}, apks |-> {}]
          ELSE [now |-> seen.now \cup AdbNow', apks |-> seen.apks \cup {dev'.apks}]
Fault == alog.faults < MaxAdbFaults
Failing == [alog EXCEPT !.faults = @ + 1]
Blind == [Failing EXCEPT !.blind = TRUE]

\* The device or the server moves while a call may be in progress.
Meanwhile(d, sv, a) == dev' = d /\ server' = sv /\ alog' = a /\ UNCHANGED acall /\ Watch

BootEnds ==
  /\ dev.mode = "booting"
  /\ Meanwhile([dev EXCEPT !.mode = "device", !.verity = IF @ = "pending" THEN "off" ELSE @,
                           !.file = IF @ = "pushed" THEN "active" ELSE @],
               IF alog.ip THEN server ELSE [server EXCEPT !.entry = "device"], alog)
OwnReboot ==
  /\ Busy /\ Fault /\ dev.mode = "device"
  /\ Meanwhile(Down(dev, "booting"), Leaves("booting"), Failing)
OwnUpdate ==
  /\ Busy /\ Fault /\ dev.mode = "device"
  /\ \E apks \in {Installed(dev.apks), Uninstalled(dev.apks)} \ {dev.apks} :
       Meanwhile([dev EXCEPT !.apks = apks], server, Failing)
ServerNotices ==
  /\ alog.ip /\ is_available /\ dev.mode # "device"
  /\ Meanwhile(dev, [server EXCEPT !.entry = "offline"], alog)
OtherForwards ==
  /\ Fault /\ list_port_forwarding(Serial) # {}
  /\ Meanwhile(dev, With(Forwarded("b")), Failing)

StartCall(op, steps) ==
  /\ ~Busy /\ alog.calls < MaxAdbCalls
  /\ acall' = [op |-> op, steps |-> steps, tries |-> 1, text |-> "ok", listed |-> FALSE]
  /\ alog' = [alog EXCEPT !.calls = @ + 1, !.lost = 0, !.blind = FALSE, !.did = {}, !.last = NoCall]
  /\ dev' = [dev EXCEPT !.ran = 0] /\ UNCHANGED server /\ Watch

AdbStep == acall.steps[1]
At(do) == Busy /\ acall.steps # <<>> /\ AdbStep.do = do

\* The call ends here, by a return (with an answer) or by an error.
Finish(ok, answer, a) ==
  /\ acall' = NoCall
  /\ alog' = [a EXCEPT !.last = [op |-> acall.op, ok |-> ok, answer |-> answer, seen |-> seen]]
Raise(a) == Finish(FALSE, None, a)
Goto(steps, a) ==
  acall' = [acall EXCEPT !.steps = steps, !.tries = 1, !.listed = FALSE] /\ alog' = a
Pass(a) == Goto(Tail(acall.steps), a)
TryAgain(a) ==
  IF acall.tries < AdbStep.tries
  THEN acall' = [acall EXCEPT !.tries = @ + 1, !.listed = FALSE] /\ alog' = a
  ELSE Raise(a)

\* _adb_command judges by these two messages only; the others by what they are told.
Accepts(how, r) ==
  CASE how = "text"    -> r.text \notin {"error: closed", "adb: device offline"}
    [] how = "success" -> r.text = "ok"
    [] how \in {"code", "retry"} -> r.zero
    [] how = "connect" -> r.zero /\ r.text # "failed to connect"
    [] how = "pair"    -> TRUE

AdbAnswered(r, a) ==
  /\ dev' = r.dev /\ server' = r.server
  /\ IF Accepts(AdbStep.how, r)
     THEN /\ acall' = [acall EXCEPT !.steps = Tail(@), !.tries = 1, !.text = r.text] /\ alog' = a
     ELSE IF AdbStep.how \in {"text", "retry", "connect"} THEN TryAgain(a) ELSE Raise(a)

DeviceObeyed(a) == [a EXCEPT !.did = @ \cup (IF DeviceObeys(AdbStep.name).text = "ok" THEN {AdbStep.name} ELSE {})]
\* The output or the exit code that comes back is not that of the command.
Garbled(r, text) == [r EXCEPT !.text = text, !.zero = FALSE]

AdbCommand ==
  /\ At("adb")
  /\ LET name == AdbStep.name
         lost == [Failing EXCEPT !.lost = @ + 1]
     IN \/ Reached(name) /\ AdbAnswered(DeviceObeys(name), DeviceObeyed(alog))
        \/ ~Reached(name) /\ name # "wait-for-device" /\ \E r \in Unreached : AdbAnswered(r, alog)
        \/ Reached(name) /\ Fault /\ AdbAnswered(Garbled(DeviceObeys(name), "error: closed"), DeviceObeyed(lost))
        \/ Reached(name) /\ Fault /\ AdbAnswered(Refuses("error: closed"), lost)
        \* proc.terminate() after the timeout: what it printed so far, and -15.
        \/ HasTimeout(name) /\ Fault /\ AdbAnswered(Refuses("cut"), Failing)
        \/ HasTimeout(name) /\ Reached(name) /\ Fault
             /\ AdbAnswered(Garbled(DeviceObeys(name), "cut"), DeviceObeyed(Failing))
        \/ name = "wait-for-device" /\ ~Reached(name) /\ AdbAnswered(Refuses("cut"), alog)
  /\ Watch

\* _fastboot_command and exit_fastboot look neither at the exit code nor at the output;
\* only fastboot_check_is_unlocked raises when the output is not an answer.
FastbootObeys(name) ==
  CASE name = "reboot" -> [dev EXCEPT !.mode = "booting"]
    [] name = "unlock" -> [dev EXCEPT !.locked = FALSE]
    [] name = "lock"   -> [dev EXCEPT !.locked = TRUE]
    [] name = "wipe"   -> [dev EXCEPT !.apks = Uninstalled(@)]
    [] name = "getvar unlocked" -> dev
FastbootCommand ==
  /\ At("fastboot") /\ UNCHANGED server
  /\ \E obeyed, answered \in BOOLEAN :
       /\ obeyed => is_fastboot_mode
       /\ answered => obeyed
       /\ is_fastboot_mode /\ ~answered => Fault
       /\ dev' = IF obeyed THEN FastbootObeys(AdbStep.name) ELSE dev
       /\ LET a == IF is_fastboot_mode /\ ~answered THEN Failing ELSE alog
          IN  IF AdbStep.name # "getvar unlocked" THEN Pass(a)
              ELSE IF answered THEN Finish(TRUE, IF dev.locked THEN "no" ELSE "yes", a) ELSE Raise(a)
  /\ Watch

-----------------------------------------------------------------------------
(* Conditions.                                                             *)

\* The function that was polled returned v.
Sees(v, a) ==
  IF v = AdbStep.want
  THEN IF AdbStep.early THEN Finish(TRUE, None, a) ELSE Pass(a)
  ELSE IF AdbStep.early THEN Pass(a) ELSE TryAgain(a)

LooksAt(f) == At("look") /\ AdbStep.name = f /\ UNCHANGED <<dev, server>>

\* "adb devices" or "fastboot devices" that fails lists nothing.
is_adb_mode ==
  /\ LooksAt("is_adb_mode")
  /\ IF acall.listed \* over IP: "can show up as available even if the device is offline"
     THEN Sees(is_pingable, alog) \/ (Fault /\ Sees(FALSE, Blind))
     ELSE \/ alog.ip /\ is_available /\ acall' = [acall EXCEPT !.listed = TRUE] /\ UNCHANGED alog
          \/ ~(alog.ip /\ is_available) /\ Sees(is_available, alog)
          \/ Fault /\ Sees(FALSE, Blind)
  /\ Watch
LookAtList ==
  /\ \/ LooksAt("is_fastboot_mode") /\ (Sees(is_fastboot_mode, alog) \/ (Fault /\ Sees(FALSE, Blind)))
     \/ LooksAt("is_sideload_mode") /\ (Sees(is_sideload_mode, alog) \/ (Fault /\ Sees(FALSE, Blind)))
     \/ LooksAt("is_disconnected") /\ (Sees(is_disconnected, alog) \/ (Fault /\ Sees(TRUE, Blind)))
  /\ Watch

\* os.path.exists of a source, or of the directory of a destination.
CheckHostPath ==
  /\ At("path") /\ UNCHANGED <<dev, server>>
  /\ Pass(alog) \/ Raise(alog)
  /\ Watch

\* One shell command of a package query; the shell function may fail.
QueryPackages ==
  /\ At("query") /\ UNCHANGED <<dev, server>>
  /\ LET info(hidden) == get_package_system_info("app", hidden)
     IN \/ AdbStep.name = "list" /\ Finish(TRUE, list_packages, alog)
        \/ AdbStep.name = "versions" /\ Finish(TRUE, get_package_versions, alog)
        \/ AdbStep.name = "has" /\ Finish(TRUE, IF has_package("app") THEN "yes" ELSE "no", alog)
        \/ /\ AdbStep.name = "has_package"
           /\ IF has_package("app") THEN Pass(alog) ELSE Finish(TRUE, {}, alog)
        \/ /\ AdbStep.name = "version"   \* versionName is not in the output
           /\ IF info(FALSE) = {} THEN Raise(alog)
              ELSE Finish(TRUE, get_value_from_package_sys_info(info(FALSE)), alog)
        \/ /\ AdbStep.name = "hidden"    \* {} if there is no hidden part
           /\ Finish(TRUE, get_value_from_package_sys_info(info(TRUE)), alog)
  /\ dev.mode = "device"
  /\ Watch
QueryFails ==
  /\ At("query") /\ dev.mode # "device" /\ UNCHANGED <<dev, server>> /\ Raise(alog) /\ Watch

-----------------------------------------------------------------------------
\* "Now reboot your device for settings to take effect"
RemountIfAsked ==
  /\ At("again") /\ UNCHANGED <<dev, server>>
  /\ IF acall.text = "Now reboot your device"
     THEN Goto(RemountAgain(AdbStep.fn) \o Tail(acall.steps), alog) ELSE Pass(alog)
  /\ Watch

\* The functions that the device class gives to its capabilities.
Callback ==
  /\ At("call")
  /\ \/ /\ AdbStep.name = "reboot_fn" /\ dev.mode = "device"
        /\ dev' = Down(dev, "booting") /\ server' = Leaves("booting")
        /\ Goto(<<Call("verify_reboot_fn")>> \o Tail(acall.steps), alog)
     \/ /\ AdbStep.name = "verify_reboot_fn" /\ dev.mode = "device"
        /\ UNCHANGED <<dev, server>> /\ Pass(alog)
     \/ /\ AdbStep.name = "root_device_fn" /\ dev.mode = "device"
        /\ dev' = [dev EXCEPT !.rooted = TRUE] /\ UNCHANGED server /\ Pass(alog)
     \/ dev.mode # "device" /\ UNCHANGED <<dev, server>> /\ Raise(alog)
  /\ Watch

Returns == Busy /\ acall.steps = <<>> /\ Finish(TRUE, None, alog) /\ UNCHANGED <<dev, server>> /\ Watch

OverIp == alog.ip /\ (StartCall("connect", connect) \/ StartCall("disconnect", disconnect))
OverUsb ==
  /\ ~alog.ip
  /\ \/ StartCall("tcpip", tcpip) \/ StartCall("enter", enter) \/ StartCall("exit", exit)
     \/ StartCall("enter_sideload", enter_sideload) \/ StartCall("sideload", sideload_package)
     \/ StartCall("is_sideload", <<Poll("is_sideload_mode", TRUE, 1)>>)
     \/ StartCall("unlock", fastboot_unlock_device) \/ StartCall("lock", fastboot_lock_device)
     \/ StartCall("wipe", fastboot_wipe_userdata) \/ StartCall("unlocked", fastboot_check_is_unlocked)
     \/ StartCall("system", install_system_package)
Anyway ==
  \/ \E code \in BOOLEAN : StartCall("shell", shell(2, code))
  \/ StartCall("reboot", reboot_device(2)) \/ StartCall("remount", remount_device(FALSE))
  \/ StartCall("install", install_package) \/ StartCall("uninstall", uninstall_package)
  \/ StartCall("send", send_file_to_device) \/ StartCall("recv", recv_file_from_device)
  \/ StartCall("bugreport", bugreport) \/ StartCall("online", is_device_online)
  \/ StartCall("forward", add_port_forwarding) \/ StartCall("unforward", remove_port_forwarding)
  \/ StartCall("wait", wait_for_device) \/ StartCall("offline", wait_for_device_offline)
  \/ \E q \in {"list", "versions", "has"} : StartCall(q, <<PackageQuery(q)>>)
  \/ StartCall("version", get_package_version(FALSE)) \/ StartCall("hidden", get_package_version(TRUE))

AdbNext ==
  \/ BootEnds \/ OwnReboot \/ OwnUpdate \/ ServerNotices \/ OtherForwards
  \/ AdbCommand \/ FastbootCommand \/ is_adb_mode \/ LookAtList \/ CheckHostPath
  \/ QueryPackages \/ QueryFails \/ RemountIfAsked \/ Callback \/ Returns
  \/ OverIp \/ OverUsb \/ Anyway

AdbSpec == AdbInit /\ [][AdbNext]_adbVars

-----------------------------------------------------------------------------
(* Properties.                                                             *)

\* State is of its type; the list of devices over USB is never stale.
AdbTypeOK ==
  /\ dev.mode \in Modes /\ dev.file \in {None, "pushed", "active"} /\ dev.ran \in 0..2
  /\ server.entry \in {None, "device", "offline", "sideload"}
  /\ ~alog.ip => (is_available <=> dev.mode = "device")
  /\ Cardinality(server.forwards) <= 1
  /\ Busy => acall.tries \in 1..AdbTries + 1

Did(op) == alog.last # NoCall /\ alog.last.op = op /\ alog.last.ok

\* A function returns normally only when the device was during the call as it
\* promises, each fact at some moment of it. A failing "adb devices" lists nothing and passes
\* for a device that is gone, as a failing "fastboot devices" does for one that left fastboot.
Promise ==
  [connect |-> {"available", "up"}, send |-> {"available", "up"}, recv |-> {"available", "up"},
   wait |-> {"available"}, offline |-> {"away"}, disconnect |-> {"unlisted"},
   is_sideload |-> {"sideload"}, enter |-> {"fastboot"}, exit |-> {"left"}]
SeenIsTrue ==
  /\ \A op \in DOMAIN Promise : Did(op) =>
       \/ Promise[op] \subseteq alog.last.seen.now
       \/ alog.blind /\ op \in {"disconnect", "offline", "exit"}
  /\ Did("online") => alog.last.seen.now \cap {"up", "fastboot"} # {}

\* A command that is judged by its exit code or by "Success" was obeyed when the function
\* returns normally, whatever answers were lost.
Needs == [install |-> "install", uninstall |-> "uninstall", send |-> "push", recv |-> "pull",
          bugreport |-> "bugreport", forward |-> "forward", unforward |-> "forward --remove",
          tcpip |-> "tcpip", connect |-> "connect", system |-> "push system"]
ObeyedIsTrue == \A op \in DOMAIN Needs : Did(op) => Needs[op] \in alog.did

\* A shell command runs again only after an answer was lost, and a call that waits
\* for the exit code never repeats it.
RepeatsAreForced == dev.ran <= 1 + alog.lost

\* install_system_package returns normally only when the package is in force: pushed to a
\* partition that was writable, and the device restarted since.
SystemPackageInForce == Did("system") => dev.file = "active"

\* What a package query answers was so at some moment of the call, although it takes two
\* commands, and the version of a hidden system package is never taken for that of the
\* update that hides it.
VersionIn(apks, hidden) == {a.v : a \in {b \in apks : b.name = "app" /\ b.hidden = hidden}}
VersionsIn(apks) ==
  LET visible == {a \in apks : ~a.hidden}
  IN  [n \in {a.name : a \in visible} |-> (CHOOSE a \in visible : a.name = n).v]
PackagesAsInstalled ==
  LET some(P(_)) == \E apks \in alog.last.seen.apks : P(apks)
      answer == alog.last.answer
  IN  /\ Did("version") => some(LAMBDA s : answer = VersionIn(s, FALSE))
      /\ Did("hidden") => some(LAMBDA s : answer = VersionIn(s, TRUE))
      /\ Did("versions") => some(LAMBDA s : answer = VersionsIn(s))
      /\ Did("list") => some(LAMBDA s : answer = DOMAIN VersionsIn(s))
      /\ Did("has") => some(LAMBDA s : answer = IF "app" \in DOMAIN VersionsIn(s) THEN "yes" ELSE "no")
      /\ Did("unlocked") => answer = IF dev.locked THEN "no" ELSE "yes"

\* A function that returns normally has done on the device what it is for,
\* once, whatever answers were lost.
SuccessIsTrue ==
  /\ AdbTypeOK
  /\ SeenIsTrue
  /\ ObeyedIsTrue
  /\ RepeatsAreForced
  /\ SystemPackageInForce
  /\ PackagesAsInstalled
=============================================================================
