--------------------------- MODULE DeviceLifecycle ---------------------------
(***************************************************************************)
(* Device instances and the Manager's registry of open devices:            *)
(* create_device, create_and_close_device, close_device and                *)
(* close_open_devices of gazoo_device/manager.py, close() and __del__ of   *)
(* base_classes/gazoo_device_base.py and auxiliary_device.py, and the      *)
(* claim a device's power capabilities hold on a shared power hub          *)
(* (capabilities/device_power_default.py, comm_power_default.py).          *)
(*                                                                         *)
(* An auxiliary device (the hub) is shared: create_device returns the open *)
(* instance and counts its users.  A primary device is created once.       *)
(* The registry, _open_devices, is keyed by device name; instances remove  *)
(* their name from it when they close.                                     *)
(***************************************************************************)
EXTENDS Naturals, FiniteSets

CONSTANTS
  Primary,      \* names of primary devices
  Hub,          \* name of the auxiliary device that powers them
  Caps,         \* capabilities of a primary device that use the hub
  MaxInstances, \* bound: device objects created
  MaxChecks     \* bound: health checks run by one capability instance

ASSUME LifecycleAssumption ==
  /\ Hub \notin Primary /\ MaxInstances \in Nat /\ MaxChecks \in Nat
  /\ IsFiniteSet(Caps)

Names == Primary \cup {Hub}
Instances == 1..MaxInstances
None == 0

VARIABLES
  created,     \* number of instances constructed
  inst,        \* the instances
  openDevices, \* Manager._open_devices: name -> instance or None
  mpc,         \* call in progress: "idle", "making", "closeAll", "forceAll"
  making,      \* the instance make_device_ready runs on
  todo,        \* instances close_open_devices has still to close
  context,     \* the instance a create_and_close_device block is to close, or None
  stale,       \* history: an instance was closed after its device was created anew
  doubled      \* history: a capability created its hub while it held one

vars == <<created, inst, openDevices, mpc, making, todo, context, stale, doubled>>

\* state: "none", "open", "closed", "deleted"; users: _user_count; hub: the
\* capability's _hub; checks: health checks the capability has run; held: how
\* often the user has created and not closed it; ref: the user has a reference.
Blank == [name |-> Hub, state |-> "none", users |-> 0, hub |-> [c \in Caps |-> None],
          checks |-> [c \in Caps |-> 0], held |-> 0, ref |-> FALSE]

Constructed(n) == [Blank EXCEPT !.name = n, !.state = "open", !.users = 1]

Init ==
  /\ created = 0 /\ inst = [i \in Instances |-> Blank]
  /\ openDevices = [n \in Names |-> None]
  /\ mpc = "idle" /\ making = None /\ todo = {} /\ context = None
  /\ stale = FALSE /\ doubled = FALSE

-----------------------------------------------------------------------------
(* close(): what it does to the instances and the registry.                *)

World == [inst |-> inst, open |-> openDevices]

Minus(a, b) == IF a > b THEN a - b ELSE 0

\* Mutant: reset_all_capabilities drops the capabilities without closing them.
ClosePrimaryForgetsHubs(w, i) ==
  [inst |-> [w.inst EXCEPT ![i].state = "closed", ![i].hub = [c \in Caps |-> None],
                           ![i].checks = [c \in Caps |-> 0]],
   open |-> [w.open EXCEPT ![w.inst[i].name] = None]]
\* GazooDeviceBase.close: reset_all_capabilities closes each power capability,
\* which closes its hub once; then the device's name leaves the registry.
ClosePrimary(w, i) ==
  LET closes(h) == Cardinality({c \in Caps : w.inst[i].hub[c] = h})
      gone == {h \in Instances : w.inst[h].users \in 1..closes(h)}
  IN [inst |-> [h \in Instances |->
         IF h = i THEN [w.inst[i] EXCEPT !.state = "closed", !.hub = [c \in Caps |-> None],
                                         !.checks = [c \in Caps |-> 0]]
         ELSE [w.inst[h] EXCEPT !.users = Minus(@, closes(h)),
                                !.state = IF h \in gone THEN "closed" ELSE @]],
      open |-> [n \in Names |->
         IF n = w.inst[i].name \/ (n = Hub /\ gone # {}) THEN None ELSE w.open[n]]]

\* AuxiliaryDevice.close: the last user, or force, releases the resources.
CloseAuxiliary(w, i, force) ==
  IF force \/ w.inst[i].users = 1
  THEN [inst |-> [w.inst EXCEPT ![i].users = 0, ![i].state = "closed"],
        open |-> [w.open EXCEPT ![w.inst[i].name] = None]]
  ELSE [w EXCEPT !.inst[i].users = Minus(@, 1)]

Closed(w, i, force) ==
  IF w.inst[i].name = Hub THEN CloseAuxiliary(w, i, force) ELSE ClosePrimary(w, i)

Becomes(w) == inst' = w.inst /\ openDevices' = w.open

\* Another instance of i's device is registered.
Superseded(i) == openDevices[inst[i].name] \notin {None, i}

-----------------------------------------------------------------------------
(* create_device                                                           *)

\* _get_device_class: construct and register; then make_device_ready.
CreateNew(n) ==
  /\ mpc = "idle" /\ openDevices[n] = None /\ created < MaxInstances
  /\ created' = created + 1
  /\ inst' = [inst EXCEPT ![created + 1] = Constructed(n)]
  /\ openDevices' = [openDevices EXCEPT ![n] = created + 1]
  /\ mpc' = "making" /\ making' = created + 1
  /\ UNCHANGED <<todo, context, stale, doubled>>

MakeReady == \* create_device returns the instance to the user
  /\ mpc = "making"
  /\ inst' = [inst EXCEPT ![making].ref = TRUE, ![making].held = 1]
  /\ mpc' = "idle" /\ making' = None
  /\ UNCHANGED <<created, openDevices, todo, context, stale, doubled>>

MakeReadyFails == \* DeviceError: close() and raise
  /\ mpc = "making"
  /\ Becomes(Closed(World, making, FALSE))
  /\ mpc' = "idle" /\ making' = None
  /\ UNCHANGED <<created, todo, context, stale, doubled>>

\* The device is open: a primary is returned (raise_if_already_open=False) or an
\* error raised, an auxiliary device counts one more user.
CreateOpen(n) ==
  /\ mpc = "idle" /\ openDevices[n] # None
  /\ LET i == openDevices[n] IN
       IF n = Hub THEN inst[i].held < 2 \* bound
                       /\ inst' = [inst EXCEPT ![i].users = @ + 1, ![i].held = @ + 1,
                                               ![i].ref = TRUE]
                  ELSE inst' = [inst EXCEPT ![i].ref = TRUE]
  /\ UNCHANGED <<created, openDevices, mpc, making, todo, context, stale, doubled>>

-----------------------------------------------------------------------------
(* Power capabilities.                                                     *)

\* health_check: create_device(hub_name), whether or not _hub is set already.
Claim(w, i, c) ==
  [w EXCEPT !.inst[w.open[Hub]].users = @ + 1, !.inst[i].hub[c] = w.open[Hub]]

CanCheck(i, c) ==
  /\ inst[i].state = "open" /\ inst[i].name # Hub /\ inst[i].checks[c] < MaxChecks
  /\ mpc = "idle" \/ (mpc = "making" /\ making = i)

HealthCheckOpenHub(i, c) ==
  /\ CanCheck(i, c) /\ openDevices[Hub] # None
  /\ doubled' = (doubled \/ inst[i].hub[c] # None)
  /\ Becomes(LET w == Claim(World, i, c) IN [w EXCEPT !.inst[i].checks[c] = @ + 1])
  /\ UNCHANGED <<created, mpc, making, todo, context, stale>>

HealthCheckNewHub(i, c) == \* creates the hub; it is ready at once
  /\ CanCheck(i, c) /\ openDevices[Hub] = None /\ created < MaxInstances
  /\ created' = created + 1
  /\ doubled' = (doubled \/ inst[i].hub[c] # None)
  /\ inst' = [inst EXCEPT ![created + 1] = Constructed(Hub),
                          ![i].hub[c] = created + 1, ![i].checks[c] = @ + 1]
  /\ openDevices' = [openDevices EXCEPT ![Hub] = created + 1]
  /\ UNCHANGED <<mpc, making, todo, context, stale>>

HealthCheckHubFails(i, c) == \* the new hub is not ready and is closed again
  /\ CanCheck(i, c) /\ openDevices[Hub] = None /\ created < MaxInstances
  /\ created' = created + 1
  /\ inst' = [inst EXCEPT ![created + 1] = [Constructed(Hub) EXCEPT !.users = 0,
                                                                  !.state = "closed"],
                          ![i].checks[c] = @ + 1]
  /\ UNCHANGED <<openDevices, mpc, making, todo, context, stale, doubled>>

-----------------------------------------------------------------------------
(* Closing.                                                                *)

\* The user closes an instance it created; a hub once per creation.
Close(i) ==
  /\ mpc = "idle" /\ inst[i].ref
  /\ inst[i].name = Hub => inst[i].held > 0
  /\ stale' = (stale \/ Superseded(i))
  /\ LET w == Closed(World, i, FALSE) IN
       inst' = [w.inst EXCEPT ![i].held = Minus(@, 1)] /\ openDevices' = w.open
  /\ UNCHANGED <<created, mpc, making, todo, context, doubled>>

DropReference(i) ==
  /\ mpc = "idle" /\ inst[i].ref
  /\ inst' = [inst EXCEPT ![i].ref = FALSE]
  /\ UNCHANGED <<created, openDevices, mpc, making, todo, context, stale, doubled>>

Referenced(i) ==
  \/ inst[i].ref \/ openDevices[inst[i].name] = i \/ making = i \/ context = i \/ i \in todo
  \/ \E j \in Instances, c \in Caps : inst[j].hub[c] = i

Del(i) == \* __del__: close(), close(force=True) for an auxiliary device
  /\ inst[i].state \in {"open", "closed"} /\ ~Referenced(i)
  /\ stale' = (stale \/ Superseded(i))
  /\ LET w == Closed(World, i, TRUE) IN
       inst' = [w.inst EXCEPT ![i].state = "deleted"] /\ openDevices' = w.open
  /\ UNCHANGED <<created, mpc, making, todo, context, doubled>>

\* create_and_close_device: decide before creating whether to close at the end.
\* An open primary device is left open: nothing to remember.
Enter ==
  /\ mpc = "idle" /\ context = None /\ openDevices[Hub] # None
  /\ LET i == openDevices[Hub] IN
       inst' = [inst EXCEPT ![i].users = @ + 1] /\ context' = i
  /\ UNCHANGED <<created, openDevices, mpc, making, todo, stale, doubled>>

EnterNew(n) ==
  /\ mpc = "idle" /\ context = None /\ openDevices[n] = None /\ created < MaxInstances
  /\ created' = created + 1
  /\ inst' = [inst EXCEPT ![created + 1] = Constructed(n)]
  /\ openDevices' = [openDevices EXCEPT ![n] = created + 1]
  /\ context' = created + 1
  /\ UNCHANGED <<mpc, making, todo, stale, doubled>>

Exit ==
  /\ mpc = "idle" /\ context # None
  /\ stale' = (stale \/ Superseded(context))
  /\ Becomes(Closed(World, context, FALSE))
  /\ context' = None
  /\ UNCHANGED <<created, mpc, making, todo, doubled>>

Registered == {openDevices[n] : n \in Names} \ {None}

CloseOpenDevices == \* list(self._open_devices.values())
  /\ mpc = "idle" /\ context = None
  /\ mpc' = "closeAll" /\ todo' = Registered
  /\ UNCHANGED <<created, inst, openDevices, making, context, stale, doubled>>

CloseAll ==
  /\ mpc = "closeAll"
  /\ IF todo # {}
     THEN \E i \in todo :
          /\ todo' = todo \ {i} /\ Becomes(Closed(World, i, FALSE))
          /\ UNCHANGED mpc
     ELSE mpc' = "forceAll" /\ todo' = Registered /\ UNCHANGED <<inst, openDevices>>
  /\ UNCHANGED <<created, making, context, stale, doubled>>

ForceAll ==
  /\ mpc = "forceAll"
  /\ IF todo # {}
     THEN \E i \in todo :
          /\ todo' = todo \ {i} /\ Becomes(Closed(World, i, TRUE))
          /\ UNCHANGED mpc
     ELSE mpc' = "idle" /\ UNCHANGED <<todo, inst, openDevices>>
  /\ UNCHANGED <<created, making, context, stale, doubled>>

-----------------------------------------------------------------------------
Next ==
  \/ \E n \in Names : CreateNew(n) \/ CreateOpen(n) \/ EnterNew(n)
  \/ MakeReady \/ MakeReadyFails \/ Enter \/ Exit
  \/ \E i \in Instances, c \in Caps : HealthCheckOpenHub(i, c)
       \/ HealthCheckNewHub(i, c) \/ HealthCheckHubFails(i, c)
  \/ \E i \in Instances : Close(i) \/ DropReference(i) \/ Del(i)
  \/ CloseOpenDevices \/ CloseAll \/ ForceAll

Spec == Init /\ [][Next]_vars

-----------------------------------------------------------------------------
TypeOK ==
  /\ created \in 0..MaxInstances
  /\ inst \in [Instances ->
       [name : Names, state : {"none", "open", "closed", "deleted"}, users : Nat,
        hub : [Caps -> 0..MaxInstances], checks : [Caps -> Nat], held : Nat,
        ref : BOOLEAN]]
  /\ openDevices \in [Names -> 0..MaxInstances]
  /\ mpc \in {"idle", "making", "closeAll", "forceAll"}
  /\ making \in 0..MaxInstances /\ context \in 0..MaxInstances
  /\ todo \subseteq Instances /\ stale \in BOOLEAN /\ doubled \in BOOLEAN

\* get_open_device never hands out a closed instance, or another device's: what
\* is registered is an open instance of that name.
RegisteredIsOpen ==
  \A n \in Names : openDevices[n] # None
    => inst[openDevices[n]].state = "open" /\ inst[openDevices[n]].name = n

\* A hub stays open as long as a power capability of some device refers to it
\* and the device is open, whoever else closes it (a device that lost its entry
\* in the registry to a stale close is not closed before its hub).
HubOpenWhileHeld ==
  ~stale /\ mpc \in {"idle", "making"} =>
    \A i \in Instances, c \in Caps :
      inst[i].state = "open" /\ inst[i].hub[c] # None => inst[inst[i].hub[c]].state = "open"

\* "creating a primary or virtual device which is already open raises an error":
\* create_device knows every open instance, so it never makes a second one,
\* until an instance is closed or collected after its successor was created.
OneOpenInstance ==
  ~stale => \A i, j \in Instances :
    /\ inst[i].state = "open" /\ inst[j].state = "open" /\ inst[i].name = inst[j].name
    => i = j

\* An open hub is in use by a capability, by the user, or by a
\* create_and_close_device block.
HubsInUse ==
  mpc = "idle" => \A h \in Instances :
    inst[h].state = "open" /\ inst[h].name = Hub
      => \/ inst[h].held > 0 \/ context = h
         \/ \E i \in Instances, c \in Caps : inst[i].hub[c] = h

\* The hub is released by its last user, over every order of creations, checks,
\* failures and closes in which no capability takes the hub twice.
HubReleased == ~doubled => HubsInUse

\* Registry, instances and hubs agree, whatever is created, closed, closed
\* again or collected in whatever order.
RegistryIsRight ==
  /\ TypeOK
  /\ RegisteredIsOpen
  /\ HubOpenWhileHeld
  /\ OneOpenInstance
  /\ HubReleased
=============================================================================
