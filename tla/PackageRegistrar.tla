-------------------------- MODULE PackageRegistrar --------------------------
(***************************************************************************)
(* Registration of extension packages (package_registrar.py, with          *)
(* conformance_utils.py and capability_base.py): a process registers       *)
(* packages one after the other, each in a series of checks and updates of *)
(* the tables of extensions.py.  A check that fails restores the tables;   *)
(* any other exception leaves them as they are.  New processes (the next   *)
(* gdm command, the processes of a pool) register the same packages again. *)
(*                                                                         *)
(* Classes are described by the constants: what reflection finds of them.  *)
(***************************************************************************)
EXTENDS Naturals, Sequences, FiniteSets, TLC

CONSTANTS
    Capability,  \* capability class |-> [name, mro, valid, concrete, default,
                 \*                       override, sub, uses, conforms]
    Device,      \* device class |-> [base, type, comm, caps, valid, conforms]
    Comm,        \* communication type |-> [name, valid]
    KeyPath,     \* key |-> path of its file
    Package,     \* import path |-> what the package is and exports
    BuiltIn,     \* gazoo_device_controllers
    None,        \* no value
    MaxSteps,    \* registrations the user asks for
    MaxSpawns    \* new processes

ASSUME ClassesKnown ==
    /\ \A c \in DOMAIN Capability :
         /\ Capability[c].mro # <<>> /\ Head(Capability[c].mro) = c
         /\ \A k \in DOMAIN Capability[c].mro : Capability[c].mro[k] \in DOMAIN Capability
         /\ Capability[c].sub \subseteq DOMAIN Capability
         /\ Capability[c].uses \subseteq DOMAIN Device
    /\ \A d \in DOMAIN Device : \A cap \in Device[d].caps :
         cap.flavors # {} /\ cap.flavors \subseteq DOMAIN Capability
    \* one name, one class, among the communication types of a package
    /\ \A p \in DOMAIN Package : \A c, e \in Package[p].comms :
         Comm[c].name = Comm[e].name => c = e
    /\ BuiltIn \in DOMAIN Package

VARIABLES
    ext,     \* the tables of extensions.py
    names,   \* lru_cache of get_capability_name(): class |-> name
    reg,     \* the registration in progress, or the end of the last one
    cli,     \* "cli_extension_packages" of gdm.json
    todo,    \* packages a new process has still to register
    parent,  \* the tables of the process that started this one
    odd,     \* what happened that the documentation does not speak of
    count    \* [steps, spawns] so far

vars == <<ext, names, reg, cli, todo, parent, odd, count>>

Range(f) == {f[x] : x \in DOMAIN f}
Empty == [x \in {} |-> None]

\* extensions.py as it is imported.
NoExtensions ==
    [auxiliary |-> {}, primary |-> {}, virtual |-> {},
     interfaces |-> Empty, capabilities |-> Empty, flavors |-> Empty,
     comms |-> Empty, criteria |-> Empty, packages |-> <<>>,
     keys |-> Empty, mixins |-> <<>>]

\* The backup of register() and what it brings back; the list of mixins is
\* the last table to be changed and is not part of it.
CopyExtensions == ext
\* Mutant: the flavors are not restored.
RestoreKeepsFlavors(backup) == [backup EXCEPT !.mixins = ext.mixins, !.flavors = ext.flavors]

RestoreExtensions(backup) == [backup EXCEPT !.mixins = ext.mixins]

PackageName(p)  == Package[p].name
PackageNames(t) == {PackageName(p) : p \in Range(t.packages)}

\* All device classes of the tables t.
Devices(t) == t.auxiliary \cup t.primary \cup t.virtual

-----------------------------------------------------------------------------
(* Names of capabilities.                                                  *)

\* generate_name() of a class: a clash is two classes of one name.
ClassName(c)  == Capability[c].name
NamesOf(S)    == {ClassName(c) : c \in S}
ByName(S)     == [n \in NamesOf(S) |-> CHOOSE c \in S : ClassName(c) = n]

\* A class, or the nearest class it inherits from, may override
\* get_capability_name().
Overriding(c) == SelectSeq(Capability[c].mro, LAMBDA k : Capability[k].override # None)

\* get_capability_interface(): the nearest interface the tables know, in the
\* order of method resolution.
KnownInterfaces(c, known) == SelectSeq(Capability[c].mro, LAMBDA k : k \in known)

\* get_default_capability_name() of an interface is in the constants; None
\* stands for a class name without "Base" at its end (RuntimeError).
GetInterfaceName(c, known) == Capability[Head(KnownInterfaces(c, known))].default

\* get_capability_name() raises a TypeError when no interface is known.
HasName(c, known, cache) ==
    \/ Overriding(c) # <<>>
    \/ c \in DOMAIN cache
    \/ KnownInterfaces(c, known) # <<>>

GetCapabilityName(c, known, cache) ==
    CASE Overriding(c) # <<>> -> Capability[Head(Overriding(c))].override
      [] Overriding(c) = <<>> /\ c \in DOMAIN cache -> cache[c]
      [] OTHER -> GetInterfaceName(c, known)

\* What the cache holds after get_capability_name() was called for the
\* classes S: an override has no cache, and an exception is not cached.
Cached(S, known, cache) ==
    LET asked == {c \in S : /\ Overriding(c) = <<>> /\ c \notin DOMAIN cache
                            /\ KnownInterfaces(c, known) # <<>>
                            /\ GetInterfaceName(c, known) # None}
    IN  [c \in asked |-> GetInterfaceName(c, known)] @@ cache

\* get_shared_capability_interface(): the classes inherit from one class
\* below CapabilityBase; it is the first such class of any of them.
Ancestors(c) == Range(Capability[c].mro)
CommonAncestors(S) ==
    {a \in UNION {Ancestors(c) : c \in S} : \A c \in S : a \in Ancestors(c)}
SharedInterface(S) ==
    Head(SelectSeq(Capability[CHOOSE c \in S : TRUE].mro, LAMBDA k : k \in CommonAncestors(S)))

-----------------------------------------------------------------------------
(* Implicit export.                                                        *)

FlavorsOf(d)      == UNION {cap.flavors : cap \in Device[d].caps}
WithSubFlavors(F) == F \cup UNION {Capability[f].sub : f \in F}
UsedBy == [d \in DOMAIN Device |->
             UNION {Capability[f].uses : f \in WithSubFlavors(FlavorsOf(d))}]

\* The loop of _implicit_export(): the device classes, those their
\* capabilities use, and so on.
AllDeviceClasses(D) ==
    LET grow[n \in 0..Cardinality(DOMAIN Device)] ==
          IF n = 0 THEN D
          ELSE LET S == grow[n - 1] IN S \cup UNION {UsedBy[d] : d \in S}
    IN  grow[Cardinality(DOMAIN Device)]

\* The parents of a flavor that are interfaces: abstract classes, classes
\* without public attributes, and those exported as interfaces.
InterfacesOf(f, additional) ==
    {k \in Range(Tail(Capability[f].mro)) : ~Capability[k].concrete \/ k \in additional}

ImplicitExport(new) ==
    LET given == new.auxiliary \cup new.primary \cup new.virtual
        all   == AllDeviceClasses(given)
        flavors == UNION {WithSubFlavors(FlavorsOf(d)) : d \in all}
    IN  [auxiliary  |-> new.auxiliary
                        \cup {d \in all \ given : Device[d].base = "auxiliary"},
         primary    |-> new.primary \cup {d \in all \ given : Device[d].base = "primary"},
         virtual    |-> new.virtual,
         flavors    |-> new.flavors \cup flavors,
         interfaces |-> new.interfaces
                        \cup UNION {InterfacesOf(f, new.interfaces) : f \in flavors},
         comms      |-> new.comms \cup ({Device[d].comm : d \in all} \ {None})]

-----------------------------------------------------------------------------
(* The checks.  Each is true when no PackageRegistrationError is raised.   *)

\* _validate_extension_package().
ExtensionPackageValid(p) ==
    /\ PackageName(p) \notin PackageNames(ext)
    /\ Package[p].version
    /\ Package[p].exporter

\* _assert_subclasses(), for device classes: concrete classes of the base
\* that goes with the list.
DevicesAreOf(D, base) == \A d \in D : Device[d].valid /\ Device[d].base = base

\* _assert_unique() of the names of a set of classes.
Unique(name) == \A c, e \in DOMAIN name : name[c] = name[e] => c = e

\* _raise_if_redefined(): a name may come again with the same class only.
NotRedefined(new, old) == \A n \in DOMAIN new \cap DOMAIN old : new[n] = old[n]

DeviceType(d) == Device[d].type

\* Mutant: the types are compared within the package only.
DeviceTypesOfPackage(new) ==
    LET exported == new.auxiliary \cup new.primary \cup new.virtual
    IN  /\ DevicesAreOf(new.auxiliary, "auxiliary")
        /\ DevicesAreOf(new.primary, "primary")
        /\ DevicesAreOf(new.virtual, "primary")
        /\ Unique([d \in exported |-> DeviceType(d)])

\* _validate_device_class_type_and_uniqueness().
DeviceTypesValid(new) ==
    LET exported == new.auxiliary \cup new.primary \cup new.virtual
        known    == Devices(ext)
    IN  /\ DevicesAreOf(new.auxiliary, "auxiliary")
        /\ DevicesAreOf(new.primary, "primary")
        /\ DevicesAreOf(new.virtual, "primary")
        /\ Unique([d \in exported |-> DeviceType(d)])
        /\ {DeviceType(d) : d \in exported \ known} \cap {DeviceType(d) : d \in known} = {}

\* The name the check of interfaces uses: the default one where the class is
\* not known yet.
NameForCheck(i) ==
    IF HasName(i, Range(ext.interfaces), names)
      THEN GetCapabilityName(i, Range(ext.interfaces), names)
      ELSE Capability[i].default

\* The interfaces of a capability name, new and known ones together.
InterfacesNamed(n, new) ==
    {i \in new : NameForCheck(i) = n}
    \cup (IF n \in DOMAIN ext.capabilities
            THEN {ext.interfaces[k] : k \in ext.capabilities[n]} ELSE {})

\* _validate_capability_interfaces().
InterfacesValid(new) ==
    LET capNames == {NameForCheck(i) : i \in new}
    IN  /\ \A i \in new : Capability[i].valid
        /\ Unique([c \in new |-> ClassName(c)])
        /\ NotRedefined(ByName(new), ext.interfaces)
        /\ NamesOf(new) \cap capNames = {}
        /\ \A n \in capNames \cup DOMAIN ext.capabilities :
             CommonAncestors(InterfacesNamed(n, new)) # {}

\* _validate_capability_flavors(), with the conformance of the classes.
FlavorsValid(new) ==
    /\ \A f \in new : Capability[f].valid /\ Capability[f].concrete
    /\ Unique([c \in new |-> ClassName(c)])
    /\ NotRedefined(ByName(new), ext.flavors)
    /\ NamesOf(new) \cap (DOMAIN ext.interfaces \cup DOMAIN ext.capabilities) = {}
    /\ DOMAIN ext.interfaces \cap DOMAIN ext.capabilities = {}
    /\ \A f \in new : Capability[f].conforms

\* _validate_capability_definition(): the flavors are registered, share a
\* class, and the property has the name of the capability.
DefinitionValid(cap) ==
    /\ cap.flavors \subseteq Range(ext.flavors)
    /\ CommonAncestors(cap.flavors) # {}
    /\ LET shared == SharedInterface(cap.flavors)
       IN  /\ HasName(shared, Range(ext.interfaces), names)
           /\ cap.name = GetCapabilityName(shared, Range(ext.interfaces), names)

\* _validate_device_class_conformance().
DeviceConforms(d) == Device[d].conforms /\ \A cap \in Device[d].caps : DefinitionValid(cap)

\* _validate_comm_type_classes().
CommsByName(S) == [n \in {Comm[c].name : c \in S} |-> CHOOSE c \in S : Comm[c].name = n]
CommsValid(new) ==
    /\ \A c \in new : Comm[c].valid
    /\ NotRedefined(CommsByName(new), ext.comms)

\* _validate_detect_criteria().
CriteriaValid(p, new) ==
    /\ ~Package[p].badQuery
    /\ DOMAIN Package[p].criteria
         \subseteq DOMAIN ext.criteria \cup {Comm[c].name : c \in new.comms}

\* _validate_keys(): no two keys in one file.
Path(k) == KeyPath[k]
KeysValid(p) == Unique([k \in DOMAIN ext.keys \cup Package[p].keys |-> Path(k)])

\* _validate_manager_cli_mixin().
MixinValid(p) == Package[p].mixin # "bad"

-----------------------------------------------------------------------------
(* register(), step by step.                                               *)

Nothing == [auxiliary |-> {}, primary |-> {}, virtual |-> {},
            flavors |-> {}, interfaces |-> {}, comms |-> {}]
Exports(p) == [auxiliary |-> Package[p].auxiliary, primary |-> Package[p].primary,
               virtual |-> Package[p].virtual, flavors |-> Package[p].flavors,
               interfaces |-> Package[p].interfaces, comms |-> Package[p].comms]

Ended(p, caller, end, backup) ==
    [pc |-> "idle", package |-> p, caller |-> caller, new |-> Nothing,
     backup |-> backup, known |-> {}, late |-> {}, end |-> end]

Idle == reg.pc = "idle"
At(pc) == reg.pc = pc
Goto(pc) == reg' = [reg EXCEPT !.pc = pc]

\* `raise PackageRegistrationError`: the tables are restored, the cache of
\* names is not.
Fail ==
    /\ ext' = RestoreExtensions(reg.backup)
    /\ reg' = Ended(reg.package, reg.caller, "refused", reg.backup)
    /\ odd' = [odd EXCEPT !.stale = @ \/ DOMAIN names' # reg.known, !.late = reg.late]

\* Any other exception: nothing is restored.
Escape ==
    /\ UNCHANGED ext
    /\ reg' = Ended(reg.package, reg.caller, "escaped", NoExtensions)
    /\ odd' = [odd EXCEPT !.partial = @ \/ ext # reg.backup,
                          !.stale = @ \/ DOMAIN names' # reg.known]

Outside == UNCHANGED <<cli, todo, parent, count>>

\* register(), up to the backup: a package that is not valid, and one whose
\* export_extensions() raises, is turned away before anything happens.
Begin(p, caller) ==
    LET valid == ExtensionPackageValid(p)
    IN  reg' = IF valid /\ Package[p].raises # "export_extensions"
                 THEN [pc |-> "types", package |-> p, caller |-> caller,
                       new |-> Exports(p), backup |-> CopyExtensions,
                       known |-> DOMAIN names, late |-> odd.late, end |-> "none"]
                 ELSE Ended(p, caller, IF valid THEN "escaped" ELSE "refused", IF valid THEN NoExtensions ELSE ext)

CheckDeviceTypes ==
    /\ At("types")
    /\ UNCHANGED names /\ Outside
    /\ IF DeviceTypesValid(reg.new)
         THEN Goto("export") /\ UNCHANGED <<ext, odd>>
         ELSE Fail

\* _implicit_export() asks the classes what they support, and checks the
\* device classes again.
AddImplicitExports ==
    /\ At("export")
    /\ UNCHANGED names /\ Outside
    /\ LET all == ImplicitExport(reg.new)
       IN  CASE Package[reg.package].raises = "export" -> Escape
             [] Package[reg.package].raises # "export" /\ ~DeviceTypesValid(all) -> Fail
             [] OTHER -> /\ reg' = [reg EXCEPT !.pc = "interfaces", !.new = all]
                         /\ UNCHANGED <<ext, odd>>

\* The interfaces are checked and registered, and their capabilities merged
\* with the known ones.
RegisterInterfaces ==
    /\ At("interfaces")
    /\ Outside
    /\ LET new    == reg.new.interfaces
           asked  == Cached(new, Range(ext.interfaces), names)
           all    == ByName(new) @@ ext.interfaces
           cache  == Cached(new, Range(all), asked)
           nameOf(i) == GetCapabilityName(i, Range(all), asked)
           named(n)  == {ClassName(i) : i \in {j \in new : nameOf(j) = n}}
           before(n) == IF n \in DOMAIN ext.capabilities THEN ext.capabilities[n] ELSE {}
           caps   == [n \in {nameOf(i) : i \in new} |-> named(n) \cup before(n)]
       IN  CASE \E i \in new : NameForCheck(i) = None -> names' = asked /\ Escape
             [] (\A i \in new : NameForCheck(i) # None) /\ ~InterfacesValid(new) ->
                  names' = asked /\ Fail
             [] OTHER ->
                  /\ ext' = [ext EXCEPT !.interfaces = all, !.capabilities = caps @@ @]
                  /\ names' = cache
                  /\ odd' = [odd EXCEPT !.late = @ \cup
                               ((NamesOf(new) \cup DOMAIN caps) \cap DOMAIN ext.flavors)]
                  /\ Goto("flavors")

RegisterFlavors ==
    /\ At("flavors")
    /\ UNCHANGED names /\ Outside
    /\ CASE Package[reg.package].raises = "flavors" -> Escape
         [] Package[reg.package].raises # "flavors" /\ ~FlavorsValid(reg.new.flavors) -> Fail
         [] OTHER -> /\ ext' = [ext EXCEPT !.flavors = ByName(reg.new.flavors) @@ @]
                     /\ Goto("devices")
                     /\ UNCHANGED odd

\* Device classes are checked once the capabilities are known.
CheckDevices ==
    /\ At("devices")
    /\ Outside
    /\ LET classes == reg.new.auxiliary \cup reg.new.primary \cup reg.new.virtual
           shared  == {SharedInterface(cap.flavors) :
                         cap \in {k \in UNION {Device[d].caps : d \in classes} :
                                    /\ k.flavors \subseteq Range(ext.flavors)
                                    /\ CommonAncestors(k.flavors) # {}}}
       IN  /\ names' = Cached(shared, Range(ext.interfaces), names)
           /\ CASE Package[reg.package].raises = "devices" -> Escape
                [] Package[reg.package].raises # "devices"
                   /\ ~(\A d \in classes : DeviceConforms(d)) -> Fail
                [] OTHER -> Goto("rest") /\ UNCHANGED <<ext, odd>>

\* Communication types, detection criteria, keys and the mixin.
CheckTheRest ==
    /\ At("rest")
    /\ UNCHANGED names /\ Outside
    /\ LET p     == reg.package
           first == CommsValid(reg.new.comms)
           rest  == CriteriaValid(p, reg.new) /\ KeysValid(p) /\ MixinValid(p)
       IN  CASE first /\ Package[p].raises = "criteria" -> Escape
             [] ~first \/ (Package[p].raises # "criteria" /\ ~rest) -> Fail
             [] OTHER -> Goto("commit") /\ UNCHANGED <<ext, odd>>

\* Criteria of a communication type add to, and may replace, known queries.
MergedCriteria(p) ==
    [c \in DOMAIN Package[p].criteria |->
        Package[p].criteria[c] \cup (IF c \in DOMAIN ext.criteria THEN ext.criteria[c] ELSE {})]
    @@ ext.criteria

Commit ==
    /\ At("commit")
    /\ ext' = [ext EXCEPT !.auxiliary = @ \cup reg.new.auxiliary,
                          !.primary   = @ \cup reg.new.primary,
                          !.virtual   = @ \cup reg.new.virtual,
                          !.comms     = CommsByName(reg.new.comms) @@ @,
                          !.criteria  = MergedCriteria(reg.package)]
    /\ Goto("finish")
    /\ UNCHANGED <<names, odd>> /\ Outside

\* FireManager.register() saves the name in gdm.json.
SavedPackages(p) == Append(cli, p)

\* The download function is looked at last, after the tables changed.
Finish ==
    /\ At("finish")
    /\ UNCHANGED <<names, todo, parent, count>>
    /\ LET p == reg.package
       IN  IF Package[p].keys # {} /\ ~Package[p].downloads THEN Fail /\ UNCHANGED cli
           ELSE /\ ext' = [ext EXCEPT
                              !.keys = [k \in Package[p].keys |-> p] @@ @,
                              !.mixins = IF Package[p].mixin = "good" THEN Append(@, p) ELSE @,
                              !.packages = Append(@, p)]
                /\ reg' = Ended(p, reg.caller, "registered", NoExtensions)
                /\ cli' = IF reg.caller = "cli" THEN SavedPackages(p) ELSE cli
                /\ UNCHANGED odd

-----------------------------------------------------------------------------
(* The callers.                                                            *)

\* package_registrar.register(), import_and_register() by a Python user.
Register(p) ==
    /\ Idle /\ todo = <<>> /\ parent.kind = "none"
    /\ count.steps < MaxSteps
    /\ count' = [count EXCEPT !.steps = @ + 1]
    /\ Begin(p, "user")
    /\ UNCHANGED <<ext, names, cli, todo, parent, odd>>

\* A gdm process that has loaded its packages and has a command to obey.
Commanded == Idle /\ todo = <<>> /\ parent.kind = "start" /\ parent.steps = count.steps

\* `gdm register`: not for a package gdm.json lists.
CliRegister(p) ==
    /\ Commanded
    /\ count.steps < MaxSteps
    /\ p # BuiltIn /\ p \notin Range(cli)
    /\ count' = [count EXCEPT !.steps = @ + 1]
    /\ Begin(p, "cli")
    /\ UNCHANGED <<ext, names, cli, todo, parent, odd>>

\* `gdm unregister`: only gdm.json changes.
CliUnregister(p) ==
    /\ Commanded
    /\ count.steps < MaxSteps
    /\ p \in Range(cli)
    /\ count' = [count EXCEPT !.steps = @ + 1]
    /\ cli' = SelectSeq(cli, LAMBDA q : q # p)
    /\ odd' = [odd EXCEPT !.unregistered = TRUE]
    /\ UNCHANGED <<ext, names, reg, todo, parent>>

NewProcess(kind, packages) ==
    /\ Idle /\ todo = <<>>
    /\ count.spawns < MaxSpawns
    /\ count' = [count EXCEPT !.spawns = @ + 1]
    /\ parent' = [kind |-> kind, ext |-> IF kind = "worker" THEN ext ELSE NoExtensions,
                   packages |-> packages, steps |-> count.steps]
    /\ todo' = packages
    /\ ext' = NoExtensions /\ names' = Empty
    /\ reg' = Ended(None, kind, "none", NoExtensions)
    /\ UNCHANGED <<cli, odd>>

\* _process_init() of a pool process: what the main process registered, in
\* the same order.
SpawnWorker == parent.kind = "none" /\ NewProcess("worker", ext.packages)

\* The next gdm command: the built-in package, then those of gdm.json.  Of
\* the processes before it only gdm.json is left.
StartCli ==
    /\ parent.kind = "start" \/ count.steps = 0
    /\ parent.kind = "start" => count.steps > parent.steps
    /\ NewProcess("start", <<BuiltIn>> \o cli)

\* import_module() works for the next package, or it raises ImportError and
\* the process goes on without it.
RegisterNext ==
    /\ Idle /\ todo # <<>>
    /\ reg.end # "escaped"
    /\ todo' = Tail(todo)
    /\ Begin(Head(todo), parent.kind)
    /\ UNCHANGED <<ext, names, cli, parent, odd, count>>

ImportFails ==
    /\ Idle /\ todo # <<>>
    /\ Head(todo) # BuiltIn /\ ~odd.missing
    /\ todo' = Tail(todo)
    /\ odd' = [odd EXCEPT !.missing = TRUE]
    /\ UNCHANGED <<ext, names, reg, cli, parent, count>>

Init ==
    /\ ext = NoExtensions
    /\ names = Empty
    /\ reg = Ended(None, "none", "none", NoExtensions)
    /\ cli = <<>>
    /\ todo = <<>>
    /\ parent = [kind |-> "none", ext |-> NoExtensions, packages |-> <<>>, steps |-> 0]
    /\ odd = [partial |-> FALSE, stale |-> FALSE, missing |-> FALSE,
              unregistered |-> FALSE, late |-> {}]
    /\ count = [steps |-> 0, spawns |-> 0]

Step ==
    \/ CheckDeviceTypes \/ AddImplicitExports \/ RegisterInterfaces \/ RegisterFlavors
    \/ CheckDevices \/ CheckTheRest \/ Commit \/ Finish

Registering ==
    \/ Step
    \/ \E p \in DOMAIN Package : Register(p) \/ CliRegister(p) \/ CliUnregister(p)
    \/ RegisterNext \/ ImportFails

Next == Registering \/ SpawnWorker \/ StartCli

Spec == Init /\ [][Next]_vars

-----------------------------------------------------------------------------
(* Properties.                                                             *)

Tables == [auxiliary : SUBSET DOMAIN Device, primary : SUBSET DOMAIN Device,
           virtual : SUBSET DOMAIN Device]

TypeOK ==
    /\ [auxiliary |-> ext.auxiliary, primary |-> ext.primary, virtual |-> ext.virtual]
         \in Tables
    /\ Range(ext.interfaces) \cup Range(ext.flavors) \subseteq DOMAIN Capability
    /\ \A n \in DOMAIN ext.capabilities : ext.capabilities[n] \subseteq DOMAIN ext.interfaces
    /\ Range(ext.comms) \subseteq DOMAIN Comm
    /\ DOMAIN ext.keys \subseteq DOMAIN KeyPath
    /\ Range(ext.packages) \subseteq DOMAIN Package
    /\ DOMAIN names \subseteq DOMAIN Capability
    /\ reg.pc \in {"idle", "types", "export", "interfaces", "flavors", "devices", "rest",
                   "commit", "finish"}
    /\ reg.end \in {"none", "registered", "refused", "escaped"}
    /\ Range(cli) \cup Range(todo) \subseteq DOMAIN Package

\* A registration that is refused, at whatever check, leaves every table of
\* extensions.py as it was before it.
RefusedLeavesNothing == Idle /\ reg.end = "refused" => ext = reg.backup

\* At any moment, two device classes GDM knows have different device types,
\* whichever packages and lists they came from.
DeviceTypesUnique ==
    Cardinality({DeviceType(d) : d \in Devices(ext)}) = Cardinality(Devices(ext))

\* The names of flavors, interfaces and capabilities do not meet, over all
\* packages together; the checks miss only an interface that comes after the
\* flavor of its name.
NamesDistinct ==
    Idle => /\ DOMAIN ext.interfaces \cap DOMAIN ext.capabilities = {}
            /\ DOMAIN ext.flavors \cap (DOMAIN ext.interfaces \cup DOMAIN ext.capabilities)
                 \subseteq odd.late

\* Each interface is listed under one capability name, and a capability's
\* interfaces all inherit from one class: code that looks a capability up by
\* its name gets one kind of object, after any order of packages.
CapabilitiesCoherent ==
    /\ \A n \in DOMAIN ext.interfaces :
         Cardinality({c \in DOMAIN ext.capabilities : n \in ext.capabilities[c]}) = 1
    /\ \A c \in DOMAIN ext.capabilities :
         CommonAncestors({ext.interfaces[n] : n \in ext.capabilities[c]}) # {}

\* What the capabilities of a device class consist of and use.
Needs ==
    [d \in DOMAIN Device |->
       [flavors    |-> WithSubFlavors(FlavorsOf(d)),
        interfaces |-> UNION {InterfacesOf(f, {}) : f \in FlavorsOf(d)},
        devices    |-> UsedBy[d]]]

\* What a registered device class needs is registered too: its
\* communication type, its flavors with their parts and interfaces, and the
\* device classes they use, exported implicitly or by an earlier package.
DevicesComplete ==
    ~At("finish") =>
        LET devices    == Devices(ext)
            flavors    == Range(ext.flavors)
            interfaces == Range(ext.interfaces)
            comms      == Range(ext.comms)
        IN  \A d \in devices :
              /\ Device[d].comm \in comms
              /\ Needs[d].flavors \subseteq flavors
              /\ Needs[d].interfaces \subseteq interfaces
              /\ Needs[d].devices \subseteq devices

\* A pool process that registers the main process's packages in their order
\* ends with the same tables, unless a package could not be imported, or
\* failed registrations of the main process left something behind.
WorkerSeesSame ==
    (Idle /\ todo = <<>> /\ parent.kind = "worker" /\ count.steps = parent.steps)
        => ext = parent.ext \/ odd.partial \/ odd.stale \/ odd.missing

\* The packages `gdm register` accepted register again in the next command,
\* in the order of gdm.json, whatever was refused in between, unless one
\* cannot be imported or was unregistered.
CliPackagesLoad ==
    Commanded
        => \/ ext.packages = parent.packages
           \/ odd.missing \/ odd.unregistered

\* What was refused leaves nothing behind, and so what was accepted is accepted
\* again by the next process.
RegistrationsRepeat == RefusedLeavesNothing /\ WorkerSeesSame /\ CliPackagesLoad
=============================================================================
