---------------------------- MODULE DeviceConfig ----------------------------
(***************************************************************************)
(* The device configuration of gazoo_device/manager.py: devices.json and   *)
(* device_options.json on disk, the dictionaries and alias maps that       *)
(* _load_configuration makes of them, and the operations that change them: *)
(* detect, redetect, delete, set_prop and remove_prop.                     *)
(*                                                                         *)
(* Several Manager processes (the command line tool, test scripts, the     *)
(* workers of parallel_utils) share the files.  An operation computes the  *)
(* new files from the dictionaries in memory, then saves one file after    *)
(* the other; a process may crash, and others start, between two saves.    *)
(*                                                                         *)
(* Device names are numbers, in the order in which the files are sorted.   *)
(* Of a device's options the alias is kept; serial numbers and addresses   *)
(* identify a device like its name does.                                   *)
(***************************************************************************)
EXTENDS Naturals, Sequences, FiniteSets, FiniteSetsExt

CONSTANTS
  Managers,  \* Manager processes
  Devices,   \* names of devices, numbers from 1 up
  Hubs,      \* the auxiliary devices among them ("other_devices")
  Aliases,   \* aliases users set
  NoAlias,   \* the option "alias" is None
  Removed,   \* the option "alias" was removed
  Absent,    \* the device has no entry in device_options.json
  MaxOps,    \* bound: operations
  MaxCrashes \* bound: crashes

ASSUME ConfigAssumption ==
  /\ Devices \subseteq Nat \ {0} /\ IsFiniteSet(Devices) /\ Hubs \subseteq Devices
  /\ {NoAlias, Removed, Absent} \cap (Devices \cup Aliases) = {}
  /\ NoAlias # Removed /\ NoAlias # Absent /\ Removed # Absent
  /\ MaxOps \in Nat /\ MaxCrashes \in Nat

NoName == 0
Keys == Devices \cup Aliases

VARIABLES
  disk,    \* the files: dev (names), devOk, opt (name -> alias), optOk
  mem,     \* mem[m]: the Manager's dictionaries and alias maps
  pending, \* pending[m]: the saves and reloads m has still to do
  known,   \* devices detected and not deleted, as far as the files were saved
  told,    \* told[d]: the alias d should have, as far as the files were saved
  tidy,    \* users have set only free aliases and removed none
  outdated,\* an operation began in a Manager whose dictionaries were not the files'
  ops, crashes

configVars == <<disk, mem, pending, known, told, tidy, outdated, ops, crashes>>

-----------------------------------------------------------------------------
(* _load_configuration                                                     *)

Claims(devs, opts, k) == {d \in devs : k = d \/ k = opts[d]}

\* _create_aliases: a later device takes a key from an earlier one.
CreateAliases(devs, opts) ==
  [k \in Keys |-> IF Claims(devs, opts, k) = {} THEN NoName ELSE Max(Claims(devs, opts, k))]

Down == [status |-> "down", devs |-> {}, opts |-> [d \in Devices |-> Absent],
         aliases |-> [k \in Keys |-> NoName], otherAliases |-> [k \in Keys |-> NoName]]

\* _load_config raises a DeviceError for a file that is not JSON; a device that
\* has no options is a KeyError in _create_aliases.
Loaded(dk) ==
  IF ~dk.devOk \/ ~dk.optOk THEN [Down EXCEPT !.status = "DeviceError"]
  ELSE IF \E d \in dk.dev : dk.opt[d] = Absent THEN [Down EXCEPT !.status = "KeyError"]
  ELSE LET opts == [d \in Devices |-> IF d \in dk.dev THEN dk.opt[d] ELSE Absent]
       IN [status |-> "up", devs |-> dk.dev, opts |-> opts,
           aliases |-> CreateAliases(dk.dev \ Hubs, opts),
           otherAliases |-> CreateAliases(dk.dev \cap Hubs, opts)]

\* _get_device_name
Resolve(mm, k) == IF mm.otherAliases[k] # NoName THEN mm.otherAliases[k] ELSE mm.aliases[k]

ConfigInit ==
  /\ disk = [dev |-> {}, devOk |-> TRUE, opt |-> [d \in Devices |-> Absent], optOk |-> TRUE]
  /\ mem = [m \in Managers |-> Down]
  /\ pending = [m \in Managers |-> <<>>]
  /\ known = {} /\ told = [d \in Devices |-> Absent]
  /\ tidy = TRUE /\ outdated = FALSE /\ ops = 0 /\ crashes = 0

Start(m) ==
  /\ mem[m].status = "down"
  /\ mem' = [mem EXCEPT ![m] = Loaded(disk)]
  /\ UNCHANGED <<disk, pending, known, told, tidy, outdated, ops, crashes>>

Crash(m) ==
  /\ mem[m].status # "down" /\ crashes < MaxCrashes
  /\ crashes' = crashes + 1
  /\ mem' = [mem EXCEPT ![m] = Down] /\ pending' = [pending EXCEPT ![m] = <<>>]
  /\ UNCHANGED <<disk, known, told, tidy, outdated, ops>>

-----------------------------------------------------------------------------
(* Saving.  target: the devices whose options the operation is about.      *)

SaveDevices(devs) == [kind |-> "dev", devs |-> devs, opts |-> <<>>, target |-> {}]
SaveOptions(opts, target) == [kind |-> "opt", devs |-> {}, opts |-> opts, target |-> target]
Truncate(file) == [kind |-> file, devs |-> {}, opts |-> <<>>, target |-> {}]
Reload == [kind |-> "load", devs |-> {}, opts |-> <<>>, target |-> {}]

\* _save_config_to_file moves a complete file into place.  overwrite_configs
\* opens the file for writing, which empties it, and then writes it.
SaveConfigToFile(step) ==
  CASE step.kind = "dev" -> [disk EXCEPT !.dev = step.devs, !.devOk = TRUE]
    [] step.kind = "opt" -> [disk EXCEPT !.opt = step.opts, !.optOk = TRUE]
    [] step.kind = "truncateDev" -> [disk EXCEPT !.devOk = FALSE]
    [] step.kind = "truncateOpt" -> [disk EXCEPT !.optOk = FALSE]
    [] step.kind = "load" -> disk

\* A device that enters devices.json has the options the other file still has for
\* it: those of a deletion that a crash cut short, until its detection saves its own.
Save(m) ==
  /\ pending[m] # <<>>
  /\ LET step == Head(pending[m]) IN
       /\ disk' = SaveConfigToFile(step)
       /\ mem' = IF step.kind = "load" THEN [mem EXCEPT ![m] = Loaded(disk)] ELSE mem
       /\ told' = [d \in Devices |->
                     CASE step.kind = "dev" /\ d \notin step.devs -> Absent
                       [] step.kind = "dev" /\ d \in step.devs \ disk.dev -> disk.opt[d]
                       [] d \in step.target -> step.opts[d]
                       [] OTHER -> told[d]]
  /\ pending' = [pending EXCEPT ![m] = Tail(@)]
  /\ UNCHANGED <<known, tidy, outdated, ops, crashes>>

Idle(m) == mem[m].status = "up" /\ pending[m] = <<>>

Quiet == \A m \in Managers : pending[m] = <<>>

\* m's dictionaries are what the files say.
Current(m) == /\ mem[m].devs = disk.dev
              /\ \A d \in disk.dev : mem[m].opts[d] = disk.opt[d]

\* parallel_utils.CallSpec: "Do not modify GDM device configs (detection,
\* set-prop) in parallel", so operations do not overlap.  Managers start and
\* crash at any time.
Begin(m) ==
  /\ Idle(m) /\ Quiet /\ ops < MaxOps /\ ops' = ops + 1
  /\ outdated' = (outdated \/ ~Current(m))

With(opts, devs, a) == [d \in Devices |-> IF d \in devs THEN a ELSE opts[d]]

-----------------------------------------------------------------------------
(* The operations.                                                         *)

\* detect(): the new devices are added to copies of the dictionaries in memory.
Detect(m, new) ==
  /\ Begin(m) /\ new \cap mem[m].devs = {}
  /\ pending' = [pending EXCEPT ![m] =
       <<SaveDevices(mem[m].devs \cup new),
         SaveOptions(With(mem[m].opts, new, NoAlias), new), Reload>>]
  /\ known' = known \cup new
  /\ UNCHANGED <<disk, mem, told, tidy, crashes>>

\* detect(force_overwrite=True): overwrite_configs(), then a detection from
\* empty configurations.
DetectOverwrite(m, new) ==
  /\ Begin(m)
  /\ LET none == [d \in Devices |-> Absent] IN
     pending' = [pending EXCEPT ![m] =
       <<Truncate("truncateDev"), SaveDevices({}), Truncate("truncateOpt"),
         SaveOptions(none, Devices), Reload,
         SaveDevices(new), SaveOptions(With(none, new, NoAlias), Devices), Reload>>]
  /\ known' = new
  /\ UNCHANGED <<disk, mem, told, tidy, crashes>>

Delete(m, d) ==
  /\ Begin(m) /\ d \in mem[m].devs
  /\ pending' = [pending EXCEPT ![m] =
       <<SaveDevices(mem[m].devs \ {d}),
         SaveOptions(With(mem[m].opts, {d}, Absent), {d}), Reload>>]
  /\ known' = known \ {d}
  /\ UNCHANGED <<disk, mem, told, tidy, crashes>>

\* Mutant: the options are those of a new device.
PreservedReset(opts, d) == With(opts, {d}, NoAlias)
\* "Preserve optional properties set by users"
Preserved(opts, d) == opts

\* redetect(): delete and detect without saving; if the device is found again
\* the result is saved, otherwise a DeviceError is raised.
Redetect(m, d, found) ==
  /\ Begin(m) /\ d \in mem[m].devs
  /\ pending' = IF found
                THEN [pending EXCEPT ![m] =
                       <<SaveDevices(mem[m].devs),
                         SaveOptions(Preserved(mem[m].opts, d), {}), Reload>>]
                ELSE pending
  /\ UNCHANGED <<disk, mem, known, told, tidy, crashes>>

\* _realign_alias works on self.aliases, for auxiliary devices too.
RealignAlias(aliases, new, old, d) ==
  [k \in Keys |-> IF k = new THEN d ELSE IF k = old THEN NoName ELSE aliases[k]]

\* "del self.aliases[old_alias.lower()]", or device.alias of a removed alias.
AliasKeyError(mm, d) ==
  \/ mm.opts[d] = Removed
  \/ mm.opts[d] # NoAlias /\ mm.aliases[mm.opts[d]] = NoName

FreeAlias(m, d, a) ==
  a = NoAlias \/ (a \notin Devices /\ \A e \in Devices \ {d} : mem[m].opts[e] # a)

\* set_prop(d, "alias", a): the alias map, then the options file; a KeyError
\* leaves both alone.
SetAlias(m, d, a) ==
  /\ Begin(m) /\ d \in mem[m].devs
  /\ tidy' = (tidy /\ FreeAlias(m, d, a))
  /\ IF AliasKeyError(mem[m], d) THEN UNCHANGED <<mem, pending>>
     ELSE LET opts == [mem[m].opts EXCEPT ![d] = a] IN
          /\ mem' = [mem EXCEPT ![m].opts = opts,
                                ![m].aliases = RealignAlias(@, a, mem[m].opts[d], d)]
          /\ pending' = [pending EXCEPT ![m] = <<SaveOptions(opts, {d})>>]
  /\ UNCHANGED <<disk, known, told, crashes>>

RemoveAlias(m, d) ==
  /\ Begin(m) /\ d \in mem[m].devs /\ mem[m].opts[d] # Removed
  /\ tidy' = FALSE
  /\ LET opts == [mem[m].opts EXCEPT ![d] = Removed] IN
       /\ mem' = [mem EXCEPT ![m].opts = opts]
       /\ pending' = [pending EXCEPT ![m] = <<SaveOptions(opts, {d})>>]
  /\ UNCHANGED <<disk, known, told, crashes>>

-----------------------------------------------------------------------------
ConfigNext ==
  \E m \in Managers :
    \/ Start(m) \/ Crash(m) \/ Save(m)
    \/ \E new \in SUBSET Devices : Detect(m, new) \/ DetectOverwrite(m, new)
    \/ \E d \in Devices : \/ Delete(m, d) \/ RemoveAlias(m, d)
                          \/ \E found \in BOOLEAN : Redetect(m, d, found)
                          \/ \E a \in Keys \cup {NoAlias} : SetAlias(m, d, a)

ConfigSpec == ConfigInit /\ [][ConfigNext]_configVars

-----------------------------------------------------------------------------
Options == Keys \cup {NoAlias, Removed, Absent}
Statuses == {"down", "up", "DeviceError", "KeyError"}

ConfigTypeOK ==
  /\ disk \in [dev : SUBSET Devices, devOk : BOOLEAN, opt : [Devices -> Options],
               optOk : BOOLEAN]
  /\ mem \in [Managers -> [status : Statuses, devs : SUBSET Devices,
                           opts : [Devices -> Options],
                           aliases : [Keys -> Devices \cup {NoName}],
                           otherAliases : [Keys -> Devices \cup {NoName}]]]
  /\ known \subseteq Devices /\ told \in [Devices -> Options]
  /\ tidy \in BOOLEAN /\ outdated \in BOOLEAN /\ ops \in 0..MaxOps /\ crashes \in 0..MaxCrashes
  \* every device in memory has options
  /\ \A m \in Managers : \A d \in mem[m].devs : mem[m].opts[d] # Absent

\* Between operations the options on disk are what the operations on each device
\* asked for: no operation on one device changes another's, a redetection keeps
\* "optional properties set by users", and a crash loses nothing that was saved;
\* until a Manager saves dictionaries that another Manager's save has outdated.  A
\* deletion and then a detection that crashes cut short leave the old options.
OptionsAsTold ==
  Quiet /\ disk.devOk /\ disk.optOk /\ ~outdated
    => \A d \in disk.dev : disk.opt[d] = told[d]

\* A device leaves devices.json only when it is deleted or overwritten.
DevicesKept ==
  Quiet /\ disk.devOk /\ crashes = 0 /\ ~outdated => disk.dev = known

\* Names and aliases lead to the same device as in maps built anew from the same
\* dictionaries: _realign_alias keeps in step with _create_aliases, across the
\* two maps for primary and auxiliary devices, as long as users are tidy.
AliasesFresh ==
  tidy => \A m \in Managers : Idle(m) =>
    LET anew == Loaded([dev |-> mem[m].devs, devOk |-> TRUE,
                        opt |-> mem[m].opts, optOk |-> TRUE])
    IN \A k \in Keys : Resolve(mem[m], k) = Resolve(anew, k)

\* What users told one Manager about devices survives the operations of all
\* Managers and a crash between two saves, and the names lead to the devices
\* they were given to.
ConfigIsKept == ConfigTypeOK /\ OptionsAsTold /\ DevicesKept /\ AliasesFresh
=============================================================================
