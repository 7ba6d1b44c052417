------------------------------ MODULE MCManager ------------------------------
(***************************************************************************)
(* The two kinds of state that a Manager keeps, in one run: the device     *)
(* objects and the registry of open ones (DeviceLifecycle), and the        *)
(* dictionaries of the configuration files (DeviceConfig). Creating and    *)
(* closing devices changes no configuration, so a behaviour moves one of   *)
(* them. Primary devices are interchangeable, and so are the capabilities  *)
(* that use the hub, the Managers and the aliases.                         *)
(***************************************************************************)
EXTENDS DeviceLifecycle, DeviceConfig, TLC

CONSTANTS d1, d2, hub, comm, device, m1, m2, lamp, desk

MCPrimary == {d1, d2}
MCCaps == {comm, device}
MCManagers == {m1, m2}
MCAliases == {lamp, desk}
MCSymmetry == Permutations(MCPrimary) \cup Permutations(MCCaps)
                \cup Permutations(MCManagers) \cup Permutations(MCAliases)

VARIABLE moves   \* "instances" or "files"

MCInit == moves \in {"instances", "files"} /\ Init /\ ConfigInit

MCNext ==
  \/ moves = "instances" /\ Next /\ UNCHANGED <<moves, configVars>>
  \/ moves = "files" /\ ConfigNext /\ UNCHANGED <<moves, vars>>

MCSpec == MCInit /\ [][MCNext]_<<moves, vars, configVars>>
=============================================================================
