\* Three instances of two devices and a hub: a device can be closed, made again
\* and closed late. Four operations of two Managers, with two crashes: a deletion
\* and then a detection may be cut short between their two files.
CONSTANTS
  d1 = d1
  d2 = d2
  hub = hub
  comm = comm
  device = device
  Primary <- MCPrimary
  Hub = hub
  Caps <- MCCaps
  MaxInstances = 3
  MaxChecks = 2
  m1 = m1
  m2 = m2
  lamp = lamp
  desk = desk
  Managers <- MCManagers
  Devices = {1, 2}
  Hubs = {2}
  Aliases <- MCAliases
  NoAlias = NoAlias
  Removed = Removed
  Absent = Absent
  MaxOps = 4
  MaxCrashes = 2
SPECIFICATION MCSpec
SYMMETRY MCSymmetry
INVARIANTS RegistryIsRight ConfigIsKept
CHECK_DEADLOCK FALSE
