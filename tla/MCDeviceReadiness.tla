------------------------- MODULE MCDeviceReadiness -------------------------
(***************************************************************************)
(* The device classes of the repository with their recovery attempts, and  *)
(* two classes an extension package may add.                               *)
(***************************************************************************)
EXTENDS DeviceReadiness

Class(c, f, h, n) == [class |-> c, flavor |-> f, hub |-> h, attempts |-> n]

AllDevices == {
    Class("matter", "esptool", TRUE, 1),
    Class("matter", "nrfjprog", TRUE, 1),
    Class("matter", "commander", FALSE, 1),
    Class("rpimatter", "none", FALSE, 3),
    Class("generic", "interface", TRUE, 2),
    Class("generic", "none", FALSE, 1),
    Class("auxiliary", "none", FALSE, 1) }
====
