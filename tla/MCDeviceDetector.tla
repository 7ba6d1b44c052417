-------------------------- MODULE MCDeviceDetector --------------------------
(***************************************************************************)
(* The device classes of gazoo_device_controllers, with a few of its       *)
(* capabilities, and small extension packages that fail at different       *)
(* checks or disagree with each other.                                     *)
(***************************************************************************)
EXTENDS DeviceDetector

Cap(name, mro, concrete, default) ==
    [name |-> name, mro |-> mro, valid |-> TRUE, concrete |-> concrete, default |-> default,
     override |-> None, sub |-> {}, uses |-> {}, conforms |-> TRUE]
Interface(c, default)   == c :> Cap(c, <<c>>, FALSE, default)
Flavor(c, i)            == c :> Cap(c, <<c, i>>, TRUE, None)

MCCapability ==
    Interface("SwitchboardBase", "switchboard") @@ Flavor("SwitchboardDefault", "SwitchboardBase")
    @@ Interface("PowerBase", "power")
    @@ ("PowerDefault" :> [Cap("PowerDefault", <<"PowerDefault", "PowerBase">>, TRUE, None)
                             EXCEPT !.uses = {"Cambrionix"}, !.sub = {"UsbHub"}])
    @@ Interface("UsbHubBase", "usb_hub") @@ Flavor("UsbHub", "UsbHubBase")
    \* an interface below another one
    @@ ("LabPowerBase" :> Cap("LabPowerBase", <<"LabPowerBase", "PowerBase">>, FALSE, "lab_power"))
    @@ ("LabPower" :> Cap("LabPower", <<"LabPower", "LabPowerBase", "PowerBase">>, TRUE, None))
    \* other classes with the names of flavors and interfaces
    @@ ("OtherLabPower" :> Cap("LabPower", <<"OtherLabPower", "PowerBase">>, TRUE, None))
    @@ ("LateBase" :> Cap("LabPower", <<"LateBase">>, FALSE, "late"))
    @@ ("SecondPowerBase" :> Cap("SecondPowerBase", <<"SecondPowerBase">>, FALSE, "power"))

Power(flavor) == {[name |-> "power", flavors |-> {flavor}]}
Dev(base, type, comm, caps) ==
    [base |-> base, type |-> type, comm |-> comm, caps |-> caps, valid |-> TRUE,
     conforms |-> TRUE]
Switchboard == {[name |-> "switchboard", flavors |-> {"SwitchboardDefault"}]}
Hub == {[name |-> "usb_hub", flavors |-> {"UsbHub"}]}

MCDevice ==
    [Cambrionix |-> Dev("auxiliary", "cambrionix", "SerialComms", Switchboard \cup Hub),
     M5Stick    |-> Dev("auxiliary", "m5stick", "SerialComms", Switchboard),
     ESP32      |-> Dev("auxiliary", "esp32", "PigweedSerialComms", Switchboard),
     EFR32      |-> Dev("auxiliary", "efr32", "PigweedSerialComms", Switchboard),
     NRF52840   |-> Dev("auxiliary", "nrf52840", "PigweedSerialComms", Switchboard),
     NrfOpenThread |-> Dev("auxiliary", "nrfopenthread", "JlinkSerialComms", Switchboard),
     RaspberryPi |-> Dev("auxiliary", "raspberrypi", "SshComms", Switchboard),
     RpiController |-> Dev("auxiliary", "rpi_matter_controller", "SshComms", Switchboard),
     UnifiPoeSwitch |-> Dev("auxiliary", "unifi_switch", "SshComms", Switchboard),
     DliPowerSwitch |-> Dev("auxiliary", "powerswitch", "SshComms", {}),
     DLinkSwitch |-> Dev("auxiliary", "dlink_switch", "SnmpComms", {}),
     ChipTool   |-> Dev("auxiliary", "chip_tool", "HostShellComms", Switchboard),
     DC2200     |-> Dev("auxiliary", "dc2200", "UsbComms", {}),
     Yepkit     |-> Dev("auxiliary", "yepkit", "YepkitComms", {}),
     Esp32Matter |-> Dev("primary", "esp32matter", "PigweedSerialComms",
                         Switchboard \cup Power("PowerDefault")),
     Efr32Matter |-> Dev("primary", "efr32matter", "PigweedSerialComms",
                         Switchboard \cup Power("PowerDefault")),
     NrfMatter  |-> Dev("primary", "nrfmatter", "PigweedSerialComms",
                        Switchboard \cup Power("PowerDefault")),
     RaspberryPiMatter |-> Dev("primary", "rpimatter", "PigweedSocketComms", Switchboard),
     Lab        |-> Dev("primary", "lab", "LabComms",
                       {[name |-> "lab_power", flavors |-> {"LabPower"}]}),
     OtherLab   |-> Dev("auxiliary", "lab", "SerialComms", {})]

MCCriteria ==
    [Cambrionix |-> CambrionixCriteria, M5Stick |-> M5StickCriteria, ESP32 |-> Esp32Criteria,
     EFR32 |-> Efr32Criteria, NRF52840 |-> Nrf52840Criteria,
     NrfOpenThread |-> NrfOpenThreadCriteria, RaspberryPi |-> RaspberryPiCriteria,
     RpiController |-> RpiMatterControllerCriteria, UnifiPoeSwitch |-> UnifiCriteria,
     DliPowerSwitch |-> DliCriteria, DLinkSwitch |-> DlinkCriteria,
     ChipTool |-> ChipToolCriteria, DC2200 |-> Dc2200Criteria, Yepkit |-> YepkitCriteria,
     Esp32Matter |-> Esp32MatterCriteria, Efr32Matter |-> Efr32MatterCriteria,
     NrfMatter |-> NrfMatterCriteria, RaspberryPiMatter |-> RpiMatterCriteria,
     Lab |-> [lab |-> Yes], OtherLab |-> [PRODUCT_NAME |-> {"m5stack"}]]

MCCommOrder == <<"HostShellComms", "JlinkSerialComms", "LabComms", "PigweedSerialComms",
                 "PigweedSocketComms", "SerialComms", "SnmpComms", "SshComms", "UsbComms",
                 "YepkitComms">>
MCComm == [c \in Range(MCCommOrder) |-> [name |-> c, valid |-> TRUE]]
MCTypeFilter == {Range(MCCommOrder)}

MCKeyPath == [ssh |-> "rpi", other |-> "rpi", labkey |-> "lab"]

BuiltInComms == Range(MCCommOrder) \ {"LabComms"}
Plain(name) ==
    [name |-> name, version |-> TRUE, exporter |-> TRUE, raises |-> "no",
     auxiliary |-> {}, primary |-> {}, virtual |-> {}, flavors |-> {}, interfaces |-> {},
     comms |-> {}, criteria |-> Empty, badQuery |-> FALSE, keys |-> {}, downloads |-> TRUE,
     mixin |-> "none"]
Primary == {d \in DOMAIN MCDevice : MCDevice[d].base = "primary"} \ {"Lab"}

MCPackage ==
    [controllers |->
        [Plain("controllers") EXCEPT
           !.auxiliary = DOMAIN MCDevice \ (Primary \cup {"Lab", "OtherLab", "Cambrionix"}),
           !.primary = Primary, !.comms = BuiltInComms, !.criteria = BuiltInCriteria,
           !.keys = {"ssh"}, !.mixin = "good"],
     lab |-> [Plain("lab") EXCEPT !.primary = {"Lab"}, !.criteria = "LabComms" :> {"lab"},
                                  !.interfaces = {"LabPowerBase"}],
     \* a communication type without queries
     bare |-> [Plain("bare") EXCEPT !.comms = {"LabComms"}, !.interfaces = {"LabPowerBase"}],
     \* queries for another package's type
     more |-> [Plain("more") EXCEPT !.criteria = "LabComms" :> {"lab2"}],
     twin |-> [Plain("twin") EXCEPT !.auxiliary = {"OtherLab"}, !.mixin = "good"],
     \* a key without a function to download it
     clash |-> [Plain("clash") EXCEPT !.interfaces = {"LabPowerBase"},
                 !.flavors = {"OtherLabPower"}, !.keys = {"labkey"}, !.downloads = FALSE],
     \* the key file of the built-in package
     late |-> [Plain("late") EXCEPT !.interfaces = {"LateBase"}, !.keys = {"other"}],
     second |-> [Plain("second") EXCEPT !.interfaces = {"SecondPowerBase"}],
     broken |-> [Plain("broken") EXCEPT !.flavors = {"LabPower"}, !.raises = "devices"]]

B(is, address, link, path, product, maker, serial, last4, last8, runs) ==
    [is |-> is, address |-> address, link |-> link, path |-> path, product |-> product,
     maker |-> maker, id |-> IF product = "dc2200" THEN "1313:80c8" ELSE "0:0",
     serial |-> serial, last4 |-> last4, last8 |-> last8, runs |-> runs, access |-> TRUE]
NrfBoard(is, address, n, last4, runs) ==
    B(is, address, "usb", "SEGGER_J-Link", "j-link", "segger", n, last4, n, runs)

MCBoard ==
    [nrf1   |-> NrfBoard({"NRF52840"}, "n1", "s1", "0001", {}),
     nrf2   |-> NrfBoard({"NRF52840"}, "n2", "s2", "0001", {}),
     \* nrf2, plugged in elsewhere
     nrf2b  |-> NrfBoard({"NRF52840"}, "n3", "s2", "0001", {}),
     nrfot  |-> NrfBoard({"NrfOpenThread"}, "n4", "s4", "0004", {"openthread"}),
     nrfm   |-> NrfBoard({"NrfMatter"}, "n5", "s5", "0005", {"matter"}),
     esp    |-> B({"ESP32"}, "e1", "usb", "1a86", "usb single serial", "", "s6", "0006", "s6", {}),
     espm   |-> B({"Esp32Matter"}, "e2", "usb", "Silicon_Labs_CP2104", "cp2104", "silicon labs",
                  "s7", "short", "s7", {"matter"}),
     efr    |-> B({"EFR32"}, "f1", "usb", "Silicon_Labs_J-Link", "j-link", "silicon labs",
                  "s8", "0008", "s8", {}),
     efrm   |-> B({"Efr32Matter"}, "f2", "usb", "Silicon_Labs_J-Link", "j-link", "silicon labs",
                  "s9", "0009", "s9", {"matter"}),
     camb   |-> B({"Cambrionix"}, "c1", "usb", "by-id", "ps15-usb3", "ftdi", "sa", "000a", "sa", {}),
     m5     |-> B({"M5Stick"}, "m1", "usb", "by-id", "m5stack", "other", "sb", "000b", "sb", {}),
     yep    |-> B({"Yepkit"}, "y1", "yepkit", "", "", "", "sc", "000c", "sc", {}),
     dc     |-> B({"DC2200"}, "d1", "usbserial", "", "dc2200", "", "sd", "000d", "sd", {}),
     host   |-> B({"ChipTool"}, "sh", "host", "", "", "", "0", "0000", "0", {"chip-tool"}),
     rpi    |-> B({"RaspberryPi"}, "ip1", "ip", "", "", "", "se", "000e", "se", {"ssh", "raspbian"}),
     \* both a Matter app and a controller
     rpim   |-> B({"RaspberryPiMatter", "RpiController"}, "ip2", "ip", "", "", "", "sf", "000f",
                  "sf", {"ssh", "ubuntu", "chip-tool", "matter-app"}),
     \* given the address of rpi
     unifi  |-> B({"UnifiPoeSwitch"}, "ip1", "ip", "", "", "", "sg", "000g", "sg", {"ssh", "unifi"}),
     dli    |-> B({"DliPowerSwitch"}, "ip3", "ip", "", "", "", "sh", "000h", "sh", {"ssh", "dli"}),
     dlink  |-> B({"DLinkSwitch"}, "ip4", "ip", "", "", "", "ip4", "0ip4", "ip4", {"snmp", "dlink"}),
     lab    |-> B({"Lab"}, "l1", "LabComms", "", "", "", "si", "000i", "si", {"lab"})]
MCBoardOrder == <<"camb", "dc", "esp", "espm", "efr", "efrm", "rpi", "unifi", "rpim", "dli",
                  "dlink", "lab", "m5", "nrf1", "nrf2", "nrf2b", "nrfot", "nrfm", "host", "yep">>
MCBench == {{"nrf1", "nrf2"}, {"nrf2b", "nrfot"}, {"nrfm", "esp"}, {"espm", "efrm"},
            {"rpi", "rpim"}, {"unifi", "dli", "dlink"}, {"camb", "m5", "lab"}, {"efr", "yep", "dc", "host"}}
\* the nRF boards, those that tell Matter firmware apart, and a mixed bench
MCFlaky == {{"nrf1", "nrf2"}, {"nrfm", "esp"}, {"camb", "m5", "lab"}}
=============================================================================
