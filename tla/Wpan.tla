-------------------------------- MODULE Wpan --------------------------------
(***************************************************************************)
(* wpan: the OpenThread command line of an NRF board (WpanNrfOt over the   *)
(* commands of WpanOtBase). A method sends commands one by one and takes   *)
(* for the answer whatever the board prints up to the first status line.   *)
(* Answers carry no number: the answer to a command that was given up may  *)
(* come while the next command waits, and a datagram that arrives is       *)
(* printed between the lines of an answer.                                 *)
(***************************************************************************)
EXTENDS Naturals, Sequences, FiniteSets, SequencesExt

CONSTANTS
  MaxWpanCalls,   \* method calls in a behaviour
  MaxTries,       \* attempts that fit in the timeout of retry()
  MaxDatagrams    \* datagrams that arrive

ASSUME WpanAssumption ==
  MaxWpanCalls \in Nat /\ MaxTries \in Nat \ {0} /\ MaxDatagrams \in Nat

VARIABLES
  ncp,    \* the board: item |-> value
  cli,    \* commands sent to the board that it has not handled
  wire,   \* what the board printed since the command was sent
  wcall,  \* the method in progress
  whist   \* what happened to the command in progress, and the budgets

wpVars == <<ncp, cli, wire, wcall, whist>>

-----------------------------------------------------------------------------
(* The board. One item "setting" stands for every value that one command   *)
(* prints and another replaces.                                            *)

Dataset == {"none", "old", "new"}
StateStr == {"disabled", "detached", "leader"}
NcpItems == [role : StateStr, ifconfig : {"up", "down"}, buffer : Dataset,
             active : Dataset, udp : {"closed", "open", "bound"},
             diag : {"on", "off"}, setting : {"1", "2"}, maddr : {"in", "out", "full"},
             omr : {"yes", "no"}]
FactoryNew == [role |-> "disabled", ifconfig |-> "down", buffer |-> "none",
               active |-> "none", udp |-> "closed", diag |-> "off",
               setting |-> "1", maddr |-> "out", omr |-> "no"]
Rebooted(n) == [FactoryNew EXCEPT !.active = n.active, !.setting = n.setting]

CliGet(item) == [op |-> "get", item |-> item, val |-> "none"]
Put(item, val) == [op |-> "put", item |-> item, val |-> val]

\* Whether the board obeys a command, and what it then does.
Obeys(n, c) ==
  CASE c.op = "put" /\ c.item = "role" -> c.val = "disabled" \/ n.ifconfig = "up"
    [] c.op = "put" /\ c.item = "udp" /\ c.val = "open" -> n.udp = "closed"
    [] c.op = "put" /\ c.item = "udp" /\ c.val = "bound" -> n.udp # "closed"
    [] c.op = "put" /\ c.item = "maddr" -> n.maddr # "full"
    [] c.op = "udp_send" -> n.udp # "closed" /\ n.ifconfig = "up"
    [] c.op = "locale" -> n.diag = "on"
    [] c.op = "dataset_init" -> n.active # "none"
    [] OTHER -> TRUE
CliObeyed(n, c) ==
  CASE c.op = "put" -> [n EXCEPT ![c.item] = c.val]
    [] c.op = "dataset_init" -> [n EXCEPT !.buffer = n.active]
    [] c.op = "dataset_commit" -> [n EXCEPT !.active = n.buffer]
    [] OTHER -> n
Printed(n, c) ==
  CASE ~Obeys(n, c) -> [cmd |-> c, ok |-> FALSE, val |-> "none"]
    [] c.op = "get" -> [cmd |-> c, ok |-> TRUE, val |-> n[c.item]]
    [] OTHER -> [cmd |-> c, ok |-> TRUE, val |-> "none"]
BootCommands == {"factoryreset", "reset"}
IsDatagram(line) == line.cmd.op = "datagram"
Datagram == [cmd |-> [op |-> "datagram", item |-> "udp", val |-> "none"],
             ok |-> TRUE, val |-> "text"]

-----------------------------------------------------------------------------
(* Methods. A step is a command, how its answer is read, and which answers *)
(* end the retries ({}: any); "guarded" steps are those of a with block whose last   *)
(* step also runs after a failure.                                         *)

CliStep(c, read) == [cmd |-> c, read |-> read, accept |-> {}, tries |-> 1]
Retried(c, read, accept) ==
  [cmd |-> c, read |-> read, accept |-> accept, tries |-> MaxTries]
WpanMethod(name, steps) == [name |-> name, steps |-> steps, guarded |-> {}]
Query(item, read) == WpanMethod("query", <<CliStep(CliGet(item), read)>>)
Tell(c) == WpanMethod("tell", <<CliStep(c, "ignored")>>)

ncp_channel == Query("setting", "int")
network_node_type == Query("role", "str")
set_router_selection_jitter == Tell(Put("setting", "2"))
set_region == Tell(Put("setting", "1"))
thread_leader_address == WpanMethod("unimplemented", <<>>)
thread_neighbor_table == Query("setting", "str")
thread_network_data == Query("omr", "str")
ncp_counter_tx_err_cca == Query("setting", "found")
thread_child_table == Query("setting", "str")
scan_energy == Query("setting", "int")
dataset_init == Tell([op |-> "dataset_init", item |-> "buffer", val |-> "none"])
dataset_clear == Tell(Put("buffer", "none"))
dataset_commit == Tell([op |-> "dataset_commit", item |-> "active", val |-> "none"])
set_mode == Tell(Put("setting", "1"))
ifconfig_up == Tell(Put("ifconfig", "up"))
ifconfig_down == Tell(Put("ifconfig", "down"))
get_ifconfig_state == Query("ifconfig", "last")
add_prefix == Tell(Put("omr", "yes"))
remove_prefix == Tell(Put("omr", "no"))
enable_allowlist == WpanMethod("allowlist",
  <<CliStep(CliGet("setting"), "int"), CliStep(Put("setting", "2"), "ignored")>>)
add_allowlist == Tell(Put("setting", "1"))
srp_client_stop == Tell(Put("setting", "1"))
srp_client_get_server == Query("setting", "str")
thread_start == Tell(Put("role", "detached"))
thread_stop == Tell(Put("role", "disabled"))
active_operational_dataset == Query("active", "checked")
set_dataset_string == Tell(Put("active", "new"))
set_dataset_buffer == Tell(Put("buffer", "new"))
network_data == Query("omr", "checked")
omr_addresses == WpanMethod("omr_addresses",
  <<Retried(CliGet("omr"), "checked", {"yes"}), Retried(CliGet("ifconfig"), "checked", {})>>)
wait_for_state(states) == WpanMethod("wait_for_state",
  <<Retried(CliGet("role"), "str", states)>>)
ping == Query("ifconfig", "last")
ipaddr_mleid == Query("setting", "str")
enable_border_routing == Tell(Put("omr", "yes"))
set_poll_period == Tell(Put("setting", "2"))
get_device_locale == WpanMethod("get_device_locale",
  <<CliStep(Put("diag", "on"), "ignored"),
    CliStep([op |-> "locale", item |-> "diag", val |-> "none"], "ignored"),
    CliStep(Put("diag", "off"), "ignored")>>)
udp_open == Tell(Put("udp", "open"))
udp_bind == Tell(Put("udp", "bound"))
udp_close == Tell(Put("udp", "closed"))
udp_send == [op |-> "udp_send", item |-> "udp", val |-> "none"]
open_udp_and_bind(body) ==
  [name |-> "udp_send_msg", guarded |-> {2, 3},
   steps |-> <<CliStep(Put("udp", "open"), "ignored"), CliStep(Put("udp", "bound"), "ignored"),
               CliStep(body, "ignored"), CliStep(Put("udp", "closed"), "ignored")>>]
udp_send_msg == open_udp_and_bind(udp_send)
tcp_connect == Tell(Put("setting", "2"))
tcp_benchmark_result == Query("setting", "checked")
radio_stats == Query("setting", "checked")
add_ipmaddr == Put("maddr", "in")
ipmaddress == CliGet("maddr")

\* WpanNrfOt.
factory_reset == WpanMethod("factory_reset",
  <<CliStep([op |-> "factoryreset", item |-> "role", val |-> "none"], "sent"),
    Retried(CliGet("role"), "str", {"disabled"})>>)
reset == WpanMethod("reset",
  <<CliStep([op |-> "reset", item |-> "role", val |-> "none"], "sent")>>)
csl_channel == Query("setting", "int")
set_csl_channel == Tell(Put("setting", "2"))
dns_client_config == Query("setting", "checked")
dns_client_set_config == Tell(Put("setting", "1"))
dns_client_browse_services == Query("setting", "found")
get_srp_client_services == Query("setting", "checked")
dns_client_resolve_host == Query("setting", "checked")
dns_client_resolve_service == Query("setting", "found")
is_dns_compression_enabled == Query("setting", "str")
srp_client_autostart == Tell(Put("setting", "2"))
srp_client_add_service == Tell(Put("setting", "2"))
srp_client_remove_host == Tell(Put("setting", "1"))
get_srp_client_host == Query("setting", "checked")
udp_receive_msg == WpanMethod("udp_receive_msg",
  <<CliStep(Put("udp", "closed"), "ignored"), CliStep(Put("udp", "open"), "ignored"),
    CliStep(Put("udp", "bound"), "datagram"), CliStep(Put("udp", "closed"), "ignored")>>)
add_multicast_address_and_verify == WpanMethod("add_multicast",
  <<CliStep(add_ipmaddr, "ignored"),
    [CliStep(ipmaddress, "checked") EXCEPT !.accept = {"in"}]>>)

WpanMethods ==
  {ncp_channel, network_node_type, set_router_selection_jitter, set_region,
   thread_leader_address, thread_neighbor_table, thread_network_data,
   ncp_counter_tx_err_cca, thread_child_table, scan_energy, dataset_init,
   dataset_clear, dataset_commit, set_mode, ifconfig_up, ifconfig_down,
   get_ifconfig_state, add_prefix, remove_prefix, enable_allowlist, add_allowlist,
   srp_client_stop, srp_client_get_server, thread_start, thread_stop,
   active_operational_dataset, set_dataset_string, set_dataset_buffer, network_data,
   omr_addresses, wait_for_state({"leader"}), ping, ipaddr_mleid,
   enable_border_routing, set_poll_period, get_device_locale, udp_open, udp_bind,
   udp_close, udp_send_msg, tcp_connect, tcp_benchmark_result, radio_stats,
   factory_reset, reset, csl_channel, set_csl_channel, dns_client_config,
   dns_client_set_config, dns_client_browse_services, get_srp_client_services,
   dns_client_resolve_host, dns_client_resolve_service, is_dns_compression_enabled,
   srp_client_autostart, srp_client_add_service, srp_client_remove_host,
   get_srp_client_host, udp_receive_msg, add_multicast_address_and_verify}

-----------------------------------------------------------------------------
(* One command. expect captures what is printed from the flush before the  *)
(* send until a line matches.                                              *)

Now == wcall.m.steps[wcall.pc]
Waits == wcall.at = "wait"
IsEnd(line) == IF Now.read = "datagram" THEN IsDatagram(line) ELSE ~IsDatagram(line)
Ended == \E i \in 1..Len(wire) : IsEnd(wire[i])
Captured == SubSeq(wire, 1, SelectInSeq(wire, IsEnd))

\* What call_command and the parser of the method make of the captured lines:
\* the value, or "raised".
Garbage == "garbage"
call_command ==
  LET first == Head(Captured)
      last == Captured[Len(Captured)]
  IN  IF Now.read = "datagram" THEN last.val
      ELSE IF ~IsDatagram(first) THEN IF last.ok THEN last.val ELSE "raised"
      ELSE CASE Now.read = "ignored" \/ (Now.read \in {"found", "last"} /\ last.ok) -> last.val
             [] Now.read = "str" -> Garbage
             [] OTHER -> "raised"

\* A step of the method is over: with what it read, or "raised".
StepOver(v) ==
  LET good == v # "raised" /\ (Now.accept = {} \/ v \in Now.accept)
      retried == ~good /\ wcall.try < Now.tries
      closing == ~good /\ wcall.pc \in wcall.m.guarded
      gaveUp == ~good /\ wcall.m.name = "omr_addresses"
      next == IF closing THEN Len(wcall.m.steps) ELSE wcall.pc + 1
      over == ~retried /\ ~closing /\ (~good \/ next > Len(wcall.m.steps))
  IN  wcall' =
        [wcall EXCEPT
           !.try = IF retried THEN @ + 1 ELSE 1,
           !.pc = IF retried \/ over THEN @ ELSE next,
           !.err = @ \/ (~retried /\ ~good /\ ~gaveUp),
           !.val = IF gaveUp THEN "empty" ELSE v,
           !.at = IF over THEN "over" ELSE "send"]

WpanStart(m) ==
  /\ wcall.at \in {"idle", "over"} /\ whist.calls < MaxWpanCalls
  /\ wcall' = [m |-> m, pc |-> 1, try |-> 1, err |-> FALSE, val |-> "none",
               at |-> IF m.steps = <<>> THEN "over" ELSE "send"]
  /\ whist' = [whist EXCEPT !.calls = @ + 1, !.noisy = FALSE, !.before = ncp.udp,
                            !.lost = FALSE, !.seen = {},
                            !.pending = cli # <<>>]
  /\ UNCHANGED <<ncp, cli, wire>>

\* Mutant: what was printed before the command is kept.
SendWithoutFlush ==
  /\ wcall.at = "send"
  /\ cli' = Append(cli, Now.cmd)
  /\ whist' = [whist EXCEPT !.stale = @ \/ \E i \in 1..Len(cli) : cli[i].op \notin BootCommands,
                            !.seen = IF Now.cmd.op = "get" THEN {ncp[Now.cmd.item]} ELSE {}]
  /\ IF Now.read = "sent" THEN StepOver("none")
     ELSE wcall' = [wcall EXCEPT !.at = "wait"]
  /\ UNCHANGED <<ncp, wire>>
\* send_and_expect flushes what was captured before; _send does not wait.
SendCommand ==
  /\ wcall.at = "send"
  /\ cli' = Append(cli, Now.cmd)
  /\ wire' = <<>>
  /\ whist' = [whist EXCEPT !.stale = @ \/ \E i \in 1..Len(cli) : cli[i].op \notin BootCommands,
                            !.seen = IF Now.cmd.op = "get" THEN {ncp[Now.cmd.item]} ELSE {}]
  /\ IF Now.read = "sent" THEN StepOver("none")
     ELSE wcall' = [wcall EXCEPT !.at = "wait"]
  /\ UNCHANGED ncp

TakeAnswer ==
  /\ Waits /\ Ended
  /\ StepOver(call_command)
  /\ UNCHANGED <<ncp, cli, wire, whist>>

\* Nothing matched in time: DeviceError, whatever call_command finds in before.
NoAnswer ==
  /\ Waits /\ ~Ended
  /\ StepOver("raised")
  /\ whist' = [whist EXCEPT !.lost = TRUE]
  /\ UNCHANGED <<ncp, cli, wire>>

-----------------------------------------------------------------------------
(* The board and its neighbours.                                           *)

Prints(line) == IF Waits THEN Append(wire, line) ELSE wire
Watched(n) == IF Waits /\ Now.cmd.op = "get" THEN {n[Now.cmd.item]} ELSE {}

NcpHandles ==
  /\ cli # <<>> /\ Head(cli).op \notin BootCommands
  /\ LET c == Head(cli) IN
     /\ ncp' = IF Obeys(ncp, c) THEN CliObeyed(ncp, c) ELSE ncp
     /\ wire' = Prints(Printed(ncp, c))
  /\ cli' = Tail(cli)
  /\ whist' = [whist EXCEPT !.seen = @ \cup Watched(ncp')]
  /\ UNCHANGED wcall

\* What was sent while the board boots is lost with it, or read after it.
NcpBoots ==
  /\ cli # <<>> /\ Head(cli).op \in BootCommands
  /\ ncp' = IF Head(cli).op = "reset" THEN Rebooted(ncp) ELSE FactoryNew
  /\ cli' \in {Tail(cli), <<>>}
  /\ whist' = [whist EXCEPT !.seen = @ \cup Watched(ncp')]
  /\ UNCHANGED <<wire, wcall>>

RoleChanges ==
  /\ ncp.role \in {"detached", "leader"}
  /\ ncp' = [ncp EXCEPT !.role = IF @ = "detached" THEN "leader" ELSE "detached"]
  /\ whist' = [whist EXCEPT !.seen = @ \cup Watched(ncp')]
  /\ UNCHANGED <<cli, wire, wcall>>

DatagramArrives ==
  /\ ncp.udp = "bound" /\ whist.datagrams < MaxDatagrams
  /\ wire' = Prints(Datagram)
  /\ whist' = [whist EXCEPT !.datagrams = @ + 1, !.noisy = @ \/ Waits]
  /\ UNCHANGED <<ncp, cli, wcall>>

WpanIdle == [m |-> thread_leader_address, pc |-> 1, try |-> 1, err |-> FALSE,
             val |-> "none", at |-> "idle"]
WpanNew == [calls |-> 0, datagrams |-> 0, stale |-> FALSE, noisy |-> FALSE,
            lost |-> FALSE, pending |-> FALSE, seen |-> {}, before |-> "closed"]

WpanInit ==
  /\ ncp \in {FactoryNew,
              [FactoryNew EXCEPT !.role = "leader", !.ifconfig = "up", !.active = "old",
                                 !.setting = "2"],
              [FactoryNew EXCEPT !.ifconfig = "up", !.udp = "bound", !.maddr = "full"]}
  /\ cli = <<>> /\ wire = <<>> /\ wcall = WpanIdle /\ whist = WpanNew

WpanStep == SendCommand \/ TakeAnswer \/ NoAnswer
WpanBoard == NcpHandles \/ NcpBoots \/ RoleChanges \/ DatagramArrives

\* The program makes no further call and everything sent was handled.
WpanDone ==
  /\ wcall.at \in {"idle", "over"} /\ whist.calls = MaxWpanCalls /\ cli = <<>>
  /\ UNCHANGED wpVars

WpanNext == (\E m \in WpanMethods : WpanStart(m)) \/ WpanStep \/ WpanBoard \/ WpanDone

WpanSpec == WpanInit /\ [][WpanNext]_wpVars

-----------------------------------------------------------------------------
(* Properties.                                                             *)

\* Type correctness: the board's items, the method in progress and its step.
WpanTypeOK ==
  /\ ncp \in NcpItems
  /\ wcall.m \in WpanMethods \cup {WpanIdle.m}
  /\ wcall.at \in {"idle", "send", "wait", "over"}
  /\ wcall.m.steps = <<>> \/ wcall.pc \in 1..Len(wcall.m.steps)

Returned == wcall.at = "over" /\ ~wcall.err
Undisturbed == ~whist.stale /\ ~whist.noisy

\* call_command returns lines without knowing whose they are. Unless an answer
\* that was given up was still to come when the command was sent, or a datagram
\* arrived while it waited, what a query returns was true of the board at some
\* moment of the query, and what a setter set is set.
AnswersAreTrue ==
  (Returned /\ Undisturbed /\ wcall.m.steps # <<>>) =>
     /\ (Now.cmd.op = "get" /\ wcall.val # "empty") => wcall.val \in whist.seen
     /\ (Now.cmd.op = "put" /\ Now.cmd.item # "role") => ncp[Now.cmd.item] = Now.cmd.val

\* The udp socket that udp_send_msg opens is closed by its with block whether
\* the send failed or not, and udp_receive_msg returns with the socket closed,
\* datagram or not; after a command that was not answered nothing is known.
SocketIsClosed ==
  (wcall.at = "over" /\ ~whist.stale /\ ~whist.lost /\ ~whist.pending) =>
     /\ (wcall.m.name = "udp_send_msg" /\ whist.before = "closed") => ncp.udp = "closed"
     /\ (wcall.m.name = "udp_receive_msg" /\ ~wcall.err) => ncp.udp = "closed"

\* get_device_locale that returns has left the diagnostics mode that it entered.
DiagIsLeft ==
  (Returned /\ wcall.m.name = "get_device_locale" /\ ~whist.stale) => ncp.diag = "off"

\* factory_reset returns once the role reads "disabled": the board has forgotten
\* its network by then, although nothing answers the reset itself. A command
\* sent earlier that the board has not handled (a reset() above all, which
\* nothing waits for) may swallow the factory reset.
ResetIsOver ==
  (Returned /\ wcall.m.name = "factory_reset" /\ ~whist.stale /\ ~whist.pending) =>
     ncp.active = "none" /\ ncp.role = "disabled" /\ ncp.udp = "closed"

\* add_multicast_address_and_verify returns only when the board has the address:
\* a datagram or an error in the way makes it raise.
MulticastIsAdded ==
  (Returned /\ wcall.m.name = "add_multicast" /\ ~whist.stale) => ncp.maddr = "in"

\* The methods and the command line of the board stay in step: answers are
\* those of their commands, and sockets, modes and resets are over when the
\* method is.
CliIsInStep ==
  /\ WpanTypeOK
  /\ AnswersAreTrue
  /\ SocketIsClosed
  /\ DiagIsLeft
  /\ ResetIsOver
  /\ MulticastIsAdded
=============================================================================
