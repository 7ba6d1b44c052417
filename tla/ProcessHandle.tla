--------------------------- MODULE ProcessHandle ----------------------------
(***************************************************************************)
(* What a SwitchboardProcess promises to the Switchboard that owns it,     *)
(* without its events, queues and timeouts: the state of the child the     *)
(* handle is bound to.                                                     *)
(*                                                                         *)
(*   none    no child is bound (is_started() is false)                     *)
(*   up      a child is bound and nobody has sent it SIGTERM               *)
(*   doomed  a child is bound and SIGTERM is on its way                    *)
(*   down    the bound child has exited                                    *)
(*                                                                         *)
(* SwitchboardProcess implements this specification, and every process of  *)
(* the Switchboard module's table behaves by it.                           *)
(***************************************************************************)
VARIABLE status

Statuses == {"none", "up", "doomed", "down"}

Init == status = "none"

\* start() binds the child it forked; the child may already have exited.
Started == status = "none" /\ status' \in {"up", "down"}

ChildExits == status \in {"up", "doomed"} /\ status' = "down"

Sigterm == status = "up" /\ status' = "doomed"

\* stop() and terminate() return: a child is never let go of while it is up.
LetGo == status \in {"doomed", "down"} /\ status' = "none"

Next == Started \/ ChildExits \/ Sigterm \/ LetGo

Spec == Init /\ [][Next]_status
=============================================================================
