------------------------------ MODULE MCExpect ------------------------------
(***************************************************************************)
(* The two halves of Switchboard.expect in one run: the stream of raw      *)
(* lines that it switches on and off (RawDataQueue), and the search for    *)
(* the patterns in what the stream delivers (ExpectMatch). The halves      *)
(* share no state, so a behaviour moves one of them.                       *)
(***************************************************************************)
EXTENDS RawDataQueue, ExpectMatch

VARIABLE half   \* the half that moves

MCInit ==
  /\ Init /\ MatchInit
  /\ \/ half = "stream" /\ mode = "any" /\ compiledList = << <<"a">> >>
     \/ half = "search" /\ transports = 1

MCNext ==
  \/ half = "stream" /\ Next /\ UNCHANGED <<half, matchVars>>
  \/ half = "search" /\ MatchNext /\ UNCHANGED <<half, vars>>

MCSpec == MCInit /\ [][MCNext]_<<half, vars, matchVars>>

\* Both halves stay within their types: the toggling loop within the list of
\* transports, the match positions within the text.
MCTypeOK == TypeOK /\ MatchTypeOK
=============================================================================
