----------------------------- MODULE ExpectMatch -----------------------------
(***************************************************************************)
(* The search of SwitchboardDefault._expect                                *)
(* (gazoo_device/switchboard/switchboard.py): lines are added to a search  *)
(* window in chunks of at most searchwindowsize characters; after every    *)
(* chunk at most one pattern is looked for and found in the window.        *)
(*                                                                         *)
(* Text is a sequence of characters from a small alphabet, a pattern is a  *)
(* literal string, and pattern.search(window) is its first occurrence.     *)
(***************************************************************************)
EXTENDS Naturals, Sequences, SequencesExt, FiniteSetsExt

CONSTANTS
  Chars,            \* the alphabet
  SearchWindowSize, \* searchwindowsize
  MaxPattern,       \* bound: length of a pattern
  MaxPatterns,      \* bound: length of the pattern list
  MaxText,          \* bound: characters received
  Modes             \* the modes to run: "any", "all", "sequential"

ASSUME ExpectAssumption ==
  /\ SearchWindowSize \in Nat \ {0} /\ MaxPattern \in Nat /\ MaxPatterns \in Nat
  /\ MaxText \in Nat /\ Modes \subseteq {"any", "all", "sequential"}

VARIABLES
  mode, compiledList, \* the arguments
  captured,           \* the text added to the window so far
  window,
  matchList,          \* matches found: pattern and its start in captured
  state,              \* "searching", "found" or "timedout"
  expected            \* how many patterns of the list arrived in a chunk of
                      \* their own, in order: the unit tests' reference

matchVars == <<mode, compiledList, captured, window, matchList, state, expected>>

Chunks == BoundedSeq(Chars, SearchWindowSize) \ {<<>>}
Patterns == BoundedSeq(Chars, MaxPattern) \ {<<>>}

MatchInit ==
  /\ mode \in Modes
  /\ compiledList \in BoundedSeq(Patterns, MaxPatterns) \ {<<>>}
  /\ captured = <<>> /\ window = <<>> /\ matchList = <<>>
  /\ state = "searching" /\ expected = 0

-----------------------------------------------------------------------------
\* p starts right after the first i characters of text.
OccursAt(text, p, i) ==
  i + Len(p) <= Len(text) /\ SubSeq(text, i + 1, i + Len(p)) = p

Occurrences(text, p) == {i \in 0..Len(text) : OccursAt(text, p, i)}

\* The positions in the list of the patterns that are not matched yet.
GetMissingPatterns(matches) ==
  {k \in DOMAIN compiledList :
     IF mode = "sequential" THEN k > Len(matches)
     ELSE \A j \in DOMAIN matches : matches[j].pattern # compiledList[k]}

\* The positions of those to look for next.
GetPatternList(matches) ==
  LET missing == GetMissingPatterns(matches)
  IN  CASE mode = "any" -> DOMAIN compiledList
        [] mode = "all" -> missing
        [] mode = "sequential" -> {k \in missing : \A l \in missing : k <= l}

ExpectedMatches == IF mode = "any" THEN 1 ELSE Len(compiledList)

\* Mutant: keeps one window size only.
WindowAfterSingle(chunk) ==
  LET w == window \o chunk IN SubSeq(w, Max({1, Len(w) - SearchWindowSize + 1}), Len(w))
\* window[-actual_searchwindowsize:]
WindowAfter(chunk) ==
  LET w == window \o chunk IN SubSeq(w, Max({1, Len(w) - 2 * SearchWindowSize + 1}), Len(w))

\* window[match.end():]
Cut(w, i, p) == SubSeq(w, i + Len(p) + 1, Len(w))

\* captured_index - len(window) + match.start(), captured including the chunk.
StartOf(w, i) == Len(captured') - Len(w) + i

Received(chunk) ==
  /\ state = "searching" /\ Len(captured) + Len(chunk) <= MaxText
  /\ captured' = captured \o chunk
  /\ expected' = IF /\ expected < Len(compiledList)
                    /\ Occurrences(chunk, compiledList[expected + 1]) # {}
                 THEN expected + 1 ELSE expected
  /\ UNCHANGED <<mode, compiledList>>

\* The patterns that are looked for and are in the window.
Hits(w) == {k \in GetPatternList(matchList) : Occurrences(w, compiledList[k]) # {}}

NoMatch(chunk) ==
  /\ Received(chunk)
  /\ Hits(WindowAfter(chunk)) = {}
  /\ window' = WindowAfter(chunk)
  /\ UNCHANGED <<matchList, state>>

\* The first pattern of the list that is in the window, where it occurs first.
Match(chunk) ==
  /\ Received(chunk)
  /\ LET w == WindowAfter(chunk)
         p == compiledList[Min(Hits(w))]
         i == Min(Occurrences(w, p))
     IN /\ Hits(w) # {}
        /\ matchList' = Append(matchList, [pattern |-> p, start |-> StartOf(w, i)])
        /\ IF Len(matchList') = ExpectedMatches
           THEN state' = "found" /\ window' = w
           ELSE window' = Cut(w, i, p) /\ UNCHANGED state

\* Also between adding a chunk and looking at it: captured is the text searched.
TimesOut ==
  /\ state = "searching" /\ state' = "timedout"
  /\ UNCHANGED <<mode, compiledList, captured, window, matchList, expected>>

MatchNext == TimesOut \/ \E chunk \in Chunks : NoMatch(chunk) \/ Match(chunk)

MatchSpec == MatchInit /\ [][MatchNext]_matchVars

-----------------------------------------------------------------------------
MatchTypeOK ==
  /\ mode \in Modes /\ state \in {"searching", "found", "timedout"}
  /\ Len(captured) <= MaxText /\ Len(window) <= 2 * SearchWindowSize
  /\ Len(matchList) <= ExpectedMatches
  /\ \A k \in DOMAIN matchList : matchList[k].start \in 0..MaxText

\* .before and .after of the response are split where the pattern really is,
\* however the lines were cut into chunks and the window was shortened.
MatchesAreReal ==
  \A k \in DOMAIN matchList : OccursAt(captured, matchList[k].pattern, matchList[k].start)

\* "any": as long as expect() goes on, no pattern has arrived that is at most
\* one character longer than the search window size: the window is twice that
\* size so that no such pattern slips through between two chunks.
NothingSlipsThrough ==
  mode = "any" /\ state # "found" =>
    \A k \in DOMAIN compiledList :
      Len(compiledList[k]) <= SearchWindowSize + 1
        => Occurrences(captured, compiledList[k]) = {}

\* "sequential" and "all": a later match starts after the end of an earlier one,
\* so one occurrence never counts for two patterns.
MatchesAreDisjoint ==
  \A j, k \in DOMAIN matchList :
    j < k => matchList[j].start + Len(matchList[j].pattern) <= matchList[k].start

\* "sequential": the matches are the first patterns of the list in order, and at
\* least as many as arrived in order in chunks of their own.
SequentialKeepsUp ==
  mode = "sequential" =>
    /\ \A k \in DOMAIN matchList : matchList[k].pattern = compiledList[k]
    /\ Len(matchList) >= expected \/ state = "found"

\* "all": a pattern counts once, however often it is received: the response's
\* remaining patterns and its matches partition the list.
AllPartitions ==
  mode = "all" =>
    /\ \A j, k \in DOMAIN matchList : matchList[j].pattern = matchList[k].pattern => j = k
    /\ state = "found" => GetMissingPatterns(matchList) = {}

\* The search of expect in its sliding window finds what a search in the whole
\* text would find.
SearchIsRight ==
  /\ MatchesAreReal
  /\ NothingSlipsThrough
  /\ MatchesAreDisjoint
  /\ SequentialKeepsUp
  /\ AllPartitions
=============================================================================
