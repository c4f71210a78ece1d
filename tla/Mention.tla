-------------------------------- MODULE Mention --------------------------------
(***************************************************************************)
(* The list that completes a mention: components/mention_autocomplete.ts.  *)
(* A text is a sequence of "@", "a" (a letter of a handle) and " "; the    *)
(* handle of every profile is one letter.                                  *)
(***************************************************************************)
EXTENDS Integers, SequencesExt

CONSTANTS MaxText,      \* bound: the longest text that is typed
          MaxFound,     \* profiles the search returns at most (8)
          MaxFetches    \* bound: searches

VARIABLES
    text,       \* textarea.value
    cursor,     \* selectionStart
    start,      \* mentionStartPos
    end,        \* mentionEndPos
    timer,      \* searchTimer: the query it will search for, or NoQuery
    fetches,    \* the queries being searched for
    calls,      \* how many there have been
    found,      \* profiles, as many as there are
    active,     \* activeIndex
    isVisible,
    late,       \* history: an answer has been shown when its mention was gone
    eaten       \* history: text other than a mention has been replaced

list == <<found, active, isVisible>>
vars == <<text, cursor, start, end, timer, fetches, calls, list, late, eaten>>

Letters == {"@", "a", " "}
NoQuery == -1

Init == /\ text = <<>> /\ cursor = 0 /\ start = -1 /\ end = -1
        /\ timer = NoQuery /\ fetches = {} /\ calls = 0
        /\ found = 0 /\ active = -1 /\ isVisible = FALSE
        /\ late = FALSE /\ eaten = FALSE

\* text.substring, and what a choice would replace.
Cut(a, b)    == SubSeq(text, a + 1, IF b < Len(text) THEN b ELSE Len(text))
Replaced     == Cut(start, end)
IsMention(w) == w # <<>> /\ Head(w) = "@" /\ \A i \in 2..Len(w) : w[i] = "a"

close == found' = 0 /\ active' = -1 /\ isVisible' = FALSE

\* Where the "@" of the word before position c of t is, or -1.
At(t, c) == LET from == {p \in 1..c : /\ t[p] = "@" /\ (p = 1 \/ t[p - 1] = " ")
                                      /\ \A q \in (p + 1)..c : t[q] = "a"}
            IN  IF from = {} THEN -1 ELSE (CHOOSE p \in from : TRUE) - 1

\* The letters typed after it.
Query(t, c) == IF At(t, c) = -1 THEN NoQuery ELSE c - At(t, c) - 1

\* Mutant: a word that is no mention leaves the list as it is.
onInput_StaysOpen ==
    LET query == Query(text', cursor') IN
    IF query = NoQuery THEN UNCHANGED <<start, end, timer, list>>
    ELSE /\ start' = At(text', cursor') /\ end' = cursor'
         /\ timer' = query /\ UNCHANGED list

\* A word that is no mention closes the list, and leaves the timer and the search.
onInput ==
    LET query == Query(text', cursor') IN
    IF query = NoQuery THEN close /\ UNCHANGED <<start, end, timer>>
    ELSE /\ start' = At(text', cursor') /\ end' = cursor'
         /\ timer' = query /\ UNCHANGED list

Type(c) == /\ Len(text) < MaxText
           /\ text' = InsertAt(text, cursor + 1, c) /\ cursor' = cursor + 1
           /\ onInput
           /\ UNCHANGED <<fetches, calls, late, eaten>>

Backspace == /\ cursor > 0 /\ text' = RemoveAt(text, cursor) /\ cursor' = cursor - 1
             /\ onInput
             /\ UNCHANGED <<fetches, calls, late, eaten>>

\* The cursor moves without an input event.
Move(c) == /\ cursor' = c /\ UNCHANGED <<text, start, end, timer, fetches, calls, list, late, eaten>>

\* 150 ms without a key.
Fire == /\ timer # NoQuery /\ calls < MaxFetches /\ calls' = calls + 1
        /\ fetches' = fetches \cup {timer} /\ timer' = NoQuery
        /\ UNCHANGED <<text, cursor, start, end, list, late, eaten>>

\* Mutant: the list opens with the item that was active.
renderDropdown_KeepsActive(n) == found' = n /\ isVisible' = TRUE /\ active' = (IF active < 0 THEN 0 ELSE active)

renderDropdown(n) == found' = n /\ isVisible' = TRUE /\ active' = 0

\* The answer is not compared with what is typed by now; a failure is no profile.
fetchProfiles(q, n) ==
    /\ q \in fetches /\ fetches' = fetches \ {q}
    /\ IF n > 0 THEN renderDropdown(n) ELSE close
    /\ late' = (late \/ (n > 0 /\ ~IsMention(Replaced)))
    /\ UNCHANGED <<text, cursor, start, end, timer, calls, eaten>>

Arrow(step) == /\ isVisible /\ found > 0 /\ active' = (active + step + found) % found
               /\ UNCHANGED <<text, cursor, start, end, timer, fetches, calls, found, isVisible, late, eaten>>

\* Enter, Tab and a click: the handle and a blank, and the input event of the change.
selectProfile ==
    /\ isVisible /\ active \in 0..(found - 1)
    /\ text' = Cut(0, start) \o <<"@", "a", " ">> \o Cut(end, Len(text))
    /\ cursor' = IF start < Len(text) THEN start + 3 ELSE Len(text) + 3
    /\ close
    /\ eaten' = (eaten \/ ~IsMention(Replaced))
    /\ UNCHANGED <<start, end, timer, fetches, calls, late>>

\* Escape, and 200 ms after the focus is lost.
Escape == isVisible /\ close /\ UNCHANGED <<text, cursor, start, end, timer, fetches, calls, late, eaten>>

Next == \/ \E c \in Letters : Type(c)
        \/ Backspace \/ Fire \/ selectProfile \/ Escape
        \/ \E c \in 0..Len(text) : Move(c)
        \/ \E q \in fetches, n \in 0..MaxFound : fetchProfiles(q, n)
        \/ \E step \in {1, -1} : Arrow(step)

Spec == Init /\ [][Next]_vars

(***************************************************************************)
(* Properties.                                                             *)
(***************************************************************************)

\* While the list is open, Enter and Tab, which it takes away from the text, choose a
\* profile: the active item is one of those listed, however the answers overtake each
\* other.
ActiveIsListed == isVisible => active \in 0..(found - 1)

\* Only a mention is replaced, wherever the cursor went, unless the list came when the
\* mention it was for was no longer there.
OnlyMentionReplaced == eaten => late

(***************************************************************************)
(* What they rest on.                                                      *)
(***************************************************************************)

Typed == text \in Seq(Letters) /\ cursor \in 0..Len(text) /\ isVisible \in BOOLEAN

\* Before there was a mention nothing is searched for.
Placed == \/ start = -1 /\ end = -1 /\ timer = NoQuery /\ fetches = {} /\ ~isVisible
          \/ start \in Nat /\ end \in Nat

\* What a choice replaces as long as no answer came late.
Listed == isVisible => found \in Nat /\ (late \/ IsMention(Replaced))

MentionInv == Typed /\ Placed /\ Listed /\ ActiveIsListed /\ OnlyMentionReplaced
=============================================================================
