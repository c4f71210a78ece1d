------------------------------- MODULE Settings -------------------------------
(***************************************************************************)
(* The settings page: controllers/settings.ts, and the preferences of the  *)
(* account that services/social.go reads, changes and writes back whole.   *)
(*                                                                         *)
(* The page fetches five things one after another and fills the form as    *)
(* they come; the form is not locked meanwhile.  Muted words live in       *)
(* mutedWordsCache and, with the index each had then, in the list on the   *)
(* screen.  The other values of the form are kinds: `prefs` those of the   *)
(* preferences, `notif` those of the notifications, `warn` what is done    *)
(* with muted words, `look` what is only on this machine; 0 is the form as *)
(* the page comes.                                                         *)
(***************************************************************************)
EXTENDS Naturals, SequencesExt

CONSTANTS MaxSteps,     \* bound: edits, loads, saves, removals, pins and failures, together
          MaxCrossings  \* bound: times something is begun or edited while a call is out

VARIABLES
    tab,        \* state.currentTab
    cache,      \* state.mutedWordsCache
    rendered,   \* muted-words-list
    form,       \* the other values of the form
    local,      \* state.mutedWordsBehavior and state.dateFormat
    stored,     \* those of localStorage
    account,    \* the preferences of the account, of which this page owns two
    notif,      \* the notification preferences of the account
    people,     \* who is muted, blocked, subscribed to
    listed,     \* who is on the screen with a button to undo it
    calls,      \* loads, saves, removals, pins that are out
    filled,     \* history: what the form was filled with
    told,       \* history: the last thing the reader was told, until the next step
    dropped,    \* history: the words the reader took off the list
    n,          \* how many of the things that MaxSteps bounds
    crossed     \* history: a step while a call was out, a save of a form not filled, a failed load

page == <<tab, cache, rendered, form, listed>>
disk == <<local, stored>>
net  == <<account, notif, people>>
hist == <<filled, told, dropped, n, crossed>>
vars == <<page, disk, net, calls, hist>>

Stages == <<"prefs", "muted", "blocked", "labelers", "notif">>
Start == [look |-> 0, warn |-> 0]

Init == /\ tab = "timeline" /\ cache = <<>> /\ rendered = <<>> /\ listed = {}
        /\ form = [prefs |-> 0, notif |-> 0, warn |-> 0, look |-> 0]
        /\ local = Start /\ stored = Start
        /\ account = [words |-> <<1, 2>>, prefs |-> 1, feeds |-> 0] /\ notif = 1
        /\ people = {"muted", "blocked", "labelers"}
        /\ calls = {} /\ filled = {} /\ told = "" /\ dropped = {} /\ n = 0 /\ crossed = 0

\* Something the reader does, which crosses what is out.
Step(cross) == /\ n < MaxSteps /\ n' = n + 1 /\ told' = ""
               /\ crossed' = IF cross THEN crossed + 1 ELSE crossed
               /\ crossed' <= MaxCrossings
Out == calls # {}

(***************************************************************************)
(* Loading.                                                                *)
(***************************************************************************)

\* Mutant: what is done with muted words is left as it is on the page.
loadLocalSettings_NoRadio == form' = [form EXCEPT !.look = stored.look] /\ local' = stored

\* What is on this machine goes to the form, and to the state.
loadLocalSettings == form' = [form EXCEPT !.look = stored.look, !.warn = stored.warn] /\ local' = stored

Load(why) == /\ loadLocalSettings
             /\ calls' = calls \cup {[kind |-> "load", at |-> 1, why |-> why, k |-> n]}

\* The tab is opened or loaded again.
loadSettings == /\ Step(Out) /\ tab' = "settings" /\ Load("open")
                /\ UNCHANGED <<cache, rendered, listed, stored, net, filled, dropped>>

\* Cancel loads the form anew, and leaves the page when that has ended.
Cancel == /\ tab = "settings" /\ Step(Out) /\ Load("cancel")
          /\ UNCHANGED <<tab, cache, rendered, listed, stored, net, filled, dropped>>

Leaves(c) == /\ tab' = IF c.why = "cancel" THEN "timeline" ELSE tab
             /\ told' = IF c.why = "cancel" THEN "cancelled" ELSE told

\* The next thing is fetched; the list of labelers is emptied before.
NextOf(c) == IF c.at < 5
            THEN calls' = (calls \ {c}) \cup {[c EXCEPT !.at = @ + 1]} /\ UNCHANGED <<tab, told>>
            ELSE calls' = calls \ {c} /\ Leaves(c)
IsAt(c, what) == c.kind = "load" /\ Stages[c.at] = what

renderMutedWords(words) == cache' = words /\ rendered' = words

LoadedPrefs(c) == /\ IsAt(c, "prefs") /\ NextOf(c)
                  /\ renderMutedWords(account.words)
                  /\ form' = [form EXCEPT !.prefs = account.prefs]
                  /\ filled' = filled \cup {"prefs"}
                  /\ UNCHANGED <<listed, disk, net, dropped, n, crossed>>

\* Those of one list, as they are at the service; the labelers come after their list was emptied.
Listed(c, what) == /\ IsAt(c, what) /\ NextOf(c)
                   /\ listed' = (listed \ ({what} \cup IF what = "blocked" THEN {"labelers"} ELSE {}))
                                \cup ({what} \cap people)
                   /\ UNCHANGED <<cache, rendered, form, disk, net, filled, dropped, n, crossed>>
LoadedMutes(c)    == Listed(c, "muted")
LoadedBlocks(c)   == Listed(c, "blocked")
LoadedLabelers(c) == Listed(c, "labelers")

populateNotificationPreferences(c) ==
    /\ IsAt(c, "notif") /\ NextOf(c)
    /\ form' = [form EXCEPT !.notif = notif] /\ filled' = filled \cup {"notif"}
    /\ UNCHANGED <<cache, rendered, listed, disk, net, dropped, n, crossed>>

\* The first three failures end a load, and a cancelling one leaves the page all the same;
\* the last two are passed over.
NotLoaded(c) == /\ c.kind = "load" /\ Step(TRUE)
                /\ IF c.at <= 3
                   THEN calls' = calls \ {c} /\ tab' = IF c.why = "cancel" THEN "timeline" ELSE tab
                   ELSE IF c.at = 4
                   THEN calls' = (calls \ {c}) \cup {[c EXCEPT !.at = 5]} /\ UNCHANGED tab
                   ELSE calls' = calls \ {c} /\ tab' = IF c.why = "cancel" THEN "timeline" ELSE tab
                /\ UNCHANGED <<cache, rendered, form, listed, disk, net, filled, dropped>>

(***************************************************************************)
(* Editing.                                                                *)
(***************************************************************************)

Edit(field) == /\ tab = "settings" /\ Step(Out)
               /\ form' = [form EXCEPT ![field] = 2]
               /\ UNCHANGED <<tab, cache, rendered, listed, disk, net, calls, filled, dropped>>

\* The size of the letters and the hiding of replies are kept at once.
ChangeNow == /\ tab = "settings" /\ Step(Out)
             /\ form' = [form EXCEPT !.look = 3]
             /\ local' = [local EXCEPT !.look = 3] /\ stored' = [stored EXCEPT !.look = 3]
             /\ UNCHANGED <<tab, cache, rendered, listed, net, calls, filled, dropped>>

handleAddMutedWords(w) == /\ tab = "settings" /\ Step(Out)
                          /\ renderMutedWords(IF Contains(cache, w) THEN cache ELSE Append(cache, w))
                          /\ UNCHANGED <<tab, form, listed, disk, net, calls, filled, dropped>>

\* Mutant: the rows that stay keep the index they had.
RemoveWord_NoRender(i) == /\ tab = "settings" /\ Step(Out)
                          /\ i \in DOMAIN cache /\ cache' = RemoveAt(cache, i)
                          /\ dropped' = dropped \cup {rendered[i]}
                          /\ UNCHANGED <<tab, rendered, form, listed, disk, net, calls, filled>>

\* The button of a row takes away the word at the index of the row.
RemoveWord(i) == /\ tab = "settings" /\ Step(Out)
                 /\ i \in DOMAIN cache /\ renderMutedWords(RemoveAt(cache, i))
                 /\ dropped' = dropped \cup {rendered[i]}
                 /\ UNCHANGED <<tab, form, listed, disk, net, calls, filled>>

(***************************************************************************)
(* Saving.                                                                 *)
(***************************************************************************)

\* What is on this machine is kept at once; the rest is sent as it is now.
Submit == /\ tab = "settings" /\ Step(Out \/ filled # {"prefs", "notif"})
          /\ local' = [local EXCEPT !.look = form.look] /\ stored' = [stored EXCEPT !.look = form.look]
          /\ calls' = calls \cup {[kind |-> "save", step |-> "get", words |-> cache,
                                   prefs |-> form.prefs, base |-> account, notif |-> 0]}
          /\ UNCHANGED <<page, net, filled, dropped>>

Moves(c, d) == calls' = (calls \ {c}) \cup {d}

\* mutatePrefs reads all preferences, and writes all back.
mutatePrefs(c) == /\ c.kind \in {"save", "pin"} /\ c.step = "get"
                  /\ Moves(c, [c EXCEPT !.step = "put", !.base = account])
                  /\ UNCHANGED <<page, disk, net, hist>>

\* Mutant: what this call does not own is not sent back.
UpdateAllPreferences_OwnOnly(c) == [words |-> c.words, prefs |-> c.prefs, feeds |-> 0]

\* Every preference this call does not own is kept.
UpdateAllPreferences(c) == [c.base EXCEPT !.words = c.words, !.prefs = c.prefs]

\* Mutant: the second call is not waited for.
Put_Early(c) == /\ c.kind = "save" /\ c.step = "put" /\ account' = UpdateAllPreferences(c)
                /\ Moves(c, [c EXCEPT !.step = "notif", !.notif = form.notif])
                /\ local' = [local EXCEPT !.warn = form.warn] /\ stored' = [stored EXCEPT !.warn = form.warn]
                /\ tab' = "timeline" /\ told' = "saved"
                /\ UNCHANGED <<cache, rendered, form, listed, notif, people, filled, dropped, n, crossed>>

\* The notification preferences are read from the form when the others are saved.
Put(c) == /\ c.kind = "save" /\ c.step = "put" /\ account' = UpdateAllPreferences(c)
          /\ Moves(c, [c EXCEPT !.step = "notif", !.notif = form.notif])
          /\ UNCHANGED <<page, disk, notif, people, hist>>

Saved(c) == /\ c.kind = "save" /\ c.step = "notif" /\ calls' = calls \ {c}
            /\ notif' = c.notif
            /\ local' = [local EXCEPT !.warn = form.warn] /\ stored' = [stored EXCEPT !.warn = form.warn]
            /\ tab' = "timeline" /\ told' = "saved"
            /\ UNCHANGED <<cache, rendered, form, listed, account, people, filled, dropped, n, crossed>>

\* The reader is told of an error, though the first of the two may be saved.
NotSaved(c) == /\ c.kind = "save" /\ Step(FALSE) /\ calls' = calls \ {c}
               /\ UNCHANGED <<page, disk, net, filled, dropped>>

\* A feed is pinned: the same read and write, of the saved feeds.
PinFeed == /\ Step(Out) /\ calls' = calls \cup {[kind |-> "pin", step |-> "get", base |-> account]}
           /\ UNCHANGED <<page, disk, net, filled, dropped>>
Pinned(c) == /\ c.kind = "pin" /\ c.step = "put" /\ calls' = calls \ {c}
             /\ account' = [c.base EXCEPT !.feeds = @ + 1]
             /\ UNCHANGED <<page, disk, notif, people, hist>>

(***************************************************************************)
(* The lists of people.                                                    *)
(***************************************************************************)

Undo(who) == /\ tab = "settings" /\ who \in listed /\ Step(Out)
             /\ calls' = calls \cup {[kind |-> "undo", who |-> who]}
             /\ UNCHANGED <<page, disk, net, filled, dropped>>

\* Mutant: the row stays.
Undone_KeepsRow(c) == /\ c.kind = "undo" /\ c.who # "labelers" /\ calls' = calls \ {c}
                      /\ people' = people \ {c.who}
                      /\ UNCHANGED <<page, disk, account, notif, hist>>

\* The row of a muted or blocked one goes.
Undone(c) == /\ c.kind = "undo" /\ c.who # "labelers" /\ calls' = calls \ {c}
             /\ people' = people \ {c.who} /\ listed' = listed \ {c.who}
             /\ UNCHANGED <<tab, cache, rendered, form, disk, account, notif, hist>>

\* After a labeler is left, and after one is added, the whole page is loaded: edits go.
SubscribeLabeler == /\ tab = "settings" /\ Step(Out)
                    /\ calls' = calls \cup {[kind |-> "add", who |-> "labelers"]}
                    /\ UNCHANGED <<page, disk, net, filled, dropped>>
Labelers(c) == /\ c.kind \in {"undo", "add"} /\ c.who = "labelers"
               /\ people' = IF c.kind = "undo" THEN people \ {"labelers"} ELSE people \cup {"labelers"}
               /\ loadLocalSettings
               /\ Moves(c, [kind |-> "load", at |-> 1, why |-> "open", k |-> n])
               /\ UNCHANGED <<tab, cache, rendered, listed, stored, account, notif, hist>>

Next == \/ loadSettings \/ Cancel \/ ChangeNow \/ Submit \/ PinFeed \/ SubscribeLabeler
        \/ handleAddMutedWords(3)
        \/ \E i \in DOMAIN rendered : RemoveWord(i)
        \/ \E f \in {"prefs", "notif", "warn", "look"} : Edit(f)
        \/ \E who \in listed : Undo(who)
        \/ \E c \in calls : \/ LoadedPrefs(c) \/ LoadedMutes(c) \/ LoadedBlocks(c) \/ LoadedLabelers(c)
                            \/ populateNotificationPreferences(c) \/ NotLoaded(c)
                            \/ mutatePrefs(c) \/ Put(c) \/ Saved(c) \/ NotSaved(c) \/ Pinned(c)
                            \/ Undone(c) \/ Labelers(c)

Spec == Init /\ [][Next]_vars

(***************************************************************************)
(* Properties, as long as no step crossed a call that was out, a form was  *)
(* only saved after it was filled, and no load failed.                     *)
(***************************************************************************)

InStep == /\ cache = account.words /\ form.prefs = account.prefs /\ form.notif = notif
          /\ form.warn = stored.warn /\ form.look = stored.look /\ local = stored

\* A reader who is told that the settings are saved has on the page what the account and
\* this machine have, in all the calls a save takes; failures are told as such.
SavedIsKept == told = "saved" /\ crossed = 0 => InStep

\* A reader who cancels finds the page as the account and this machine have it.
CancelRestores == told = "cancelled" /\ crossed = 0 => InStep

\* No muted word leaves the account but one whose row the reader took off the list.
WordsStay == crossed = 0 => {1, 2} \subseteq ToSet(account.words) \cup dropped

\* Saving the settings keeps the feeds that were pinned before.
PinsKept == crossed' = 0 => account'.feeds >= account.feeds
PinsStay == [][PinsKept]_vars

\* Nobody is offered to be unmuted, unblocked or left who is not muted, blocked or
\* subscribed to.
ListedAreOn == crossed = 0 /\ calls = {} => listed \subseteq people

\* What these rest on, as long as nothing crossed: one call at most is out; what a load has
\* fetched by then is in the form, what a save has put is in the account, and what a pin has
\* read is what the account has.
Accounts == [words : Seq(Nat), prefs : Nat, feeds : Nat]
Forms    == [prefs : Nat, notif : Nat, warn : Nat, look : Nat]
Loading(c) == /\ c \in [kind : {"load"}, at : 1..5, why : {"open", "cancel"}, k : Nat]
              /\ form.warn = stored.warn /\ form.look = stored.look
              /\ c.at > 1 => cache = account.words /\ form.prefs = account.prefs
Saving(c)  == /\ c \in [kind : {"save"}, step : {"get", "put", "notif"}, words : Seq(Nat),
                        prefs : Nat, base : Accounts, notif : Nat]
              /\ "prefs" \in filled /\ form.look = stored.look
              /\ c.words = cache /\ c.prefs = form.prefs
              /\ c.step = "put" => c.base = account
              /\ c.step = "notif" => /\ account.words = c.words /\ account.prefs = c.prefs
                                     /\ c.notif = form.notif
Pinning(c) == /\ c \in [kind : {"pin"}, step : {"get", "put"}, base : Accounts]
              /\ c.step = "put" => c.base = account
Asking(c)  == c \in [kind : {"undo", "add"}, who : {"muted", "blocked", "labelers"}]

WordsIn(words) == {1, 2} \subseteq ToSet(words) \cup dropped
Behind == "labelers" \in listed /\ "labelers" \notin people
Values == /\ cache \in Seq(Nat) /\ rendered = cache /\ form \in Forms /\ n \in Nat
          /\ local \in [look : Nat, warn : Nat] /\ stored = local
          /\ account \in Accounts /\ notif \in Nat
          /\ told \in {"", "saved", "cancelled"}
          /\ listed \subseteq {"muted", "blocked", "labelers"}
          /\ listed \subseteq people \cup {"labelers"}
OneCall == \/ calls = {} /\ ~Behind
           \/ /\ told = ""
              /\ \E c \in calls : /\ calls = {c}
                                  /\ \/ Loading(c) /\ (Behind => c.at <= 3)
                                     \/ ~Behind /\ (Saving(c) \/ Pinning(c) \/ Asking(c))
Kept == /\ Values /\ OneCall
        /\ WordsIn(account.words) /\ ("prefs" \in filled => WordsIn(cache))
        /\ told # "" => InStep
SettingsInv == crossed \in Nat /\ (crossed = 0 => Kept)
=============================================================================
