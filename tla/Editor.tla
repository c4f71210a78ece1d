-------------------------------- MODULE Editor ---------------------------------
(***************************************************************************)
(* The editor of the account's profile, a dialog of controllers/profile.ts.*)
(*                                                                         *)
(* It saves with one call after another: the name, the picture, each label *)
(* whose box differs from dataset.initial                                  *)
(* (profile.ts:672-709, social.go:856-904 and 1434-1590).  The boxes are   *)
(* read when their turn comes, the dialog can be closed, opened and edited *)
(* while a save runs, and a save that failed is tried again from its form. *)
(***************************************************************************)
EXTENDS Naturals, FiniteSetsExt

CONSTANTS Labels,       \* the boxes, 1..N
          MaxSteps      \* bound: edits, submissions and failures

VARIABLES
    record,     \* the profile record of the account: name, picture, labels
    open,       \* the dialog is shown
    opening,    \* its labels are being fetched
    form,       \* what it holds: name, picture (0 for none), checked, initial
    save,       \* the call of doSaveProfile that is out
    ok,         \* the last save said that it succeeded
    fair,       \* history: the labels were shown as they are, and nothing crossed the save
    n           \* how many of what MaxSteps bounds

vars == <<record, open, opening, form, save, ok, fair, n>>

Step == n < MaxSteps /\ n' = n + 1
NoSave == [at |-> "", label |-> 0, add |-> FALSE, name |-> 0]

Init == /\ record = [name |-> 0, picture |-> 0, labels |-> {1}]
        /\ open = FALSE /\ opening = FALSE /\ save = NoSave /\ ok = FALSE /\ fair = TRUE
        /\ form = [name |-> 0, picture |-> 0, checked |-> {}, initial |-> {}]
        /\ n = 0

\* The button: the boxes are empty until the labels are there.
OpenEditor == /\ ~open /\ ~opening /\ opening' = TRUE /\ ok' = FALSE
              /\ form' = [name |-> record.name, picture |-> 0, checked |-> {}, initial |-> {}]
              /\ fair' = (save = NoSave)
              /\ UNCHANGED <<record, open, save, n>>

\* They are; a record that cannot be read is one without labels, or an error.
GotLabels(read) ==
    LET ls == IF read THEN record.labels ELSE {} IN
    /\ opening /\ opening' = FALSE /\ open' = TRUE
    /\ form' = [form EXCEPT !.checked = @ \cup ls, !.initial = @ \cup ls]
    /\ fair' = (fair /\ ls = record.labels) /\ (read \/ record.labels # {})
    /\ UNCHANGED <<record, save, ok, n>>

Edit(f) == /\ open /\ Step /\ f # form /\ form' = f /\ fair' = (fair /\ save = NoSave)
           /\ UNCHANGED <<record, open, opening, save, ok>>
EditName    == Edit([form EXCEPT !.name = 1])
EditPicture == Edit([form EXCEPT !.picture = 1])
EditLabel(l) == Edit([form EXCEPT !.checked = IF l \in @ THEN @ \ {l} ELSE @ \cup {l}])

CloseEditor == /\ open /\ open' = FALSE /\ fair' = (fair /\ save = NoSave)
               /\ UNCHANGED <<record, opening, form, save, ok, n>>

\* The button of the form is off while a save runs; the name is read at once.
SaveClick == /\ open /\ save = NoSave /\ Step
             /\ save' = [NoSave EXCEPT !.at = "name", !.name = form.name]
             /\ UNCHANGED <<record, open, opening, form, ok, fair>>

\* What the call that is out writes; the name goes over the record as it was read, or over
\* nothing when it could not be read.
Written(read) ==
    CASE save.at = "name" /\ read  -> [record EXCEPT !.name = save.name]
      [] save.at = "name" /\ ~read -> [name |-> save.name, picture |-> 0, labels |-> {}]
      [] save.at = "picture" -> [record EXCEPT !.picture = IF form.picture # 0 THEN form.picture ELSE @]
      [] save.at = "label"   -> [record EXCEPT !.labels = IF save.add THEN @ \cup {save.label}
                                                                        ELSE @ \ {save.label}]

UpdateProfile(read) ==
    /\ save.at = "name" /\ save' = [save EXCEPT !.at = "picture"] /\ record' = Written(read)
    /\ fair' = (fair /\ record'.labels = record.labels)
    /\ UNCHANGED <<open, opening, form, ok, n>>

Differ(f, i) == {l \in Labels : l >= i /\ (l \in f.checked) # (l \in f.initial)}

\* On to the next label that differs, from i on, or the end: the dialog closes.
Labelled(f, i) == /\ form' = f
                  /\ IF Differ(f, i) # {}
                     THEN /\ save' = [save EXCEPT !.at = "label", !.label = Min(Differ(f, i)),
                                                  !.add = Min(Differ(f, i)) \in f.checked]
                          /\ UNCHANGED <<open, ok>>
                     ELSE save' = NoSave /\ open' = FALSE /\ ok' = ~opening

Picture == /\ save.at = "picture" /\ record' = Written(TRUE) /\ Labelled(form, 1)
           /\ UNCHANGED <<opening, fair, n>>

\* Mutant: what was saved is not noted.
Noted_Forgotten == form

\* dataset.initial after a label was written.
Noted == [form EXCEPT !.initial = IF save.add THEN @ \cup {save.label} ELSE @ \ {save.label}]

SetLabel == /\ save.at = "label" /\ record' = Written(TRUE) /\ Labelled(Noted, save.label + 1)
            /\ UNCHANGED <<opening, fair, n>>

\* A call failed, before or after it was carried out; the form stays.
SaveFailed(done) == /\ save # NoSave /\ Step /\ save' = NoSave
                    /\ IF done THEN record' = Written(TRUE) ELSE UNCHANGED record
                    /\ fair' = (fair /\ record'.labels = record.labels)
                    /\ UNCHANGED <<open, opening, form, ok>>

Next == \/ OpenEditor \/ EditName \/ EditPicture \/ CloseEditor \/ SaveClick \/ Picture \/ SetLabel
        \/ \E b \in BOOLEAN : GotLabels(b) \/ UpdateProfile(b) \/ SaveFailed(b)
        \/ \E l \in Labels : EditLabel(l)

Spec == Init /\ [][Next]_vars

\* A save that says it succeeded left the labels, the name and the picture of the form in
\* the account, after however many tries with however many changes between them.
SavedIsForm == ok /\ fair => /\ record.labels = form.checked /\ record.name = form.name
                             /\ form.picture # 0 => record.picture = form.picture

(***************************************************************************)
(* What it rests on.  fair: what the dialog holds as initial is what the   *)
(* account has, and a save has left in it what it has passed.              *)
(***************************************************************************)

Forms == [name : 0..1, picture : 0..1, checked : SUBSET Labels, initial : SUBSET Labels]
Saves == [at : {"", "name", "picture", "label"}, label : Labels \cup {0}, add : BOOLEAN, name : 0..1]
Typed == /\ record \in [name : 0..1, picture : 0..1, labels : SUBSET Labels]
         /\ form \in Forms /\ save \in Saves
         /\ save.at = "" => save = NoSave
         /\ save.at = "label" => save.label \in Labels

\* One stage of the dialog at a time.
Staged == /\ ~(open /\ opening)
          /\ ok => ~open /\ ~opening /\ save = NoSave
          /\ fair /\ save # NoSave => open

\* dataset.initial is what the account has.
InitialIsRead == fair => /\ opening => form.checked = {} /\ form.initial = {}
                         /\ open \/ ok => record.labels = form.initial

\* The name, the picture and the labels before the one that is out are as in the form.
PictureIsSaved == form.picture # 0 => record.picture = form.picture
Passed(l) == \A m \in Labels : m < l => (m \in form.checked <=> m \in form.initial)
SavedSoFar ==
    fair => /\ save.at = "name" => save.name = form.name
            /\ save.at \in {"picture", "label"} => record.name = form.name
            /\ save.at = "label" => /\ Passed(save.label) /\ PictureIsSaved
                                    /\ save.add = (save.label \in form.checked)

EditorInv == Typed /\ Staged /\ InitialIsRead /\ SavedSoFar /\ SavedIsForm
=============================================================================
