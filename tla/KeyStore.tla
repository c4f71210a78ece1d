------------------------------- MODULE KeyStore -------------------------------
(***************************************************************************)
(* database/keystore.go, keystore_unix.go and the part of database/db.go   *)
(* and crypto.go that depends on the key: how the key that encrypts the    *)
(* saved session is found, adopted or made when a process starts, and      *)
(* whether the next process can still read what this one has saved.        *)
(*                                                                         *)
(* Keys are numbers in the order they were made.  Each process of the      *)
(* application runs the start once and may be killed between any two steps.*)
(***************************************************************************)
EXTENDS Integers

CONSTANTS Procs,     \* the processes that may run at once on one folder
          Starts,    \* what the folder holds at first
          Stores,    \* the key stores that may be the platform's
          Faults,    \* what may go wrong, besides a kill
          MaxKeys    \* bound: keys made

ASSUME KeysAssumption == MaxKeys \in Nat \ {0}
ASSUME StoresAssumption ==
    /\ Stores \subseteq {"service", "file"} /\ Stores # {}
    /\ Starts \subseteq {"empty", "legacykey", "plainrow"}
    /\ Faults \subseteq {"locked", "switch", "torn", "savefail", "removefail"}

Keys  == 0..MaxKeys     \* 0: no key
Short == -1             \* a key file that was not written to the end
Row(k)    == [kind |-> "sealed", key |-> k]
NoRow     == [kind |-> "none", key |-> 0]
PlainRow  == [kind |-> "plain", key |-> 0]
Rows      == {NoRow, PlainRow} \cup {Row(k) : k \in 1..MaxKeys}

VARIABLES
    platform,  \* the store newKeyStore picks
    saved,     \* saved[s]: the key in store s
    legacy,    \* the key in .secret.key
    row,       \* the session row and the key it is encrypted with
    made,      \* keys made so far
    pc,        \* where each process is
    store,     \* the store it picked
    key,       \* the key it has in hand
    mishaps    \* history: what has gone wrong outside this code's steps

proc == <<pc, store, key>>
disk == <<saved, legacy, row, made>>
vars == <<platform, disk, proc, mishaps>>

\* "unseen": a key was there and the keyring did not show it; "moved": the store
\* is another one than before; "torn": a key file was left half-written; "twice":
\* two processes were up at once.
Mishaps == {"unseen", "moved", "torn", "twice"}

\* The mishap m happens when c holds.
Note(c, m) == mishaps' = IF c THEN mishaps \cup {m} ELSE mishaps

Init == \E s \in Starts :
          /\ platform \in Stores
          /\ saved = [t \in {"service", "file"} |-> 0]
          /\ legacy = IF s = "legacykey" THEN 1 ELSE 0
          /\ made = legacy
          /\ row = CASE s = "legacykey" -> Row(1) [] s = "plainrow" -> PlainRow
                     [] OTHER -> NoRow
          /\ pc = [p \in Procs |-> "off"]
          /\ store = [p \in Procs |-> platform]
          /\ key = [p \in Procs |-> 0]
          /\ mishaps = {}

Goto(p, l) == pc' = [pc EXCEPT ![p] = l]
Hold(p, k) == key' = [key EXCEPT ![p] = k]

\* The process is over: it was killed, it quit, or InitDB failed and startup quit.
Over(p) == Goto(p, "off") /\ Hold(p, 0) /\ UNCHANGED store

(***************************************************************************)
(* newKeyStore and loadOrCreateKey.                                        *)
(***************************************************************************)
Launch(p) == /\ pc[p] = "off"
             /\ Goto(p, "load")
             /\ store' = [store EXCEPT ![p] = platform]
             /\ Note(\E q \in Procs : pc[q] # "off", "twice")
             /\ UNCHANGED <<platform, disk, key>>

\* secret-tool exits with an error and no output when there is no such item, and
\* also when the keyring stays locked: both are found = false.
NotFound(p) == saved[store[p]] = 0 \/ (store[p] = "service" /\ "locked" \in Faults)

\* Mutant: what store.Load returns is used whether it was found or not.
LoadKey_Trusting(p) ==
    /\ pc[p] = "load"
    /\ Hold(p, saved[store[p]]) /\ Goto(p, "open")
    /\ UNCHANGED <<platform, disk, store, mishaps>>

LoadKey(p) ==
    /\ pc[p] = "load"
    /\ \/ /\ NotFound(p)
          /\ Goto(p, "legacy")
          /\ Note(saved[store[p]] # 0, "unseen")
          /\ UNCHANGED <<store, key>>
       \/ saved[store[p]] = Short /\ Over(p) /\ UNCHANGED mishaps
       \/ /\ saved[store[p]] > 0
          /\ Hold(p, saved[store[p]])
          /\ Goto(p, "open")
          /\ UNCHANGED <<store, mishaps>>
    /\ UNCHANGED <<platform, disk>>

ReadLegacy(p) ==
    /\ pc[p] = "legacy"
    /\ \/ /\ legacy # 0
          /\ Hold(p, legacy)
          /\ Goto(p, "adopt")
          /\ UNCHANGED made
       \/ /\ legacy = 0 /\ made < MaxKeys
          /\ made' = made + 1
          /\ Hold(p, made + 1)
          /\ Goto(p, "create")
    /\ UNCHANGED <<platform, saved, legacy, row, store, mishaps>>

AfterSave(p) == IF pc[p] \in {"adopt", "adopting"} THEN "remove" ELSE "open"

\* Mutants: a new key is used without being saved; the legacy file goes first.
SaveKey_Skips(p) == /\ pc[p] \in {"adopt", "create"}
                    /\ Goto(p, AfterSave(p))
                    /\ UNCHANGED <<platform, disk, store, key, mishaps>>

SaveKey_RemovesFirst(p) ==
    /\ pc[p] \in {"adopt", "create", "adopting"}
    /\ \/ /\ pc[p] = "adopt"
          /\ legacy' = 0 /\ Goto(p, "adopting")
          /\ UNCHANGED saved
       \/ /\ pc[p] # "adopt"
          /\ saved' = [saved EXCEPT ![store[p]] = key[p]]
          /\ Goto(p, "open")
          /\ UNCHANGED legacy
    /\ UNCHANGED <<platform, row, made, store, key, mishaps>>

\* store.Save: one command of the Secret Service; os.WriteFile truncates first.
SaveKey(p) ==
    /\ pc[p] \in {"adopt", "create", "adopting", "creating"}
    /\ \/ /\ pc[p] \in {"adopt", "create"} /\ store[p] = "file" /\ "torn" \in Faults
          /\ saved' = [saved EXCEPT !["file"] = Short]
          /\ Goto(p, IF pc[p] = "adopt" THEN "adopting" ELSE "creating")
          /\ UNCHANGED <<store, key, mishaps>>
       \/ /\ saved' = [saved EXCEPT ![store[p]] = key[p]]
          /\ Goto(p, AfterSave(p))
          /\ UNCHANGED <<store, key, mishaps>>
       \/ /\ "savefail" \in Faults
          /\ Over(p)
          /\ Note(saved[store[p]] = Short, "torn")
          /\ UNCHANGED saved
    /\ UNCHANGED <<platform, legacy, row, made>>

\* os.Remove, its error ignored.
RemoveLegacy(p) ==
    /\ pc[p] = "remove"
    /\ \/ legacy' = 0
       \/ "removefail" \in Faults /\ UNCHANGED legacy
    /\ Goto(p, "open")
    /\ UNCHANGED <<platform, saved, row, made, store, key, mishaps>>

(***************************************************************************)
(* The session row, once the key is there.                                 *)
(***************************************************************************)
\* GetSession at startup: a plaintext row is encrypted; a row that another key
\* encrypted is an error, and the login form comes up.
Restore(p) == /\ pc[p] = "open"
              /\ Goto(p, "run")
              /\ row' = IF row.kind = "plain" THEN Row(key[p]) ELSE row
              /\ UNCHANGED <<platform, saved, legacy, made, store, key, mishaps>>

\* SaveSession at a login or a refresh; ClearSession.
SaveSession(p) == /\ pc[p] = "run"
                  /\ row' = Row(key[p])
                  /\ UNCHANGED <<platform, saved, legacy, made, proc, mishaps>>

ClearSession(p) == /\ pc[p] = "run"
                   /\ row' = NoRow
                   /\ UNCHANGED <<platform, saved, legacy, made, proc, mishaps>>

Kill(p) == /\ pc[p] # "off"
           /\ Over(p)
           /\ Note(pc[p] \in {"adopting", "creating"}, "torn")
           /\ UNCHANGED <<platform, disk>>

\* secret-tool is installed or removed between two runs.
Switch == /\ "switch" \in Faults
          /\ platform' \in Stores \ {platform}
          /\ \A p \in Procs : pc[p] = "off"
          /\ Note(TRUE, "moved")
          /\ UNCHANGED <<disk, proc>>

Next == \/ \E p \in Procs : \/ Launch(p) \/ LoadKey(p) \/ ReadLegacy(p) \/ SaveKey(p)
                            \/ RemoveLegacy(p) \/ Restore(p) \/ SaveSession(p)
                            \/ ClearSession(p) \/ Kill(p)
        \/ Switch

Spec == Init /\ [][Next]_vars

(***************************************************************************)
(* Properties.                                                             *)
(***************************************************************************)
Pcs == {"off", "load", "legacy", "adopt", "adopting", "create", "creating", "remove",
        "open", "run"}

\* Every variable holds a value of its type.
TypeOK == /\ platform \in Stores
          /\ saved \in [{"service", "file"} -> Keys \cup {Short}]
          /\ legacy \in Keys
          /\ row \in Rows
          /\ made \in Keys
          /\ pc \in [Procs -> Pcs]
          /\ store \in [Procs -> Stores]
          /\ key \in [Procs -> Keys]
          /\ mishaps \subseteq Mishaps

\* The key the next process will use, if no write is left half-done.
NextKey == IF saved[platform] > 0 THEN saved[platform] ELSE legacy

\* Whatever step a process is killed at, and whatever fails, the next one can
\* decrypt the saved session: "adopt the legacy plaintext key if there is one so
\* existing users keep their saved session" (keystore.go:56-57).  A key file is
\* short, which stops a start, only at the moment it is written.
SessionReadable ==
    mishaps = {} /\ row.kind = "sealed" =>
       /\ row.key = NextKey
       /\ saved[platform] = Short => \E p \in Procs : pc[p] \in {"adopting", "creating"}

\* A key that is in use is in the store, or the next start loses what it sealed
\* ("sessions would not survive a restart", db_test.go:122): only a second process
\* can replace it.
KeyIsSaved == \A p \in Procs :
                 "twice" \notin mishaps /\ pc[p] \in {"open", "run"} => key[p] = saved[store[p]]
=============================================================================
