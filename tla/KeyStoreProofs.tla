---------------------------- MODULE KeyStoreProofs ----------------------------
(***************************************************************************)
(* A saved session survives any number of kills, failures and restarts,    *)
(* and a key in use is a key in the store: for any number of keys and      *)
(* processes, any stores and any starting folder, as long as the mishaps   *)
(* each property names have not happened.                                  *)
(***************************************************************************)
EXTENDS KeyStore, TLAPS

USE KeysAssumption, StoresAssumption

\* Who is up uses the store of the platform, and is alone.
Alone == /\ \A p \in Procs : pc[p] # "off" => store[p] = platform
         /\ "twice" \notin mishaps =>
              \A p, q \in Procs : pc[p] # "off" /\ pc[q] # "off" => p = q

\* Who has a key to work with has saved it.
Saved == "twice" \notin mishaps =>
           \A p \in Procs : pc[p] \in {"remove", "open", "run"} => key[p] = saved[platform]

\* A key in hand is a key.
Holding == \A p \in Procs : pc[p] \notin {"off", "load", "legacy"} => key[p] # 0

\* What a start that is under way knows of the key and of the folder.
Stage(p) ==
    /\ pc[p] \in {"legacy", "adopt", "create"} => saved[platform] = 0
    /\ pc[p] \in {"adopt", "adopting"} => key[p] = legacy /\ legacy # 0
    /\ pc[p] \in {"create", "creating"} => legacy = 0
    /\ pc[p] \in {"adopting", "creating"} => saved[platform] = Short

\* A key file is short only while it is being written.
Whole == saved[platform] = Short => \E p \in Procs : pc[p] \in {"adopting", "creating"}

Staged == mishaps = {} => Whole /\ \A p \in Procs : Stage(p)

\* The key the next start will find opens the saved session.
Opens == mishaps = {} /\ row.kind = "sealed" => row.key = NextKey

KeyInv == TypeOK /\ Alone /\ Saved /\ Holding /\ Staged /\ Opens

-----------------------------------------------------------------------------
\* The membership facts the steps need.
LEMMA Values ==
    /\ \A k \in Keys : k # Short /\ ~(0 > k) /\ (k > 0 <=> k # 0)
    /\ ~(Short > 0) /\ Short # 0
    /\ \A k \in Keys \cup {Short} : k > 0 => k \in Keys
    /\ \A k \in Keys : k < MaxKeys => k + 1 \in Keys /\ k + 1 # 0
    /\ 0 \in Keys /\ 1 \in Keys
    /\ \A k \in Keys : k # 0 => Row(k) \in Rows
    /\ NoRow \in Rows /\ PlainRow \in Rows
<1>1. /\ \A k \in Keys : k # Short /\ ~(0 > k) /\ (k > 0 <=> k # 0)
      /\ ~(Short > 0) /\ Short # 0
      /\ \A k \in Keys \cup {Short} : k > 0 => k \in Keys
      /\ \A k \in Keys : k < MaxKeys => k + 1 \in Keys /\ k + 1 # 0
      /\ 0 \in Keys /\ 1 \in Keys
  BY DEF Keys, Short
<1>2. \A k \in Keys : k # 0 => k \in 1..MaxKeys
  BY DEF Keys
<1>3. \A k \in Keys : k # 0 => Row(k) \in Rows
  BY <1>2 DEF Rows
<1>4. NoRow \in Rows /\ PlainRow \in Rows
  BY DEF Rows
<1> QED
  BY <1>1, <1>3, <1>4

\* Kinds and keys of the rows.
LEMMA RowFacts ==
    /\ \A k : Row(k).kind = "sealed" /\ Row(k).key = k
    /\ NoRow.kind = "none" /\ PlainRow.kind = "plain"
    /\ \A r \in Rows : r.kind = "sealed" => r.key # 0 /\ r.key \in Keys
BY DEF Keys, Rows, Row, NoRow, PlainRow

\* The invariant holds initially.
LEMMA InitKeyInv == Init => KeyInv
<1> SUFFICES ASSUME Init PROVE KeyInv
  OBVIOUS
<1>1. TypeOK
  BY Values DEF Init, TypeOK, Pcs, Mishaps
<1>2. Alone /\ Saved /\ Holding
  BY DEF Init, Alone, Saved, Holding
<1>3. Staged
  BY Values DEF Init, Staged, Stage, Whole
<1>4. Opens
  BY RowFacts, Values DEF Init, Opens, NextKey
<1> QED
  BY <1>1, <1>2, <1>3, <1>4 DEF KeyInv

\* Every step keeps it.
LEMMA StepKeyInv == KeyInv /\ [Next]_vars => KeyInv'
<1> SUFFICES ASSUME KeyInv, [Next]_vars PROVE KeyInv'
  OBVIOUS
<1> USE Values, RowFacts DEF KeyInv, TypeOK, Alone, Saved, Holding, Staged, Whole, Stage, Opens,
        NextKey, Goto, Hold, Over, Note, Mishaps, disk, proc, Pcs
<1>1. ASSUME NEW p \in Procs, Launch(p) PROVE KeyInv'
  BY <1>1 DEF Launch
<1>2. ASSUME NEW p \in Procs, LoadKey(p) PROVE KeyInv'
  <2>1. TypeOK'
    <3>1. CASE NotFound(p) /\ Goto(p, "legacy") /\ UNCHANGED <<store, key>> /\ mishaps' \subseteq Mishaps
      BY <1>2, <3>1 DEF LoadKey
    <3>2. CASE Over(p) /\ UNCHANGED mishaps
      BY <1>2, <3>2 DEF LoadKey
    <3>3. CASE saved[store[p]] > 0 /\ Hold(p, saved[store[p]]) /\ Goto(p, "open") /\ UNCHANGED <<store, mishaps>>
      <4>1. saved[store[p]] \in Keys
        <5> HIDE DEF Alone, Saved, Holding, Staged, Whole, Stage, Opens, NextKey, Pcs
        <5>1. store[p] \in {"service", "file"}
          OBVIOUS
        <5>2. saved[store[p]] \in Keys \cup {Short}
          BY <5>1
        <5> QED
          BY <3>3, <5>2
      <4> QED
        BY <1>2, <3>3, <4>1 DEF LoadKey
    <3> QED
      BY <1>2, <3>1, <3>2, <3>3 DEF LoadKey
  <2>2. Alone'
    BY <1>2 DEF LoadKey, NotFound
  <2>3. Saved'
    BY <1>2 DEF LoadKey, NotFound
  <2>4. Staged'
    BY <1>2 DEF LoadKey, NotFound
  <2>5. Opens' /\ Holding'
    BY <1>2 DEF LoadKey, NotFound
  <2> QED
    BY <2>1, <2>2, <2>3, <2>4, <2>5
<1>3. ASSUME NEW p \in Procs, ReadLegacy(p) PROVE KeyInv'
  BY <1>3 DEF ReadLegacy
<1>4. ASSUME NEW p \in Procs, SaveKey(p) PROVE KeyInv'
  <2>1. TypeOK'
    <3>1. saved' \in [{"service", "file"} -> Keys \cup {Short}]
      <4> HIDE DEF Alone, Saved, Holding, Staged, Whole, Stage, Opens, NextKey, Pcs
      <4>1. saved' \in {saved, [saved EXCEPT !["file"] = Short], [saved EXCEPT ![store[p]] = key[p]]}
        BY <1>4 DEF SaveKey
      <4>2. store[p] \in {"service", "file"} /\ key[p] \in Keys
        OBVIOUS
      <4> QED
        BY <4>1, <4>2
    <3>2. pc' \in [Procs -> Pcs] /\ store' \in [Procs -> Stores] /\ key' \in [Procs -> Keys]
      BY <1>4 DEF SaveKey, AfterSave
    <3>3. mishaps' \subseteq Mishaps
      <4>1. mishaps' = mishaps \/ mishaps' = mishaps \cup {"torn"}
        BY <1>4 DEF SaveKey
      <4> QED
        BY <4>1
    <3> QED
      BY <1>4, <3>1, <3>2, <3>3 DEF SaveKey
  <2>2. Alone'
    BY <1>4 DEF SaveKey, AfterSave
  <2>3. Saved'
    BY <1>4 DEF SaveKey, AfterSave
  <2>4. Staged'
    BY <1>4 DEF SaveKey, AfterSave
  <2>5. Opens' /\ Holding'
    BY <1>4 DEF SaveKey, AfterSave
  <2> QED
    BY <2>1, <2>2, <2>3, <2>4, <2>5
<1>5. ASSUME NEW p \in Procs, RemoveLegacy(p) PROVE KeyInv'
  BY <1>5 DEF RemoveLegacy
<1>6. ASSUME NEW p \in Procs, Restore(p) PROVE KeyInv'
  <2>1. TypeOK'
    BY <1>6 DEF Restore
  <2>2. Alone'
    BY <1>6 DEF Restore
  <2>3. Saved'
    BY <1>6 DEF Restore
  <2>4. Staged'
    BY <1>6 DEF Restore
  <2>5. Opens' /\ Holding'
    BY <1>6 DEF Restore
  <2> QED
    BY <2>1, <2>2, <2>3, <2>4, <2>5
<1>7. ASSUME NEW p \in Procs, SaveSession(p) PROVE KeyInv'
  <2>1. TypeOK'
    BY <1>7 DEF SaveSession
  <2>2. Alone'
    BY <1>7 DEF SaveSession
  <2>3. Saved'
    BY <1>7 DEF SaveSession
  <2>4. Staged'
    BY <1>7 DEF SaveSession
  <2>5. Opens' /\ Holding'
    BY <1>7 DEF SaveSession
  <2> QED
    BY <2>1, <2>2, <2>3, <2>4, <2>5
<1>8. ASSUME NEW p \in Procs, ClearSession(p) PROVE KeyInv'
  BY <1>8 DEF ClearSession
<1>9. ASSUME NEW p \in Procs, Kill(p) PROVE KeyInv'
  BY <1>9 DEF Kill
<1>10. ASSUME Switch PROVE KeyInv'
  BY <1>10 DEF Switch
<1>11. ASSUME UNCHANGED vars PROVE KeyInv'
  BY <1>11 DEF vars
<1> QED
  BY <1>1, <1>2, <1>3, <1>4, <1>5, <1>6, <1>7, <1>8, <1>9, <1>10, <1>11 DEF Next

\* The invariant of the key store.
LEMMA Invariant == Spec => []KeyInv
BY InitKeyInv, StepKeyInv, PTL DEF Spec

\* Every variable holds a value of its type: no key is made up, and a row is plain or
\* sealed with a key there is (keystore.go:39-120).
THEOREM TypesHold == Spec => []TypeOK
<1>1. KeyInv => TypeOK
  BY DEF KeyInv
<1> QED
  BY Invariant, <1>1, PTL

\* Without a mishap, whatever step a process is killed or fails at, the next start
\* finds the key that opens the session (keystore.go:39-76).
THEOREM SessionSurvives == Spec => []SessionReadable
<1>1. KeyInv => SessionReadable
  BY DEF KeyInv, Opens, Staged, Whole, SessionReadable
<1> QED
  BY Invariant, <1>1, PTL

\* Whatever fails, a key is used only when the store has it, unless two processes
\* have been up at once (keystore.go:59-75).
THEOREM KeysAreSaved == Spec => []KeyIsSaved
<1>1. KeyInv => KeyIsSaved
  BY DEF KeyInv, Alone, Saved, KeyIsSaved
<1> QED
  BY Invariant, <1>1, PTL
=============================================================================
