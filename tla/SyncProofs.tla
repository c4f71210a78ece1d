------------------------------ MODULE SyncProofs ------------------------------
(***************************************************************************)
(* Background sync, for any accounts, hosts and bounds: its types; that    *)
(* the mailbox loses no event, which needs only where the goroutines are;  *)
(* and that a single checker tells the page of no newest post twice, which *)
(* needs what last, told and the account's timeline have to do with one    *)
(* another.                                                                *)
(***************************************************************************)
EXTENDS Sync, TLAPS

USE HostsAssumption, LevelAssumption, AccountAssumption, ActsAssumption

\* The goroutines stay at places they have.
Places == pc \in [Goroutines -> CheckPcs \cup JetPcs]

\* The invariant of the mailbox.
MailInv == Places /\ NoEventLost

-----------------------------------------------------------------------------
\* The next host to try is one of the list.
LEMMA NextHost == \A n \in 0..(NHosts - 1) : (n + 1) % NHosts \in 0..(NHosts - 1)
OBVIOUS

\* A check that moves on changes only where its goroutine is.
LEMMA MoveOnPlaces ==
    ASSUME Places, NEW g \in Checkers, MoveOn(g)
    PROVE  Places' /\ (g # "trigger" => pc'["trigger"] = pc["trigger"])
<1> USE DEF Places, Goroutines, Checkers, CheckPcs, JetPcs, Goto, Finish
<1>1. CASE at[g] = "timeline"
  BY <1>1 DEF MoveOn
<1>2. CASE at[g] # "timeline"
  BY <1>2 DEF MoveOn
<1> QED
  BY <1>1, <1>2

\* The invariant holds initially.
LEMMA InitMail == Init => MailInv
BY DEF Init, MailInv, Places, NoEventLost, Goroutines, Checkers, CheckPcs, JetPcs

\* Every step keeps it: a token leaves the mailbox only to start a refresh.
LEMMA StepMail == MailInv /\ [Next]_vars => MailInv'
<1> SUFFICES ASSUME MailInv, [Next]_vars PROVE MailInv'
  OBVIOUS
<1> USE DEF MailInv, Places, NoEventLost, Goroutines, Checkers, CheckPcs, JetPcs, Goto,
            ghost, server, check, stream
<1>1. ASSUME Tick PROVE MailInv'
  BY <1>1 DEF Tick, Begins
<1>2. ASSUME TakeToken PROVE MailInv'
  BY <1>2 DEF TakeToken, Begins
<1>3. ASSUME Settle PROVE MailInv'
  BY <1>3 DEF Settle
<1>4. ASSUME NEW g \in Checkers, Guard(g) PROVE MailInv'
  <2>1. CASE account = NoAccount
    BY <1>4, <2>1 DEF Guard, Finish
  <2>2. CASE account # NoAccount
    BY <1>4, <2>2 DEF Guard
  <2> QED
    BY <2>1, <2>2
<1>5. ASSUME NEW g \in Checkers, FetchOk(g) PROVE MailInv'
  BY <1>5 DEF FetchOk
<1>6. ASSUME NEW g \in Checkers, FetchFails(g) PROVE MailInv'
  BY <1>6, MoveOnPlaces DEF FetchFails
<1>7. ASSUME NEW g \in Checkers, Store(g) PROVE MailInv'
  <2>1. CASE Changed(at[g], got[g])
    BY <1>7, <2>1 DEF Store
  <2>2. CASE ~Changed(at[g], got[g])
    BY <1>7, <2>2, MoveOnPlaces DEF Store
  <2> QED
    BY <2>1, <2>2
<1>8. ASSUME NEW g \in Checkers, Tell(g) PROVE MailInv'
  BY <1>8, MoveOnPlaces DEF Tell
<1>9. ASSUME NEW g \in Goroutines, Quit(g) PROVE MailInv'
  BY <1>9 DEF Quit
<1>10. ASSUME LookForClient PROVE MailInv'
  BY <1>10 DEF LookForClient
<1>11. ASSUME Dial PROVE MailInv'
  BY <1>11 DEF Dial
<1>12. ASSUME Commit PROVE MailInv'
  BY <1>12 DEF Commit
<1>13. ASSUME Hangup PROVE MailInv'
  BY <1>13 DEF Hangup
<1>14. ASSUME WakeUp PROVE MailInv'
  BY <1>14 DEF WakeUp
<1>15. ASSUME World PROVE MailInv'
  BY <1>15 DEF World, Arrive, Read, SignIn, Stop
<1>16. ASSUME UNCHANGED vars PROVE MailInv'
  BY <1>16 DEF vars
<1> QED
  BY <1>1, <1>2, <1>3, <1>4, <1>5, <1>6, <1>7, <1>8, <1>9, <1>10, <1>11, <1>12, <1>13,
     <1>14, <1>15, <1>16 DEF Next, Checking

\* A commit that finds the mailbox full folds into a refresh that has yet to begin
\* (refreshOnTrigger and consumeJetstream, sync.go:258-271 and 340-344).
THEOREM MailboxLosesNothing == Spec => []NoEventLost
<1>1. MailInv => NoEventLost
  BY DEF MailInv
<1> QED
  BY InitMail, StepMail, <1>1, PTL DEF Spec

-----------------------------------------------------------------------------
(***************************************************************************)
(* Types.                                                                  *)
(***************************************************************************)
\* A check that moves on keeps the types of what it changes.
LEMMA MoveOnTypes ==
    ASSUME TypeOK, NEW g \in Checkers, MoveOn(g)
    PROVE  /\ pc' \in [Goroutines -> CheckPcs \cup JetPcs]
           /\ at' \in [Checkers -> Kinds]
           /\ got' \in [Checkers -> Levels]
<1> USE DEF TypeOK, Goroutines, Checkers, CheckPcs, JetPcs, Goto, Kinds, Levels
<1>1. CASE at[g] = "timeline"
  BY <1>1 DEF MoveOn, Finish
<1>2. CASE at[g] # "timeline"
  BY <1>2 DEF MoveOn, After
<1> QED
  BY <1>1, <1>2

\* The variables have their types at the start.
LEMMA InitTypes == Init => TypeOK
<1> SUFFICES ASSUME Init PROVE TypeOK
  OBVIOUS
<1>1. 0 \in Levels /\ 0 \in 0..(NHosts - 1) /\ 0 \in 0..MaxLogins
  BY DEF Levels
<1>2. pc \in [Goroutines -> CheckPcs \cup JetPcs] /\ at \in [Checkers -> Kinds]
  BY DEF Init, Goroutines, CheckPcs, JetPcs, Kinds
<1>3. /\ got \in [Checkers -> Levels] /\ last \in [Kinds -> Levels]
      /\ news \in [Kinds -> Levels] /\ level \in [Accounts -> [Kinds -> Levels]]
  BY <1>1 DEF Init
<1> QED
  BY <1>1, <1>2, <1>3 DEF Init, TypeOK

\* Every step keeps them.
LEMMA StepTypes == TypeOK /\ [Next]_vars => TypeOK'
<1> SUFFICES ASSUME TypeOK, [Next]_vars PROVE TypeOK'
  OBVIOUS
<1> USE DEF TypeOK, Goroutines, Checkers, CheckPcs, JetPcs, Goto, Kinds, Levels,
            ghost, server, check, stream
<1>1. ASSUME Tick PROVE TypeOK'
  BY <1>1 DEF Tick, Begins
<1>2. ASSUME TakeToken PROVE TypeOK'
  BY <1>2 DEF TakeToken, Begins
<1>3. ASSUME Settle PROVE TypeOK'
  BY <1>3 DEF Settle
<1>4. ASSUME NEW g \in Checkers, Guard(g) PROVE TypeOK'
  <2>1. CASE account = NoAccount
    BY <1>4, <2>1 DEF Guard, Finish
  <2>2. CASE account # NoAccount
    BY <1>4, <2>2 DEF Guard
  <2> QED
    BY <2>1, <2>2
<1>5. ASSUME NEW g \in Checkers, FetchOk(g) PROVE TypeOK'
  BY <1>5 DEF FetchOk
<1>6. ASSUME NEW g \in Checkers, FetchFails(g) PROVE TypeOK'
  BY <1>6, MoveOnTypes DEF FetchFails
<1>7. ASSUME NEW g \in Checkers, Store(g) PROVE TypeOK'
  <2>1. CASE Changed(at[g], got[g])
    BY <1>7, <2>1 DEF Store
  <2>2. CASE ~Changed(at[g], got[g])
    BY <1>7, <2>2, MoveOnTypes DEF Store
  <2> QED
    BY <2>1, <2>2
<1>8. ASSUME NEW g \in Checkers, Tell(g) PROVE TypeOK'
  <2>1. news' \in [Kinds -> Levels]
    BY <1>8 DEF Tell
  <2>2. told' \subseteq Levels
    <3>1. got[g] \in Levels /\ told \subseteq Levels
      OBVIOUS
    <3>2. told' = told \/ told' = told \cup {got[g]}
      BY <1>8 DEF Tell
    <3> HIDE DEF TypeOK, Levels
    <3> QED
      BY <3>1, <3>2
  <2> QED
    BY <1>8, <2>1, <2>2, MoveOnTypes DEF Tell
<1>9. ASSUME NEW g \in Goroutines, Quit(g) PROVE TypeOK'
  BY <1>9 DEF Quit
<1>10. ASSUME LookForClient PROVE TypeOK'
  BY <1>10 DEF LookForClient
<1>11. ASSUME Dial PROVE TypeOK'
  BY <1>11, NextHost DEF Dial
<1>12. ASSUME Commit PROVE TypeOK'
  BY <1>12 DEF Commit
<1>13. ASSUME Hangup PROVE TypeOK'
  BY <1>13, NextHost DEF Hangup
<1>14. ASSUME WakeUp PROVE TypeOK'
  BY <1>14 DEF WakeUp
<1>15. ASSUME NEW a \in Accounts, NEW k \in Kinds, NEW n \in 1..MaxLevel, Arrive(a, k, n)
       PROVE  TypeOK'
  BY <1>15 DEF Arrive
<1>16. ASSUME NEW k \in Kinds, Read(k) PROVE TypeOK'
  BY <1>16 DEF Read
<1>17. ASSUME NEW a \in Accounts, SignIn(a) PROVE TypeOK'
  BY <1>17 DEF SignIn
<1>18. ASSUME Stop PROVE TypeOK'
  BY <1>18 DEF Stop
<1>19. ASSUME UNCHANGED vars PROVE TypeOK'
  BY <1>19 DEF vars
<1> QED
  BY <1>1, <1>2, <1>3, <1>4, <1>5, <1>6, <1>7, <1>8, <1>9, <1>10, <1>11, <1>12, <1>13,
     <1>14, <1>15, <1>16, <1>17, <1>18, <1>19 DEF Next, Checking, World

\* Every variable holds a value of its type, in every run: counts stay within what the
\* server has, the host index within the list of hosts (sync.go:24-48, 170-205).
THEOREM TypesHold == Spec => []TypeOK
BY InitTypes, StepTypes, PTL DEF Spec

-----------------------------------------------------------------------------
(***************************************************************************)
(* The newest post is told once.                                           *)
(***************************************************************************)
\* The checker is between taking a turn and its last announcement.
Busy(g) == pc[g] \in {"guard", "fetch", "store", "tell"}

\* A post that has been on top of some timeline: those to come have higher numbers.
Issued(n) == \E x \in Accounts : n <= level[x]["timeline"]

\* The page has been told of the post on top of the timeline there is.
TopTold == account # NoAccount /\ level[account]["timeline"] \in told

\* Until two checks overlap only one is under way.
OneBusy == \A g, h \in Checkers : Busy(g) /\ Busy(h) => g = h

\* What was told has been on a timeline, and if it still is, it is what was seen last.
ToldInv == /\ \A n \in told : Issued(n)
           /\ TopTold => last["timeline"] = level[account]["timeline"]

\* What a check has in hand, between its request and its announcement.
InHand(g) ==
    /\ got[g] # 0 => Issued(got[g])
    /\ pc[g] = "store" => /\ got[g] \in told => last["timeline"] = got[g]
                          /\ TopTold => got[g] = level[account]["timeline"]
    /\ pc[g] = "tell" => last["timeline"] = got[g] /\ got[g] \notin told /\ got[g] # 0

LookInv == \A g \in Checkers :
             pc[g] \in {"store", "tell"} /\ at[g] = "timeline" => InHand(g)

OnceInv == ~overlap => OneBusy /\ ToldInv /\ LookInv

\* What a check that moves on does to itself and leaves alone: past the timeline it
\* is not busy, and never is it past its request.
LEMMA MoveOnSteps ==
    ASSUME TypeOK, NEW g \in Checkers, MoveOn(g)
    PROVE  /\ pc'[g] \in {"fetch", "select", "settle"}
           /\ at[g] = "timeline" => pc'[g] # "fetch"
           /\ \A h \in Checkers \ {g} : pc'[h] = pc[h] /\ at'[h] = at[h] /\ got'[h] = got[h]
<1> USE DEF TypeOK, Goroutines, Checkers, Goto
<1>1. CASE at[g] = "timeline"
  BY <1>1 DEF MoveOn, Finish
<1>2. CASE at[g] # "timeline"
  BY <1>2 DEF MoveOn
<1> QED
  BY <1>1, <1>2

\* OnceInv speaks of these only; a step that leaves them alone, and lets no checker
\* become busy or get past its request, keeps it.
LEMMA StillOnce ==
    ASSUME TypeOK, OnceInv,
           UNCHANGED <<account, level, told, last, overlap>>,
           \A g \in Checkers : Busy(g)' => Busy(g),
           \A g \in Checkers : pc'[g] \in {"store", "tell"} /\ at'[g] = "timeline" =>
              pc'[g] = pc[g] /\ at'[g] = at[g] /\ got'[g] = got[g]
    PROVE  OnceInv'
<1> SUFFICES ASSUME ~overlap PROVE (OneBusy /\ ToldInv /\ LookInv)'
  BY DEF OnceInv
<1> USE DEF OnceInv
<1>1. OneBusy'
  BY DEF OneBusy
<1>2. ToldInv'
  BY DEF ToldInv, TopTold, Issued
<1>3. LookInv'
  BY DEF LookInv, InHand, TopTold, Issued
<1> QED
  BY <1>1, <1>2, <1>3

\* Nothing is under way or told at the start.
LEMMA InitOnce == Init => OnceInv
BY DEF Init, OnceInv, OneBusy, ToldInv, TopTold, LookInv, Busy, Checkers

\* The step of a check between its parts.
LEMMA CheckOnce ==
    ASSUME TypeOK, TypeOK', OnceInv, NEW g \in Checkers, Checking(g)
    PROVE  OnceInv'
<1> USE DEF check, stream, server, ghost
<1>1. CASE Guard(g)
  <2>1. \A h \in Checkers \ {g} : pc'[h] = pc[h] /\ at'[h] = at[h] /\ got'[h] = got[h]
    BY <1>1 DEF Guard, Finish, Goto, TypeOK, Goroutines
  <2>2. pc[g] = "guard" /\ pc'[g] \in {"fetch", "select", "settle"}
    BY <1>1 DEF Guard, Finish, Goto, TypeOK, Goroutines
  <2> QED
    BY <1>1, <2>1, <2>2, StillOnce DEF Guard, Busy
<1>2. CASE FetchFails(g)
  <2>1. pc[g] = "fetch"
    BY <1>2 DEF FetchFails
  <2> QED
    BY <1>2, <2>1, StillOnce, MoveOnSteps DEF FetchFails, Busy
<1>3. CASE FetchOk(g)
  <2> SUFFICES ASSUME ~overlap PROVE (OneBusy /\ ToldInv /\ LookInv)'
    BY <1>3 DEF OnceInv, FetchOk
  <2> USE DEF OnceInv
  <2>1. /\ pc[g] = "fetch" /\ pc'[g] = "store" /\ account \in Accounts
        /\ \A h \in Checkers \ {g} : pc'[h] = pc[h] /\ got'[h] = got[h]
        /\ got'[g] = level[account][at[g]]
        /\ UNCHANGED <<account, at, last, level, told, overlap>>
    BY <1>3 DEF FetchOk, Goto, TypeOK, Goroutines
  <2>2. OneBusy' /\ ToldInv'
    BY <1>3, <2>1 DEF OneBusy, Busy, ToldInv, TopTold, Issued
  <2>3. ASSUME at[g] = "timeline" PROVE InHand(g)'
    <3>1. Issued(got[g])'
      BY <2>1, <2>3 DEF Issued, TypeOK, Kinds, Levels
    <3> QED
      BY <2>1, <2>3, <3>1 DEF InHand, ToldInv, TopTold
  <2>4. \A h \in Checkers \ {g} : pc[h] \notin {"store", "tell"}
    BY <2>1 DEF OneBusy, Busy
  <2> QED
    BY <2>1, <2>2, <2>3, <2>4 DEF LookInv
<1>4. CASE Store(g)
  <2> SUFFICES ASSUME ~overlap PROVE (OneBusy /\ ToldInv /\ LookInv)'
    BY <1>4 DEF OnceInv, Store
  <2> USE DEF OnceInv
  <2>1. /\ pc[g] = "store"
        /\ UNCHANGED <<account, level, told, overlap>>
    BY <1>4 DEF Store
  <2>2. \A h \in Checkers \ {g} : pc'[h] = pc[h] /\ pc'[h] \notin {"store", "tell"}
    <3>1. \A h \in Checkers \ {g} : pc[h] \notin {"store", "tell"}
      BY <1>4, <2>1 DEF OneBusy, Busy
    <3>2. CASE Changed(at[g], got[g])
      BY <1>4, <3>1, <3>2 DEF Store, Goto, TypeOK, Goroutines
    <3>3. CASE ~Changed(at[g], got[g])
      BY <1>4, <3>1, <3>3, MoveOnSteps DEF Store
    <3> QED
      BY <3>2, <3>3
  <2>3. OneBusy'
    BY <1>4, <2>1, <2>2 DEF OneBusy, Busy
  <2>4. CASE at[g] # "timeline"
    <3>1. last'["timeline"] = last["timeline"]
      BY <1>4, <2>4 DEF Store, TypeOK, Kinds
    <3>2. pc'[g] = "tell" => at'[g] = at[g]
      <4>1. CASE Changed(at[g], got[g])
        BY <1>4, <4>1 DEF Store
      <4>2. CASE ~Changed(at[g], got[g])
        BY <1>4, <4>2, MoveOnSteps DEF Store
      <4> QED
        BY <4>1, <4>2
    <3>3. pc'[g] # "store"
      <4>1. CASE Changed(at[g], got[g])
        BY <1>4, <4>1 DEF Store, Goto, TypeOK, Goroutines
      <4>2. CASE ~Changed(at[g], got[g])
        BY <1>4, <4>2, MoveOnSteps DEF Store
      <4> QED
        BY <4>1, <4>2
    <3>4. ToldInv'
      BY <2>1, <3>1 DEF ToldInv, TopTold, Issued
    <3> QED
      BY <2>2, <2>3, <2>4, <3>2, <3>3, <3>4 DEF LookInv
  <2>5. CASE at[g] = "timeline" /\ ~Changed(at[g], got[g])
    <3>1. pc'[g] \in {"select", "settle"}
      BY <1>4, <2>5, MoveOnSteps DEF Store
    <3>2. last'["timeline"] = last["timeline"]
      BY <1>4, <2>5 DEF Store, Changed, TypeOK, Kinds
    <3>3. ToldInv'
      BY <2>1, <3>2 DEF ToldInv, TopTold, Issued
    <3> QED
      BY <2>2, <2>3, <3>1, <3>3 DEF LookInv
  <2>6. CASE at[g] = "timeline" /\ Changed(at[g], got[g])
    <3>1. /\ pc'[g] = "tell" /\ got'[g] = got[g] /\ last'["timeline"] = got[g]
          /\ got[g] # 0 /\ got[g] # last["timeline"]
      BY <1>4, <2>6 DEF Store, Changed, Goto, TypeOK, Kinds, Goroutines
    <3>2. InHand(g)
      BY <2>1, <2>6 DEF LookInv
    <3>3. got[g] \notin told /\ ~TopTold
      BY <2>1, <3>1, <3>2 DEF InHand, ToldInv
    <3>4. ToldInv'
      BY <2>1, <3>3 DEF ToldInv, TopTold, Issued
    <3>5. InHand(g)'
      BY <2>1, <3>1, <3>2, <3>3 DEF InHand, Issued
    <3> QED
      BY <2>2, <2>3, <3>4, <3>5 DEF LookInv
  <2> QED
    BY <2>4, <2>5, <2>6
<1>5. CASE Tell(g)
  <2> SUFFICES ASSUME ~overlap PROVE (OneBusy /\ ToldInv /\ LookInv)'
    BY <1>5 DEF OnceInv, Tell
  <2> USE DEF OnceInv
  <2>1. /\ pc[g] = "tell"
        /\ UNCHANGED <<account, level, last, overlap>>
        /\ told' = IF at[g] = "timeline" THEN told \cup {got[g]} ELSE told
        /\ pc'[g] \in {"fetch", "select", "settle"}
        /\ \A h \in Checkers \ {g} : pc'[h] = pc[h]
    BY <1>5, MoveOnSteps DEF Tell
  <2>2. OneBusy'
    BY <2>1 DEF OneBusy, Busy
  <2>3. LookInv'
    BY <2>1 DEF LookInv, OneBusy, Busy
  <2>4. CASE at[g] # "timeline"
    BY <2>1, <2>2, <2>3, <2>4 DEF ToldInv, TopTold, Issued
  <2>5. CASE at[g] = "timeline"
    <3>1. InHand(g)
      BY <2>1, <2>5 DEF LookInv
    <3> QED
      BY <2>1, <2>2, <2>3, <2>5, <3>1 DEF InHand, ToldInv, TopTold, Issued
  <2> QED
    BY <2>4, <2>5
<1> QED
  BY <1>1, <1>2, <1>3, <1>4, <1>5 DEF Checking

\* A check that begins is the only one, or the two overlap.
LEMMA BeginOnce ==
    ASSUME TypeOK, OnceInv, NEW g \in Checkers, Begins(g)
    PROVE  OnceInv'
<1> SUFFICES ASSUME ~overlap' PROVE (OneBusy /\ ToldInv /\ LookInv)'
  BY DEF OnceInv
<1> USE DEF check, stream, server
<1>1. /\ pc'[g] = "guard" /\ ~overlap
      /\ \A h \in Checkers \ {g} : pc'[h] = pc[h] /\ ~Busy(h)
      /\ UNCHANGED <<account, level, told, last, at, got>>
  BY DEF Begins, Goto, Busy, TypeOK, Goroutines
<1> QED
  BY <1>1 DEF OnceInv, OneBusy, ToldInv, LookInv, TopTold, Issued, Busy

\* A new newest post is none that was told.
LEMMA ArriveOnce ==
    ASSUME TypeOK, OnceInv, NEW a \in Accounts, NEW k \in Kinds, NEW n \in 1..MaxLevel,
           Arrive(a, k, n)
    PROVE  OnceInv'
<1> USE DEF check, stream
<1>0. /\ UNCHANGED <<account, told, last, pc, at, got, overlap>>
      /\ level' = [level EXCEPT ![a] = [level[a] EXCEPT ![k] = n]]
  BY DEF Arrive, TypeOK
<1>1. CASE k # "timeline"
  <2>1. \A x \in Accounts : level'[x]["timeline"] = level[x]["timeline"]
    BY <1>0, <1>1 DEF TypeOK, Kinds
  <2> QED
    BY <1>0, <2>1 DEF OnceInv, OneBusy, ToldInv, LookInv, InHand, TopTold, Issued, Busy, TypeOK
<1>2. CASE k = "timeline"
  <2> SUFFICES ASSUME ~overlap PROVE (OneBusy /\ ToldInv /\ LookInv)'
    BY <1>0 DEF OnceInv
  <2>1. /\ level'[a]["timeline"] = n
        /\ \A x \in Accounts \ {a} : level'[x]["timeline"] = level[x]["timeline"]
    BY <1>0, <1>2 DEF TypeOK, Kinds
  <2>2. \A x \in Accounts : level[x]["timeline"] \in Int /\ level[x]["timeline"] < n
    BY <1>2 DEF Arrive, TypeOK, Kinds, Levels
  <2>3. \A m \in Int : Issued(m) => Issued(m)' /\ m < n
    BY <2>1, <2>2 DEF Issued
  <2>4. told \subseteq Int /\ n \notin told
    BY <2>3 DEF OnceInv, ToldInv, TypeOK, Levels
  <2>5. TopTold' => TopTold /\ level'[account]["timeline"] = level[account]["timeline"]
    BY <1>0, <2>1, <2>4 DEF TopTold, TypeOK
  <2>6. OneBusy'
    BY <1>0 DEF OnceInv, OneBusy, Busy
  <2>7. ToldInv'
    BY <1>0, <2>3, <2>4, <2>5 DEF OnceInv, ToldInv
  <2>8. \A g \in Checkers : got[g] \in Int
    BY DEF TypeOK, Levels
  <2>9. ASSUME NEW g \in Checkers, InHand(g) PROVE InHand(g)'
    BY <1>0, <2>3, <2>5, <2>8, <2>9 DEF InHand
  <2> QED
    BY <1>0, <2>6, <2>7, <2>9 DEF OnceInv, LookInv
<1> QED
  BY <1>1, <1>2

\* Another account has been told of nothing.
LEMMA SignInOnce ==
    ASSUME TypeOK, OnceInv, NEW a \in Accounts, SignIn(a)
    PROVE  OnceInv'
BY DEF SignIn, check, stream, OnceInv, OneBusy, ToldInv, LookInv, InHand, TopTold, Issued, Busy

\* Every step keeps the invariant.
LEMMA StepOnce == TypeOK /\ TypeOK' /\ OnceInv /\ [Next]_vars => OnceInv'
<1> SUFFICES ASSUME TypeOK, TypeOK', OnceInv, [Next]_vars PROVE OnceInv'
  OBVIOUS
<1> USE DEF ghost, server, check, stream, Goroutines
<1>1. CASE Tick
  BY <1>1, BeginOnce DEF Tick, Checkers
<1>2. CASE TakeToken
  BY <1>2, BeginOnce DEF TakeToken, Checkers
<1>3. ASSUME NEW g \in Checkers, Checking(g) PROVE OnceInv'
  BY <1>3, CheckOnce
<1>4. ASSUME NEW a \in Accounts, NEW k \in Kinds, NEW n \in 1..MaxLevel, Arrive(a, k, n)
      PROVE  OnceInv'
  BY <1>4, ArriveOnce
<1>5. ASSUME NEW a \in Accounts, SignIn(a) PROVE OnceInv'
  BY <1>5, SignInOnce
<1>6. ASSUME NEW k \in Kinds, Read(k) PROVE OnceInv'
  <2>1. \A x \in Accounts : level'[x]["timeline"] = level[x]["timeline"]
    BY <1>6 DEF Read, TypeOK, Kinds
  <2> QED
    BY <1>6, <2>1 DEF Read, OnceInv, OneBusy, ToldInv, LookInv, InHand, TopTold, Issued, Busy, TypeOK
<1>7. ASSUME NEW g \in Goroutines, Quit(g) PROVE OnceInv'
  <2>1. pc'[g] = "end" /\ \A h \in Goroutines \ {g} : pc'[h] = pc[h]
    BY <1>7 DEF Quit, Goto, TypeOK
  <2> QED
    BY <1>7, <2>1, StillOnce DEF Quit, Busy
<1>8. CASE Settle
  <2>1. pc'["trigger"] = "select" /\ \A h \in Goroutines \ {"trigger"} : pc'[h] = pc[h]
    BY <1>8 DEF Settle, Goto, TypeOK
  <2> QED
    BY <1>8, <2>1, StillOnce DEF Settle, Busy
<1>9. CASE LookForClient \/ Dial \/ Commit \/ Hangup \/ WakeUp
  <2>1. \A h \in Checkers : pc'[h] = pc[h]
    BY <1>9 DEF LookForClient, Dial, Commit, Hangup, WakeUp, Goto, TypeOK, Checkers
  <2>2. UNCHANGED <<account, level, told, last, overlap, at, got>>
    BY <1>9 DEF LookForClient, Dial, Commit, Hangup, WakeUp
  <2> QED
    BY <2>1, <2>2, StillOnce DEF Busy
<1>10. CASE Stop
  BY <1>10, StillOnce DEF Stop, Busy
<1>11. CASE UNCHANGED vars
  BY <1>11, StillOnce DEF vars, Busy
<1> QED
  BY <1>1, <1>2, <1>3, <1>4, <1>5, <1>6, <1>7, <1>8, <1>9, <1>10, <1>11 DEF Next, World

\* As long as no two checks have overlapped, the page is told of no newest post twice,
\* whatever posts arrive, requests fail and accounts sign in between the steps of a
\* check: "an unchanged timeline does not get re-emitted every minute" (sync.go:33-34).
THEOREM NewestPostOnce == Spec => []EmittedOnce
<1>1. OnceInv => EmittedOnce
  BY DEF OnceInv, LookInv, InHand, EmittedOnce
<1>2. OnceInv /\ TypeOK /\ TypeOK' /\ [Next]_vars => OnceInv'
  BY StepOnce
<1> QED
  BY TypesHold, InitOnce, <1>1, <1>2, PTL DEF Spec
=============================================================================
