---------------------------- MODULE ATClientProofs ----------------------------
(***************************************************************************)
(* Proofs about ATClient, for any goroutines, start situations, faults and *)
(* bounds: the session core is well typed, a refresh token stands in for   *)
(* the access token only under mu, no waiter of a shared refresh is lost,  *)
(* and RefreshSession implements SharedRefresh; a running session never    *)
(* presents a refresh token twice, and the saved row is that of memory.    *)
(***************************************************************************)
EXTENDS ATClient, TLAPS

\* mu belongs to the one goroutine inside doRefresh's critical section, which
\* has found a client; the refreshCall to the one that has yet to clear it.
LockInv == /\ \A t \in Threads : (mu = t) <=> (pc[t] \in HoldPcs)
           /\ \A t \in Threads : (inflight = t) <=> (pc[t] \in LeadPcs)
           /\ mu # NoThread => client # 0

\* The shared client was allocated, and so was the one a goroutine in WithClient has.
ClientInv == /\ client <= nclient
             /\ \A t \in Threads :
                  pc[t] \in LeadPcs \cup {"send", "net", "refresh", "wait", "close"}
                    => cl[t] \in 1..nclient

\* What doRefresh saved is an access token, so that restoring it undoes the swap.
SwapInv == /\ SwapConfined
           /\ \A t \in Threads : prev[t].kind = "access"

\* Only a waiter waits on a refreshCall, never on its own; a verdict is known to
\* a leader that has one and to the waiters it was announced to.
WaitInv == /\ \A t \in Threads : pc[t] = "wait" => waitOn[t] \in Threads \ {t}
           /\ \A t \in Threads : pc[t] \in {"clear", "close"} => verdict[t] # "none"
           /\ \A t \in Threads : verdict[t] # "none" => pc[t] \in {"wait", "clear", "close"}
           /\ NoLostWakeup

IInv == TypeOK /\ LockInv /\ ClientInv /\ SwapInv /\ WaitInv

USE NoThreadAssumption, BoundAssumption

-----------------------------------------------------------------------------
\* The values the actions assign are of the types they should be.
LEMMA Values ==
    /\ NoJwt \in Jwts /\ Torn \in Jwts
    /\ \A n \in Pairs : Access(n) \in Jwts /\ Refresh(n) \in Jwts
    /\ 0 \in Pairs /\ 0 \in Clients
    /\ NoRow \in Rows
    /\ \A n \in Pairs : Row(n) \in Rows
    /\ \A j \in Jwts : j.pair \in Pairs
    /\ \A r \in Rows : r.pair \in Pairs
    /\ \A o \in Clients : o # 0 => o \in 1..MaxClient
    /\ \A n \in Pairs : n < MaxPair => n + 1 \in Pairs
    /\ \A o \in Clients : o < MaxClient => o + 1 \in Clients /\ o + 1 \in 1..MaxClient
    /\ LeadPcs \subseteq Pcs /\ HoldPcs \subseteq Pcs /\ Resting \subseteq Pcs
    /\ {"load", "reseal", "install", "show", "get", "send", "net", "refresh", "wait",
        "close", "create", "persist", "drop", "erase", "clear", "lock", "swap",
        "exchange", "store", "save", "restore"} \subseteq Pcs
BY DEF NoJwt, Torn, Access, Refresh, Jwts, Pairs, Clients, NoRow, Row, Rows,
       LeadPcs, HoldPcs, Resting, Pcs

\* An operation that ends, or goes on after WithClient, has well-typed locals.
LEMMA LeaveTyping ==
    ASSUME LocalOK, NEW t \in Threads, NEW l \in Pcs, NEW o \in Ops, Leave(t, l, o)
    PROVE  LocalOK'
BY Values DEF LocalOK, Leave, Goto

\* Whatever Return does to the locals of a goroutine, they stay of their types.
LEMMA ReturnTyping ==
    ASSUME LocalOK, NEW t \in Threads, NEW ok \in BOOLEAN, Return(t, ok)
    PROVE  LocalOK'
<1>1. {"idle", "done", "drop", "load"} \subseteq Pcs /\ {"none", "logout", "handle"} \subseteq Ops
  BY DEF Pcs, Ops
<1>2. \E l \in Pcs, o \in Ops : Leave(t, l, o)
  BY <1>1 DEF Return
<1> QED
  BY <1>2, LeaveTyping

\* The same of Retry.
LEMMA RetryTyping ==
    ASSUME LocalOK, NEW t \in Threads, Retry(t)
    PROVE  LocalOK'
BY Values DEF LocalOK, Retry, Goto, data

\* The initial state is well typed.
LEMMA InitTypeOK == Init => TypeOK
<1> SUFFICES ASSUME Init PROVE TypeOK
  OBVIOUS
<1> PICK s \in Starts :
      /\ db = IF s \in {"empty", "guest"} THEN NoRow
              ELSE [pair |-> 1, plain |-> s = "legacy"]
      /\ minted = StoredPair(s)
      /\ client  = IF Running(s) THEN 1 ELSE 0
      /\ form = ~Running(s)
      /\ kept    = [o \in 1..MaxClient |-> o = client /\ s = "signedin"]
      /\ pc = [t \in Threads |->
               IF t \notin Boot \cup Page THEN "idle"
               ELSE IF Running(s) THEN "done" ELSE "load"]
  BY DEF Init
<1>1. client \in Clients /\ nclient \in Clients
  BY DEF Clients, Init
<1>2. /\ access \in [1..MaxClient -> Jwts]
      /\ refresh \in [1..MaxClient -> Pairs]
      /\ kept \in [1..MaxClient -> BOOLEAN]
  BY DEF Init, NoJwt, Access, Jwts, Pairs
<1>3. pc \in [Threads -> Pcs]
  BY DEF Pcs
<1>4. /\ op \in [Threads -> Ops]
      /\ cl \in [Threads -> Clients]
      /\ sent \in [Threads -> Jwts] /\ prev \in [Threads -> Jwts]
      /\ hand \in [Threads -> Pairs]
      /\ retry \in [Threads -> BOOLEAN] /\ keep \in [Threads -> BOOLEAN]
  BY DEF Init, Ops, Clients, NoJwt, Jwts, Pairs
<1>5. db \in Rows
  BY DEF Rows, NoRow, Pairs
<1>6. minted \in Pairs
  BY DEF StoredPair, Pairs
<1> QED
  BY <1>1, <1>2, <1>3, <1>4, <1>5, <1>6 DEF TypeOK, LocalOK, Init

\* Every step keeps the state well typed.
LEMMA StepTypeOK == TypeOK /\ ClientInv /\ LockInv /\ [Next]_vars => TypeOK'
<1> SUFFICES ASSUME TypeOK, ClientInv, LockInv, [Next]_vars PROVE TypeOK'
  OBVIOUS
<1>f. {"idle", "done", "drop", "load"} \subseteq Pcs /\ {"none", "logout", "handle"} \subseteq Ops
  BY DEF Pcs, Ops
<1> USE DEF TypeOK
<1> USE DEF session, locks, request, data, waiting, server
<1>1. ASSUME NEW t \in Threads, BeginCall(t) PROVE TypeOK'
  <2>1. LocalOK'
    BY <1>1, Values DEF BeginCall, LocalOK, Goto, Begin, Ops
  <2> QED
    BY <1>1, <2>1, Values DEF BeginCall, Begin
<1>2. ASSUME NEW t \in Threads, BeginLogin(t) PROVE TypeOK'
  <2>1. LocalOK'
    BY <1>2, Values DEF BeginLogin, LocalOK, Goto, Begin, Ops
  <2> QED
    BY <1>2, <2>1, Values DEF BeginLogin, Begin
<1>3. ASSUME NEW t \in Threads, BeginLogout(t) PROVE TypeOK'
  <2>1. LocalOK'
    BY <1>3, Values DEF BeginLogout, LocalOK, Goto, Begin, Ops
  <2> QED
    BY <1>3, <2>1, Values DEF BeginLogout, Begin
<1>4. ASSUME NEW t \in Threads, LoadSession(t) PROVE TypeOK'
  <2>1. LocalOK'
    <3>1. CASE Leave(t, "done", "none")
      BY <3>1, <1>f, LeaveTyping
    <3>2. CASE /\ Goto(t, IF db.plain THEN "reseal" ELSE AfterLoad(t))
               /\ hand' = [hand EXCEPT ![t] = db.pair]
               /\ keep' = [keep EXCEPT ![t] = TRUE]
               /\ UNCHANGED <<request, prev>>
      <4>1. \E l \in Pcs : Goto(t, l)
        BY <3>2, Values DEF AfterLoad
      <4>2. PICK l \in Pcs : pc' = [pc EXCEPT ![t] = l]
        BY <4>1 DEF Goto
      <4>3. hand' \in [Threads -> Pairs] /\ keep' \in [Threads -> BOOLEAN]
        BY <3>2, Values DEF LocalOK
      <4> QED
        BY <3>2, <4>2, <4>3 DEF LocalOK
    <3> QED
      BY <1>4, <3>1, <3>2 DEF LoadSession
  <2> QED
    BY <1>4, <2>1, Values DEF LoadSession
<1>5. ASSUME NEW t \in Threads, Reseal(t) PROVE TypeOK'
  <2>1. LocalOK'
    BY <1>5, Values DEF Reseal, LocalOK, Goto, AfterLoad
  <2> QED
    BY <1>5, <2>1, Values DEF Reseal, LocalOK
<1>6. ASSUME NEW t \in Threads, Show(t) PROVE TypeOK'
  <2>1. LocalOK'
    BY <1>6, <1>f, LeaveTyping DEF Show
  <2> QED
    BY <1>6, <2>1, Values DEF Show
<1>7. ASSUME NEW t \in Threads, Install(t) PROVE TypeOK'
  <2>1. LocalOK'
    BY <1>7, Values DEF Install, LocalOK, Goto
  <2> QED
    BY <1>7, <2>1, Values DEF Install, LocalOK
<1>8. ASSUME NEW t \in Threads, GetClient(t) PROVE TypeOK'
  <2>1. LocalOK'
    <3>1. CASE Return(t, FALSE)
      BY <3>1, ReturnTyping
    <3>2. CASE Goto(t, "send") /\ cl' = [cl EXCEPT ![t] = client] /\ UNCHANGED <<op, sent, retry, data>>
      BY <3>2, Values DEF LocalOK, Goto
    <3> QED
      BY <1>8, <3>1, <3>2 DEF GetClient
  <2> QED
    BY <1>8, <2>1, Values DEF GetClient
<1>9. ASSUME NEW t \in Threads, Send(t) PROVE TypeOK'
  <2>f. cl[t] \in 1..MaxClient
    BY <1>9 DEF Send, ClientInv, Clients
  <2>g. access[cl[t]] \in Jwts
    BY <2>f
  <2>1. LocalOK'
    BY <1>9, <2>g, Values DEF Send, LocalOK, Goto
  <2> QED
    BY <1>9, <2>1, Values DEF Send
<1>10. ASSUME NEW t \in Threads, Answer(t) PROVE TypeOK'
  <2>1. LocalOK'
    <3>1. ASSUME NEW ok \in BOOLEAN, Return(t, ok) PROVE LocalOK'
      BY <3>1, ReturnTyping
    <3>2. CASE Goto(t, "refresh") /\ sent' = [sent EXCEPT ![t] = NoJwt] /\ UNCHANGED <<op, cl, retry, data>>
      BY <3>2, Values DEF LocalOK, Goto
    <3> QED
      BY <1>10, <3>1, <3>2 DEF Answer
  <2> QED
    BY <1>10, <2>1, Values DEF Answer
<1>11. ASSUME NEW t \in Threads, Lead(t) PROVE TypeOK'
  <2>1. LocalOK'
    BY <1>11, Values DEF Lead, LocalOK, Goto
  <2> QED
    BY <1>11, <2>1, Values DEF Lead
<1>12. ASSUME NEW t \in Threads, Join(t) PROVE TypeOK'
  <2>1. LocalOK'
    BY <1>12, Values DEF Join, LocalOK, Goto
  <2> QED
    BY <1>12, <2>1, Values DEF Join
<1>13. ASSUME NEW t \in Threads, Observe(t) PROVE TypeOK'
  <2>1. LocalOK'
    BY <1>13, ReturnTyping, RetryTyping DEF Observe
  <2> QED
    BY <1>13, <2>1, Values DEF Observe, LeaveWait
<1>14. ASSUME NEW t \in Threads, WaitTimeout(t) PROVE TypeOK'
  <2>1. LocalOK'
    BY <1>14, ReturnTyping DEF WaitTimeout
  <2> QED
    BY <1>14, <2>1, Values DEF WaitTimeout, LeaveWait
<1>15. ASSUME NEW t \in Threads, AcquireMu(t) PROVE TypeOK'
  <2>1. LocalOK'
    <3>1. \E l \in {"clear", "swap"} : pc' = [pc EXCEPT ![t] = l]
      BY <1>15 DEF AcquireMu, Goto
    <3>2. UNCHANGED <<request, data>>
      BY <1>15 DEF AcquireMu
    <3> QED
      BY <3>1, <3>2, Values DEF LocalOK
  <2> QED
    BY <1>15, <2>1, Values DEF AcquireMu
<1>16. ASSUME NEW t \in Threads, SwapIn(t) PROVE TypeOK'
  <2>1. LocalOK'
    BY <1>16, Values DEF SwapIn, LocalOK, Goto, LockInv, HoldPcs
  <2> QED
    BY <1>16, <2>1, Values DEF SwapIn, LocalOK, LockInv, HoldPcs
<1>17. ASSUME NEW t \in Threads, Exchange(t) PROVE TypeOK'
  <2>1. LocalOK'
    <3>1. \E l \in {"store", "restore"} : pc' = [pc EXCEPT ![t] = l]
      BY <1>17 DEF Exchange, Goto
    <3>2. hand' \in [Threads -> Pairs]
      <4>1. hand' = hand \/ (hand' = [hand EXCEPT ![t] = minted + 1] /\ Mint)
        BY <1>17 DEF Exchange, Rotate
      <4>2. Mint => minted + 1 \in Pairs
        BY Values DEF Mint
      <4> QED
        BY <4>1, <4>2 DEF LocalOK
    <3>3. UNCHANGED <<request, prev, keep>>
      BY <1>17 DEF Exchange
    <3> QED
      <4>1. pc' \in [Threads -> Pcs]
        BY <3>1, Values DEF LocalOK
      <4> QED
        BY <4>1, <3>2, <3>3 DEF LocalOK
  <2> QED
    BY <1>17, <2>1, Values DEF Exchange, Mint, Rotate, LocalOK, LockInv, HoldPcs
<1>18. ASSUME NEW t \in Threads, StoreTokens(t) PROVE TypeOK'
  <2>1. LocalOK'
    BY <1>18, Values DEF StoreTokens, Store, LocalOK, Goto
  <2> QED
    BY <1>18, <2>1, Values DEF StoreTokens, Store, LocalOK, LockInv, HoldPcs
<1>19. ASSUME NEW t \in Threads, SaveRefreshed(t) PROVE TypeOK'
  <2>1. LocalOK'
    BY <1>19, Values DEF SaveRefreshed, LocalOK, Goto, DoRefreshReturns
  <2> QED
    <3>1. Row(hand[t]) \in Rows
      BY Values DEF LocalOK
    <3>2. db' \in Rows /\ verdict' \in [Threads -> {"none", "ok", "err"}]
      BY <1>19, <3>1 DEF SaveRefreshed
    <3> QED
      BY <1>19, <2>1, <3>2 DEF SaveRefreshed, DoRefreshReturns
<1>20. ASSUME NEW t \in Threads, RestoreAccess(t) PROVE TypeOK'
  <2>1. LocalOK'
    BY <1>20, Values DEF RestoreAccess, LocalOK, Goto, DoRefreshReturns
  <2> QED
    BY <1>20, <2>1, Values DEF RestoreAccess, DoRefreshReturns, LocalOK, LockInv, HoldPcs
<1>21. ASSUME NEW t \in Threads, ClearInflight(t) PROVE TypeOK'
  <2>1. LocalOK'
    BY <1>21, Values DEF ClearInflight, LocalOK, Goto
  <2> QED
    BY <1>21, <2>1, Values DEF ClearInflight
<1>22. ASSUME NEW t \in Threads, CloseDone(t) PROVE TypeOK'
  <2>1. LocalOK'
    BY <1>22, ReturnTyping, RetryTyping DEF CloseDone
  <2> QED
    BY <1>22, <2>1, Values DEF CloseDone
<1>23. ASSUME NEW t \in Threads, CreateSession(t) PROVE TypeOK'
  <2>1. LocalOK'
    <3>1. CASE Leave(t, "idle", "none")
      BY <3>1, <1>f, LeaveTyping
    <3>2. CASE Mint /\ Goto(t, "install") /\ hand' = [hand EXCEPT ![t] = minted + 1] /\ UNCHANGED <<request, prev, keep>>
      BY <3>2, Values DEF LocalOK, Goto, Mint
    <3> QED
      BY <1>23, <3>1, <3>2 DEF CreateSession
  <2> QED
    BY <1>23, <2>1, Values DEF CreateSession, Mint
<1>24. ASSUME NEW t \in Threads, PersistLogin(t) PROVE TypeOK'
  <2>1. LocalOK'
    BY <1>24, <1>f, LeaveTyping DEF PersistLogin
  <2> QED
    <3>1. Row(hand[t]) \in Rows
      BY Values DEF LocalOK
    <3>2. db' \in Rows /\ form' \in BOOLEAN
      BY <1>24, <3>1 DEF PersistLogin
    <3> QED
      BY <1>24, <2>1, <3>2 DEF PersistLogin
<1>25. ASSUME NEW t \in Threads, DropClient(t) PROVE TypeOK'
  <2>1. LocalOK'
    BY <1>25, Values DEF DropClient, LocalOK, Goto
  <2> QED
    BY <1>25, <2>1, Values DEF DropClient
<1>26. ASSUME NEW t \in Threads, EraseRow(t) PROVE TypeOK'
  <2>1. LocalOK'
    BY <1>26, <1>f, LeaveTyping DEF EraseRow
  <2> QED
    BY <1>26, <2>1, Values DEF EraseRow
<1>27. ASSUME NEW n \in 1..MaxPair, Expire(n) PROVE TypeOK'
  BY <1>27 DEF Expire, Pairs, LocalOK
<1>28. CASE UNCHANGED vars
  BY <1>28 DEF vars, LocalOK
<1> QED
  BY <1>1, <1>2, <1>3, <1>4, <1>5, <1>6, <1>7, <1>8, <1>9, <1>10, <1>11, <1>12, <1>13, <1>14, <1>15, <1>16, <1>17, <1>18, <1>19, <1>20, <1>21, <1>22, <1>23, <1>24, <1>25, <1>26, <1>27, <1>28 DEF Next, BeginAny, Network, Compute

\* Every step keeps the discipline of mu and inflight: one holder, one leader.
LEMMA StepLockInv == TypeOK /\ LockInv /\ [Next]_vars => LockInv'
<1> SUFFICES ASSUME TypeOK, LockInv, [Next]_vars PROVE LockInv'
  OBVIOUS
<1> USE DEF LockInv, LeadPcs, HoldPcs, TypeOK, LocalOK, Goto, session, locks, request, data, waiting, server
<1>1. ASSUME NEW t \in Threads, BeginCall(t) PROVE LockInv'
  BY <1>1 DEF BeginCall, Begin
<1>2. ASSUME NEW t \in Threads, BeginLogin(t) PROVE LockInv'
  BY <1>2 DEF BeginLogin, Begin
<1>3. ASSUME NEW t \in Threads, BeginLogout(t) PROVE LockInv'
  BY <1>3 DEF BeginLogout, Begin
<1>4. ASSUME NEW t \in Threads, LoadSession(t) PROVE LockInv'
  BY <1>4 DEF LoadSession, AfterLoad, Leave
<1>5. ASSUME NEW t \in Threads, Reseal(t) PROVE LockInv'
  BY <1>5 DEF Reseal, AfterLoad
<1>6. ASSUME NEW t \in Threads, Show(t) PROVE LockInv'
  BY <1>6 DEF Show, Leave
<1>7. ASSUME NEW t \in Threads, Install(t) PROVE LockInv'
  BY <1>7 DEF Install
<1>8. ASSUME NEW t \in Threads, GetClient(t) PROVE LockInv'
  BY <1>8 DEF GetClient, Return, Leave
<1>9. ASSUME NEW t \in Threads, Send(t) PROVE LockInv'
  BY <1>9 DEF Send
<1>10. ASSUME NEW t \in Threads, Answer(t) PROVE LockInv'
  BY <1>10 DEF Answer, Return, Leave
<1>11. ASSUME NEW t \in Threads, Lead(t) PROVE LockInv'
  BY <1>11 DEF Lead
<1>12. ASSUME NEW t \in Threads, Join(t) PROVE LockInv'
  BY <1>12 DEF Join
<1>13. ASSUME NEW t \in Threads, Observe(t) PROVE LockInv'
  BY <1>13 DEF Observe, LeaveWait, Return, Leave, Retry
<1>14. ASSUME NEW t \in Threads, WaitTimeout(t) PROVE LockInv'
  BY <1>14 DEF WaitTimeout, LeaveWait, Return, Leave
<1>15. ASSUME NEW t \in Threads, AcquireMu(t) PROVE LockInv'
  BY <1>15 DEF AcquireMu
<1>16. ASSUME NEW t \in Threads, SwapIn(t) PROVE LockInv'
  BY <1>16 DEF SwapIn
<1>17. ASSUME NEW t \in Threads, Exchange(t) PROVE LockInv'
  BY <1>17 DEF Exchange
<1>18. ASSUME NEW t \in Threads, StoreTokens(t) PROVE LockInv'
  BY <1>18 DEF StoreTokens, Store
<1>19. ASSUME NEW t \in Threads, SaveRefreshed(t) PROVE LockInv'
  BY <1>19 DEF SaveRefreshed, DoRefreshReturns
<1>20. ASSUME NEW t \in Threads, RestoreAccess(t) PROVE LockInv'
  BY <1>20 DEF RestoreAccess, DoRefreshReturns
<1>21. ASSUME NEW t \in Threads, ClearInflight(t) PROVE LockInv'
  BY <1>21 DEF ClearInflight
<1>22. ASSUME NEW t \in Threads, CloseDone(t) PROVE LockInv'
  BY <1>22 DEF CloseDone, Return, Leave, Retry
<1>23. ASSUME NEW t \in Threads, CreateSession(t) PROVE LockInv'
  BY <1>23 DEF CreateSession, Leave
<1>24. ASSUME NEW t \in Threads, PersistLogin(t) PROVE LockInv'
  BY <1>24 DEF PersistLogin, Leave
<1>25. ASSUME NEW t \in Threads, DropClient(t) PROVE LockInv'
  BY <1>25 DEF DropClient
<1>26. ASSUME NEW t \in Threads, EraseRow(t) PROVE LockInv'
  BY <1>26 DEF EraseRow, Leave
<1>27. ASSUME NEW n \in 1..MaxPair, Expire(n) PROVE LockInv'
  BY <1>27 DEF Expire
<1>28. CASE UNCHANGED vars
  BY <1>28 DEF vars
<1> QED
  BY <1>1, <1>2, <1>3, <1>4, <1>5, <1>6, <1>7, <1>8, <1>9, <1>10, <1>11, <1>12, <1>13, <1>14, <1>15, <1>16, <1>17, <1>18, <1>19, <1>20, <1>21, <1>22, <1>23, <1>24, <1>25, <1>26, <1>27, <1>28 DEF Next, BeginAny, Network, Compute

\* Every step keeps the client allocated: a pointer is nil or one handed out before.
LEMMA StepClientInv == TypeOK /\ LockInv /\ ClientInv /\ [Next]_vars => ClientInv'
<1> SUFFICES ASSUME TypeOK, LockInv, ClientInv, [Next]_vars PROVE ClientInv'
  OBVIOUS
<1> USE DEF ClientInv, LeadPcs, HoldPcs, Clients, TypeOK, LocalOK, Goto, session, locks, request, data, waiting, server
<1>1. ASSUME NEW t \in Threads, BeginCall(t) PROVE ClientInv'
  BY <1>1 DEF BeginCall, Begin
<1>2. ASSUME NEW t \in Threads, BeginLogin(t) PROVE ClientInv'
  BY <1>2 DEF BeginLogin, Begin
<1>3. ASSUME NEW t \in Threads, BeginLogout(t) PROVE ClientInv'
  BY <1>3 DEF BeginLogout, Begin
<1>4. ASSUME NEW t \in Threads, LoadSession(t) PROVE ClientInv'
  BY <1>4 DEF LoadSession, AfterLoad, Leave
<1>5. ASSUME NEW t \in Threads, Reseal(t) PROVE ClientInv'
  BY <1>5 DEF Reseal, AfterLoad
<1>6. ASSUME NEW t \in Threads, Show(t) PROVE ClientInv'
  BY <1>6 DEF Show, Leave
<1>7. ASSUME NEW t \in Threads, Install(t) PROVE ClientInv'
  BY <1>7 DEF Install
<1>8. ASSUME NEW t \in Threads, GetClient(t) PROVE ClientInv'
  <2>1. CASE \E o \in Ops, l \in {"idle", "done", "drop", "load"} : Leave(t, l, o)
    BY <1>8, <2>1 DEF GetClient, Leave
  <2>2. CASE client # 0 /\ Goto(t, "send") /\ cl' = [cl EXCEPT ![t] = client]
    BY <1>8, <2>2 DEF GetClient
  <2> QED
    BY <1>8, <2>1, <2>2 DEF GetClient, Return, Ops
<1>9. ASSUME NEW t \in Threads, Send(t) PROVE ClientInv'
  BY <1>9 DEF Send
<1>10. ASSUME NEW t \in Threads, Answer(t) PROVE ClientInv'
  <2>1. CASE \E o \in Ops, l \in {"idle", "done", "drop", "load"} : Leave(t, l, o)
    BY <1>10, <2>1 DEF Answer, Leave
  <2>2. CASE Goto(t, "refresh") /\ UNCHANGED cl
    BY <1>10, <2>2 DEF Answer
  <2> QED
    BY <1>10, <2>1, <2>2 DEF Answer, Return, Ops
<1>11. ASSUME NEW t \in Threads, Lead(t) PROVE ClientInv'
  BY <1>11 DEF Lead
<1>12. ASSUME NEW t \in Threads, Join(t) PROVE ClientInv'
  BY <1>12 DEF Join
<1>13. ASSUME NEW t \in Threads, Observe(t) PROVE ClientInv'
  BY <1>13 DEF Observe, LeaveWait, Return, Leave, Retry
<1>14. ASSUME NEW t \in Threads, WaitTimeout(t) PROVE ClientInv'
  BY <1>14 DEF WaitTimeout, LeaveWait, Return, Leave
<1>15. ASSUME NEW t \in Threads, AcquireMu(t) PROVE ClientInv'
  BY <1>15 DEF AcquireMu
<1>16. ASSUME NEW t \in Threads, SwapIn(t) PROVE ClientInv'
  BY <1>16 DEF SwapIn
<1>17. ASSUME NEW t \in Threads, Exchange(t) PROVE ClientInv'
  BY <1>17 DEF Exchange
<1>18. ASSUME NEW t \in Threads, StoreTokens(t) PROVE ClientInv'
  BY <1>18 DEF StoreTokens, Store
<1>19. ASSUME NEW t \in Threads, SaveRefreshed(t) PROVE ClientInv'
  BY <1>19 DEF SaveRefreshed, DoRefreshReturns
<1>20. ASSUME NEW t \in Threads, RestoreAccess(t) PROVE ClientInv'
  BY <1>20 DEF RestoreAccess, DoRefreshReturns
<1>21. ASSUME NEW t \in Threads, ClearInflight(t) PROVE ClientInv'
  BY <1>21 DEF ClearInflight
<1>22. ASSUME NEW t \in Threads, CloseDone(t) PROVE ClientInv'
  BY <1>22 DEF CloseDone, Return, Leave, Retry
<1>23. ASSUME NEW t \in Threads, CreateSession(t) PROVE ClientInv'
  BY <1>23 DEF CreateSession, Leave
<1>24. ASSUME NEW t \in Threads, PersistLogin(t) PROVE ClientInv'
  BY <1>24 DEF PersistLogin, Leave
<1>25. ASSUME NEW t \in Threads, DropClient(t) PROVE ClientInv'
  BY <1>25 DEF DropClient
<1>26. ASSUME NEW t \in Threads, EraseRow(t) PROVE ClientInv'
  BY <1>26 DEF EraseRow, Leave
<1>27. ASSUME NEW n \in 1..MaxPair, Expire(n) PROVE ClientInv'
  BY <1>27 DEF Expire
<1>28. CASE UNCHANGED vars
  BY <1>28 DEF vars
<1> QED
  BY <1>1, <1>2, <1>3, <1>4, <1>5, <1>6, <1>7, <1>8, <1>9, <1>10, <1>11, <1>12, <1>13, <1>14, <1>15, <1>16, <1>17, <1>18, <1>19, <1>20, <1>21, <1>22, <1>23, <1>24, <1>25, <1>26, <1>27, <1>28 DEF Next, BeginAny, Network, Compute

\* Every step keeps the refresh token out of the access slots it must not be in.
LEMMA StepSwapInv == TypeOK /\ LockInv /\ SwapInv /\ [Next]_vars => SwapInv'
<1> SUFFICES ASSUME TypeOK, LockInv, SwapInv, [Next]_vars PROVE SwapInv'
  OBVIOUS
<1> USE DEF SwapInv, SwapConfined, LockInv, NoJwt, Access, Refresh, HoldPcs, TypeOK, LocalOK, Goto, session, locks, request, data, waiting, server
<1>1. ASSUME NEW t \in Threads, BeginCall(t) PROVE SwapInv'
  BY <1>1 DEF BeginCall, Begin
<1>2. ASSUME NEW t \in Threads, BeginLogin(t) PROVE SwapInv'
  BY <1>2 DEF BeginLogin, Begin
<1>3. ASSUME NEW t \in Threads, BeginLogout(t) PROVE SwapInv'
  BY <1>3 DEF BeginLogout, Begin
<1>4. ASSUME NEW t \in Threads, LoadSession(t) PROVE SwapInv'
  BY <1>4 DEF LoadSession, AfterLoad, Leave
<1>5. ASSUME NEW t \in Threads, Reseal(t) PROVE SwapInv'
  BY <1>5 DEF Reseal, AfterLoad
<1>6. ASSUME NEW t \in Threads, Show(t) PROVE SwapInv'
  BY <1>6 DEF Show, Leave
<1>7. ASSUME NEW t \in Threads, Install(t) PROVE SwapInv'
  BY <1>7 DEF Install
<1>8. ASSUME NEW t \in Threads, GetClient(t) PROVE SwapInv'
  BY <1>8 DEF GetClient, Return, Leave
<1>9. ASSUME NEW t \in Threads, Send(t) PROVE SwapInv'
  BY <1>9 DEF Send
<1>10. ASSUME NEW t \in Threads, Answer(t) PROVE SwapInv'
  BY <1>10 DEF Answer, Return, Leave
<1>11. ASSUME NEW t \in Threads, Lead(t) PROVE SwapInv'
  BY <1>11 DEF Lead
<1>12. ASSUME NEW t \in Threads, Join(t) PROVE SwapInv'
  BY <1>12 DEF Join
<1>13. ASSUME NEW t \in Threads, Observe(t) PROVE SwapInv'
  BY <1>13 DEF Observe, LeaveWait, Return, Leave, Retry
<1>14. ASSUME NEW t \in Threads, WaitTimeout(t) PROVE SwapInv'
  BY <1>14 DEF WaitTimeout, LeaveWait, Return, Leave
<1>15. ASSUME NEW t \in Threads, AcquireMu(t) PROVE SwapInv'
  BY <1>15 DEF AcquireMu
<1>16. ASSUME NEW t \in Threads, SwapIn(t) PROVE SwapInv'
  <2>1. mu = t /\ client \in 1..MaxClient
    BY <1>16, Values DEF SwapIn
  <2>2. access[client].kind = "access"
    BY <1>16, <2>1 DEF SwapIn
  <2> QED
    BY <1>16, <2>1, <2>2 DEF SwapIn
<1>17. ASSUME NEW t \in Threads, Exchange(t) PROVE SwapInv'
  BY <1>17 DEF Exchange
<1>18. ASSUME NEW t \in Threads, StoreTokens(t) PROVE SwapInv'
  BY <1>18 DEF StoreTokens, Store
<1>19. ASSUME NEW t \in Threads, SaveRefreshed(t) PROVE SwapInv'
  BY <1>19 DEF SaveRefreshed, DoRefreshReturns
<1>20. ASSUME NEW t \in Threads, RestoreAccess(t) PROVE SwapInv'
  BY <1>20 DEF RestoreAccess, DoRefreshReturns
<1>21. ASSUME NEW t \in Threads, ClearInflight(t) PROVE SwapInv'
  BY <1>21 DEF ClearInflight
<1>22. ASSUME NEW t \in Threads, CloseDone(t) PROVE SwapInv'
  BY <1>22 DEF CloseDone, Return, Leave, Retry
<1>23. ASSUME NEW t \in Threads, CreateSession(t) PROVE SwapInv'
  BY <1>23 DEF CreateSession, Leave
<1>24. ASSUME NEW t \in Threads, PersistLogin(t) PROVE SwapInv'
  BY <1>24 DEF PersistLogin, Leave
<1>25. ASSUME NEW t \in Threads, DropClient(t) PROVE SwapInv'
  BY <1>25 DEF DropClient
<1>26. ASSUME NEW t \in Threads, EraseRow(t) PROVE SwapInv'
  BY <1>26 DEF EraseRow, Leave
<1>27. ASSUME NEW n \in 1..MaxPair, Expire(n) PROVE SwapInv'
  BY <1>27 DEF Expire
<1>28. CASE UNCHANGED vars
  BY <1>28 DEF vars
<1> QED
  BY <1>1, <1>2, <1>3, <1>4, <1>5, <1>6, <1>7, <1>8, <1>9, <1>10, <1>11, <1>12, <1>13, <1>14, <1>15, <1>16, <1>17, <1>18, <1>19, <1>20, <1>21, <1>22, <1>23, <1>24, <1>25, <1>26, <1>27, <1>28 DEF Next, BeginAny, Network, Compute

\* The places a goroutine rests at are program counters.
LEMMA RestingPcs == {"idle", "done"} \subseteq Pcs
BY DEF Pcs

\* A goroutine that neither waits nor has to close a refreshCall may move.
LEMMA WaitFrame ==
    ASSUME TypeOK, WaitInv, UNCHANGED waiting,
           NEW t \in Threads, NEW l \in Pcs \ {"wait", "clear", "close"},
           pc' = [pc EXCEPT ![t] = l],
           pc[t] \notin {"wait", "clear", "close"},
           pc[t] \in LeadPcs => l \in LeadPcs
    PROVE  WaitInv'
BY DEF TypeOK, LocalOK, WaitInv, NoLostWakeup, waiting

\* A waiter may leave: nobody waits for it.
LEMMA WaitLeave ==
    ASSUME TypeOK, WaitInv, NEW t \in Threads, pc[t] = "wait",
           NEW l \in Pcs \ {"wait", "clear", "close"},
           pc' = [pc EXCEPT ![t] = l],
           LeaveWait(t)
    PROVE  WaitInv'
BY DEF TypeOK, LocalOK, WaitInv, NoLostWakeup, LeaveWait, LeadPcs, HoldPcs

\* Where a return may lead.
LEMMA ReturnPc ==
    ASSUME NEW t \in Threads, NEW ok \in BOOLEAN, Return(t, ok)
    PROVE  \E l \in {"idle", "done", "drop", "load"} : pc' = [pc EXCEPT ![t] = l]
BY DEF Return, Leave, Goto

\* Every step keeps each waiter tied to a leader that has still to close its refresh.
LEMMA StepWaitInv == TypeOK /\ LockInv /\ WaitInv /\ [Next]_vars => WaitInv'
<1> SUFFICES ASSUME TypeOK, LockInv, WaitInv, [Next]_vars PROVE WaitInv'
  OBVIOUS
<1> USE DEF WaitInv, NoLostWakeup, LockInv, LeadPcs, HoldPcs, TypeOK, LocalOK, Goto, session, locks, request, data, waiting, server
<1>1. ASSUME NEW t \in Threads, BeginCall(t) PROVE WaitInv'
  BY <1>1 DEF BeginCall, Begin
<1>2. ASSUME NEW t \in Threads, BeginLogin(t) PROVE WaitInv'
  BY <1>2 DEF BeginLogin, Begin
<1>3. ASSUME NEW t \in Threads, BeginLogout(t) PROVE WaitInv'
  BY <1>3 DEF BeginLogout, Begin
<1>4. ASSUME NEW t \in Threads, LoadSession(t) PROVE WaitInv'
  <2>1. \E l \in {"done", "reseal", "show", "install"} : pc' = [pc EXCEPT ![t] = l]
    BY <1>4 DEF LoadSession, AfterLoad, Leave
  <2> QED
    BY <1>4, <2>1, WaitFrame, Values DEF LoadSession
<1>5. ASSUME NEW t \in Threads, Reseal(t) PROVE WaitInv'
  BY <1>5 DEF Reseal, AfterLoad
<1>6. ASSUME NEW t \in Threads, Show(t) PROVE WaitInv'
  BY <1>6 DEF Show, Leave
<1>7. ASSUME NEW t \in Threads, Install(t) PROVE WaitInv'
  BY <1>7 DEF Install
<1>8. ASSUME NEW t \in Threads, GetClient(t) PROVE WaitInv'
  <2>1. \E l \in {"idle", "done", "drop", "load", "send"} : pc' = [pc EXCEPT ![t] = l]
    BY <1>8, ReturnPc DEF GetClient
  <2> QED
    BY <1>8, <2>1, WaitFrame, Values, RestingPcs DEF GetClient
<1>9. ASSUME NEW t \in Threads, Send(t) PROVE WaitInv'
  BY <1>9 DEF Send
<1>10. ASSUME NEW t \in Threads, Answer(t) PROVE WaitInv'
  <2>1. \E l \in {"idle", "done", "drop", "load", "refresh"} : pc' = [pc EXCEPT ![t] = l]
    BY <1>10, ReturnPc DEF Answer
  <2> QED
    BY <1>10, <2>1, WaitFrame, Values, RestingPcs DEF Answer
<1>11. ASSUME NEW t \in Threads, Lead(t) PROVE WaitInv'
  BY <1>11 DEF Lead
<1>12. ASSUME NEW t \in Threads, Join(t) PROVE WaitInv'
  BY <1>12 DEF Join
<1>13. ASSUME NEW t \in Threads, Observe(t) PROVE WaitInv'
  <2>1. \E l \in {"idle", "done", "drop", "load", "send"} : pc' = [pc EXCEPT ![t] = l]
    BY <1>13, ReturnPc DEF Observe, Retry
  <2> QED
    <3>1. PICK l \in Pcs \ {"wait", "clear", "close"} : pc' = [pc EXCEPT ![t] = l]
      BY <2>1, Values, RestingPcs
    <3>2. pc[t] = "wait" /\ LeaveWait(t)
      BY <1>13 DEF Observe
    <3> HIDE DEF WaitInv
    <3> QED
      BY <3>1, <3>2, WaitLeave
<1>14. ASSUME NEW t \in Threads, WaitTimeout(t) PROVE WaitInv'
  <2>1. \E l \in {"idle", "done", "drop", "load"} : pc' = [pc EXCEPT ![t] = l]
    BY <1>14, ReturnPc DEF WaitTimeout
  <2> QED
    <3>1. PICK l \in Pcs \ {"wait", "clear", "close"} : pc' = [pc EXCEPT ![t] = l]
      BY <2>1, Values, RestingPcs
    <3>2. pc[t] = "wait" /\ LeaveWait(t)
      BY <1>14 DEF WaitTimeout
    <3> HIDE DEF WaitInv
    <3> QED
      BY <3>1, <3>2, WaitLeave
<1>15. ASSUME NEW t \in Threads, AcquireMu(t) PROVE WaitInv'
  <2>1. CASE client = 0
    <3>1. /\ pc' = [pc EXCEPT ![t] = "clear"]
          /\ verdict' = [verdict EXCEPT ![t] = "err"]
          /\ UNCHANGED waitOn
          /\ pc[t] = "lock"
      BY <1>15, <2>1 DEF AcquireMu
    <3>2. \A w \in Threads : pc'[w] = "wait" => waitOn'[w] \in Threads \ {w}
      BY <3>1
    <3>3. \A w \in Threads : pc'[w] \in {"clear", "close"} => verdict'[w] # "none"
      BY <3>1
    <3>4. \A w \in Threads : verdict'[w] # "none" => pc'[w] \in {"wait", "clear", "close"}
      BY <3>1
    <3>5. NoLostWakeup'
      BY <3>1
    <3> QED
      BY <3>2, <3>3, <3>4, <3>5
  <2>2. CASE client # 0
    <3>1. pc' = [pc EXCEPT ![t] = "swap"] /\ UNCHANGED waiting
      BY <1>15, <2>2 DEF AcquireMu
    <3> QED
      BY <1>15, <3>1, WaitFrame, Values DEF AcquireMu
  <2> QED
    BY <2>1, <2>2
<1>16. ASSUME NEW t \in Threads, SwapIn(t) PROVE WaitInv'
  BY <1>16 DEF SwapIn
<1>17. ASSUME NEW t \in Threads, Exchange(t) PROVE WaitInv'
  <2>1. \E l \in {"store", "restore"} : pc' = [pc EXCEPT ![t] = l]
    BY <1>17 DEF Exchange
  <2> QED
    BY <1>17, <2>1, WaitFrame, Values DEF Exchange
<1>18. ASSUME NEW t \in Threads, StoreTokens(t) PROVE WaitInv'
  BY <1>18 DEF StoreTokens, Store
<1>19. ASSUME NEW t \in Threads, SaveRefreshed(t) PROVE WaitInv'
  BY <1>19 DEF SaveRefreshed, DoRefreshReturns
<1>20. ASSUME NEW t \in Threads, RestoreAccess(t) PROVE WaitInv'
  BY <1>20 DEF RestoreAccess, DoRefreshReturns
<1>21. ASSUME NEW t \in Threads, ClearInflight(t) PROVE WaitInv'
  BY <1>21 DEF ClearInflight
<1>22. ASSUME NEW t \in Threads, CloseDone(t) PROVE WaitInv'
  BY <1>22 DEF CloseDone, Return, Leave, Retry
<1>23. ASSUME NEW t \in Threads, CreateSession(t) PROVE WaitInv'
  <2>1. \E l \in {"install", "idle"} : pc' = [pc EXCEPT ![t] = l]
    BY <1>23 DEF CreateSession, Leave
  <2> QED
    BY <1>23, <2>1, WaitFrame, Values, RestingPcs DEF CreateSession
<1>24. ASSUME NEW t \in Threads, PersistLogin(t) PROVE WaitInv'
  BY <1>24 DEF PersistLogin, Leave
<1>25. ASSUME NEW t \in Threads, DropClient(t) PROVE WaitInv'
  BY <1>25 DEF DropClient
<1>26. ASSUME NEW t \in Threads, EraseRow(t) PROVE WaitInv'
  BY <1>26 DEF EraseRow, Leave
<1>27. ASSUME NEW n \in 1..MaxPair, Expire(n) PROVE WaitInv'
  BY <1>27 DEF Expire
<1>28. CASE UNCHANGED vars
  BY <1>28 DEF vars
<1> QED
  BY <1>1, <1>2, <1>3, <1>4, <1>5, <1>6, <1>7, <1>8, <1>9, <1>10, <1>11, <1>12, <1>13, <1>14, <1>15, <1>16, <1>17, <1>18, <1>19, <1>20, <1>21, <1>22, <1>23, <1>24, <1>25, <1>26, <1>27, <1>28 DEF Next, BeginAny, Network, Compute

-----------------------------------------------------------------------------
\* The inductive invariant holds initially.
LEMMA InitIInv == Init => IInv
<1> SUFFICES ASSUME Init PROVE IInv
  OBVIOUS
<1>1. TypeOK
  BY InitTypeOK
<1>2. \A t \in Threads : pc[t] \in {"idle", "done", "load"}
  BY DEF Init
<1>3. LockInv /\ ClientInv
  BY <1>2 DEF Init, LockInv, ClientInv, LeadPcs, HoldPcs
<1>4. \A o \in 1..MaxClient : access[o].kind = "access"
  BY DEF Init, NoJwt, Access
<1>5. \A t \in Threads : prev[t].kind = "access"
  BY DEF Init, NoJwt
<1>6. WaitInv
  BY <1>2 DEF Init, WaitInv, NoLostWakeup
<1> QED
  BY <1>1, <1>3, <1>4, <1>5, <1>6 DEF IInv, SwapInv, SwapConfined

\* The inductive invariant is preserved by every step.
LEMMA StepIInv == IInv /\ [Next]_vars => IInv'
BY StepTypeOK, StepLockInv, StepClientInv, StepSwapInv, StepWaitInv DEF IInv

\* The inductive invariant always holds.
LEMMA Invariance == Spec => []IInv
BY InitIInv, StepIInv, PTL DEF Spec

\* The state of the session core is always well typed.
THEOREM Typing == Spec => []TypeOK
<1>1. IInv => TypeOK
  BY DEF IInv
<1> QED
  BY <1>1, Invariance, PTL

\* A refresh token is never left where the access token belongs: whatever fails,
\* doRefresh gives the access token back before it lets go of mu.
THEOREM RefreshTokenConfined == Spec => []SwapConfined
<1>1. IInv => SwapConfined
  BY DEF IInv, SwapInv
<1> QED
  BY <1>1, Invariance, PTL

\* No goroutine waits for a refreshCall that nobody will close.
THEOREM WaitersAreWoken == Spec => []NoLostWakeup
<1>1. IInv => NoLostWakeup
  BY DEF IInv, WaitInv
<1> QED
  BY <1>1, Invariance, PTL

-----------------------------------------------------------------------------
\* Steps outside RefreshSession, and those inside doRefresh, change nothing that
\* the callers of RefreshSession can see.
LEMMA Outside ==
    ASSUME TypeOK, NEW t \in Threads, NEW l \in Pcs \ (LeadPcs \cup {"close", "wait"}),
           pc' = [pc EXCEPT ![t] = l], pc[t] \notin LeadPcs \cup {"close", "wait"},
           UNCHANGED <<inflight, waitOn, verdict>>
    PROVE  UNCHANGED <<inflight, Party, Told>>
BY DEF TypeOK, LocalOK, Party, Told

\* A leader that moves from one place of its refresh to another changes nothing the callers see.
LEMMA Inside ==
    ASSUME TypeOK, NEW t \in Threads, NEW l \in LeadPcs,
           pc' = [pc EXCEPT ![t] = l], pc[t] \in LeadPcs,
           \A w \in Threads \ {t} : verdict'[w] = verdict[w],
           UNCHANGED <<inflight, waitOn>>
    PROVE  UNCHANGED <<inflight, Party, Told>>
BY DEF TypeOK, LocalOK, Party, Told, LeadPcs, HoldPcs

\* The places outside of a refresh are none of those inside.
LEMMA OutsidePcs ==
    /\ {"idle", "done", "drop", "load", "reseal", "show", "install", "get", "send", "net",
        "refresh", "create", "persist", "erase"} \subseteq Pcs \ (LeadPcs \cup {"close", "wait"})
    /\ {"lock", "clear", "swap", "exchange", "store", "save", "restore"} \subseteq LeadPcs
BY DEF Pcs, LeadPcs, HoldPcs

\* Every step of the session core is a step of SharedRefresh or leaves it as it is.
LEMMA StepRefines == IInv /\ [Next]_vars => [Shared!Next]_(Shared!vars)
<1> SUFFICES ASSUME IInv, [Next]_vars PROVE Shared!Next \/ UNCHANGED <<inflight, Party, Told>>
  BY DEF Shared!vars
<1> USE DEF IInv, Goto, session, locks, request, data, waiting, server
<1>1. ASSUME NEW t \in Threads, BeginCall(t) PROVE UNCHANGED <<inflight, Party, Told>>
  <2>1. \E l \in {"get"} : pc' = [pc EXCEPT ![t] = l]
    BY <1>1 DEF BeginCall, Begin
  <2> QED
    BY <1>1, <2>1, Outside, OutsidePcs DEF BeginCall, Begin
<1>2. ASSUME NEW t \in Threads, BeginLogin(t) PROVE UNCHANGED <<inflight, Party, Told>>
  <2>1. \E l \in {"create"} : pc' = [pc EXCEPT ![t] = l]
    BY <1>2 DEF BeginLogin, Begin
  <2> QED
    BY <1>2, <2>1, Outside, OutsidePcs DEF BeginLogin, Begin
<1>3. ASSUME NEW t \in Threads, BeginLogout(t) PROVE UNCHANGED <<inflight, Party, Told>>
  <2>1. \E l \in {"get"} : pc' = [pc EXCEPT ![t] = l]
    BY <1>3 DEF BeginLogout, Begin
  <2> QED
    BY <1>3, <2>1, Outside, OutsidePcs DEF BeginLogout, Begin
<1>4. ASSUME NEW t \in Threads, LoadSession(t) PROVE UNCHANGED <<inflight, Party, Told>>
  <2>1. \E l \in {"done", "reseal", "show", "install"} : pc' = [pc EXCEPT ![t] = l]
    BY <1>4 DEF LoadSession, AfterLoad, Leave
  <2> QED
    <3>1. pc[t] = "load" /\ UNCHANGED <<inflight, waitOn, verdict>>
      BY <1>4 DEF LoadSession
    <3> QED
      BY <2>1, <3>1, Outside, OutsidePcs
<1>5. ASSUME NEW t \in Threads, Reseal(t) PROVE UNCHANGED <<inflight, Party, Told>>
  <2>1. \E l \in {"show", "install"} : pc' = [pc EXCEPT ![t] = l]
    BY <1>5 DEF Reseal, AfterLoad
  <2> QED
    BY <1>5, <2>1, Outside, OutsidePcs DEF Reseal
<1>6. ASSUME NEW t \in Threads, Show(t) PROVE UNCHANGED <<inflight, Party, Told>>
  <2>1. \E l \in {"done"} : pc' = [pc EXCEPT ![t] = l]
    BY <1>6 DEF Show, Leave
  <2> QED
    BY <1>6, <2>1, Outside, OutsidePcs DEF Show
<1>7. ASSUME NEW t \in Threads, Install(t) PROVE UNCHANGED <<inflight, Party, Told>>
  <2>1. \E l \in {"get", "persist", "erase"} : pc' = [pc EXCEPT ![t] = l]
    BY <1>7 DEF Install
  <2> QED
    BY <1>7, <2>1, Outside, OutsidePcs DEF Install
<1>8. ASSUME NEW t \in Threads, GetClient(t) PROVE UNCHANGED <<inflight, Party, Told>>
  <2>1. \E l \in {"idle", "done", "drop", "load", "send"} : pc' = [pc EXCEPT ![t] = l]
    BY <1>8, ReturnPc DEF GetClient
  <2> QED
    BY <1>8, <2>1, Outside, OutsidePcs DEF GetClient
<1>9. ASSUME NEW t \in Threads, Send(t) PROVE UNCHANGED <<inflight, Party, Told>>
  <2>1. \E l \in {"net"} : pc' = [pc EXCEPT ![t] = l]
    BY <1>9 DEF Send
  <2> QED
    BY <1>9, <2>1, Outside, OutsidePcs DEF Send
<1>10. ASSUME NEW t \in Threads, Answer(t) PROVE UNCHANGED <<inflight, Party, Told>>
  <2>1. \E l \in {"idle", "done", "drop", "load", "refresh"} : pc' = [pc EXCEPT ![t] = l]
    BY <1>10, ReturnPc DEF Answer
  <2> QED
    BY <1>10, <2>1, Outside, OutsidePcs DEF Answer
<1>11. ASSUME NEW t \in Threads, CreateSession(t) PROVE UNCHANGED <<inflight, Party, Told>>
  <2>1. \E l \in {"install", "idle"} : pc' = [pc EXCEPT ![t] = l]
    BY <1>11 DEF CreateSession, Leave
  <2> QED
    BY <1>11, <2>1, Outside, OutsidePcs DEF CreateSession
<1>12. ASSUME NEW t \in Threads, PersistLogin(t) PROVE UNCHANGED <<inflight, Party, Told>>
  <2>1. \E l \in {"idle"} : pc' = [pc EXCEPT ![t] = l]
    BY <1>12 DEF PersistLogin, Leave
  <2> QED
    BY <1>12, <2>1, Outside, OutsidePcs DEF PersistLogin
<1>13. ASSUME NEW t \in Threads, DropClient(t) PROVE UNCHANGED <<inflight, Party, Told>>
  <2>1. \E l \in {"erase"} : pc' = [pc EXCEPT ![t] = l]
    BY <1>13 DEF DropClient
  <2> QED
    BY <1>13, <2>1, Outside, OutsidePcs DEF DropClient
<1>14. ASSUME NEW t \in Threads, EraseRow(t) PROVE UNCHANGED <<inflight, Party, Told>>
  <2>1. \E l \in {"idle"} : pc' = [pc EXCEPT ![t] = l]
    BY <1>14 DEF EraseRow, Leave
  <2> QED
    BY <1>14, <2>1, Outside, OutsidePcs DEF EraseRow
<1>15. ASSUME NEW t \in Threads, AcquireMu(t) PROVE UNCHANGED <<inflight, Party, Told>>
  <2>1. \E l \in {"clear", "swap"} : pc' = [pc EXCEPT ![t] = l]
    BY <1>15 DEF AcquireMu
  <2>2. \A w \in Threads \ {t} : verdict'[w] = verdict[w]
    BY <1>15 DEF AcquireMu, TypeOK
  <2> QED
    BY <1>15, <2>1, <2>2, Inside, OutsidePcs DEF AcquireMu
<1>16. ASSUME NEW t \in Threads, SwapIn(t) PROVE UNCHANGED <<inflight, Party, Told>>
  <2>1. \E l \in {"exchange"} : pc' = [pc EXCEPT ![t] = l]
    BY <1>16 DEF SwapIn
  <2>2. \A w \in Threads \ {t} : verdict'[w] = verdict[w]
    BY <1>16 DEF SwapIn, TypeOK
  <2> QED
    BY <1>16, <2>1, <2>2, Inside, OutsidePcs DEF SwapIn
<1>17. ASSUME NEW t \in Threads, Exchange(t) PROVE UNCHANGED <<inflight, Party, Told>>
  <2>1. \E l \in {"store", "restore"} : pc' = [pc EXCEPT ![t] = l]
    BY <1>17 DEF Exchange
  <2>2. \A w \in Threads \ {t} : verdict'[w] = verdict[w]
    BY <1>17 DEF Exchange, TypeOK
  <2> QED
    BY <1>17, <2>1, <2>2, Inside, OutsidePcs DEF Exchange
<1>18. ASSUME NEW t \in Threads, StoreTokens(t) PROVE UNCHANGED <<inflight, Party, Told>>
  <2>1. \E l \in {"save"} : pc' = [pc EXCEPT ![t] = l]
    BY <1>18 DEF StoreTokens, Store
  <2>2. \A w \in Threads \ {t} : verdict'[w] = verdict[w]
    BY <1>18 DEF StoreTokens, Store, TypeOK
  <2> QED
    BY <1>18, <2>1, <2>2, Inside, OutsidePcs DEF StoreTokens, Store
<1>19. ASSUME NEW t \in Threads, SaveRefreshed(t) PROVE UNCHANGED <<inflight, Party, Told>>
  <2>1. \E l \in {"clear"} : pc' = [pc EXCEPT ![t] = l]
    BY <1>19 DEF SaveRefreshed, DoRefreshReturns
  <2>2. \A w \in Threads \ {t} : verdict'[w] = verdict[w]
    BY <1>19 DEF SaveRefreshed, DoRefreshReturns, TypeOK
  <2> QED
    BY <1>19, <2>1, <2>2, Inside, OutsidePcs DEF SaveRefreshed, DoRefreshReturns
<1>20. ASSUME NEW t \in Threads, RestoreAccess(t) PROVE UNCHANGED <<inflight, Party, Told>>
  <2>1. \E l \in {"clear"} : pc' = [pc EXCEPT ![t] = l]
    BY <1>20 DEF RestoreAccess, DoRefreshReturns
  <2>2. \A w \in Threads \ {t} : verdict'[w] = verdict[w]
    BY <1>20 DEF RestoreAccess, DoRefreshReturns, TypeOK
  <2> QED
    BY <1>20, <2>1, <2>2, Inside, OutsidePcs DEF RestoreAccess, DoRefreshReturns
<1>21. ASSUME NEW t \in Threads, Lead(t) PROVE Shared!Lead(t)
  BY <1>21 DEF Lead, Shared!Lead, Party, Told, TypeOK, LocalOK, LeadPcs, HoldPcs
<1>22. ASSUME NEW t \in Threads, Join(t) PROVE Shared!Join(t)
  BY <1>22 DEF Join, Shared!Join, Party, Told, TypeOK, LocalOK, WaitInv, LeadPcs, HoldPcs
<1>23. ASSUME NEW t \in Threads, ClearInflight(t) PROVE Shared!Shut(t)
  BY <1>23 DEF ClearInflight, Shared!Shut, Party, Told, TypeOK, LocalOK, LockInv, LeadPcs, HoldPcs
<1>24. ASSUME NEW t \in Threads, CloseDone(t) PROVE Shared!Announce(t, verdict[t]) /\ verdict[t] \in Shared!Verdicts
  <2>1. PICK l \in {"idle", "done", "drop", "load", "send"} : pc' = [pc EXCEPT ![t] = l]
    BY <1>24, ReturnPc DEF CloseDone, Retry
  <2>2. pc[t] = "close" /\ inflight # t /\ l \notin LeadPcs \cup {"close", "wait"}
    BY <1>24, <2>1 DEF CloseDone, LockInv, LeadPcs, HoldPcs
  <2>3. Party' = [Party EXCEPT ![t] = NoThread]
    BY <1>24, <2>1, <2>2 DEF CloseDone, Party, TypeOK, LocalOK
  <2>4. Told' = [d \in Threads |-> IF d # t /\ Party[d] = t /\ Told[d] = "none" THEN verdict[t] ELSE Told[d]]
    <3>1. ASSUME NEW d \in Threads
          PROVE  Told'[d] = IF d # t /\ Party[d] = t /\ Told[d] = "none" THEN verdict[t] ELSE Told[d]
      <4>1. CASE d = t
        BY <2>1, <2>2, <4>1 DEF Told, TypeOK, LocalOK
      <4>2. CASE d # t /\ pc[d] = "wait"
        <5>1. Party[d] = waitOn[d] /\ Told[d] = verdict[d] /\ pc'[d] = "wait"
          BY <2>1, <4>2 DEF Party, Told, TypeOK, LocalOK, LeadPcs, HoldPcs
        <5>2. verdict'[d] = IF waitOn[d] = t /\ verdict[d] = "none" THEN verdict[t] ELSE verdict[d]
          BY <1>24, <4>2 DEF CloseDone
        <5> QED
          BY <4>2, <5>1, <5>2 DEF Told
      <4>3. CASE d # t /\ pc[d] # "wait"
        BY <2>1, <4>3 DEF Party, Told, TypeOK, LocalOK
      <4> QED
        BY <4>1, <4>2, <4>3
    <3> QED
      BY <3>1 DEF Told
  <2>5. verdict[t] \in Shared!Verdicts /\ UNCHANGED inflight /\ Party[t] = t
    BY <1>24, <2>2 DEF CloseDone, Shared!Verdicts, Party
  <2> QED
    BY <2>2, <2>3, <2>4, <2>5 DEF Shared!Announce
<1>25. ASSUME NEW t \in Threads, Observe(t) PROVE Shared!Leave(t)
  <2>1. PICK l \in {"idle", "done", "drop", "load", "send"} : pc' = [pc EXCEPT ![t] = l]
    BY <1>25, ReturnPc DEF Observe, Retry
  <2>2. pc[t] = "wait" /\ LeaveWait(t) /\ l \notin LeadPcs \cup {"close", "wait"}
    BY <1>25, <2>1 DEF Observe, LeadPcs, HoldPcs
  <2>3. Party[t] \notin {t, NoThread}
    BY <2>2 DEF Party, WaitInv, LeadPcs, HoldPcs
  <2>4. Party' = [Party EXCEPT ![t] = NoThread] /\ Told' = [Told EXCEPT ![t] = "none"] /\ UNCHANGED inflight
    BY <2>1, <2>2 DEF LeaveWait, Party, Told, TypeOK, LocalOK
  <2> QED
    BY <2>3, <2>4 DEF Shared!Leave
<1>26. ASSUME NEW t \in Threads, WaitTimeout(t) PROVE Shared!Leave(t)
  <2>1. PICK l \in {"idle", "done", "drop", "load", "send"} : pc' = [pc EXCEPT ![t] = l]
    BY <1>26, ReturnPc DEF WaitTimeout, Retry
  <2>2. pc[t] = "wait" /\ LeaveWait(t) /\ l \notin LeadPcs \cup {"close", "wait"}
    BY <1>26, <2>1 DEF WaitTimeout, LeadPcs, HoldPcs
  <2>3. Party[t] \notin {t, NoThread}
    BY <2>2 DEF Party, WaitInv, LeadPcs, HoldPcs
  <2>4. Party' = [Party EXCEPT ![t] = NoThread] /\ Told' = [Told EXCEPT ![t] = "none"] /\ UNCHANGED inflight
    BY <2>1, <2>2 DEF LeaveWait, Party, Told, TypeOK, LocalOK
  <2> QED
    BY <2>3, <2>4 DEF Shared!Leave
<1>27. ASSUME NEW n \in 1..MaxPair, Expire(n) PROVE UNCHANGED <<inflight, Party, Told>>
  BY <1>27 DEF Expire, Party, Told
<1>28. CASE UNCHANGED vars
  BY <1>28 DEF vars, Party, Told
<1> QED
  BY <1>1, <1>2, <1>3, <1>4, <1>5, <1>6, <1>7, <1>8, <1>9, <1>10, <1>11, <1>12, <1>13, <1>14, <1>15, <1>16, <1>17, <1>18, <1>19, <1>20, <1>21, <1>22, <1>23, <1>24, <1>25, <1>26, <1>27, <1>28 DEF Next, BeginAny, Network, Compute, Shared!Next

\* Concurrent callers of RefreshSession share a single refresh and all observe its
\* result, as SharedRefresh puts it.
THEOREM Implementation == Spec => SharesOneRefresh
<1>1. Init => Shared!Init
  BY InitTypeOK DEF Init, Shared!Init, Party, Told, LeadPcs, HoldPcs
<1> QED
  BY <1>1, StepRefines, Invariance, PTL DEF Spec, SharesOneRefresh, Shared!Spec

-----------------------------------------------------------------------------
(***************************************************************************)
(* The tokens of a session, in memory and on disk, for any goroutines and  *)
(* bounds: why a running session never presents a refresh token twice, and *)
(* why the saved row is the one of the session in memory.                  *)
(*                                                                         *)
(* Every pair that still works is in one place: in one xrpc.Client, or in  *)
(* the hand of the one goroutine that is about to put it there.  Two       *)
(* things break this, and the theorem excludes both: a refresh whose reply *)
(* is lost, and a second client built from the saved row, which only       *)
(* startup and RestoreSession do.                                          *)
(*                                                                         *)
(* With that, the access token a request carries is never one that a       *)
(* refresh has replaced: both tokens of a client are of the pair it holds. *)
(***************************************************************************)

\* Nobody restores the saved session any more.
StartupIsOver == Boot \cup Page = {} \/ Starts \subseteq {"signedin", "guest"}

NothingLoads == \A t \in Threads : /\ pc[t] \notin {"load", "reseal", "show"}
                                   /\ op[t] \in {"none", "call", "login", "logout"}

\* The goroutines with a pair that is in no client yet.
InHand == {t \in Threads : pc[t] \in {"install", "store"}}

Bounded == /\ \A n \in spent : n <= minted
           /\ client <= nclient
           /\ \A o \in 1..MaxClient : /\ refresh[o] <= minted
                                      /\ (refresh[o] = 0) <=> (o > nclient)
           /\ \A t \in InHand : hand[t] # 0 /\ hand[t] <= minted /\ hand[t] \notin spent

OnePlace == /\ \A o1, o2 \in 1..nclient : o1 # o2 => refresh[o1] # refresh[o2]
            /\ \A t1, t2 \in InHand : t1 # t2 => hand[t1] # hand[t2]
            /\ \A t \in InHand, o \in 1..nclient : hand[t] # refresh[o]

\* A client's refresh token is used up only until the new pair is stored in it.
Usable == \A o \in 1..nclient :
            refresh[o] \in spent => o = client /\ \E t \in Threads : mu = t /\ pc[t] = "store"

Exchanging == \A t \in Threads : pc[t] = "exchange" => access[client].pair = refresh[client]

FreshInv == NothingLoads /\ Bounded /\ OnePlace /\ Usable /\ Exchanging

-----------------------------------------------------------------------------
\* The strengthened invariant gives the property.
LEMMA FreshImplies == IInv /\ FreshInv => NoReplayedRefresh
<1> SUFFICES ASSUME IInv, FreshInv, NEW t \in Threads, pc[t] = "exchange", refresh[client] \in spent
             PROVE  FALSE
  BY DEF NoReplayedRefresh
<1>1. mu = t /\ client # 0
  BY DEF IInv, LockInv, HoldPcs, TypeOK
<1>2. client \in 1..nclient
  BY <1>1 DEF IInv, TypeOK, FreshInv, Bounded, Clients
<1> QED
  BY <1>1, <1>2 DEF FreshInv, Usable

\* What a return leaves in hand: nothing.
LEMMA ReturnHand ==
    ASSUME NEW t \in Threads, NEW ok \in BOOLEAN, Return(t, ok)
    PROVE  hand' = [hand EXCEPT ![t] = 0]
BY DEF Return, Leave

\* Pairs stay where they are when nobody gets one in hand.
LEMMA FewerHands ==
    ASSUME Bounded, OnePlace, UNCHANGED <<client, refresh, nclient, minted, spent>>,
           InHand' \subseteq InHand, \A t \in InHand' : hand'[t] = hand[t]
    PROVE  Bounded' /\ OnePlace'
BY DEF Bounded, OnePlace

\* A goroutine that moves to a place where it has no pair in hand adds to no hand.
LEMMA MoveOn ==
    ASSUME TypeOK, NEW t \in Threads, NEW l \in Pcs \ {"install", "store"},
           pc' = [pc EXCEPT ![t] = l],
           \A w \in Threads \ {t} : hand'[w] = hand[w]
    PROVE  InHand' \subseteq InHand /\ \A w \in InHand' : hand'[w] = hand[w]
BY DEF TypeOK, LocalOK, InHand

\* Steps that only move a goroutine on, and drop what it had in hand.
LEMMA PassiveSteps ==
    ASSUME IInv, NEW t \in Threads,
           GetClient(t) \/ Answer(t) \/ Observe(t) \/ WaitTimeout(t) \/ AcquireMu(t) \/ CloseDone(t)
    PROVE  /\ InHand' \subseteq InHand /\ \A w \in InHand' : hand'[w] = hand[w]
           /\ UNCHANGED <<session, server>>
<1> USE DEF session, server, locks, request, data, waiting
<1>1. \E l \in {"idle", "done", "drop", "load", "send", "refresh", "clear", "swap"} : pc' = [pc EXCEPT ![t] = l]
  BY ReturnPc DEF GetClient, Answer, Observe, WaitTimeout, AcquireMu, CloseDone, Retry, Goto
<1>2. hand' = hand \/ hand' = [hand EXCEPT ![t] = 0]
  BY ReturnHand DEF GetClient, Answer, Observe, WaitTimeout, AcquireMu, CloseDone, Retry
<1>3. \A w \in Threads \ {t} : hand'[w] = hand[w]
  BY <1>2 DEF IInv, TypeOK, LocalOK
<1>4. UNCHANGED <<session, server>>
  BY DEF GetClient, Answer, Observe, WaitTimeout, AcquireMu, CloseDone, LeaveWait
<1> QED
  BY <1>1, <1>3, <1>4, MoveOn, Values, RestingPcs DEF IInv

\* Once startup is over, no goroutine reads the saved row again.
LEMMA StepNothingLoads == TypeOK /\ NothingLoads /\ [Next]_vars => NothingLoads'
<1> SUFFICES ASSUME TypeOK, NothingLoads, [Next]_vars PROVE NothingLoads'
  OBVIOUS
<1> USE DEF NothingLoads, TypeOK, LocalOK, Goto, session, locks, request, data, waiting, server
<1>1. ASSUME NEW t \in Threads, BeginCall(t) PROVE NothingLoads'
  BY <1>1 DEF BeginCall, Begin
<1>2. ASSUME NEW t \in Threads, BeginLogin(t) PROVE NothingLoads'
  BY <1>2 DEF BeginLogin, Begin
<1>3. ASSUME NEW t \in Threads, BeginLogout(t) PROVE NothingLoads'
  BY <1>3 DEF BeginLogout, Begin
<1>4. ASSUME NEW t \in Threads, LoadSession(t) PROVE NothingLoads'
  BY <1>4 DEF LoadSession, AfterLoad, Leave
<1>5. ASSUME NEW t \in Threads, Reseal(t) PROVE NothingLoads'
  BY <1>5 DEF Reseal, AfterLoad
<1>6. ASSUME NEW t \in Threads, Show(t) PROVE NothingLoads'
  BY <1>6 DEF Show, Leave
<1>7. ASSUME NEW t \in Threads, Install(t) PROVE NothingLoads'
  BY <1>7 DEF Install
<1>8. ASSUME NEW t \in Threads, GetClient(t) PROVE NothingLoads'
  BY <1>8 DEF GetClient, Return, Leave
<1>9. ASSUME NEW t \in Threads, Send(t) PROVE NothingLoads'
  BY <1>9 DEF Send
<1>10. ASSUME NEW t \in Threads, Answer(t) PROVE NothingLoads'
  BY <1>10 DEF Answer, Return, Leave
<1>11. ASSUME NEW t \in Threads, Lead(t) PROVE NothingLoads'
  BY <1>11 DEF Lead
<1>12. ASSUME NEW t \in Threads, Join(t) PROVE NothingLoads'
  BY <1>12 DEF Join
<1>13. ASSUME NEW t \in Threads, Observe(t) PROVE NothingLoads'
  BY <1>13 DEF Observe, LeaveWait, Return, Leave, Retry
<1>14. ASSUME NEW t \in Threads, WaitTimeout(t) PROVE NothingLoads'
  BY <1>14 DEF WaitTimeout, LeaveWait, Return, Leave
<1>15. ASSUME NEW t \in Threads, AcquireMu(t) PROVE NothingLoads'
  BY <1>15 DEF AcquireMu
<1>16. ASSUME NEW t \in Threads, SwapIn(t) PROVE NothingLoads'
  BY <1>16 DEF SwapIn
<1>17. ASSUME NEW t \in Threads, Exchange(t) PROVE NothingLoads'
  BY <1>17 DEF Exchange
<1>18. ASSUME NEW t \in Threads, StoreTokens(t) PROVE NothingLoads'
  BY <1>18 DEF StoreTokens, Store
<1>19. ASSUME NEW t \in Threads, SaveRefreshed(t) PROVE NothingLoads'
  BY <1>19 DEF SaveRefreshed, DoRefreshReturns
<1>20. ASSUME NEW t \in Threads, RestoreAccess(t) PROVE NothingLoads'
  BY <1>20 DEF RestoreAccess, DoRefreshReturns
<1>21. ASSUME NEW t \in Threads, ClearInflight(t) PROVE NothingLoads'
  BY <1>21 DEF ClearInflight
<1>22. ASSUME NEW t \in Threads, CloseDone(t) PROVE NothingLoads'
  BY <1>22 DEF CloseDone, Return, Leave, Retry
<1>23. ASSUME NEW t \in Threads, CreateSession(t) PROVE NothingLoads'
  BY <1>23 DEF CreateSession, Leave
<1>24. ASSUME NEW t \in Threads, PersistLogin(t) PROVE NothingLoads'
  BY <1>24 DEF PersistLogin, Leave
<1>25. ASSUME NEW t \in Threads, DropClient(t) PROVE NothingLoads'
  BY <1>25 DEF DropClient
<1>26. ASSUME NEW t \in Threads, EraseRow(t) PROVE NothingLoads'
  BY <1>26 DEF EraseRow, Leave
<1>27. ASSUME NEW n \in 1..MaxPair, Expire(n) PROVE NothingLoads'
  BY <1>27 DEF Expire
<1>28. CASE UNCHANGED vars
  BY <1>28 DEF vars
<1> QED
  BY <1>1, <1>2, <1>3, <1>4, <1>5, <1>6, <1>7, <1>8, <1>9, <1>10, <1>11, <1>12, <1>13, <1>14, <1>15, <1>16, <1>17, <1>18, <1>19, <1>20, <1>21, <1>22, <1>23, <1>24, <1>25, <1>26, <1>27, <1>28 DEF Next, BeginAny, Network, Compute

\* Every pair in use was minted.
LEMMA StepBounded == "lost" \notin Env /\ IInv /\ FreshInv /\ [Next]_vars => Bounded'
<1> SUFFICES ASSUME "lost" \notin Env, IInv, FreshInv, [Next]_vars PROVE Bounded'
  OBVIOUS
<1> USE DEF IInv, LockInv, HoldPcs, FreshInv, Bounded, InHand, NothingLoads, Pairs, Clients, TypeOK, LocalOK, Goto, session, locks, request, data, waiting, server
<1>1. ASSUME NEW t \in Threads, BeginCall(t) PROVE Bounded'
  BY <1>1 DEF BeginCall, Begin
<1>2. ASSUME NEW t \in Threads, BeginLogin(t) PROVE Bounded'
  BY <1>2 DEF BeginLogin, Begin
<1>3. ASSUME NEW t \in Threads, BeginLogout(t) PROVE Bounded'
  BY <1>3 DEF BeginLogout, Begin
<1>4. ASSUME NEW t \in Threads, LoadSession(t) PROVE Bounded'
  BY <1>4 DEF LoadSession, AfterLoad, Leave
<1>5. ASSUME NEW t \in Threads, Reseal(t) PROVE Bounded'
  BY <1>5 DEF Reseal, AfterLoad
<1>6. ASSUME NEW t \in Threads, Show(t) PROVE Bounded'
  BY <1>6 DEF Show, Leave
<1>7. ASSUME NEW t \in Threads, Install(t) PROVE Bounded'
  BY <1>7 DEF Install
<1>8. ASSUME NEW t \in Threads, GetClient(t) PROVE Bounded'
  BY <1>8 DEF GetClient, Return, Leave
<1>9. ASSUME NEW t \in Threads, Send(t) PROVE Bounded'
  BY <1>9 DEF Send
<1>10. ASSUME NEW t \in Threads, Answer(t) PROVE Bounded'
  BY <1>10 DEF Answer, Return, Leave
<1>11. ASSUME NEW t \in Threads, Lead(t) PROVE Bounded'
  BY <1>11 DEF Lead
<1>12. ASSUME NEW t \in Threads, Join(t) PROVE Bounded'
  BY <1>12 DEF Join
<1>13. ASSUME NEW t \in Threads, Observe(t) PROVE Bounded'
  BY <1>13 DEF Observe, LeaveWait, Return, Leave, Retry
<1>14. ASSUME NEW t \in Threads, WaitTimeout(t) PROVE Bounded'
  <2> HIDE DEF IInv, InHand, Bounded
  <2>1. UNCHANGED <<client, refresh, nclient, minted, spent>>
    BY <1>14, PassiveSteps DEF session, server
  <2> QED
    BY <1>14, <2>1, PassiveSteps, FewerHands DEF FreshInv
<1>15. ASSUME NEW t \in Threads, AcquireMu(t) PROVE Bounded'
  BY <1>15 DEF AcquireMu
<1>16. ASSUME NEW t \in Threads, SwapIn(t) PROVE Bounded'
  BY <1>16 DEF SwapIn
<1>17. ASSUME NEW t \in Threads, Exchange(t) PROVE Bounded'
  <2>1. CASE Rotate(access[client].pair) /\ pc' = [pc EXCEPT ![t] = "store"] /\ hand' = [hand EXCEPT ![t] = minted + 1]
    <3>1. access[client].pair <= minted /\ minted' = minted + 1
      BY <1>17, <2>1 DEF Exchange, Rotate, Mint, Exchanging
    <3>2. spent' = spent \cup {access[client].pair} /\ UNCHANGED <<client, refresh, nclient>>
      BY <1>17, <2>1 DEF Exchange, Rotate
    <3>3. InHand' = InHand \cup {t} /\ hand'[t] = minted + 1 /\ \A w \in Threads \ {t} : hand'[w] = hand[w]
      BY <2>1
    <3>4. \A w \in InHand \ {t} : hand[w] # access[client].pair
      <4>1. client \in 1..nclient /\ access[client].pair = refresh[client]
        BY <1>17, Values DEF Exchange, Exchanging
      <4> QED
        BY <4>1 DEF OnePlace
    <3>5. \A w \in InHand' : hand'[w] # 0 /\ hand'[w] <= minted' /\ hand'[w] \notin spent'
      <4>1. hand'[t] # 0 /\ hand'[t] <= minted' /\ hand'[t] \notin spent'
        BY <3>1, <3>2, <3>3
      <4>2. ASSUME NEW w \in InHand, w # t
            PROVE  hand'[w] # 0 /\ hand'[w] <= minted' /\ hand'[w] \notin spent'
        BY <3>1, <3>2, <3>3, <3>4, <4>2
      <4> QED
        BY <3>3, <4>1, <4>2
    <3> QED
      BY <3>1, <3>2, <3>5
  <2>2. CASE pc' = [pc EXCEPT ![t] = "restore"] /\ UNCHANGED <<hand, server>>
    BY <1>17, <2>2 DEF Exchange
  <2> QED
    BY <1>17, <2>1, <2>2 DEF Exchange
<1>18. ASSUME NEW t \in Threads, StoreTokens(t) PROVE Bounded'
  BY <1>18 DEF StoreTokens, Store
<1>19. ASSUME NEW t \in Threads, SaveRefreshed(t) PROVE Bounded'
  BY <1>19 DEF SaveRefreshed, DoRefreshReturns
<1>20. ASSUME NEW t \in Threads, RestoreAccess(t) PROVE Bounded'
  BY <1>20 DEF RestoreAccess, DoRefreshReturns
<1>21. ASSUME NEW t \in Threads, ClearInflight(t) PROVE Bounded'
  BY <1>21 DEF ClearInflight
<1>22. ASSUME NEW t \in Threads, CloseDone(t) PROVE Bounded'
  BY <1>22 DEF CloseDone, Return, Leave, Retry
<1>23. ASSUME NEW t \in Threads, CreateSession(t) PROVE Bounded'
  <2>1. CASE Mint /\ hand' = [hand EXCEPT ![t] = minted + 1] /\ pc' = [pc EXCEPT ![t] = "install"] /\ UNCHANGED spent
    <3>1. minted' = minted + 1 /\ UNCHANGED <<client, refresh, nclient>>
      BY <1>23, <2>1 DEF CreateSession, Mint
    <3>2. \A w \in InHand' : w # t => w \in InHand /\ hand'[w] = hand[w]
      BY <2>1
    <3>3. hand'[t] = minted + 1 /\ minted + 1 \notin spent
      BY <2>1
    <3>4. \A w \in InHand' : hand'[w] # 0 /\ hand'[w] <= minted' /\ hand'[w] \notin spent'
      BY <2>1, <3>1, <3>2, <3>3
    <3> QED
      BY <2>1, <3>1, <3>4
  <2>2. CASE Leave(t, "idle", "none") /\ UNCHANGED server
    BY <1>23, <2>2 DEF CreateSession, Leave
  <2> QED
    BY <1>23, <2>1, <2>2 DEF CreateSession
<1>24. ASSUME NEW t \in Threads, PersistLogin(t) PROVE Bounded'
  BY <1>24 DEF PersistLogin, Leave
<1>25. ASSUME NEW t \in Threads, DropClient(t) PROVE Bounded'
  BY <1>25 DEF DropClient
<1>26. ASSUME NEW t \in Threads, EraseRow(t) PROVE Bounded'
  BY <1>26 DEF EraseRow, Leave
<1>27. ASSUME NEW n \in 1..MaxPair, Expire(n) PROVE Bounded'
  BY <1>27 DEF Expire
<1>28. CASE UNCHANGED vars
  BY <1>28 DEF vars
<1> QED
  BY <1>1, <1>2, <1>3, <1>4, <1>5, <1>6, <1>7, <1>8, <1>9, <1>10, <1>11, <1>12, <1>13, <1>14, <1>15, <1>16, <1>17, <1>18, <1>19, <1>20, <1>21, <1>22, <1>23, <1>24, <1>25, <1>26, <1>27, <1>28 DEF Next, BeginAny, Network, Compute

\* A pair is held in one place at a time.
LEMMA StepOnePlace == "lost" \notin Env /\ IInv /\ FreshInv /\ [Next]_vars => OnePlace'
<1> SUFFICES ASSUME "lost" \notin Env, IInv, FreshInv, [Next]_vars PROVE OnePlace'
  OBVIOUS
<1> USE DEF IInv, LockInv, HoldPcs, FreshInv, Bounded, InHand, NothingLoads, Pairs, Clients, TypeOK, LocalOK, Goto, session, locks, request, data, waiting, server, OnePlace
<1>1. ASSUME NEW t \in Threads, BeginCall(t) PROVE OnePlace'
  BY <1>1 DEF BeginCall, Begin
<1>2. ASSUME NEW t \in Threads, BeginLogin(t) PROVE OnePlace'
  BY <1>2 DEF BeginLogin, Begin
<1>3. ASSUME NEW t \in Threads, BeginLogout(t) PROVE OnePlace'
  BY <1>3 DEF BeginLogout, Begin
<1>4. ASSUME NEW t \in Threads, LoadSession(t) PROVE OnePlace'
  BY <1>4 DEF LoadSession, AfterLoad, Leave
<1>5. ASSUME NEW t \in Threads, Reseal(t) PROVE OnePlace'
  BY <1>5 DEF Reseal, AfterLoad
<1>6. ASSUME NEW t \in Threads, Show(t) PROVE OnePlace'
  BY <1>6 DEF Show, Leave
<1>7. ASSUME NEW t \in Threads, Install(t) PROVE OnePlace'
  BY <1>7 DEF Install
<1>8. ASSUME NEW t \in Threads, GetClient(t) PROVE OnePlace'
  <2> HIDE DEF IInv, InHand, Bounded, OnePlace
  <2>1. UNCHANGED <<client, refresh, nclient, minted, spent>>
    BY <1>8, PassiveSteps DEF session, server
  <2> QED
    BY <1>8, <2>1, PassiveSteps, FewerHands DEF FreshInv
<1>9. ASSUME NEW t \in Threads, Send(t) PROVE OnePlace'
  BY <1>9 DEF Send
<1>10. ASSUME NEW t \in Threads, Answer(t) PROVE OnePlace'
  <2> HIDE DEF IInv, InHand, Bounded, OnePlace
  <2>1. UNCHANGED <<client, refresh, nclient, minted, spent>>
    BY <1>10, PassiveSteps DEF session, server
  <2> QED
    BY <1>10, <2>1, PassiveSteps, FewerHands DEF FreshInv
<1>11. ASSUME NEW t \in Threads, Lead(t) PROVE OnePlace'
  BY <1>11 DEF Lead
<1>12. ASSUME NEW t \in Threads, Join(t) PROVE OnePlace'
  BY <1>12 DEF Join
<1>13. ASSUME NEW t \in Threads, Observe(t) PROVE OnePlace'
  <2> HIDE DEF IInv, InHand, Bounded, OnePlace
  <2>1. UNCHANGED <<client, refresh, nclient, minted, spent>>
    BY <1>13, PassiveSteps DEF session, server
  <2> QED
    BY <1>13, <2>1, PassiveSteps, FewerHands DEF FreshInv
<1>14. ASSUME NEW t \in Threads, WaitTimeout(t) PROVE OnePlace'
  <2> HIDE DEF IInv, InHand, Bounded, OnePlace
  <2>1. UNCHANGED <<client, refresh, nclient, minted, spent>>
    BY <1>14, PassiveSteps DEF session, server
  <2> QED
    BY <1>14, <2>1, PassiveSteps, FewerHands DEF FreshInv
<1>15. ASSUME NEW t \in Threads, AcquireMu(t) PROVE OnePlace'
  <2> HIDE DEF IInv, InHand, Bounded, OnePlace
  <2>1. UNCHANGED <<client, refresh, nclient, minted, spent>>
    BY <1>15, PassiveSteps DEF session, server
  <2> QED
    BY <1>15, <2>1, PassiveSteps, FewerHands DEF FreshInv
<1>16. ASSUME NEW t \in Threads, SwapIn(t) PROVE OnePlace'
  BY <1>16 DEF SwapIn
<1>17. ASSUME NEW t \in Threads, Exchange(t) PROVE OnePlace'
  <2>1. CASE Mint /\ pc' = [pc EXCEPT ![t] = "store"] /\ hand' = [hand EXCEPT ![t] = minted + 1]
    <3>1. InHand' = InHand \cup {t} /\ hand'[t] = minted + 1 /\ \A w \in Threads \ {t} : hand'[w] = hand[w]
      BY <2>1
    <3>2. UNCHANGED <<client, refresh, nclient>>
      BY <1>17 DEF Exchange
    <3> QED
      BY <2>1, <3>1, <3>2
  <2>2. CASE pc' = [pc EXCEPT ![t] = "restore"] /\ UNCHANGED <<hand, server>>
    BY <1>17, <2>2 DEF Exchange
  <2> QED
    BY <1>17, <2>1, <2>2 DEF Exchange, Rotate
<1>18. ASSUME NEW t \in Threads, StoreTokens(t) PROVE OnePlace'
  BY <1>18 DEF StoreTokens, Store
<1>19. ASSUME NEW t \in Threads, SaveRefreshed(t) PROVE OnePlace'
  BY <1>19 DEF SaveRefreshed, DoRefreshReturns
<1>20. ASSUME NEW t \in Threads, RestoreAccess(t) PROVE OnePlace'
  BY <1>20 DEF RestoreAccess, DoRefreshReturns
<1>21. ASSUME NEW t \in Threads, ClearInflight(t) PROVE OnePlace'
  BY <1>21 DEF ClearInflight
<1>22. ASSUME NEW t \in Threads, CloseDone(t) PROVE OnePlace'
  <2> HIDE DEF IInv, InHand, Bounded, OnePlace
  <2>1. UNCHANGED <<client, refresh, nclient, minted, spent>>
    BY <1>22, PassiveSteps DEF session, server
  <2> QED
    BY <1>22, <2>1, PassiveSteps, FewerHands DEF FreshInv
<1>23. ASSUME NEW t \in Threads, CreateSession(t) PROVE OnePlace'
  <2>1. CASE Mint /\ hand' = [hand EXCEPT ![t] = minted + 1] /\ pc' = [pc EXCEPT ![t] = "install"]
    <3>1. InHand' = InHand \cup {t} /\ hand'[t] = minted + 1 /\ \A w \in Threads \ {t} : hand'[w] = hand[w]
      BY <2>1
    <3>2. UNCHANGED <<client, refresh, nclient>>
      BY <1>23 DEF CreateSession
    <3> QED
      BY <2>1, <3>1, <3>2
  <2>2. CASE Leave(t, "idle", "none") /\ UNCHANGED server
    BY <1>23, <2>2 DEF CreateSession, Leave
  <2> QED
    BY <1>23, <2>1, <2>2 DEF CreateSession
<1>24. ASSUME NEW t \in Threads, PersistLogin(t) PROVE OnePlace'
  BY <1>24 DEF PersistLogin, Leave
<1>25. ASSUME NEW t \in Threads, DropClient(t) PROVE OnePlace'
  BY <1>25 DEF DropClient
<1>26. ASSUME NEW t \in Threads, EraseRow(t) PROVE OnePlace'
  BY <1>26 DEF EraseRow, Leave
<1>27. ASSUME NEW n \in 1..MaxPair, Expire(n) PROVE OnePlace'
  BY <1>27 DEF Expire
<1>28. CASE UNCHANGED vars
  BY <1>28 DEF vars
<1> QED
  BY <1>1, <1>2, <1>3, <1>4, <1>5, <1>6, <1>7, <1>8, <1>9, <1>10, <1>11, <1>12, <1>13, <1>14, <1>15, <1>16, <1>17, <1>18, <1>19, <1>20, <1>21, <1>22, <1>23, <1>24, <1>25, <1>26, <1>27, <1>28 DEF Next, BeginAny, Network, Compute

\* The refresh token of the current client is unused unless its successor is on the way.
LEMMA StepUsable == "lost" \notin Env /\ IInv /\ FreshInv /\ [Next]_vars => Usable'
<1> SUFFICES ASSUME "lost" \notin Env, IInv, FreshInv, [Next]_vars PROVE Usable'
  OBVIOUS
<1> USE DEF IInv, LockInv, HoldPcs, FreshInv, Bounded, InHand, NothingLoads, Pairs, Clients, TypeOK, LocalOK, Goto, session, locks, request, data, waiting, server, OnePlace, Usable
<1>1. ASSUME NEW t \in Threads, BeginCall(t) PROVE Usable'
  BY <1>1 DEF BeginCall, Begin
<1>2. ASSUME NEW t \in Threads, BeginLogin(t) PROVE Usable'
  BY <1>2 DEF BeginLogin, Begin
<1>3. ASSUME NEW t \in Threads, BeginLogout(t) PROVE Usable'
  BY <1>3 DEF BeginLogout, Begin
<1>4. ASSUME NEW t \in Threads, LoadSession(t) PROVE Usable'
  BY <1>4 DEF LoadSession, AfterLoad, Leave
<1>5. ASSUME NEW t \in Threads, Reseal(t) PROVE Usable'
  BY <1>5 DEF Reseal, AfterLoad
<1>6. ASSUME NEW t \in Threads, Show(t) PROVE Usable'
  BY <1>6 DEF Show, Leave
<1>7. ASSUME NEW t \in Threads, Install(t) PROVE Usable'
  BY <1>7 DEF Install
<1>8. ASSUME NEW t \in Threads, GetClient(t) PROVE Usable'
  BY <1>8 DEF GetClient, Return, Leave
<1>9. ASSUME NEW t \in Threads, Send(t) PROVE Usable'
  BY <1>9 DEF Send
<1>10. ASSUME NEW t \in Threads, Answer(t) PROVE Usable'
  BY <1>10 DEF Answer, Return, Leave
<1>11. ASSUME NEW t \in Threads, Lead(t) PROVE Usable'
  BY <1>11 DEF Lead
<1>12. ASSUME NEW t \in Threads, Join(t) PROVE Usable'
  BY <1>12 DEF Join
<1>13. ASSUME NEW t \in Threads, Observe(t) PROVE Usable'
  BY <1>13 DEF Observe, LeaveWait, Return, Leave, Retry
<1>14. ASSUME NEW t \in Threads, WaitTimeout(t) PROVE Usable'
  BY <1>14 DEF WaitTimeout, LeaveWait, Return, Leave
<1>15. ASSUME NEW t \in Threads, AcquireMu(t) PROVE Usable'
  BY <1>15 DEF AcquireMu
<1>16. ASSUME NEW t \in Threads, SwapIn(t) PROVE Usable'
  BY <1>16 DEF SwapIn
<1>17. ASSUME NEW t \in Threads, Exchange(t) PROVE Usable'
  <2>1. mu = t /\ client \in 1..nclient /\ access[client].pair = refresh[client]
    BY <1>17, Values DEF Exchange, Exchanging
  <2>2. \A w \in Threads : pc[w] # "store"
    BY <1>17, <2>1 DEF Exchange
  <2>3. UNCHANGED <<client, refresh, nclient, mu>>
    BY <1>17 DEF Exchange
  <2>4. CASE spent' = spent \cup {refresh[client]} /\ pc' = [pc EXCEPT ![t] = "store"]
    <3>1. \A o \in 1..nclient : refresh[o] \in spent' => o = client
      BY <2>1, <2>2, <2>4
    <3> QED
      BY <2>1, <2>3, <2>4, <3>1
  <2>5. CASE spent' = spent
    BY <2>2, <2>3, <2>5
  <2> QED
    BY <1>17, <2>1, <2>4, <2>5 DEF Exchange, Rotate
<1>18. ASSUME NEW t \in Threads, StoreTokens(t) PROVE Usable'
  BY <1>18 DEF StoreTokens, Store
<1>19. ASSUME NEW t \in Threads, SaveRefreshed(t) PROVE Usable'
  BY <1>19 DEF SaveRefreshed, DoRefreshReturns
<1>20. ASSUME NEW t \in Threads, RestoreAccess(t) PROVE Usable'
  BY <1>20 DEF RestoreAccess, DoRefreshReturns
<1>21. ASSUME NEW t \in Threads, ClearInflight(t) PROVE Usable'
  BY <1>21 DEF ClearInflight
<1>22. ASSUME NEW t \in Threads, CloseDone(t) PROVE Usable'
  BY <1>22 DEF CloseDone, Return, Leave, Retry
<1>23. ASSUME NEW t \in Threads, CreateSession(t) PROVE Usable'
  BY <1>23 DEF CreateSession, Leave
<1>24. ASSUME NEW t \in Threads, PersistLogin(t) PROVE Usable'
  BY <1>24 DEF PersistLogin, Leave
<1>25. ASSUME NEW t \in Threads, DropClient(t) PROVE Usable'
  BY <1>25 DEF DropClient
<1>26. ASSUME NEW t \in Threads, EraseRow(t) PROVE Usable'
  BY <1>26 DEF EraseRow, Leave
<1>27. ASSUME NEW n \in 1..MaxPair, Expire(n) PROVE Usable'
  BY <1>27 DEF Expire
<1>28. CASE UNCHANGED vars
  BY <1>28 DEF vars
<1> QED
  BY <1>1, <1>2, <1>3, <1>4, <1>5, <1>6, <1>7, <1>8, <1>9, <1>10, <1>11, <1>12, <1>13, <1>14, <1>15, <1>16, <1>17, <1>18, <1>19, <1>20, <1>21, <1>22, <1>23, <1>24, <1>25, <1>26, <1>27, <1>28 DEF Next, BeginAny, Network, Compute

\* During an exchange the access slot carries the refresh token of that client.
LEMMA StepExchanging == IInv /\ FreshInv /\ [Next]_vars => Exchanging'
<1> SUFFICES ASSUME IInv, FreshInv, [Next]_vars PROVE Exchanging'
  OBVIOUS
<1> USE DEF IInv, LockInv, HoldPcs, FreshInv, Exchanging, Refresh, TypeOK, LocalOK, Goto, session, locks, request, data, waiting, server
<1>1. ASSUME NEW t \in Threads, BeginCall(t) PROVE Exchanging'
  BY <1>1 DEF BeginCall, Begin
<1>2. ASSUME NEW t \in Threads, BeginLogin(t) PROVE Exchanging'
  BY <1>2 DEF BeginLogin, Begin
<1>3. ASSUME NEW t \in Threads, BeginLogout(t) PROVE Exchanging'
  BY <1>3 DEF BeginLogout, Begin
<1>4. ASSUME NEW t \in Threads, LoadSession(t) PROVE Exchanging'
  BY <1>4 DEF LoadSession, AfterLoad, Leave
<1>5. ASSUME NEW t \in Threads, Reseal(t) PROVE Exchanging'
  BY <1>5 DEF Reseal, AfterLoad
<1>6. ASSUME NEW t \in Threads, Show(t) PROVE Exchanging'
  BY <1>6 DEF Show, Leave
<1>7. ASSUME NEW t \in Threads, Install(t) PROVE Exchanging'
  BY <1>7 DEF Install
<1>8. ASSUME NEW t \in Threads, GetClient(t) PROVE Exchanging'
  BY <1>8 DEF GetClient, Return, Leave
<1>9. ASSUME NEW t \in Threads, Send(t) PROVE Exchanging'
  BY <1>9 DEF Send
<1>10. ASSUME NEW t \in Threads, Answer(t) PROVE Exchanging'
  BY <1>10 DEF Answer, Return, Leave
<1>11. ASSUME NEW t \in Threads, Lead(t) PROVE Exchanging'
  BY <1>11 DEF Lead
<1>12. ASSUME NEW t \in Threads, Join(t) PROVE Exchanging'
  BY <1>12 DEF Join
<1>13. ASSUME NEW t \in Threads, Observe(t) PROVE Exchanging'
  BY <1>13 DEF Observe, LeaveWait, Return, Leave, Retry
<1>14. ASSUME NEW t \in Threads, WaitTimeout(t) PROVE Exchanging'
  BY <1>14 DEF WaitTimeout, LeaveWait, Return, Leave
<1>15. ASSUME NEW t \in Threads, AcquireMu(t) PROVE Exchanging'
  BY <1>15 DEF AcquireMu
<1>16. ASSUME NEW t \in Threads, SwapIn(t) PROVE Exchanging'
  <2>1. mu = t /\ client \in 1..MaxClient
    BY <1>16, Values DEF SwapIn
  <2>2. access'[client].pair = refresh[client] /\ UNCHANGED <<client, refresh>>
    BY <1>16, <2>1 DEF SwapIn
  <2>3. \A w \in Threads : pc'[w] = "exchange" => w = t
    BY <1>16, <2>1 DEF SwapIn
  <2> QED
    BY <2>2
<1>17. ASSUME NEW t \in Threads, Exchange(t) PROVE Exchanging'
  BY <1>17 DEF Exchange
<1>18. ASSUME NEW t \in Threads, StoreTokens(t) PROVE Exchanging'
  BY <1>18 DEF StoreTokens, Store
<1>19. ASSUME NEW t \in Threads, SaveRefreshed(t) PROVE Exchanging'
  BY <1>19 DEF SaveRefreshed, DoRefreshReturns
<1>20. ASSUME NEW t \in Threads, RestoreAccess(t) PROVE Exchanging'
  BY <1>20 DEF RestoreAccess, DoRefreshReturns
<1>21. ASSUME NEW t \in Threads, ClearInflight(t) PROVE Exchanging'
  BY <1>21 DEF ClearInflight
<1>22. ASSUME NEW t \in Threads, CloseDone(t) PROVE Exchanging'
  BY <1>22 DEF CloseDone, Return, Leave, Retry
<1>23. ASSUME NEW t \in Threads, CreateSession(t) PROVE Exchanging'
  BY <1>23 DEF CreateSession, Leave
<1>24. ASSUME NEW t \in Threads, PersistLogin(t) PROVE Exchanging'
  BY <1>24 DEF PersistLogin, Leave
<1>25. ASSUME NEW t \in Threads, DropClient(t) PROVE Exchanging'
  BY <1>25 DEF DropClient
<1>26. ASSUME NEW t \in Threads, EraseRow(t) PROVE Exchanging'
  BY <1>26 DEF EraseRow, Leave
<1>27. ASSUME NEW n \in 1..MaxPair, Expire(n) PROVE Exchanging'
  BY <1>27 DEF Expire
<1>28. CASE UNCHANGED vars
  BY <1>28 DEF vars
<1> QED
  BY <1>1, <1>2, <1>3, <1>4, <1>5, <1>6, <1>7, <1>8, <1>9, <1>10, <1>11, <1>12, <1>13, <1>14, <1>15, <1>16, <1>17, <1>18, <1>19, <1>20, <1>21, <1>22, <1>23, <1>24, <1>25, <1>26, <1>27, <1>28 DEF Next, BeginAny, Network, Compute

\* The strengthened invariant holds initially.
LEMMA InitFresh == StartupIsOver /\ Init => FreshInv
<1> SUFFICES ASSUME StartupIsOver, Init PROVE FreshInv
  OBVIOUS
<1>1. TypeOK
  BY InitTypeOK
<1>2. NothingLoads
  BY EnvAssumption DEF Init, StartupIsOver, NothingLoads, Running
<1>3. InHand = {}
  BY DEF Init, InHand
<1>4. Bounded
  BY <1>1, <1>3, Values DEF Init, Bounded, Running, StoredPair
<1>5. OnePlace /\ Usable
  BY <1>3 DEF Init, OnePlace, Usable, Running
<1>6. Exchanging
  BY DEF Init, Exchanging
<1> QED
  BY <1>2, <1>4, <1>5, <1>6 DEF FreshInv

\* Every step keeps each usable pair in one place.
LEMMA StepFresh == "lost" \notin Env /\ IInv /\ FreshInv /\ [Next]_vars => FreshInv'
BY StepNothingLoads, StepBounded, StepOnePlace, StepUsable, StepExchanging DEF IInv, FreshInv

\* While a session runs, with every refresh answered, no refresh token is
\* presented twice: not by late 401s, not across logins, not after a failed
\* write of the row.
THEOREM SingleUse ==
    ASSUME "lost" \notin Env, StartupIsOver
    PROVE  Spec => []NoReplayedRefresh
<1>1. Init => IInv /\ FreshInv
  BY InitIInv, InitFresh
<1>2. IInv /\ FreshInv /\ [Next]_vars => IInv' /\ FreshInv'
  BY StepIInv, StepFresh
<1>3. IInv /\ FreshInv => NoReplayedRefresh
  BY FreshImplies
<1> QED
  BY <1>1, <1>2, <1>3, PTL DEF Spec

-----------------------------------------------------------------------------
\* The two tokens of a client are of one pair.  During a swap the access slot and
\* the saved access token are of the pair the refresh token is of.
TokenInv ==
    /\ \A o \in 1..nclient : access[o].kind = "access" => access[o].pair = refresh[o]
    /\ \A t \in Threads :
         /\ pc[t] \in {"exchange", "store", "restore"} => access[client].kind = "refresh"
         /\ pc[t] = "exchange" => access[client].pair = refresh[client]
         /\ pc[t] \in {"exchange", "restore"} => prev[t].pair = refresh[client]

\* They are together initially.
LEMMA InitTokenInv == Init => TokenInv
BY DEF Init, TokenInv, Running, Access, NoJwt

\* Every step keeps the tokens of a client together, whichever call of doRefresh fails.
LEMMA StepTokenInv == IInv /\ TokenInv /\ [Next]_vars => TokenInv'
<1> SUFFICES ASSUME IInv, TokenInv, [Next]_vars PROVE TokenInv'
  OBVIOUS
<1> USE DEF TokenInv, IInv, TypeOK, LocalOK, LockInv, ClientInv, HoldPcs, Clients, Access, Refresh, Goto, session, locks, request, data, waiting, server
<1>1. ASSUME NEW t \in Threads, BeginCall(t) PROVE TokenInv'
  BY <1>1 DEF BeginCall, Begin
<1>2. ASSUME NEW t \in Threads, BeginLogin(t) PROVE TokenInv'
  BY <1>2 DEF BeginLogin, Begin
<1>3. ASSUME NEW t \in Threads, BeginLogout(t) PROVE TokenInv'
  BY <1>3 DEF BeginLogout, Begin
<1>4. ASSUME NEW t \in Threads, LoadSession(t) PROVE TokenInv'
  BY <1>4 DEF LoadSession, AfterLoad, Leave
<1>5. ASSUME NEW t \in Threads, Reseal(t) PROVE TokenInv'
  BY <1>5 DEF Reseal, AfterLoad
<1>6. ASSUME NEW t \in Threads, Show(t) PROVE TokenInv'
  BY <1>6 DEF Show, Leave
<1>7. ASSUME NEW t \in Threads, Install(t) PROVE TokenInv'
  <2>1. /\ client' = nclient + 1 /\ nclient' = nclient + 1 /\ nclient + 1 \in 1..MaxClient
        /\ \A o \in 1..nclient : access'[o] = access[o] /\ refresh'[o] = refresh[o]
        /\ access'[nclient + 1] = Access(hand[t]) /\ refresh'[nclient + 1] = hand[t]
    BY <1>7 DEF Install
  <2>2. \A w \in Threads : pc'[w] \notin {"exchange", "store", "restore"}
    BY <1>7 DEF Install
  <2>3. Access(hand[t]).pair = hand[t] /\ nclient \in Nat
    BY DEF Access
  <2>4. \A o \in 1..nclient' : access'[o].kind = "access" => access'[o].pair = refresh'[o]
    <3> SUFFICES ASSUME NEW o \in 1..(nclient + 1)
                 PROVE  access'[o].kind = "access" => access'[o].pair = refresh'[o]
      BY <2>1
    <3>1. CASE o = nclient + 1
      BY <2>1, <2>3, <3>1
    <3>2. CASE o \in 1..nclient
      BY <2>1, <3>2
    <3> QED
      BY <2>3, <3>1, <3>2
  <2> QED
    BY <2>2, <2>4
<1>8. ASSUME NEW t \in Threads, GetClient(t) PROVE TokenInv'
  BY <1>8 DEF GetClient, Return, Leave
<1>9. ASSUME NEW t \in Threads, Send(t) PROVE TokenInv'
  BY <1>9 DEF Send
<1>10. ASSUME NEW t \in Threads, Answer(t) PROVE TokenInv'
  BY <1>10 DEF Answer, Return, Leave
<1>11. ASSUME NEW t \in Threads, Lead(t) PROVE TokenInv'
  BY <1>11 DEF Lead
<1>12. ASSUME NEW t \in Threads, Join(t) PROVE TokenInv'
  BY <1>12 DEF Join
<1>13. ASSUME NEW t \in Threads, Observe(t) PROVE TokenInv'
  BY <1>13 DEF Observe, LeaveWait, Return, Leave, Retry
<1>14. ASSUME NEW t \in Threads, WaitTimeout(t) PROVE TokenInv'
  BY <1>14 DEF WaitTimeout, LeaveWait, Return, Leave
<1>15. ASSUME NEW t \in Threads, AcquireMu(t) PROVE TokenInv'
  BY <1>15 DEF AcquireMu
<1>16. ASSUME NEW t \in Threads, SwapIn(t) PROVE TokenInv'
  <2>1. mu = t /\ client \in 1..nclient
    BY <1>16, Values DEF SwapIn
  <2>2. /\ access'[client] = Refresh(refresh[client]) /\ prev'[t] = access[client]
        /\ \A o \in 1..nclient \ {client} : access'[o] = access[o]
        /\ UNCHANGED <<client, refresh, nclient>>
    BY <1>16, <2>1 DEF SwapIn
  <2>3. \A w \in Threads : pc'[w] \in {"exchange", "store", "restore"} => w = t
    BY <1>16, <2>1 DEF SwapIn
  <2>4. access[client].pair = refresh[client]
    <3>1. ~\E w \in Threads : mu = w /\ pc[w] \in {"exchange", "store", "restore"}
      BY <1>16, <2>1 DEF SwapIn
    <3>f. client \in 1..MaxClient /\ SwapConfined
      BY <2>1 DEF SwapInv
    <3>2. access[client].kind = "access"
      <4> HIDE DEF IInv, TokenInv, TypeOK
      <4> QED
        BY <3>1, <3>f DEF SwapConfined
    <3> QED
      BY <2>1, <3>2
  <2>5. Refresh(refresh[client]).kind = "refresh" /\ Refresh(refresh[client]).pair = refresh[client]
    BY DEF Refresh
  <2>6. \A o \in 1..nclient' : access'[o].kind = "access" => access'[o].pair = refresh'[o]
    BY <2>1, <2>2, <2>5
  <2>7. access'[client'].kind = "refresh" /\ access'[client'].pair = refresh'[client'] /\ prev'[t].pair = refresh'[client']
    BY <2>2, <2>4, <2>5
  <2> QED
    BY <2>2, <2>3, <2>6, <2>7
<1>17. ASSUME NEW t \in Threads, Exchange(t) PROVE TokenInv'
  BY <1>17 DEF Exchange
<1>18. ASSUME NEW t \in Threads, StoreTokens(t) PROVE TokenInv'
  BY <1>18 DEF StoreTokens, Store
<1>19. ASSUME NEW t \in Threads, SaveRefreshed(t) PROVE TokenInv'
  BY <1>19 DEF SaveRefreshed, DoRefreshReturns
<1>20. ASSUME NEW t \in Threads, RestoreAccess(t) PROVE TokenInv'
  BY <1>20 DEF RestoreAccess, DoRefreshReturns
<1>21. ASSUME NEW t \in Threads, ClearInflight(t) PROVE TokenInv'
  BY <1>21 DEF ClearInflight
<1>22. ASSUME NEW t \in Threads, CloseDone(t) PROVE TokenInv'
  BY <1>22 DEF CloseDone, Return, Leave, Retry
<1>23. ASSUME NEW t \in Threads, CreateSession(t) PROVE TokenInv'
  BY <1>23 DEF CreateSession, Leave
<1>24. ASSUME NEW t \in Threads, PersistLogin(t) PROVE TokenInv'
  BY <1>24 DEF PersistLogin, Leave
<1>25. ASSUME NEW t \in Threads, DropClient(t) PROVE TokenInv'
  <2>1. \A w \in Threads : pc'[w] \notin {"exchange", "store", "restore"}
    BY <1>25 DEF DropClient
  <2> QED
    BY <1>25, <2>1 DEF DropClient
<1>26. ASSUME NEW t \in Threads, EraseRow(t) PROVE TokenInv'
  BY <1>26 DEF EraseRow, Leave
<1>27. ASSUME NEW n \in 1..MaxPair, Expire(n) PROVE TokenInv'
  BY <1>27 DEF Expire
<1>28. CASE UNCHANGED vars
  BY <1>28 DEF vars
<1> QED
  BY <1>1, <1>2, <1>3, <1>4, <1>5, <1>6, <1>7, <1>8, <1>9, <1>10, <1>11, <1>12, <1>13, <1>14, <1>15, <1>16, <1>17, <1>18, <1>19, <1>20, <1>21, <1>22, <1>23, <1>24, <1>25, <1>26, <1>27, <1>28 DEF Next, BeginAny, Network, Compute

\* An access token that goes out is not one a refresh has replaced.
LEMMA SendsUnspent ==
    ASSUME IInv, FreshInv, TokenInv, NEW t \in Threads, Send(t), sent'[t].kind = "access"
    PROVE  sent'[t].pair \notin spent
<1>1. cl[t] \in 1..nclient
  BY DEF Send, IInv, ClientInv
<1>2. sent'[t] = access[cl[t]]
  BY DEF Send, Torn, IInv, TypeOK, LocalOK
<1>3. ~\E r \in Threads : mu = r /\ pc[r] = "store" /\ cl[t] = client
  BY <1>2 DEF TokenInv
<1> QED
  BY <1>1, <1>2, <1>3 DEF FreshInv, Usable, TokenInv

\* Each step moves one goroutine, and only Send moves it on from a request it has to send.
LEMMA OnlySendSends ==
    ASSUME TypeOK, [Next]_vars, NEW t \in Threads, pc[t] = "send", pc'[t] = "net"
    PROVE  Send(t)
<1> USE DEF TypeOK, LocalOK, Goto
<1>1. ASSUME NEW w \in Threads, BeginAny(w) PROVE pc[w] # "send" /\ pc' = [pc EXCEPT ![w] = pc'[w]]
  BY <1>1 DEF BeginAny, BeginCall, BeginLogin, BeginLogout, Begin
<1>2. ASSUME NEW w \in Threads, Network(w) PROVE pc[w] # "send" /\ pc' = [pc EXCEPT ![w] = pc'[w]]
  BY <1>2, ReturnPc DEF Network, Answer, Exchange, CreateSession, Leave
<1>3. ASSUME NEW w \in Threads, Compute(w) PROVE (Send(w) \/ pc[w] # "send") /\ pc' = [pc EXCEPT ![w] = pc'[w]]
  <2>1. CASE LoadSession(w) \/ Reseal(w) \/ Show(w) \/ Install(w) \/ PersistLogin(w) \/ DropClient(w) \/ EraseRow(w)
    BY <2>1 DEF LoadSession, Reseal, Show, Install, PersistLogin, DropClient, EraseRow, Leave, AfterLoad
  <2>2. CASE GetClient(w) \/ Observe(w) \/ WaitTimeout(w)
    BY <2>2, ReturnPc DEF GetClient, Observe, WaitTimeout, Retry
  <2>3. CASE AcquireMu(w) \/ SwapIn(w) \/ StoreTokens(w) \/ ClearInflight(w)
    BY <2>3 DEF AcquireMu, SwapIn, StoreTokens, Store, ClearInflight
  <2>5. CASE SaveRefreshed(w) \/ RestoreAccess(w)
    BY <2>5 DEF SaveRefreshed, RestoreAccess, DoRefreshReturns
  <2>6. CASE CloseDone(w)
    BY <2>6, ReturnPc DEF CloseDone, Retry
  <2>4. CASE Lead(w) \/ Join(w)
    BY <2>4 DEF Lead, Join
  <2>7. CASE Send(w)
    <3>1. pc' = [pc EXCEPT ![w] = "net"]
      BY <2>7 DEF Send, Goto
    <3>2. pc' = [pc EXCEPT ![w] = pc'[w]]
      BY <3>1
    <3> QED
      BY <2>7, <3>2
  <2> QED
    BY <1>3, <2>1, <2>2, <2>3, <2>4, <2>5, <2>6, <2>7 DEF Compute
<1>4. (\E n \in 1..MaxPair : Expire(n)) \/ UNCHANGED vars => UNCHANGED pc
  BY DEF Expire, vars
<1>5. PICK w \in Threads : BeginAny(w) \/ Network(w) \/ Compute(w)
  BY <1>4 DEF Next
<1> QED
  BY <1>1, <1>2, <1>3, <1>5

\* The access token that a retry carries has not been replaced when it is sent, whichever
\* client the call has held on to.  With the client that is still the current one that is
\* what a refresh has left there; with one that a login replaced in between (at_client.go:276)
\* nothing has refreshed it, and the theorem does not say that it is another token than the
\* one that was refused.
THEOREM RetryIsNotSpent ==
    ASSUME "lost" \notin Env, StartupIsOver
    PROVE  Spec => RetryCarriesNewToken
<1> DEFINE Inv == IInv /\ FreshInv /\ TokenInv
           Fresh == \A t \in Threads :
                      pc[t] = "send" /\ retry[t] /\ pc'[t] = "net" /\ sent'[t].kind = "access"
                        => sent'[t].pair \notin spent
<1>1. Init => Inv
  BY InitIInv, InitFresh, InitTokenInv
<1>2. Inv /\ [Next]_vars => Inv'
  BY StepIInv, StepFresh, StepTokenInv
<1>3. Inv /\ [Next]_vars => [Fresh]_vars
  BY OnlySendSends, SendsUnspent DEF IInv
<1> QED
  BY <1>1, <1>2, <1>3, PTL DEF Spec, RetryCarriesNewToken

-----------------------------------------------------------------------------
(***************************************************************************)
(* The saved session against the session in memory: a logout is final, a   *)
(* kill of the process loses no session, and the row on disk is the one of *)
(* the session in memory.                                                  *)
(*                                                                         *)
(* Only a dozen of the actions touch the client's pair or the row; the     *)
(* others move one goroutine on.  StepKinds says so once, and the three    *)
(* invariants are proved from it.                                          *)
(***************************************************************************)
\* What a step of a goroutine between two dealings with client and row leaves alone.
Settled == <<client, refresh, kept, nclient, db, form, minted, spent>>

\* A goroutine is in WithClient or in a refresh, short of its writes.
QuietPcs == {"get", "send", "net", "refresh", "lock", "wait", "swap", "restore", "clear", "close"}

\* It moves on in there, or its WithClient returns.
Quiet(t) ==
    /\ UNCHANGED Settled
    /\ pc[t] \in QuietPcs
    /\ \A w \in Threads \ {t} : pc'[w] = pc[w] /\ op'[w] = op[w] /\ hand'[w] = hand[w]
    /\ \/ pc'[t] \in QuietPcs \cup {"exchange"} /\ op'[t] = op[t]
       \/ pc'[t] \in Resting /\ op'[t] = "none"
       \/ pc'[t] = "drop" /\ op'[t] = "logout" /\ op[t] = "logout"
       \/ pc'[t] = "load" /\ op'[t] = "handle" /\ op[t] = "restore"

\* The steps that deal with the client's pair, the row or the form.
RowStep(t) == \/ LoadSession(t) \/ Reseal(t) \/ Show(t) \/ Install(t)
              \/ Exchange(t) \/ StoreTokens(t) \/ SaveRefreshed(t)
              \/ CreateSession(t) \/ PersistLogin(t) \/ DropClient(t) \/ EraseRow(t)

Still == UNCHANGED <<Settled, pc, op, hand>>

-----------------------------------------------------------------------------
\* A return from WithClient is a quiet step.
LEMMA ReturnIsQuiet ==
    ASSUME TypeOK, NEW t \in Threads, NEW ok \in BOOLEAN, Return(t, ok),
           pc[t] \in QuietPcs, UNCHANGED Settled
    PROVE  Quiet(t)
BY DEF TypeOK, LocalOK, Return, Leave, Goto, Quiet, Resting

\* So is a step to another place in there.
LEMMA MoveIsQuiet ==
    ASSUME TypeOK, NEW t \in Threads, NEW l \in QuietPcs \cup {"exchange"}, Goto(t, l),
           pc[t] \in QuietPcs, UNCHANGED <<Settled, op>>,
           \A w \in Threads \ {t} : hand'[w] = hand[w]
    PROVE  Quiet(t)
BY DEF TypeOK, LocalOK, Goto, Quiet

\* Every step begins an operation, deals with client and row, or is quiet.
LEMMA StepKinds ==
    ASSUME TypeOK, [Next]_vars
    PROVE  Still \/ \E t \in Threads : BeginAny(t) \/ RowStep(t) \/ Quiet(t)
<1> USE DEF Settled, session, locks, request, data, waiting, server
<1>q. {"get", "send", "net", "refresh", "lock", "wait", "swap", "restore", "clear", "close"} = QuietPcs
  BY DEF QuietPcs
<1>1. ASSUME NEW t \in Threads, GetClient(t) PROVE Quiet(t)
  <2>1. CASE Return(t, FALSE)
    BY <1>1, <2>1, <1>q, ReturnIsQuiet DEF GetClient
  <2>2. CASE Goto(t, "send") /\ UNCHANGED <<op, data>>
    BY <1>1, <2>2, <1>q, MoveIsQuiet DEF GetClient
  <2> QED
    BY <1>1, <2>1, <2>2 DEF GetClient
<1>2. ASSUME NEW t \in Threads, Send(t) PROVE Quiet(t)
  BY <1>2, <1>q, MoveIsQuiet DEF Send
<1>3. ASSUME NEW t \in Threads, Answer(t) PROVE Quiet(t)
  <2>1. CASE \E ok \in BOOLEAN : Return(t, ok)
    BY <1>3, <2>1, <1>q, ReturnIsQuiet DEF Answer
  <2>2. CASE Goto(t, "refresh") /\ UNCHANGED <<op, data>>
    BY <1>3, <2>2, <1>q, MoveIsQuiet DEF Answer
  <2> QED
    BY <1>3, <2>1, <2>2 DEF Answer
<1>4. ASSUME NEW t \in Threads, Lead(t) PROVE Quiet(t)
  BY <1>4, <1>q, MoveIsQuiet DEF Lead
<1>5. ASSUME NEW t \in Threads, Join(t) PROVE Quiet(t)
  BY <1>5, <1>q, MoveIsQuiet DEF Join
<1>6. ASSUME NEW t \in Threads, Observe(t) PROVE Quiet(t)
  <2>1. CASE Return(t, FALSE)
    BY <1>6, <2>1, <1>q, ReturnIsQuiet DEF Observe, LeaveWait
  <2>2. CASE Retry(t)
    BY <1>6, <2>2, <1>q, MoveIsQuiet DEF Observe, LeaveWait, Retry
  <2> QED
    BY <1>6, <2>1, <2>2 DEF Observe
<1>7. ASSUME NEW t \in Threads, WaitTimeout(t) PROVE Quiet(t)
  BY <1>7, <1>q, ReturnIsQuiet DEF WaitTimeout, LeaveWait
<1>8. ASSUME NEW t \in Threads, AcquireMu(t) PROVE Quiet(t)
  BY <1>8, <1>q, MoveIsQuiet DEF AcquireMu
<1>9. ASSUME NEW t \in Threads, SwapIn(t) PROVE Quiet(t)
  BY <1>9, <1>q, MoveIsQuiet DEF SwapIn
<1>10. ASSUME NEW t \in Threads, RestoreAccess(t) PROVE Quiet(t)
  <2>1. \A w \in Threads \ {t} : hand'[w] = hand[w]
    BY <1>10 DEF RestoreAccess, DoRefreshReturns, TypeOK, LocalOK
  <2> QED
    BY <1>10, <2>1, <1>q, MoveIsQuiet DEF RestoreAccess, DoRefreshReturns
<1>11. ASSUME NEW t \in Threads, ClearInflight(t) PROVE Quiet(t)
  BY <1>11, <1>q, MoveIsQuiet DEF ClearInflight
<1>12. ASSUME NEW t \in Threads, CloseDone(t) PROVE Quiet(t)
  <2>1. CASE Return(t, FALSE)
    BY <1>12, <2>1, <1>q, ReturnIsQuiet DEF CloseDone
  <2>2. CASE Retry(t)
    BY <1>12, <2>2, <1>q, MoveIsQuiet DEF CloseDone, Retry
  <2> QED
    BY <1>12, <2>1, <2>2 DEF CloseDone
<1>13. ASSUME NEW n \in 1..MaxPair, Expire(n) PROVE Still
  BY <1>13 DEF Expire, Still
<1>14. CASE UNCHANGED vars
  BY <1>14 DEF vars, Still
<1> QED
  BY <1>1, <1>2, <1>3, <1>4, <1>5, <1>6, <1>7, <1>8, <1>9, <1>10, <1>11, <1>12, <1>13, <1>14 DEF Next, Network, Compute, RowStep

-----------------------------------------------------------------------------
(***************************************************************************)
(* What the theorems assume of how the process runs.                       *)
(***************************************************************************)
\* The process started signed in, or the page never asks for a login.
NobodyLogsIn == "login" \notin UserOps \/ Starts \subseteq {"signedin", "guest"}

NoLogin == /\ "login" \in UserOps => ~form
           /\ \A t \in Threads : op[t] # "login" /\ pc[t] \notin {"create", "persist"}

\* Without a login, nobody creates a session.
LEMMA StepNoLogin == TypeOK /\ NoLogin /\ [Next]_vars => NoLogin'
<1> SUFFICES ASSUME TypeOK, NoLogin, [Next]_vars PROVE NoLogin'
  OBVIOUS
<1> USE DEF NoLogin, TypeOK, LocalOK, Goto, Leave
<1>1. CASE Still
  BY <1>1 DEF Still, Settled
<1>2. ASSUME NEW t \in Threads, BeginAny(t) PROVE NoLogin'
  BY <1>2 DEF BeginAny, BeginCall, BeginLogin, BeginLogout, Begin
<1>3. ASSUME NEW t \in Threads, Quiet(t) PROVE NoLogin'
  BY <1>3 DEF Quiet, QuietPcs, Resting, Settled
<1>4. ASSUME NEW t \in Threads, LoadSession(t) \/ Reseal(t) \/ Show(t) \/ Install(t) PROVE NoLogin'
  BY <1>4 DEF LoadSession, Reseal, Show, Install, AfterLoad, request
<1>5. ASSUME NEW t \in Threads, Exchange(t) \/ StoreTokens(t) \/ SaveRefreshed(t) PROVE NoLogin'
  BY <1>5 DEF Exchange, StoreTokens, Store, SaveRefreshed, DoRefreshReturns, request
<1>6. ASSUME NEW t \in Threads, CreateSession(t) \/ PersistLogin(t) \/ DropClient(t) \/ EraseRow(t) PROVE NoLogin'
  BY <1>6 DEF CreateSession, PersistLogin, DropClient, EraseRow, request
<1> QED
  BY <1>1, <1>2, <1>3, <1>4, <1>5, <1>6, StepKinds DEF RowStep

\* The saved row is encrypted already: nobody rewrites it while it restores it.
Sealed == ~db.plain /\ \A t \in Threads : pc[t] # "reseal"

\* No plaintext row is there at first, when a start does not find one.
LEMMA InitSealed == "legacy" \notin Starts /\ Init => Sealed
<1> SUFFICES ASSUME "legacy" \notin Starts, Init PROVE Sealed
  OBVIOUS
<1>1. PICK s \in Starts : db = IF s \in {"empty", "guest"} THEN NoRow ELSE [pair |-> 1, plain |-> s = "legacy"]
  BY DEF Init
<1>2. ~db.plain
  BY <1>1 DEF NoRow
<1>3. \A t \in Threads : pc[t] # "reseal"
  BY DEF Init
<1> QED
  BY <1>2, <1>3 DEF Sealed

\* No step leaves a plaintext row.
LEMMA StepSealed == TypeOK /\ Sealed /\ [Next]_vars => Sealed'
<1> SUFFICES ASSUME TypeOK, Sealed, [Next]_vars PROVE Sealed'
  OBVIOUS
<1> USE DEF Sealed, TypeOK, LocalOK, Goto, Leave, NoRow, Row
<1>1. CASE Still
  BY <1>1 DEF Still, Settled
<1>2. ASSUME NEW t \in Threads, BeginAny(t) PROVE Sealed'
  BY <1>2 DEF BeginAny, BeginCall, BeginLogin, BeginLogout, Begin
<1>3. ASSUME NEW t \in Threads, Quiet(t) PROVE Sealed'
  BY <1>3 DEF Quiet, QuietPcs, Resting, Settled
<1>4. ASSUME NEW t \in Threads, LoadSession(t) \/ Reseal(t) \/ Show(t) \/ Install(t) PROVE Sealed'
  BY <1>4 DEF LoadSession, Reseal, Show, Install, AfterLoad
<1>5. ASSUME NEW t \in Threads, Exchange(t) \/ StoreTokens(t) \/ SaveRefreshed(t) PROVE Sealed'
  BY <1>5 DEF Exchange, StoreTokens, Store, SaveRefreshed, DoRefreshReturns
<1>6. ASSUME NEW t \in Threads, CreateSession(t) \/ PersistLogin(t) \/ DropClient(t) \/ EraseRow(t) PROVE Sealed'
  BY <1>6 DEF CreateSession, PersistLogin, DropClient, EraseRow
<1> QED
  BY <1>1, <1>2, <1>3, <1>4, <1>5, <1>6, StepKinds DEF RowStep

-----------------------------------------------------------------------------
(***************************************************************************)
(* The row on disk is the one of the session in memory.                    *)
(***************************************************************************)
\* At most startup restores the saved session, and nobody logs in: two goroutines
\* that install clients of their own may save them in the other order.
OneSession == \/ Starts \subseteq {"signedin", "guest"}
              \/ Page = {} /\ "login" \notin UserOps /\ \A b, c \in Boot : b = c

\* While startup restores the session, nobody else has begun.
LoaderAlone ==
    \A t \in Threads :
      pc[t] \in {"load", "reseal", "install"} =>
         /\ t \in Boot /\ client = 0 /\ form
         /\ pc[t] # "load" => hand[t] = db.pair /\ db.pair # 0
         /\ \A w \in Threads \ {t} : pc[w] = "idle"

\* No restore for the page; a logout erases the row of no newer session; a refresh
\* saves what it stored.
DiskPlaces ==
    \A t \in Threads :
      /\ op[t] \notin {"restore", "handle"} /\ pc[t] # "show"
      /\ pc[t] = "erase" => client = 0
      /\ pc[t] = "save" => client # 0 /\ hand[t] = refresh[client]

DiskInv == NoLogin /\ LoaderAlone /\ DiskPlaces /\ DiskFollowsMemory

\* With one session, the row follows the memory at first.
LEMMA InitDiskInv == OneSession /\ Init => DiskInv
<1> SUFFICES ASSUME OneSession, Init PROVE DiskInv
  OBVIOUS
<1>1. PICK s \in Starts :
        /\ db = IF s \in {"empty", "guest"} THEN NoRow ELSE [pair |-> 1, plain |-> s = "legacy"]
        /\ client = (IF Running(s) THEN 1 ELSE 0) /\ form = ~Running(s)
        /\ kept = [o \in 1..MaxClient |-> o = client /\ s = "signedin"]
        /\ pc = [t \in Threads |-> IF t \notin Boot \cup Page THEN "idle"
                                   ELSE IF Running(s) THEN "done" ELSE "load"]
        /\ op = [t \in Threads |-> IF pc[t] # "load" THEN "none"
                                   ELSE IF t \in Boot THEN "check" ELSE "restore"]
  BY DEF Init
<1>2. NoLogin
  BY <1>1 DEF NoLogin, OneSession, Running
<1>3. \/ Running(s)
      \/ form /\ client = 0 /\ Page = {} /\ \A b, c \in Boot : b = c
  BY <1>1 DEF OneSession, Running
<1>4. LoaderAlone
  BY <1>1, <1>3 DEF LoaderAlone
<1>5. DiskPlaces
  BY <1>1, <1>3 DEF DiskPlaces
<1>6. DiskFollowsMemory
  <2>1. refresh = [o \in 1..MaxClient |-> IF o = client THEN 1 ELSE 0]
    BY DEF Init
  <2>2. ASSUME client # 0, kept[client] PROVE db.pair = refresh[client]
    <3>1. client = 1 /\ 1 \in 1..MaxClient
      BY <1>1, <2>2
    <3>2. s = "signedin"
      BY <1>1, <2>2, <3>1
    <3> QED
      BY <1>1, <2>1, <3>1, <3>2
  <2> QED
    BY <2>2 DEF DiskFollowsMemory
<1> QED
  BY <1>2, <1>4, <1>5, <1>6 DEF DiskInv

\* Every step of one session keeps the row behind the memory.
LEMMA StepDiskInv ==
    ASSUME "dbfail" \notin Env, IInv, DiskInv, [Next]_vars
    PROVE  LoaderAlone' /\ DiskPlaces' /\ DiskFollowsMemory'
<1> USE DEF DiskInv, IInv, TypeOK, LocalOK, Goto, Leave, session, locks, request, data, waiting, server
<1> DEFINE Goal == LoaderAlone' /\ DiskPlaces' /\ DiskFollowsMemory'
<1>1. CASE Still
  BY <1>1 DEF Still, Settled, LoaderAlone, DiskPlaces, DiskFollowsMemory
<1>2. ASSUME NEW t \in Threads, BeginAny(t) PROVE Goal
  <2>1. /\ UNCHANGED <<Settled, hand>> /\ pc[t] = "idle" /\ pc'[t] = "get"
        /\ op'[t] \in {"call", "logout"}
        /\ \A w \in Threads \ {t} : pc'[w] = pc[w] /\ op'[w] = op[w]
    BY <1>2 DEF BeginAny, BeginCall, BeginLogin, BeginLogout, Begin, Settled, NoLogin
  <2>2. ~form \/ \A b \in Boot : pc[b] = "done"
    BY <1>2 DEF BeginAny, BeginCall, BeginLogin, BeginLogout, MayCall, NoLogin
  <2>3. \A w \in Threads : pc[w] \notin {"load", "reseal", "install"}
    BY <2>2 DEF LoaderAlone
  <2>4. LoaderAlone'
    BY <2>1, <2>3 DEF LoaderAlone
  <2>5. DiskPlaces'
    BY <2>1 DEF DiskPlaces, Settled
  <2>6. DiskFollowsMemory'
    BY <2>1 DEF DiskFollowsMemory, Settled
  <2> QED
    BY <2>4, <2>5, <2>6
<1>3. ASSUME NEW t \in Threads, Quiet(t) PROVE Goal
  <2>1. /\ UNCHANGED Settled
        /\ pc[t] \notin {"idle", "load", "reseal", "install", "erase", "save", "persist"}
        /\ pc'[t] \notin {"load", "reseal", "install", "erase", "save", "persist", "show"}
        /\ op'[t] \notin {"restore", "handle"}
        /\ \A w \in Threads \ {t} : pc'[w] = pc[w] /\ op'[w] = op[w] /\ hand'[w] = hand[w]
    BY <1>3 DEF Quiet, QuietPcs, Resting, DiskPlaces
  <2>2. LoaderAlone'
    BY <2>1 DEF LoaderAlone
  <2>3. DiskPlaces'
    BY <2>1 DEF DiskPlaces, Settled
  <2>4. DiskFollowsMemory'
    BY <2>1 DEF DiskFollowsMemory, Settled
  <2> QED
    BY <2>2, <2>3, <2>4
<1>4. ASSUME NEW t \in Threads, LoadSession(t) PROVE Goal
  <2>1. /\ UNCHANGED <<client, refresh, kept, db, form>> /\ pc[t] = "load" /\ op'[t] \in {op[t], "none"}
        /\ pc'[t] = "done" \/ (pc'[t] \in {"reseal", "install"} /\ hand'[t] = db.pair /\ db.pair # 0)
        /\ \A w \in Threads \ {t} : pc'[w] = pc[w] /\ op'[w] = op[w] /\ hand'[w] = hand[w]
    BY <1>4 DEF LoadSession, AfterLoad, DiskPlaces
  <2>2. client = 0 /\ form /\ t \in Boot /\ \A w \in Threads \ {t} : pc[w] = "idle"
    BY <2>1 DEF LoaderAlone
  <2>3. LoaderAlone' /\ DiskPlaces' /\ DiskFollowsMemory'
    BY <2>1, <2>2 DEF LoaderAlone, DiskPlaces, DiskFollowsMemory
  <2> QED
    BY <2>3
<1>5. ASSUME NEW t \in Threads, Reseal(t) PROVE Goal
  <2>1. /\ UNCHANGED <<client, refresh, kept, form, op, hand>> /\ pc[t] = "reseal"
        /\ pc'[t] = "install" /\ db'.pair = hand[t]
        /\ \A w \in Threads \ {t} : pc'[w] = pc[w]
    BY <1>5 DEF Reseal, AfterLoad, DiskPlaces, Row
  <2>2. /\ client = 0 /\ form /\ t \in Boot /\ \A w \in Threads \ {t} : pc[w] = "idle"
        /\ hand[t] = db.pair /\ db.pair # 0
    BY <2>1 DEF LoaderAlone
  <2>3. LoaderAlone' /\ DiskPlaces' /\ DiskFollowsMemory'
    BY <2>1, <2>2 DEF LoaderAlone, DiskPlaces, DiskFollowsMemory
  <2> QED
    BY <2>3
<1>6. ASSUME NEW t \in Threads, Show(t) PROVE Goal
  BY <1>6 DEF Show, DiskPlaces
<1>7. ASSUME NEW t \in Threads, Install(t) PROVE Goal
  <2>1. /\ UNCHANGED <<db, form, op, hand>> /\ pc[t] = "install" /\ client' = nclient + 1
        /\ refresh'[nclient + 1] = hand[t] /\ nclient + 1 # 0
        /\ pc'[t] \in {"get", "persist", "erase"} /\ (op[t] # "login" => pc'[t] = "get")
        /\ \A w \in Threads \ {t} : pc'[w] = pc[w]
    BY <1>7 DEF Install, Clients
  <2>2. hand[t] = db.pair /\ pc'[t] = "get" /\ \A w \in Threads \ {t} : pc[w] = "idle"
    BY <2>1 DEF LoaderAlone, NoLogin
  <2>3. LoaderAlone' /\ DiskPlaces' /\ DiskFollowsMemory'
    BY <2>1, <2>2 DEF LoaderAlone, DiskPlaces, DiskFollowsMemory
  <2> QED
    BY <2>3
<1>8. ASSUME NEW t \in Threads, Exchange(t) PROVE Goal
  <2>1. /\ UNCHANGED <<client, refresh, kept, db, form, op>> /\ pc[t] = "exchange"
        /\ pc'[t] \in {"store", "restore"}
        /\ \A w \in Threads \ {t} : pc'[w] = pc[w] /\ hand'[w] = hand[w]
    BY <1>8 DEF Exchange
  <2>2. LoaderAlone' /\ DiskPlaces' /\ DiskFollowsMemory'
    BY <2>1 DEF LoaderAlone, DiskPlaces, DiskFollowsMemory
  <2> QED
    BY <2>2
<1>9. ASSUME NEW t \in Threads, StoreTokens(t) PROVE Goal
  <2>1. /\ UNCHANGED <<client, kept, db, form, op, hand>> /\ pc[t] = "store" /\ pc'[t] = "save"
        /\ refresh' = [refresh EXCEPT ![client] = hand[t]]
        /\ \A w \in Threads \ {t} : pc'[w] = pc[w]
    BY <1>9 DEF StoreTokens, Store
  <2>2. client \in 1..MaxClient /\ \A w \in Threads \ {t} : pc[w] # "save"
    BY <1>9, Values DEF StoreTokens, Store, LockInv, HoldPcs
  <2>3. LoaderAlone' /\ DiskPlaces' /\ DiskFollowsMemory'
    BY <2>1, <2>2 DEF LoaderAlone, DiskPlaces, DiskFollowsMemory
  <2> QED
    BY <2>3
<1>10. ASSUME NEW t \in Threads, SaveRefreshed(t) PROVE Goal
  <2>1. /\ UNCHANGED <<client, refresh, kept, form, op>> /\ pc[t] = "save" /\ pc'[t] = "clear"
        /\ db'.pair = hand[t]
        /\ \A w \in Threads \ {t} : pc'[w] = pc[w] /\ hand'[w] = hand[w]
    BY <1>10 DEF SaveRefreshed, DoRefreshReturns, Row
  <2>2. hand[t] = refresh[client]
    BY <2>1 DEF DiskPlaces
  <2>3. LoaderAlone' /\ DiskPlaces' /\ DiskFollowsMemory'
    BY <2>1, <2>2 DEF LoaderAlone, DiskPlaces, DiskFollowsMemory
  <2> QED
    BY <2>3
<1>11. ASSUME NEW t \in Threads, CreateSession(t) \/ PersistLogin(t) PROVE Goal
  BY <1>11 DEF CreateSession, PersistLogin, NoLogin
<1>12. ASSUME NEW t \in Threads, DropClient(t) PROVE Goal
  <2>1. /\ UNCHANGED <<db, form, op, hand>> /\ pc[t] = "drop" /\ pc'[t] = "erase" /\ client' = 0
        /\ \A w \in Threads \ {t} : pc'[w] = pc[w]
    BY <1>12 DEF DropClient
  <2>2. \A w \in Threads : pc[w] # "save"
    BY <1>12 DEF DropClient, LockInv, HoldPcs
  <2>3. LoaderAlone' /\ DiskPlaces' /\ DiskFollowsMemory'
    BY <2>1, <2>2 DEF LoaderAlone, DiskPlaces, DiskFollowsMemory
  <2> QED
    BY <2>3
<1>13. ASSUME NEW t \in Threads, EraseRow(t) PROVE Goal
  <2>1. /\ UNCHANGED <<client, refresh, kept>> /\ pc[t] = "erase" /\ pc'[t] = "idle" /\ op'[t] = "none"
        /\ \A w \in Threads \ {t} : pc'[w] = pc[w] /\ op'[w] = op[w] /\ hand'[w] = hand[w]
    BY <1>13 DEF EraseRow
  <2>2. client = 0
    BY <2>1 DEF DiskPlaces
  <2>3. LoaderAlone' /\ DiskPlaces' /\ DiskFollowsMemory'
    BY <2>1, <2>2 DEF LoaderAlone, DiskPlaces, DiskFollowsMemory
  <2> QED
    BY <2>3
<1> QED
  BY <1>1, <1>2, <1>3, <1>4, <1>5, <1>6, <1>7, <1>8, <1>9, <1>10, <1>11, <1>12, <1>13, StepKinds DEF RowStep

\* While one session lasts, the row on disk is the one of the session in memory:
\* no late write of a refresh, a logout or a restore undoes a newer one.
THEOREM RowIsOfSession ==
    ASSUME "dbfail" \notin Env, OneSession
    PROVE  Spec => []DiskFollowsMemory
<1>1. Init => IInv /\ DiskInv
  BY InitIInv, InitDiskInv
<1>2. IInv /\ DiskInv /\ [Next]_vars => IInv' /\ DiskInv'
  BY StepIInv, StepNoLogin, StepDiskInv DEF IInv, DiskInv
<1>3. DiskInv => DiskFollowsMemory
  BY DEF DiskInv
<1> QED
  BY <1>1, <1>2, <1>3, PTL DEF Spec

\* A plaintext row is sealed again while nobody else has begun, or there is none.
SafeReseal == Sealed \/ DiskInv

\* The saved row is sealed already, or one session lasts.
NoRivalReseal == "legacy" \notin Starts \/ OneSession

\* At first the row is sealed, or it is the one of the only session.
LEMMA InitSafeReseal == NoRivalReseal /\ Init => SafeReseal
BY InitSealed, InitDiskInv DEF NoRivalReseal, SafeReseal

\* Every step keeps that.
LEMMA StepSafeReseal == "dbfail" \notin Env /\ IInv /\ SafeReseal /\ [Next]_vars => SafeReseal'
BY StepSealed, StepNoLogin, StepDiskInv DEF SafeReseal, DiskInv, IInv

\* Then resealing writes the pair that is in the row.
LEMMA ResealKeepsPair ==
    ASSUME SafeReseal, NEW t \in Threads, pc[t] = "reseal"
    PROVE  client = 0 /\ form /\ hand[t] = db.pair /\ db.pair # 0 /\ t \in Boot
BY DEF SafeReseal, Sealed, DiskInv, LoaderAlone

-----------------------------------------------------------------------------
(***************************************************************************)
(* A logout is final.                                                      *)
(***************************************************************************)
\* One login is over before the next begins, and before a logout.
LoginsDoNotOverlap == "login" \notin UserOps \/ \A u, v \in Users : u = v

\* The user logs in and out, out only from the main view.  A login that saves its
\* row, and a restore that has installed its client, have a client in memory: only
\* a logout takes it away.
LogoutPlaces ==
    \A t \in Threads :
      /\ op[t] = "login" => t \in Users /\ "login" \in UserOps
      /\ op[t] = "logout" => t \in Users /\ ~form
      /\ pc[t] \in {"create", "persist"} => op[t] = "login"
      /\ pc[t] = "persist" => client # 0
      /\ pc[t] = "drop" => op[t] = "logout"
      /\ op[t] = "restore" => pc[t] \in {"load", "reseal", "install"} \/ client # 0 \/ ~form
      /\ op[t] = "handle" => client # 0 \/ ~form
      /\ pc[t] = "show" => op[t] = "handle"

LogoutInv == LogoutPlaces /\ LogoutSticks

\* No session has been ended at first.
LEMMA InitLogoutInv == Init => LogoutInv
<1> SUFFICES ASSUME Init PROVE LogoutInv
  OBVIOUS
<1>1. PICK s \in Starts : client = (IF Running(s) THEN 1 ELSE 0) /\ form = ~Running(s)
  BY DEF Init
<1>2. \A t \in Threads : pc[t] \in {"idle", "done", "load"} /\ op[t] \in {"none", "check", "restore"}
  BY DEF Init
<1>3. \A t \in Threads : op[t] = "restore" => pc[t] = "load"
  <2>1. \A t \in Threads : op[t] = IF pc[t] # "load" THEN "none" ELSE IF t \in Boot THEN "check" ELSE "restore"
    BY DEF Init
  <2> QED
    BY <2>1
<1>4. LogoutSticks
  <2>1. CASE Running(s)
    BY <1>1, <2>1 DEF LogoutSticks
  <2>2. CASE ~Running(s)
    BY <1>1, <2>2 DEF LogoutSticks
  <2> QED
    BY <2>1, <2>2
<1>5. LogoutPlaces
  BY <1>2, <1>3 DEF LogoutPlaces
<1> QED
  BY <1>4, <1>5 DEF LogoutInv

\* Every step keeps an erased row erased, and whoever could write it where it does not.
LEMMA StepLogoutInv ==
    ASSUME "dbfail" \notin Env, LoginsDoNotOverlap, IInv, SafeReseal, LogoutInv, [Next]_vars
    PROVE  LogoutInv'
<1> USE DEF LogoutInv, LogoutPlaces, LogoutSticks, IInv, TypeOK, LocalOK, Goto, Leave, session, locks, request, data, waiting, server
<1>1. CASE Still
  <2> HIDE DEF IInv
  <2> QED
    BY <1>1 DEF Still, Settled
<1>2. ASSUME NEW t \in Threads, BeginAny(t) PROVE LogoutInv'
  <2>1. UNCHANGED <<client, db, form>> /\ pc[t] = "idle"
    BY <1>2 DEF BeginAny, BeginCall, BeginLogin, BeginLogout, Begin
  <2>2. \/ pc' = [pc EXCEPT ![t] = "get"] /\ op' = [op EXCEPT ![t] = "call"]
        \/ pc' = [pc EXCEPT ![t] = "get"] /\ op' = [op EXCEPT ![t] = "logout"] /\ t \in Users /\ ~form
        \/ pc' = [pc EXCEPT ![t] = "create"] /\ op' = [op EXCEPT ![t] = "login"] /\ t \in Users /\ "login" \in UserOps
    BY <1>2 DEF BeginAny, BeginCall, BeginLogin, BeginLogout, Begin
  <2> HIDE DEF LogoutInv, LogoutPlaces, LogoutSticks
  <2>3. LogoutSticks'
    BY <2>1, <2>2 DEF LogoutInv, LogoutSticks
  <2>4. ASSUME NEW w \in Threads, w # t PROVE pc'[w] = pc[w] /\ op'[w] = op[w]
    BY <2>2, <2>4
  <2>5. LogoutPlaces'
    BY <2>1, <2>2, <2>4 DEF LogoutInv, LogoutPlaces
  <2> QED
    BY <2>3, <2>5 DEF LogoutInv
<1>3. ASSUME NEW t \in Threads, Quiet(t) PROVE LogoutInv'
  <2>1. UNCHANGED <<client, db, form>> /\ pc[t] \notin {"erase", "load", "reseal", "install"} /\ pc'[t] # "erase"
    BY <1>3 DEF Quiet, QuietPcs, Resting, Settled
  <2>2. \A w \in Threads \ {t} : pc'[w] = pc[w] /\ op'[w] = op[w]
    BY <1>3 DEF Quiet
  <2>3. /\ pc'[t] \notin {"create", "persist", "show"}
        /\ pc'[t] = "drop" => op'[t] = "logout"
        /\ op'[t] \in {op[t], "none"} \/ (op[t] = "restore" /\ op'[t] = "handle")
    BY <1>3 DEF Quiet, QuietPcs, Resting
  <2> HIDE DEF LogoutInv, LogoutPlaces, LogoutSticks, IInv
  <2>4. LogoutSticks'
    BY <2>1, <2>2 DEF LogoutInv, LogoutSticks
  <2>5. LogoutPlaces'
    BY <2>1, <2>2, <2>3 DEF LogoutInv, LogoutPlaces
  <2> QED
    BY <2>4, <2>5 DEF LogoutInv
<1>4. ASSUME NEW t \in Threads, LoadSession(t) PROVE LogoutInv'
  BY <1>4 DEF LoadSession, AfterLoad
<1>5. ASSUME NEW t \in Threads, Reseal(t) PROVE LogoutInv'
  <2>1. form /\ client = 0 /\ form' = form /\ pc'[t] # "erase"
    BY <1>5, ResealKeepsPair DEF Reseal, AfterLoad
  <2> QED
    BY <1>5, <2>1 DEF Reseal, AfterLoad
<1>6. ASSUME NEW t \in Threads, Show(t) PROVE LogoutInv'
  BY <1>6 DEF Show
<1>7. ASSUME NEW t \in Threads, Install(t) PROVE LogoutInv'
  BY <1>7 DEF Install, Clients
<1>8. ASSUME NEW t \in Threads, Exchange(t) PROVE LogoutInv'
  BY <1>8 DEF Exchange
<1>9. ASSUME NEW t \in Threads, StoreTokens(t) PROVE LogoutInv'
  BY <1>9 DEF StoreTokens, Store
<1>10. ASSUME NEW t \in Threads, SaveRefreshed(t) PROVE LogoutInv'
  \* Whoever saves holds mu and has a client; a logout waits for it.
  <2>1. client # 0
    BY <1>10 DEF SaveRefreshed, LockInv, HoldPcs
  <2> QED
    BY <1>10, <2>1 DEF SaveRefreshed, DoRefreshReturns
<1>11. ASSUME NEW t \in Threads, CreateSession(t) PROVE LogoutInv'
  BY <1>11 DEF CreateSession
<1>12. ASSUME NEW t \in Threads, PersistLogin(t) PROVE LogoutInv'
  BY <1>12 DEF PersistLogin
<1>13. ASSUME NEW t \in Threads, DropClient(t) PROVE LogoutInv'
  \* Nobody is about to save the row of a login: there is one user at a time.
  <2>1. \A w \in Threads : pc[w] # "persist"
    BY <1>13 DEF DropClient, LoginsDoNotOverlap
  <2>2. ~form /\ pc'[t] = "erase"
    BY <1>13 DEF DropClient
  <2> QED
    BY <1>13, <2>1, <2>2 DEF DropClient
<1>14. ASSUME NEW t \in Threads, EraseRow(t) PROVE LogoutInv'
  BY <1>14 DEF EraseRow
<1> QED
  BY <1>1, <1>2, <1>3, <1>4, <1>5, <1>6, <1>7, <1>8, <1>9, <1>10, <1>11, <1>12, <1>13, <1>14, StepKinds DEF RowStep

\* Once a logout has removed the client and erased the row, nothing writes the row
\* again: not a refresh that was under way, not a restore that began before it.
THEOREM LogoutIsFinal ==
    ASSUME "dbfail" \notin Env, NoRivalReseal, LoginsDoNotOverlap
    PROVE  Spec => []LogoutSticks
<1>1. Init => IInv /\ SafeReseal /\ LogoutInv
  BY InitIInv, InitSafeReseal, InitLogoutInv
<1>2. IInv /\ SafeReseal /\ LogoutInv /\ [Next]_vars => (IInv /\ SafeReseal /\ LogoutInv)'
  BY StepIInv, StepSafeReseal, StepLogoutInv DEF IInv
<1>3. LogoutInv => LogoutSticks
  BY DEF LogoutInv
<1> QED
  BY <1>1, <1>2, <1>3, PTL DEF Spec

-----------------------------------------------------------------------------
(***************************************************************************)
(* A kill of the process loses no session.                                 *)
(*                                                                         *)
(* Without a login every pair stems from the one the process started with, *)
(* so at most one still works.  It may be in several clients, in the hand  *)
(* of a goroutine and in the row; when it is anywhere, it is in the row.   *)
(***************************************************************************)
\* The pairs in memory, and the one among them and the row that still works.
Held == {refresh[o] : o \in 1..nclient} \cup {hand[t] : t \in InHand}

Live(n) == n # 0 /\ n \notin spent

OneLive == \A m, n \in Held \cup {db.pair} : Live(m) /\ Live(n) => m = n

Known == /\ spent \subseteq 1..minted
         /\ Held \subseteq 1..minted
         /\ db.pair \in 0..minted

\* What a refresh is about to store, or has stored and is about to save, is unused.
Saving == \A t \in Threads :
            /\ pc[t] = "store" => hand[t] \notin spent
            /\ pc[t] = "save" => client # 0 /\ hand[t] = refresh[client] /\ hand[t] \notin spent

NothingToSave == \A t \in Threads : pc[t] \notin {"store", "save"}

RowIsLast == NothingToSave /\ db.pair \in spent => Held \subseteq spent

DurableInv == NoLogin /\ OneLive /\ Known /\ Saving /\ RowIsLast

\* The strengthened invariant gives the property.
LEMMA DurableImplies == TypeOK /\ DurableInv => DurableSession
BY DEF DurableInv, RowIsLast, NothingToSave, Held, DurableSession, TypeOK

\* A step that brings no pair into memory and leaves the row keeps the rest.
LEMMA HeldFrame ==
    ASSUME OneLive, Known, RowIsLast, UNCHANGED <<minted, spent>>, db'.pair = db.pair,
           Held' \subseteq Held \cup {db.pair}, db.pair \in Held' \ Held => db.pair # 0,
           NothingToSave' => NothingToSave
    PROVE  OneLive' /\ Known' /\ RowIsLast'
<1>1. \A n \in Held' : n \in Held \/ (n = db.pair /\ n # 0)
  OBVIOUS
<1>2. OneLive'
  BY <1>1 DEF OneLive, Live
<1>3. Known'
  BY <1>1 DEF Known
<1>4. RowIsLast'
  BY <1>1 DEF RowIsLast
<1> QED
  BY <1>2, <1>3, <1>4

\* A goroutine that goes where it has no pair in hand adds none to memory.
LEMMA HandsDown ==
    ASSUME TypeOK, NEW t \in Threads, pc'[t] \notin {"install", "store"},
           \A w \in Threads \ {t} : pc'[w] = pc[w] /\ hand'[w] = hand[w],
           UNCHANGED <<refresh, nclient>>
    PROVE  Held' \subseteq Held
BY DEF Held, InHand

\* Every step keeps the last pair that works in the row, or on its way there.
LEMMA StepDurableInv ==
    ASSUME "dbfail" \notin Env, IInv, TokenInv, SafeReseal, DurableInv, [Next]_vars
    PROVE  OneLive' /\ Known' /\ Saving' /\ RowIsLast'
<1> USE DEF DurableInv, IInv, TypeOK, LocalOK, Goto, Leave, session, locks, request, data, waiting, server
<1> DEFINE Goal == OneLive' /\ Known' /\ Saving' /\ RowIsLast'
<1>1. CASE Still
  BY <1>1 DEF Still, Settled, Held, InHand, OneLive, Live, Known, Saving, RowIsLast, NothingToSave
<1>2. ASSUME NEW t \in Threads, UNCHANGED Settled,
             pc[t] \notin {"store", "save"}, pc'[t] \notin {"install", "store", "save"},
             \A w \in Threads \ {t} : pc'[w] = pc[w] /\ hand'[w] = hand[w]
      PROVE  Goal
  <2>1. UNCHANGED <<client, refresh, nclient, db, minted, spent>>
    BY <1>2 DEF Settled
  <2>2. Held' \subseteq Held
    BY <1>2, <2>1, HandsDown
  <2>3. NothingToSave' => NothingToSave
    BY <1>2 DEF NothingToSave
  <2>4. Saving'
    BY <1>2, <2>1 DEF Saving
  <2> QED
    BY <2>1, <2>2, <2>3, <2>4, HeldFrame
<1>3. ASSUME NEW t \in Threads, BeginAny(t) PROVE Goal
  BY <1>2, <1>3 DEF BeginAny, BeginCall, BeginLogin, BeginLogout, Begin, Settled
<1>4. ASSUME NEW t \in Threads, Quiet(t) PROVE Goal
  BY <1>2, <1>4 DEF Quiet, QuietPcs, Resting
<1>5. ASSUME NEW t \in Threads, LoadSession(t) PROVE Goal
  <2>1. UNCHANGED <<client, refresh, nclient, db, minted, spent>> /\ pc[t] = "load"
    BY <1>5 DEF LoadSession
  <2>2. /\ pc'[t] \notin {"store", "save"}
        /\ \A w \in Threads \ {t} : pc'[w] = pc[w] /\ hand'[w] = hand[w]
        /\ pc'[t] = "install" => hand'[t] = db.pair /\ db.pair # 0
    BY <1>5 DEF LoadSession, AfterLoad
  <2>3. Held' \subseteq Held \cup {db.pair} /\ (db.pair \in Held' \ Held => db.pair # 0)
    BY <2>1, <2>2 DEF Held, InHand
  <2>4. (NothingToSave' => NothingToSave) /\ Saving'
    BY <2>1, <2>2 DEF NothingToSave, Saving
  <2> QED
    BY <2>1, <2>3, <2>4, HeldFrame
<1>6. ASSUME NEW t \in Threads, Reseal(t) PROVE Goal
  <2>1. UNCHANGED <<client, refresh, nclient, hand, minted, spent>> /\ pc[t] = "reseal"
    BY <1>6 DEF Reseal
  <2>2. /\ pc'[t] \in {"install", "show"} /\ \A w \in Threads \ {t} : pc'[w] = pc[w]
        /\ db'.pair = db.pair /\ hand[t] = db.pair /\ db.pair # 0
    BY <1>6, <2>1, ResealKeepsPair DEF Reseal, AfterLoad, Row
  <2>3. Held' \subseteq Held \cup {db.pair}
    BY <2>1, <2>2 DEF Held, InHand
  <2>4. (NothingToSave' => NothingToSave) /\ Saving'
    BY <2>1, <2>2 DEF NothingToSave, Saving
  <2> QED
    BY <2>1, <2>2, <2>3, <2>4, HeldFrame
<1>7. ASSUME NEW t \in Threads, Show(t) PROVE Goal
  <2>1. UNCHANGED <<client, refresh, nclient, db, minted, spent>> /\ pc[t] = "show" /\ pc'[t] = "done"
    BY <1>7 DEF Show
  <2>2. \A w \in Threads \ {t} : pc'[w] = pc[w] /\ hand'[w] = hand[w]
    BY <1>7 DEF Show
  <2>3. Held' \subseteq Held
    BY <2>1, <2>2, HandsDown
  <2>4. (NothingToSave' => NothingToSave) /\ Saving'
    BY <2>1, <2>2 DEF NothingToSave, Saving
  <2> QED
    BY <2>1, <2>3, <2>4, HeldFrame
<1>8. ASSUME NEW t \in Threads, Install(t) PROVE Goal
  <2>1. /\ UNCHANGED <<hand, db, minted, spent>> /\ nclient' = nclient + 1
        /\ refresh' = [refresh EXCEPT ![nclient + 1] = hand[t]]
        /\ pc[t] = "install" /\ pc'[t] \in {"get", "persist", "erase"}
        /\ \A w \in Threads \ {t} : pc'[w] = pc[w]
    BY <1>8 DEF Install
  <2>2. \A w \in Threads : pc[w] \notin {"store", "save"}
    BY <1>8 DEF Install, LockInv, HoldPcs
  <2>3. Held' \subseteq Held
    <3>1. nclient + 1 \in 1..MaxClient /\ nclient \in Nat
      BY <1>8 DEF Install, Clients
    <3>2. hand[t] \in Held
      BY <2>1 DEF Held, InHand
    <3>3. ASSUME NEW o \in 1..nclient' PROVE refresh'[o] \in Held
      <4>1. CASE o = nclient + 1
        BY <2>1, <3>1, <3>2, <4>1
      <4>2. CASE o \in 1..nclient
        BY <2>1, <3>1, <4>2 DEF Held
      <4> QED
        BY <2>1, <3>1, <4>1, <4>2
    <3>4. ASSUME NEW w \in InHand' PROVE hand'[w] \in Held
      <4>1. w \in InHand /\ hand'[w] = hand[w]
        BY <2>1 DEF InHand
      <4> QED
        BY <4>1 DEF Held
    <3>5. Held' = {refresh'[o] : o \in 1..nclient'} \cup {hand'[w] : w \in InHand'}
      BY DEF Held
    <3> QED
      BY <3>3, <3>4, <3>5
  <2>4. (NothingToSave' => NothingToSave) /\ Saving'
    BY <2>1, <2>2 DEF NothingToSave, Saving
  <2> QED
    BY <2>1, <2>3, <2>4, HeldFrame
<1>9. ASSUME NEW t \in Threads, Exchange(t) PROVE Goal
  <2> DEFINE p == refresh[client]
  <2>1. /\ UNCHANGED <<client, refresh, nclient, db>> /\ pc[t] = "exchange"
        /\ \A w \in Threads \ {t} : pc[w] \notin {"store", "save"}
    BY <1>9 DEF Exchange, LockInv, HoldPcs
  <2>2. access[client].pair = p /\ p \in Held /\ p \in 1..minted
    <3>1. client \in 1..nclient
      BY <1>9, Values DEF Exchange, LockInv, HoldPcs, ClientInv, Clients
    <3>2. access[client].pair = p
      BY <1>9 DEF Exchange, TokenInv
    <3> QED
      BY <3>1, <3>2 DEF Held, Known
  <2>3. CASE Rotate(p) /\ pc' = [pc EXCEPT ![t] = "store"] /\ hand' = [hand EXCEPT ![t] = minted + 1]
    <3>1. /\ p \notin spent /\ spent' = spent \cup {p} /\ minted' = minted + 1
          /\ pc'[t] = "store" /\ hand'[t] = minted + 1
          /\ \A w \in Threads \ {t} : pc'[w] = pc[w] /\ hand'[w] = hand[w]
      BY <2>3 DEF Rotate, Mint
    <3>2. Held' \subseteq Held \cup {minted + 1}
      BY <2>1, <3>1 DEF Held, InHand
    <3>3. Known'
      <4>1. minted \in Nat /\ minted' = minted + 1
        BY <3>1 DEF Pairs
      <4>2. spent' \subseteq 1..minted'
        <5>1. spent \subseteq 1..minted /\ p \in 1..minted /\ spent' = spent \cup {p}
          BY <2>2, <3>1 DEF Known
        <5> HIDE DEF p, IInv, DurableInv, TypeOK
        <5> QED
          BY <4>1, <5>1
      <4>3. Held \subseteq 1..minted /\ db'.pair \in 0..minted
        BY <2>1 DEF Known
      <4>4. Held' \subseteq 1..minted'
        BY <3>2, <4>1, <4>3
      <4>5. db'.pair \in 0..minted'
        BY <4>1, <4>3
      <4> QED
        BY <4>2, <4>4, <4>5 DEF Known
    <3>4. OneLive'
      <4>1. \A n \in Held \cup {db.pair} : n = 0 \/ n \in spent'
        BY <2>2, <3>1 DEF OneLive, Live, Known
      <4> QED
        BY <2>1, <3>2, <4>1 DEF OneLive, Live
    <3>5. Saving'
      BY <2>1, <2>2, <3>1 DEF Saving, Known, Pairs
    <3>6. RowIsLast'
      BY <3>1 DEF RowIsLast, NothingToSave
    <3> QED
      BY <3>3, <3>4, <3>5, <3>6
  <2>4. CASE Rotate(p) /\ pc' = [pc EXCEPT ![t] = "restore"] /\ UNCHANGED hand
    <3>1. /\ p \notin spent /\ spent' = spent \cup {p} /\ minted' = minted + 1
          /\ pc'[t] = "restore" /\ \A w \in Threads \ {t} : pc'[w] = pc[w] /\ hand'[w] = hand[w]
      BY <2>4 DEF Rotate, Mint
    <3>2. Held' \subseteq Held
      BY <2>1, <3>1, HandsDown
    <3>3. Known'
      <4>1. minted \in Nat /\ minted' = minted + 1
        BY <3>1 DEF Pairs
      <4>2. spent' \subseteq 1..minted'
        <5>1. spent \subseteq 1..minted /\ p \in 1..minted /\ spent' = spent \cup {p}
          BY <2>2, <3>1 DEF Known
        <5> HIDE DEF p, IInv, DurableInv, TypeOK
        <5> QED
          BY <4>1, <5>1
      <4>3. Held \subseteq 1..minted /\ db'.pair \in 0..minted
        BY <2>1 DEF Known
      <4>4. Held' \subseteq 1..minted'
        BY <3>2, <4>1, <4>3
      <4>5. db'.pair \in 0..minted'
        BY <4>1, <4>3
      <4> QED
        BY <4>2, <4>4, <4>5 DEF Known
    <3>4. \A n \in Held : n \in spent'
      BY <2>2, <3>1 DEF OneLive, Live, Known
    <3>5. OneLive' /\ RowIsLast'
      BY <2>1, <3>1, <3>2, <3>4 DEF OneLive, Live, RowIsLast
    <3>6. Saving'
      BY <2>1, <3>1 DEF Saving
    <3> QED
      BY <3>3, <3>5, <3>6
  <2>5. CASE pc' = [pc EXCEPT ![t] = "restore"] /\ UNCHANGED <<hand, server>>
    <3>1. Held' \subseteq Held
      BY <2>1, <2>5, HandsDown
    <3>2. (NothingToSave' => NothingToSave) /\ Saving'
      BY <2>1, <2>5 DEF NothingToSave, Saving
    <3> QED
      BY <2>1, <2>5, <3>1, <3>2, HeldFrame
  <2> QED
    BY <1>9, <2>2, <2>3, <2>4, <2>5 DEF Exchange
<1>10. ASSUME NEW t \in Threads, StoreTokens(t) PROVE Goal
  <2>1. /\ UNCHANGED <<client, nclient, hand, db, minted, spent>>
        /\ refresh' = [refresh EXCEPT ![client] = hand[t]]
        /\ pc[t] = "store" /\ pc' = [pc EXCEPT ![t] = "save"]
    BY <1>10 DEF StoreTokens, Store
  <2>2. /\ client \in 1..nclient
        /\ \A w \in Threads \ {t} : pc[w] \notin {"store", "save"}
    BY <1>10, Values DEF StoreTokens, Store, LockInv, HoldPcs, ClientInv, Clients
  <2>3. Held' \subseteq Held
    BY <2>1, <2>2 DEF Held, InHand, Clients
  <2>4. ~NothingToSave'
    BY <2>1 DEF NothingToSave
  <2>5. Saving'
    BY <2>1, <2>2 DEF Saving, Clients
  <2> QED
    BY <2>1, <2>3, <2>4, <2>5, HeldFrame
<1>11. ASSUME NEW t \in Threads, SaveRefreshed(t) PROVE Goal
  <2>1. /\ UNCHANGED <<client, refresh, nclient, minted, spent>> /\ db' = Row(hand[t])
        /\ pc[t] = "save" /\ pc' = [pc EXCEPT ![t] = "clear"] /\ hand' = [hand EXCEPT ![t] = 0]
    BY <1>11 DEF SaveRefreshed, DoRefreshReturns
  <2>2. \A w \in Threads \ {t} : pc[w] \notin {"store", "save"}
    BY <1>11 DEF SaveRefreshed, LockInv, HoldPcs
  <2>3. db'.pair \in Held /\ db'.pair \notin spent
    BY <2>1, Values DEF Row, Saving, Held, ClientInv, Clients
  <2>4. Held' \subseteq Held
    BY <2>1, HandsDown
  <2>5. OneLive'
    BY <2>1, <2>3, <2>4 DEF OneLive, Live
  <2>8. Known'
    <3>1. minted \in Nat
      BY DEF Pairs
    <3>2. db'.pair \in 1..minted /\ Held \subseteq 1..minted /\ spent \subseteq 1..minted
      BY <2>3 DEF Known
    <3> QED
      BY <2>1, <2>4, <3>1, <3>2 DEF Known
  <2>6. RowIsLast'
    BY <2>1, <2>3 DEF RowIsLast
  <2>7. Saving'
    BY <2>1, <2>2 DEF Saving
  <2> QED
    BY <2>5, <2>6, <2>7, <2>8
<1>12. ASSUME NEW t \in Threads, CreateSession(t) \/ PersistLogin(t) PROVE Goal
  BY <1>12 DEF CreateSession, PersistLogin, NoLogin
<1>13. ASSUME NEW t \in Threads, DropClient(t) PROVE Goal
  <2>1. /\ UNCHANGED <<refresh, nclient, hand, db, minted, spent>> /\ pc'[t] = "erase"
        /\ \A w \in Threads \ {t} : pc'[w] = pc[w] /\ hand'[w] = hand[w]
    BY <1>13 DEF DropClient
  <2>2. \A w \in Threads : pc[w] \notin {"store", "save"}
    BY <1>13 DEF DropClient, LockInv, HoldPcs
  <2>3. Held' \subseteq Held
    BY <2>1, HandsDown
  <2>4. (NothingToSave' => NothingToSave) /\ Saving'
    BY <2>1, <2>2 DEF NothingToSave, Saving
  <2> QED
    BY <2>1, <2>3, <2>4, HeldFrame
<1>14. ASSUME NEW t \in Threads, EraseRow(t) PROVE Goal
  <2>1. /\ UNCHANGED <<client, refresh, nclient, minted, spent>> /\ db'.pair = 0
        /\ pc[t] = "erase" /\ pc'[t] = "idle"
        /\ \A w \in Threads \ {t} : pc'[w] = pc[w] /\ hand'[w] = hand[w]
    BY <1>14 DEF EraseRow, NoRow
  <2>2. Held' \subseteq Held
    BY <2>1, HandsDown
  <2>3. OneLive' /\ Known'
    BY <2>1, <2>2 DEF OneLive, Live, Known, Pairs
  <2>4. RowIsLast'
    BY <2>1 DEF RowIsLast, Known
  <2>5. Saving'
    BY <2>1 DEF Saving
  <2> QED
    BY <2>3, <2>4, <2>5
<1> QED
  BY <1>1, <1>3, <1>4, <1>5, <1>6, <1>7, <1>8, <1>9, <1>10, <1>11, <1>12, <1>13, <1>14, StepKinds DEF RowStep

\* The process starts with at most one pair.
LEMMA InitDurableInv == NobodyLogsIn /\ Init => DurableInv
<1> SUFFICES ASSUME NobodyLogsIn, Init PROVE DurableInv
  OBVIOUS
<1>1. PICK s \in Starts :
        /\ db = IF s \in {"empty", "guest"} THEN NoRow ELSE [pair |-> 1, plain |-> s = "legacy"]
        /\ minted = StoredPair(s) /\ client = (IF Running(s) THEN 1 ELSE 0) /\ form = ~Running(s)
  BY DEF Init
<1>2. spent = {} /\ nclient = client /\ InHand = {} /\ NothingToSave
  BY DEF Init, InHand, NothingToSave
<1>3. Held \subseteq {1} /\ (Held # {} => Running(s)) /\ db.pair \in {0, minted} /\ minted \in {0, 1}
  <2>1. \A o \in 1..MaxClient : refresh[o] = IF o = client THEN 1 ELSE 0
    BY DEF Init
  <2> QED
    BY <1>1, <1>2, <2>1 DEF Held, StoredPair, NoRow, Running
<1>4. NoLogin
  BY <1>1 DEF Init, NoLogin, NobodyLogsIn, Running
<1>5. OneLive /\ Known
  BY <1>1, <1>2, <1>3 DEF OneLive, Live, Known, StoredPair, Running
<1>6. Saving /\ RowIsLast
  BY <1>2 DEF Saving, RowIsLast, NothingToSave
<1> QED
  BY <1>4, <1>5, <1>6 DEF DurableInv

\* Outside the moments between the server's rotation and SaveSession, a kill of the
\* process leaves the last refresh token that works in the row, whatever replies
\* were lost, however startup, restores, refreshes and logouts were interleaved.
THEOREM NoSessionLost ==
    ASSUME "dbfail" \notin Env, NoRivalReseal, NobodyLogsIn
    PROVE  Spec => []DurableSession
<1> DEFINE Inv == IInv /\ TokenInv /\ SafeReseal /\ DurableInv
<1>1. Init => Inv
  BY InitIInv, InitTokenInv, InitSafeReseal, InitDurableInv
<1>2. Inv /\ [Next]_vars => Inv'
  BY StepIInv, StepTokenInv, StepSafeReseal, StepNoLogin, StepDurableInv DEF IInv, DurableInv
<1>3. Inv => DurableSession
  BY DurableImplies DEF IInv
<1> QED
  BY <1>1, <1>2, <1>3, PTL DEF Spec
=============================================================================
