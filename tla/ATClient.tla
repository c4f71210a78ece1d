------------------------------- MODULE ATClient -------------------------------
(***************************************************************************)
(* The session core of Mixko: services/at_client.go (the shared xrpc       *)
(* client, WithClient, RefreshSession), services/auth.go (CheckSession,    *)
(* RestoreSession, Login, Logout) and the session row of database/db.go,   *)
(* run by concurrent goroutines.                                           *)
(*                                                                         *)
(* Every goroutine is a thread with a program counter; a step runs it from *)
(* one point another goroutine can observe to the next.  Tokens come in    *)
(* pairs: pair n is the n-th (accessJwt, refreshJwt) the server minted.    *)
(***************************************************************************)
EXTENDS Integers

CONSTANTS Boot,       \* App.startup: CheckSession with the unbounded app context
          Page,       \* initApp of the web page: RestoreSession
          Workers,    \* SyncService goroutines, started when startup is over
          Users,      \* calls the page makes for the user
          UserOps,    \* which of "call", "login", "logout" the page may ask for
          Starts,     \* the situations the process may start in
          Env,        \* the misfortunes that may happen
          MaxPair,    \* bound: token pairs the server mints
          MaxClient,  \* bound: xrpc.Client values the process allocates
          NoThread

Threads == Boot \cup Page \cup Workers \cup Users

ASSUME NoThreadAssumption == NoThread \notin Threads
ASSUME BoundAssumption == /\ MaxPair \in Nat \ {0}
                          /\ MaxClient \in Nat \ {0}
ASSUME EnvAssumption ==
    /\ UserOps \subseteq {"call", "login", "logout"}
    /\ Starts \subseteq {"empty", "stored", "legacy", "signedin", "guest"}
    /\ Env \subseteq {"netfail", "lost", "dbfail", "scope", "stall"}

VARIABLES
    client,    \* ATClient.client, 0 for nil
    access,    \* access[o]: Auth.AccessJwt of the o-th xrpc.Client allocated
    refresh,   \* refresh[o]: its Auth.RefreshJwt
    kept,      \* kept[o]: the answer to "Remember me" in the login it stems from
    nclient,   \* xrpc.Client values allocated so far
    mu,        \* the goroutine that holds ATClient.mu across a blocking call
    inflight,  \* ATClient.inflight: a refreshCall is named by its leader
    pc,        \* where each goroutine is
    op,        \* what it runs
    cl,        \* WithClient: client
    sent,      \* WithClient: the token its request in flight carries
    retry,     \* WithClient: it is at the second attempt
    prev,      \* doRefresh: previousAccess
    hand,      \* the pair read from the row, or received from the server
    keep,      \* Login: remember
    waitOn,    \* the refreshCall it waits for in RefreshSession
    verdict,   \* the error of that refreshCall, as far as the goroutine knows
    db,        \* the row of session_info
    form,      \* the page shows the login form
    minted,    \* server: number of token pairs handed out
    spent,     \* server: pairs whose refresh token has been used
    dead       \* server: pairs whose access token is no longer accepted

session == <<client, access, refresh, kept, nclient>>
locks   == <<mu, inflight>>
request == <<op, cl, sent, retry>>
data    == <<prev, hand, keep>>
waiting == <<waitOn, verdict>>
server  == <<minted, spent, dead>>
vars    == <<session, locks, pc, request, data, waiting, db, form, server>>

Pairs   == 0..MaxPair                    \* 0: no pair
Clients == 0..MaxClient                  \* 0: nil
Jwts    == [kind : {"access", "refresh", "torn"}, pair : Pairs]
NoJwt      == [kind |-> "access", pair |-> 0]
Access(n)  == [kind |-> "access", pair |-> n]
Refresh(n) == [kind |-> "refresh", pair |-> n]

\* A Go string is two words.  A reader that races with the assignment of an
\* AccessJwt may combine the words of two tokens: not a token at all.
Torn == [kind |-> "torn", pair |-> 0]

Rows   == [pair : Pairs, plain : BOOLEAN]
NoRow  == [pair |-> 0, plain |-> FALSE]
Row(n) == [pair |-> n, plain |-> FALSE]

Ops == {"none", "call", "check", "restore", "handle", "login", "logout"}

\* A refresh is led from "lock" to "clear"; mu is held from "swap" on.
HoldPcs == {"swap", "exchange", "store", "save", "restore"}
LeadPcs == {"lock", "clear"} \cup HoldPcs
Pcs == LeadPcs \cup {"idle", "done", "load", "reseal", "install", "show", "get",
                     "send", "net", "refresh", "wait", "close",
                     "create", "persist", "drop", "erase"}

Resting == {"idle", "done"}

\* Init: the saved row, the memory and the screen of each situation.
StoredPair(s) == IF s = "empty" THEN 0 ELSE 1
Running(s)    == s \in {"signedin", "guest"}

Init ==
  \E s \in Starts :
    /\ db = IF s \in {"empty", "guest"} THEN NoRow
            ELSE [pair |-> 1, plain |-> s = "legacy"]
    /\ minted = StoredPair(s) /\ spent = {} /\ dead = {}
    /\ client  = IF Running(s) THEN 1 ELSE 0
    /\ nclient = client
    /\ access  = [o \in 1..MaxClient |-> IF o = client THEN Access(1) ELSE NoJwt]
    /\ refresh = [o \in 1..MaxClient |-> IF o = client THEN 1 ELSE 0]
    /\ kept    = [o \in 1..MaxClient |-> o = client /\ s = "signedin"]
    /\ form = ~Running(s)
    /\ mu = NoThread /\ inflight = NoThread
    /\ pc = [t \in Threads |->
               IF t \notin Boot \cup Page THEN "idle"
               ELSE IF Running(s) THEN "done" ELSE "load"]
    /\ op = [t \in Threads |->
               IF pc[t] # "load" THEN "none" ELSE IF t \in Boot THEN "check" ELSE "restore"]
    /\ cl = [t \in Threads |-> 0] /\ sent = [t \in Threads |-> NoJwt]
    /\ retry = [t \in Threads |-> FALSE] /\ prev = [t \in Threads |-> NoJwt]
    /\ hand = [t \in Threads |-> 0] /\ keep = [t \in Threads |-> FALSE]
    /\ waitOn = [t \in Threads |-> NoThread]
    /\ verdict = [t \in Threads |-> "none"]

Goto(t, l) == pc' = [pc EXCEPT ![t] = l]

(***************************************************************************)
(* Operations begin.                                                       *)
(***************************************************************************)
MayCall(t) == \/ t \in Workers /\ \A b \in Boot : pc[b] = "done"
              \/ t \in Users /\ "call" \in UserOps /\ ~form

Begin(t, o, l) == /\ pc[t] = "idle"
                  /\ Goto(t, l)
                  /\ op' = [op EXCEPT ![t] = o]
                  /\ UNCHANGED <<session, locks, cl, sent, retry, prev, hand,
                                 waiting, db, form, server>>

BeginCall(t) == /\ MayCall(t)
                /\ Begin(t, "call", "get")
                /\ UNCHANGED keep

BeginLogout(t) == /\ t \in Users /\ "logout" \in UserOps /\ ~form
                  /\ Begin(t, "logout", "get")
                  /\ UNCHANGED keep

\* The submit button stays enabled: a second login may start before the first ends.
BeginLogin(t) == /\ t \in Users /\ "login" \in UserOps /\ form
                 /\ Begin(t, "login", "create")
                 /\ \E k \in BOOLEAN : keep' = [keep EXCEPT ![t] = k]

(***************************************************************************)
(* An operation, or the WithClient in it, returns: its locals are gone.    *)
(***************************************************************************)
Leave(t, l, o) == /\ Goto(t, l)
                  /\ op' = [op EXCEPT ![t] = o]
                  /\ cl' = [cl EXCEPT ![t] = 0]
                  /\ sent' = [sent EXCEPT ![t] = NoJwt]
                  /\ retry' = [retry EXCEPT ![t] = FALSE]
                  /\ hand' = [hand EXCEPT ![t] = 0]
                  /\ keep' = [keep EXCEPT ![t] = FALSE]
                  /\ UNCHANGED prev

\* The caller of WithClient goes on: RestoreSession reads the handle, Logout
\* forgets the client whatever the answer was.
Return(t, ok) == \/ op[t] = "call"    /\ Leave(t, "idle", "none")
                 \/ op[t] = "check"   /\ Leave(t, "done", "none")
                 \/ op[t] = "logout"  /\ Leave(t, "drop", "logout")
                 \/ op[t] = "restore" /\ IF ok THEN Leave(t, "load", "handle")
                                               ELSE Leave(t, "done", "none")

(***************************************************************************)
(* database.GetSession, with its re-encryption of a plaintext row.         *)
(***************************************************************************)
AfterLoad(t) == IF op[t] = "handle" THEN "show" ELSE "install"

LoadSession(t) ==
    /\ pc[t] = "load"
    /\ \/ /\ db.pair = 0 \/ "dbfail" \in Env
          /\ Leave(t, "done", "none")
       \/ /\ db.pair # 0
          /\ Goto(t, IF db.plain THEN "reseal" ELSE AfterLoad(t))
          /\ hand' = [hand EXCEPT ![t] = db.pair]
          /\ keep' = [keep EXCEPT ![t] = TRUE]
          /\ UNCHANGED <<request, prev>>
    /\ UNCHANGED <<session, locks, waiting, db, form, server>>

Reseal(t) ==
    /\ pc[t] = "reseal"
    /\ \/ db' = Row(hand[t])
       \/ "dbfail" \in Env /\ UNCHANGED db
    /\ Goto(t, AfterLoad(t))
    /\ UNCHANGED <<session, locks, request, data, waiting, form, server>>

\* RestoreSession has a handle to return: the page leaves the login form.
Show(t) == /\ pc[t] = "show"
           /\ form' = FALSE
           /\ Leave(t, "done", "none")
           /\ UNCHANGED <<session, locks, waiting, db, server>>

(***************************************************************************)
(* SetClient, from CheckSession and from Login.                            *)
(***************************************************************************)
\* Mutant: SetClient does not take mu.
Install_Unlocked(t) ==
    /\ pc[t] = "install"
    /\ nclient < MaxClient
    /\ nclient' = nclient + 1
    /\ client' = nclient + 1
    /\ access' = [access EXCEPT ![nclient + 1] = Access(hand[t])]
    /\ refresh' = [refresh EXCEPT ![nclient + 1] = hand[t]]
    /\ kept' = [kept EXCEPT ![nclient + 1] = keep[t]]
    /\ Goto(t, IF op[t] # "login" THEN "get"
               ELSE IF keep[t] THEN "persist" ELSE "erase")
    /\ UNCHANGED <<locks, request, data, waiting, db, form, server>>

Install(t) ==
    /\ pc[t] = "install"
    /\ mu = NoThread
    /\ nclient < MaxClient
    /\ nclient' = nclient + 1
    /\ client' = nclient + 1
    /\ access' = [access EXCEPT ![nclient + 1] = Access(hand[t])]
    /\ refresh' = [refresh EXCEPT ![nclient + 1] = hand[t]]
    /\ kept' = [kept EXCEPT ![nclient + 1] = keep[t]]
    /\ Goto(t, IF op[t] # "login" THEN "get"
               ELSE IF keep[t] THEN "persist" ELSE "erase")
    /\ UNCHANGED <<locks, request, data, waiting, db, form, server>>

(***************************************************************************)
(* WithClient: one request, at most one refresh, at most one retry.        *)
(***************************************************************************)
GetClient(t) ==
    /\ pc[t] = "get"
    /\ mu = NoThread
    /\ \/ client = 0 /\ Return(t, FALSE)
       \/ /\ client # 0
          /\ Goto(t, "send")
          /\ cl' = [cl EXCEPT ![t] = client]
          /\ UNCHANGED <<op, sent, retry, data>>
    /\ UNCHANGED <<session, locks, waiting, db, form, server>>

\* doRefresh assigns client.Auth.AccessJwt at these points, under mu; the
\* request reads it without a lock.
BeingWritten(o) == o = client /\ \E r \in Threads : pc[r] \in {"swap", "store", "restore"}

Send(t) ==
    /\ pc[t] = "send"
    /\ \/ sent' = [sent EXCEPT ![t] = access[cl[t]]]
       \/ BeingWritten(cl[t]) /\ sent' = [sent EXCEPT ![t] = Torn]
    /\ Goto(t, "net")
    /\ UNCHANGED <<session, locks, op, cl, retry, data, waiting, db, form, server>>

\* isAuthExpired: a token the server does not accept, or a token without the
\* scope the endpoint wants (also InvalidToken).
Accepted(j) == j.kind = "access" /\ j.pair \notin dead
Refused(j)  == ~Accepted(j) \/ "scope" \in Env

Answer(t) ==
    /\ pc[t] = "net"
    /\ \/ Accepted(sent[t]) /\ Return(t, TRUE)
       \/ /\ Refused(sent[t]) /\ ~retry[t]
          /\ Goto(t, "refresh")
          /\ sent' = [sent EXCEPT ![t] = NoJwt]
          /\ UNCHANGED <<op, cl, retry, data>>
       \/ Refused(sent[t]) /\ retry[t] /\ Return(t, FALSE)
       \/ "netfail" \in Env /\ Return(t, FALSE)
    /\ UNCHANGED <<session, locks, waiting, db, form, server>>

Retry(t) == /\ Goto(t, "send")
            /\ retry' = [retry EXCEPT ![t] = TRUE]
            /\ UNCHANGED <<op, cl, sent, data>>

(***************************************************************************)
(* RefreshSession: lead a refresh or share the one in flight.              *)
(***************************************************************************)
\* Mutant: refreshMu does not cover the look at inflight.
Lead_Unchecked(t) == /\ pc[t] = "refresh"
                     /\ inflight' = t
                     /\ Goto(t, "lock")
                     /\ UNCHANGED <<session, mu, request, data, waiting, db, form, server>>

Lead(t) == /\ pc[t] = "refresh"
           /\ inflight = NoThread
           /\ inflight' = t
           /\ Goto(t, "lock")
           /\ UNCHANGED <<session, mu, request, data, waiting, db, form, server>>

Join(t) == /\ pc[t] = "refresh"
           /\ inflight # NoThread
           /\ waitOn' = [waitOn EXCEPT ![t] = inflight]
           /\ Goto(t, "wait")
           /\ UNCHANGED <<session, locks, request, data, verdict, db, form, server>>

LeaveWait(t) == /\ waitOn' = [waitOn EXCEPT ![t] = NoThread]
                /\ verdict' = [verdict EXCEPT ![t] = "none"]
                /\ UNCHANGED <<session, locks, db, form, server>>

Observe(t) == /\ pc[t] = "wait"
              /\ \/ verdict[t] = "ok" /\ Retry(t)
                 \/ verdict[t] = "err" /\ Return(t, FALSE)
              /\ LeaveWait(t)

\* ctx.Done(): every context but the one of startup has a deadline.
WaitTimeout(t) == /\ pc[t] = "wait"
                  /\ t \notin Boot
                  /\ Return(t, FALSE)
                  /\ LeaveWait(t)

\* doRefresh begins: c.mu.Lock(), held until it returns.
AcquireMu(t) ==
    /\ pc[t] = "lock"
    /\ mu = NoThread
    /\ \/ /\ client = 0
          /\ Goto(t, "clear")
          /\ verdict' = [verdict EXCEPT ![t] = "err"]
          /\ UNCHANGED mu
       \/ /\ client # 0
          /\ Goto(t, "swap")
          /\ mu' = t
          /\ UNCHANGED verdict
    /\ UNCHANGED <<session, inflight, request, data, waitOn, db, form, server>>

\* The refresh token takes the place of the access token.
SwapIn(t) == /\ pc[t] = "swap"
             /\ prev' = [prev EXCEPT ![t] = access[client]]
             /\ access' = [access EXCEPT ![client] = Refresh(refresh[client])]
             /\ Goto(t, "exchange")
             /\ UNCHANGED <<client, refresh, kept, nclient, locks, request, hand, keep,
                            waiting, db, form, server>>

(***************************************************************************)
(* com.atproto.server.refreshSession.  A refresh token is single-use: the  *)
(* server mints a pair for an unused one and refuses a used one.  The call *)
(* may also fail before the server acts, or after it ("lost").             *)
(***************************************************************************)
Mint == minted < MaxPair /\ minted' = minted + 1

Rotate(n) == n \notin spent /\ Mint /\ spent' = spent \cup {n} /\ UNCHANGED dead

Exchange(t) ==
    /\ pc[t] = "exchange"
    /\ \/ /\ Rotate(access[client].pair)
          /\ Goto(t, "store")
          /\ hand' = [hand EXCEPT ![t] = minted + 1]
       \/ /\ "lost" \in Env
          /\ Rotate(access[client].pair)
          /\ Goto(t, "restore")
          /\ UNCHANGED hand
       \/ /\ access[client].pair \in spent \/ "netfail" \in Env \/ minted = MaxPair
          /\ Goto(t, "restore")
          /\ UNCHANGED <<hand, server>>
    /\ UNCHANGED <<session, locks, request, prev, keep, waiting, db, form>>

Store(t, a, r) == /\ pc[t] = "store"
                  /\ access' = [access EXCEPT ![client] = a]
                  /\ refresh' = [refresh EXCEPT ![client] = r]
                  /\ Goto(t, "save")
                  /\ UNCHANGED <<client, kept, nclient, inflight, request, data, waiting,
                                 db, form, server>>

\* Mutants: the used refresh token is kept; the old access token is kept; mu is
\* released before the session is saved.
StoreTokens_KeepsRefresh(t) == Store(t, Access(hand[t]), refresh[client]) /\ UNCHANGED mu
StoreTokens_KeepsAccess(t) == Store(t, prev[t], hand[t]) /\ UNCHANGED mu
StoreTokens_Unlocks(t) == Store(t, Access(hand[t]), hand[t]) /\ mu' = NoThread

StoreTokens(t) == Store(t, Access(hand[t]), hand[t]) /\ UNCHANGED mu

\* doRefresh returns: its locals are gone and mu is free.
DoRefreshReturns(t) == /\ mu' = NoThread
                       /\ prev' = [prev EXCEPT ![t] = NoJwt]
                       /\ hand' = [hand EXCEPT ![t] = 0]
                       /\ Goto(t, "clear")
                       /\ UNCHANGED <<inflight, request, keep, waitOn, form, server>>

\* Mutant: the refreshed session is not saved.
SaveRefreshed_Not(t) == /\ pc[t] = "save"
                        /\ verdict' = [verdict EXCEPT ![t] = "ok"]
                        /\ DoRefreshReturns(t)
                        /\ UNCHANGED <<session, db>>

SaveRefreshed(t) ==
    /\ pc[t] = "save"
    /\ \/ /\ db' = Row(hand[t])
          /\ verdict' = [verdict EXCEPT ![t] = "ok"]
       \/ /\ "dbfail" \in Env
          /\ verdict' = [verdict EXCEPT ![t] = "err"]
          /\ UNCHANGED db
    /\ DoRefreshReturns(t)
    /\ UNCHANGED session

\* Mutants: the access token is not put back; mu is not released.
RestoreAccess_Not(t) ==
    /\ pc[t] = "restore"
    /\ verdict' = [verdict EXCEPT ![t] = "err"]
    /\ DoRefreshReturns(t)
    /\ UNCHANGED <<session, db>>

RestoreAccess_KeepsMu(t) ==
    /\ pc[t] = "restore"
    /\ access' = [access EXCEPT ![client] = prev[t]]
    /\ verdict' = [verdict EXCEPT ![t] = "err"]
    /\ Goto(t, "clear")
    /\ UNCHANGED <<client, refresh, kept, nclient, locks, request, data, waitOn, db, form, server>>

RestoreAccess(t) ==
    /\ pc[t] = "restore"
    /\ access' = [access EXCEPT ![client] = prev[t]]
    /\ verdict' = [verdict EXCEPT ![t] = "err"]
    /\ DoRefreshReturns(t)
    /\ UNCHANGED <<client, refresh, kept, nclient, db>>

ClearInflight(t) == /\ pc[t] = "clear"
                    /\ inflight' = NoThread
                    /\ Goto(t, "close")
                    /\ UNCHANGED <<session, mu, request, data, waiting, db, form, server>>

\* Mutant: a failed refresh returns without close(call.done).
CloseDone_OnlyOnSuccess(t) ==
    /\ pc[t] = "close"
    /\ verdict' = [w \in Threads |->
                     IF w = t THEN "none"
                     ELSE IF waitOn[w] = t /\ verdict[t] = "ok" THEN verdict[t] ELSE verdict[w]]
    /\ \/ verdict[t] = "ok" /\ Retry(t)
       \/ verdict[t] = "err" /\ Return(t, FALSE)
    /\ UNCHANGED <<session, locks, waitOn, db, form, server>>

\* close(call.done): every waiter can read call.err from now on.
CloseDone(t) ==
    /\ pc[t] = "close"
    /\ verdict' = [w \in Threads |->
                     IF w = t THEN "none"
                     ELSE IF pc[w] = "wait" /\ waitOn[w] = t /\ verdict[w] = "none"
                     THEN verdict[t] ELSE verdict[w]]
    /\ \/ verdict[t] = "ok" /\ Retry(t)
       \/ verdict[t] = "err" /\ Return(t, FALSE)
    /\ UNCHANGED <<session, locks, waitOn, db, form, server>>

(***************************************************************************)
(* Login after its form, Logout after its request.                         *)
(***************************************************************************)
CreateSession(t) ==
    /\ pc[t] = "create"
    /\ \/ /\ Mint
          /\ hand' = [hand EXCEPT ![t] = minted + 1]
          /\ Goto(t, "install")
          /\ UNCHANGED <<request, prev, keep, spent, dead>>
       \/ /\ "netfail" \in Env \/ minted = MaxPair
          /\ Leave(t, "idle", "none")
          /\ UNCHANGED server
    /\ UNCHANGED <<session, locks, waiting, db, form>>

PersistLogin(t) ==
    /\ pc[t] = "persist"
    /\ \/ db' = Row(hand[t]) /\ form' = FALSE
       \/ "dbfail" \in Env /\ UNCHANGED <<db, form>>
    /\ Leave(t, "idle", "none")
    /\ UNCHANGED <<session, locks, waiting, server>>

DropClient(t) == /\ pc[t] = "drop"
                 /\ mu = NoThread
                 /\ client' = 0
                 /\ Goto(t, "erase")
                 /\ UNCHANGED <<access, refresh, kept, nclient, locks, request, data,
                                waiting, db, form, server>>

\* ClearSession; Login ignores its error and is over, so the form goes away.
EraseRow(t) ==
    /\ pc[t] = "erase"
    /\ \/ db' = NoRow
       \/ "dbfail" \in Env /\ UNCHANGED db
    /\ form' = (form /\ op[t] # "login")
    /\ Leave(t, "idle", "none")
    /\ UNCHANGED <<session, locks, waiting, server>>

\* The server stops accepting an access token: it expires or is revoked.
Expire(n) == /\ n \in 1..minted
             /\ dead' = dead \cup {n}
             /\ UNCHANGED <<session, locks, pc, request, data, waiting, db, form,
                            minted, spent>>

(***************************************************************************)
(* The whole.                                                              *)
(***************************************************************************)
BeginAny(t) == BeginCall(t) \/ BeginLogin(t) \/ BeginLogout(t)

Network(t) == Answer(t) \/ Exchange(t) \/ CreateSession(t)

Compute(t) == \/ LoadSession(t) \/ Reseal(t) \/ Show(t) \/ Install(t)
              \/ GetClient(t) \/ Send(t)
              \/ Lead(t) \/ Join(t) \/ Observe(t) \/ WaitTimeout(t)
              \/ AcquireMu(t) \/ SwapIn(t) \/ StoreTokens(t) \/ SaveRefreshed(t)
              \/ RestoreAccess(t) \/ ClearInflight(t) \/ CloseDone(t)
              \/ PersistLogin(t) \/ DropClient(t) \/ EraseRow(t)

Next == \/ \E t \in Threads : BeginAny(t) \/ Network(t) \/ Compute(t)
        \/ \E n \in 1..MaxPair : Expire(n)

Spec == Init /\ [][Next]_vars

\* A goroutine that can run does, and an RWMutex starves nobody (SF).  A
\* request ends because its context does; that of startup has no deadline.
Fairness == \A t \in Threads :
               /\ SF_vars(Compute(t))
               /\ ~("stall" \in Env /\ t \in Boot) => WF_vars(Network(t))

FairSpec == Spec /\ Fairness

(***************************************************************************)
(* Properties.                                                             *)
(***************************************************************************)
\* Every variable holds a value of its type.
LocalOK == /\ pc \in [Threads -> Pcs]
           /\ op \in [Threads -> Ops]
           /\ cl \in [Threads -> Clients]
           /\ sent \in [Threads -> Jwts] /\ prev \in [Threads -> Jwts]
           /\ hand \in [Threads -> Pairs]
           /\ retry \in [Threads -> BOOLEAN] /\ keep \in [Threads -> BOOLEAN]

TypeOK == /\ client \in Clients /\ nclient \in Clients
          /\ access \in [1..MaxClient -> Jwts]
          /\ refresh \in [1..MaxClient -> Pairs]
          /\ kept \in [1..MaxClient -> BOOLEAN]
          /\ mu \in Threads \cup {NoThread}
          /\ inflight \in Threads \cup {NoThread}
          /\ LocalOK
          /\ waitOn \in [Threads -> Threads \cup {NoThread}]
          /\ verdict \in [Threads -> {"none", "ok", "err"}]
          /\ db \in Rows
          /\ form \in BOOLEAN
          /\ minted \in Pairs
          /\ spent \in SUBSET Pairs
          /\ dead \in SUBSET Pairs

\* The refresh token stands in for the access token of the current client only,
\* and only while a refresh holds mu (doRefresh, at_client.go:227-244): no path
\* leaves it there.
SwapConfined ==
    \A o \in 1..MaxClient :
      access[o].kind # "access" =>
         /\ o = client
         /\ \E t \in Threads : mu = t /\ pc[t] \in {"exchange", "store", "restore"}

\* A goroutine that waits for a shared refresh without a verdict waits for one
\* that is still to be closed (RefreshSession, at_client.go:195-214).
NoLostWakeup ==
    \A w \in Threads :
      pc[w] = "wait" /\ verdict[w] = "none" =>
         /\ waitOn[w] \in Threads
         /\ pc[waitOn[w]] \in LeadPcs \cup {"close"}

\* No refresh token is presented twice: "Refresh tokens are single-use: firing
\* two in parallel would invalidate the session" (at_client.go:63-64).
NoReplayedRefresh ==
    \A t \in Threads : pc[t] = "exchange" => refresh[client] \notin spent

\* When the retry of WithClient goes out, no refresh has replaced the access token it
\* carries: "the same pointer now carries the new token" (at_client.go:274-275).  It is
\* not said that the service takes it: of a client that a login has replaced since, the
\* retry may carry the very token that was refused (at_client.go:276).
RetryCarriesNewToken ==
    [][\A t \in Threads :
          pc[t] = "send" /\ retry[t] /\ pc'[t] = "net" /\ sent'[t].kind = "access"
             => sent'[t].pair \notin spent]_vars

\* Outside the moments between the server's rotation and SaveSession, a kill of
\* the process leaves a row as good as what the process had: as long as one client
\* in memory has a refresh token that still works, so has the row (at_client.go:246).
DurableSession ==
    (\A t \in Threads : pc[t] \notin {"store", "save"}) /\ db.pair \in spent
      => \A o \in 1..nclient : refresh[o] \in spent

\* Once Logout has removed the client and erased the row, no refresh that was
\* under way writes the row again (auth.go:130-131 against at_client.go:246).
LogoutSticks ==
    client = 0 /\ ~form /\ (\A t \in Threads : pc[t] # "erase") => db = NoRow

\* The row a session ends up in memory with is the row on disk: no goroutine's
\* late write undoes a newer one.
DiskFollowsMemory ==
    client # 0 /\ kept[client] /\ (\A t \in Threads : pc[t] \notin {"save", "persist"})
      => db.pair = refresh[client]

\* Every operation that begins ends.
OperationsEnd == \A t \in Threads : pc[t] \notin Resting ~> pc[t] \in Resting

\* A stalled connection "would hang a goroutine for the lifetime of the process"
\* without a bound (at_client.go:45-46): every operation that has one ends.
BoundedOperationsEnd ==
    \A t \in Threads \ Boot : pc[t] \notin Resting ~> pc[t] \in Resting

\* RefreshSession, seen by its callers, is SharedRefresh: whose refresh each takes
\* part in, and what those who joined have been told (at_client.go:191-217).
Party == [t \in Threads |-> IF pc[t] \in LeadPcs \cup {"close"} THEN t
                           ELSE IF pc[t] = "wait" THEN waitOn[t] ELSE NoThread]
Told  == [t \in Threads |-> IF pc[t] = "wait" THEN verdict[t] ELSE "none"]

Shared == INSTANCE SharedRefresh WITH Callers <- Threads, NoCaller <- NoThread,
                                      open <- inflight, party <- Party, verdict <- Told
SharesOneRefresh == Shared!Spec
=============================================================================
