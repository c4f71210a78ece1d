--------------------------------- MODULE Sync ---------------------------------
(***************************************************************************)
(* services/sync.go: the background goroutines of Mixko.  "poll" checks    *)
(* for new activity every minute; "jet" holds a Jetstream subscription to  *)
(* the account's own repository and puts a token in a one-slot mailbox for *)
(* every commit; "trigger" takes the token and checks as well.  Both       *)
(* checkers share what was last seen under SyncService.mu, but fetch and   *)
(* emit without it.                                                        *)
(*                                                                         *)
(* The three things a check looks at are counts (unread notifications,     *)
(* unread messages) or an identity (the newest post): numbers, here.       *)
(***************************************************************************)
EXTENDS Integers, FiniteSets

CONSTANTS Accounts,    \* the accounts a user may sign in to
          NoAccount,
          NHosts,      \* Len(jetstreamHosts)
          UpHosts,     \* those that take connections
          MaxLevel,    \* bound: activity of one kind in one account
          MaxLogins,   \* bound: sign-ins while the goroutines run
          Active,      \* the kinds of activity that may occur
          Acts         \* what else may occur: "read", "netfail", "stop"

ASSUME HostsAssumption == NHosts \in Nat \ {0} /\ UpHosts \subseteq 0..(NHosts - 1)
ASSUME LevelAssumption == MaxLevel \in Nat /\ MaxLogins \in Nat
ASSUME AccountAssumption == NoAccount \notin Accounts

Kinds == {"notifications", "chat", "timeline"}

ASSUME ActsAssumption == Active \subseteq Kinds /\ Acts \subseteq {"read", "netfail", "stop"}

Checkers == {"poll", "trigger"}

VARIABLES
    account,   \* client.Auth.Did of ATClient.client, NoAccount for no client
    ctxDone,   \* the context of Start is cancelled
    pc,        \* where each goroutine is
    at,        \* checkForUpdates: what it is looking at
    got,       \* checkForUpdates: what the request brought
    last,      \* lastUnreadCount, lastUnreadChatCount, lastTopPostCID
    mailbox,   \* the channel trigger holds its token
    did,       \* consumeJetstream: the repository subscribed to
    attempt,   \* jetstreamLoop: attempt, modulo NHosts
    level,     \* server: level[a][k], the activity of kind k in account a
    logins,    \* sign-ins so far
    news,      \* history: news[k] has arrived and the page was not told (0: nothing)
    told,      \* history: the newest posts the page was told of
    pending,   \* history: a commit arrived after the last check of trigger began
    overlap    \* history: two checks have been under way at once

server == <<level, logins>>
check  == <<at, got, last>>
stream == <<did, attempt>>
ghost  == <<news, told, pending, overlap>>
vars   == <<account, ctxDone, pc, check, mailbox, stream, server, ghost>>

Levels == 0..MaxLevel
CheckPcs == {"select", "guard", "fetch", "store", "tell", "settle", "end"}
JetPcs   == {"look", "dial", "read", "nap", "end"}

Init == /\ account \in Accounts \cup {NoAccount}
        /\ ctxDone = FALSE
        /\ pc = [g \in Checkers \cup {"jet"} |-> IF g = "jet" THEN "look" ELSE "select"]
        /\ at = [g \in Checkers |-> "notifications"]
        /\ got = [g \in Checkers |-> 0]
        /\ last = [k \in Kinds |-> 0]
        /\ mailbox = FALSE
        /\ did = NoAccount /\ attempt = 0
        /\ level = [a \in Accounts |-> [k \in Kinds |-> 0]] /\ logins = 0
        /\ news = [k \in Kinds |-> 0] /\ told = {}
        /\ pending = FALSE /\ overlap = FALSE

Goto(g, l) == pc' = [pc EXCEPT ![g] = l]

(***************************************************************************)
(* The loops around a check.                                               *)
(***************************************************************************)
Begins(g) ==
    /\ Goto(g, "guard")
    /\ overlap' = (overlap \/ \E h \in Checkers \ {g} : pc[h] \in {"guard", "fetch", "store", "tell"})
    /\ UNCHANGED <<account, ctxDone, check, stream, server, news, told, pending>>

Tick == /\ pc["poll"] = "select"
        /\ Begins("poll")
        /\ UNCHANGED mailbox

TakeToken == /\ pc["trigger"] = "select"
             /\ mailbox
             /\ mailbox' = FALSE
             /\ Begins("trigger")

\* Mutant: "Absorb whatever lands while the refresh settles" taken literally.
Settle_Drains == /\ pc["trigger"] = "settle"
                 /\ Goto("trigger", "select")
                 /\ mailbox' = FALSE
                 /\ UNCHANGED <<account, ctxDone, check, stream, server, ghost>>

Settle == /\ pc["trigger"] = "settle"
          /\ Goto("trigger", "select")
          /\ UNCHANGED <<account, ctxDone, check, mailbox, stream, server, ghost>>

\* Mutant: pollLoop does not select on ctx.Done().
Quit_NotPoll(g) == /\ ctxDone
                   /\ g # "poll"
                   /\ pc[g] \in {"select", "settle", "look", "nap"}
                   /\ Goto(g, "end")
                   /\ UNCHANGED <<account, ctxDone, check, mailbox, stream, server, ghost>>

\* ctx.Done() in a select, in sleepCtx or at the head of jetstreamLoop.
Quit(g) == /\ ctxDone
           /\ pc[g] \in {"select", "settle", "look", "nap"}
           /\ Goto(g, "end")
           /\ UNCHANGED <<account, ctxDone, check, mailbox, stream, server, ghost>>

(***************************************************************************)
(* checkForUpdates.                                                        *)
(***************************************************************************)
After(k) == IF k = "notifications" THEN "chat" ELSE "timeline"

Finish(g) == /\ Goto(g, IF g = "poll" THEN "select" ELSE "settle")
             /\ at' = [at EXCEPT ![g] = "notifications"]
             /\ got' = [got EXCEPT ![g] = 0]

\* On to the next thing to look at; the timeline is the last.
MoveOn(g) == IF at[g] = "timeline" THEN Finish(g)
             ELSE /\ Goto(g, "fetch")
                  /\ at' = [at EXCEPT ![g] = After(at[g])]
                  /\ got' = [got EXCEPT ![g] = 0]

Guard(g) == /\ pc[g] = "guard"
            /\ IF account = NoAccount THEN Finish(g)
               ELSE Goto(g, "fetch") /\ UNCHANGED <<at, got>>
            /\ pending' = (pending /\ g # "trigger")
            /\ UNCHANGED <<account, ctxDone, last, mailbox, stream, server, news, told, overlap>>

FetchOk(g) == /\ pc[g] = "fetch"
              /\ account # NoAccount
              /\ got' = [got EXCEPT ![g] = level[account][at[g]]]
              /\ Goto(g, "store")
              /\ UNCHANGED <<account, ctxDone, at, last, mailbox, stream, server, ghost>>

FetchFails(g) == /\ pc[g] = "fetch"
                 /\ account = NoAccount \/ "netfail" \in Acts
                 /\ MoveOn(g)
                 /\ UNCHANGED <<account, ctxDone, last, mailbox, stream, server, ghost>>

\* Mutant: the first count seen is taken for a baseline.
Changed_Baseline(k, n) == IF k = "timeline" THEN n # 0 /\ n # last[k]
                          ELSE last[k] # 0 /\ n > last[k]

\* A count is news when it grows, the newest post when it is another one.
Changed(k, n) == IF k = "timeline" THEN n # 0 /\ n # last[k] ELSE n > last[k]

\* Mutants: what was seen is not recorded; it is recorded only when it is news.
Store_Forgets(g) ==
    /\ pc[g] = "store"
    /\ IF Changed(at[g], got[g]) THEN Goto(g, "tell") /\ UNCHANGED <<at, got>>
       ELSE MoveOn(g)
    /\ UNCHANGED <<account, ctxDone, last, mailbox, stream, server, ghost>>

Store_OnlyNews(g) ==
    /\ pc[g] = "store"
    /\ IF Changed(at[g], got[g])
       THEN /\ last' = [last EXCEPT ![at[g]] = got[g]]
            /\ Goto(g, "tell") /\ UNCHANGED <<at, got>>
       ELSE MoveOn(g) /\ UNCHANGED last
    /\ UNCHANGED <<account, ctxDone, mailbox, stream, server, ghost>>

\* The comparison and the assignment are one critical section of SyncService.mu.
Store(g) ==
    /\ pc[g] = "store"
    /\ IF at[g] = "timeline" /\ got[g] = 0 THEN UNCHANGED last
       ELSE last' = [last EXCEPT ![at[g]] = got[g]]
    /\ IF Changed(at[g], got[g]) THEN Goto(g, "tell") /\ UNCHANGED <<at, got>>
       ELSE MoveOn(g)
    /\ UNCHANGED <<account, ctxDone, mailbox, stream, server, ghost>>

\* EventsEmit, after SyncService.mu is released.
Tell(g) ==
    /\ pc[g] = "tell"
    /\ news' = IF got[g] >= news[at[g]] THEN [news EXCEPT ![at[g]] = 0] ELSE news
    /\ told' = IF at[g] = "timeline" THEN told \cup {got[g]} ELSE told
    /\ MoveOn(g)
    /\ UNCHANGED <<account, ctxDone, last, mailbox, stream, server, pending, overlap>>

(***************************************************************************)
(* jetstreamLoop and consumeJetstream.                                     *)
(***************************************************************************)
LookForClient == /\ pc["jet"] = "look"
                 /\ ~ctxDone
                 /\ did' = account
                 /\ Goto("jet", IF account = NoAccount THEN "nap" ELSE "dial")
                 /\ UNCHANGED <<account, ctxDone, check, mailbox, attempt, server, ghost>>

\* Mutants: a host that refuses is tried again; the index is not wrapped around.
Dial_SameHost == /\ pc["jet"] = "dial"
                 /\ Goto("jet", IF attempt \in UpHosts THEN "read" ELSE "nap")
                 /\ UNCHANGED attempt
                 /\ UNCHANGED <<account, ctxDone, check, mailbox, did, server, ghost>>

Dial_NoModulo == /\ pc["jet"] = "dial"
                 /\ \/ /\ attempt \in UpHosts /\ ~ctxDone
                       /\ Goto("jet", "read")
                       /\ UNCHANGED stream
                    \/ /\ attempt \notin UpHosts \/ ctxDone
                       /\ Goto("jet", "nap")
                       /\ attempt' = attempt + 1
                       /\ did' = NoAccount
                 /\ UNCHANGED <<account, ctxDone, check, mailbox, server, ghost>>

\* The host is jetstreamHosts[attempt % len]; one that refuses is skipped.
Dial == /\ pc["jet"] = "dial"
        /\ \/ /\ attempt \in UpHosts /\ ~ctxDone
              /\ Goto("jet", "read")
              /\ UNCHANGED stream
           \/ /\ attempt \notin UpHosts \/ ctxDone
              /\ Goto("jet", "nap")
              /\ attempt' = (attempt + 1) % NHosts
              /\ did' = NoAccount
        /\ UNCHANGED <<account, ctxDone, check, mailbox, server, ghost>>

\* A commit: the token goes into the mailbox, or folds into the one there.
Commit == /\ pc["jet"] = "read"
          /\ mailbox' = TRUE
          /\ pending' = TRUE
          /\ UNCHANGED <<account, ctxDone, pc, check, stream, server, news, told, overlap>>

\* The connection ends; the host was healthy if it lasted jetstreamMinUptime.
Hangup == /\ pc["jet"] = "read"
          /\ Goto("jet", "nap")
          /\ attempt' \in {0, (attempt + 1) % NHosts}
          /\ did' = NoAccount
          /\ UNCHANGED <<account, ctxDone, check, mailbox, server, ghost>>

WakeUp == /\ pc["jet"] = "nap"
          /\ Goto("jet", "look")
          /\ UNCHANGED <<account, ctxDone, check, mailbox, stream, server, ghost>>

(***************************************************************************)
(* The world: the account's activity, the user, the end of the process.    *)
(***************************************************************************)
\* One more unread item, or a post no timeline has had on top before.
Arrive(a, k, n) ==
    /\ k \in Active
    /\ IF k = "timeline" THEN \A x \in Accounts : level[x][k] < n ELSE n = level[a][k] + 1
    /\ level' = [level EXCEPT ![a][k] = n]
    /\ news' = IF a = account /\ (k = "timeline" \/ n > last[k]) THEN [news EXCEPT ![k] = n]
              ELSE news
    /\ UNCHANGED <<account, ctxDone, pc, check, mailbox, stream, logins, told, pending, overlap>>

\* The user reads what there is, here or in another client.
Read(k) == /\ "read" \in Acts
           /\ k # "timeline" /\ account # NoAccount
           /\ level' = [level EXCEPT ![account][k] = 0]
           /\ news' = [news EXCEPT ![k] = 0]
           /\ UNCHANGED <<account, ctxDone, pc, check, mailbox, stream, logins, told, pending, overlap>>

\* Login puts another client in place; what SyncService has last seen stays.
SignIn(a) == /\ logins < MaxLogins
             /\ account # a
             /\ account' = a
             /\ logins' = logins + 1
             /\ news' = [k \in Kinds |-> 0] /\ told' = {}
             /\ UNCHANGED <<ctxDone, pc, check, mailbox, stream, level, pending, overlap>>

Stop == /\ "stop" \in Acts
        /\ ~ctxDone
        /\ ctxDone' = TRUE
        /\ UNCHANGED <<account, pc, check, mailbox, stream, server, ghost>>

(***************************************************************************)
(* The whole.                                                              *)
(***************************************************************************)
Goroutines == Checkers \cup {"jet"}

World == \/ \E a \in Accounts, k \in Kinds, n \in 1..MaxLevel : Arrive(a, k, n)
         \/ \E k \in Kinds : Read(k)
         \/ \E a \in Accounts : SignIn(a)
         \/ Stop

Checking(g) == Guard(g) \/ FetchOk(g) \/ FetchFails(g) \/ Store(g) \/ Tell(g)

Next == \/ Tick \/ TakeToken \/ Settle
        \/ \E g \in Checkers : Checking(g)
        \/ \E g \in Goroutines : Quit(g)
        \/ LookForClient \/ Dial \/ Commit \/ Hangup \/ WakeUp
        \/ World

Spec == Init /\ [][Next]_vars

Steps(g) == CASE g = "poll"    -> Tick \/ Checking(g)
              [] g = "trigger" -> TakeToken \/ Checking(g) \/ Settle
              [] g = "jet"     -> LookForClient \/ Dial \/ WakeUp \/ (ctxDone /\ Hangup)

\* A goroutine that can run does; the ping goroutine closes the socket when the
\* context ends.  Requests do not fail for ever, and a ticker or a token does not
\* win every select over ctx.Done() (SF, where the two can occur).
Fairness ==
    \A g \in Goroutines :
       /\ WF_vars(Steps(g))
       /\ "stop" \in Acts => SF_vars(Quit(g))
       /\ "netfail" \in Acts /\ g # "jet" =>
            \A k \in Active : SF_vars(at[g] = k /\ FetchOk(g))

FairSpec == Spec /\ Fairness

(***************************************************************************)
(* Properties.                                                             *)
(***************************************************************************)
\* Every variable holds a value of its type.
TypeOK == /\ account \in Accounts \cup {NoAccount}
          /\ ctxDone \in BOOLEAN
          /\ pc \in [Goroutines -> CheckPcs \cup JetPcs]
          /\ at \in [Checkers -> Kinds]
          /\ got \in [Checkers -> Levels]
          /\ last \in [Kinds -> Levels]
          /\ mailbox \in BOOLEAN
          /\ did \in Accounts \cup {NoAccount}
          /\ attempt \in 0..(NHosts - 1)
          /\ level \in [Accounts -> [Kinds -> Levels]]
          /\ logins \in 0..MaxLogins
          /\ news \in [Kinds -> Levels]
          /\ told \subseteq Levels
          /\ pending \in BOOLEAN
          /\ overlap \in BOOLEAN

\* A commit that finds the mailbox full is not lost: "this event folds into" a
\* refresh that has yet to begin (sync.go:340-344).
NoEventLost == pending => mailbox \/ pc["trigger"] = "guard"

\* "an unchanged timeline does not get re-emitted every minute" (sync.go:33-34): no
\* newest post is handed to the page twice, until two checks overlap.
EmittedOnce == \A g \in Checkers :
                  ~overlap /\ pc[g] = "tell" /\ at[g] = "timeline" => got[g] \notin told

\* What the two checkers have last seen settles on what there is, whichever of
\* them writes last (checkForUpdates, sync.go:85-139).
Converges ==
    \A k \in Active, n \in Levels :
      <>[](account # NoAccount /\ level[account][k] = n /\ ~ctxDone)
        => <>[](last[k] = n \/ (n = 0 /\ k = "timeline"))

\* Activity beyond what was last seen is announced, or read: "Real-time
\* notifications" (README-en.md:33).
NewsIsAnnounced == \A k \in Active : news[k] # 0 ~> news[k] = 0 \/ ctxDone

\* One host that works is enough: "a host that refuses us is simply skipped rather
\* than taking the stream down" (sync.go:141-142).
StreamConnects == account # NoAccount ~> pc["jet"] = "read" \/ ctxDone

\* Once the context is cancelled every goroutine ends (Stop, sync.go:60-69).
StopEndsAll == ctxDone ~> \A g \in Goroutines : pc[g] = "end"
=============================================================================
