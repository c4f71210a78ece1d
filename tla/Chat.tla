--------------------------------- MODULE Chat ---------------------------------
(***************************************************************************)
(* Direct messages: controllers/chat.ts, the refresh of controllers/auth.ts*)
(* and the ways in and out of controllers/profile.ts and shortcuts.ts.     *)
(*                                                                         *)
(* activeConvoId says which conversation is open; the panel says what is   *)
(* on the screen; answers change the panel whatever is open by then.  A    *)
(* conversation is a number of messages, of which those sent from here are *)
(* kept: where each went and was typed, its text and what it replies to.   *)
(* A page is the whole conversation up to Limit.                           *)
(***************************************************************************)
EXTENDS Naturals, Sequences, FiniteSetsExt

CONSTANTS Convos,       \* conversations; 0 is none
          Limit,        \* messages of a page
          MaxSteps,     \* bound: texts typed, conversations opened, calls made, calls
                        \* that fail and messages of others, together
          MaxCrossings  \* bound: times something is begun while something is out

VARIABLES
    active,     \* activeConvoId
    panel,      \* chat-list: the list, or a conversation and how many messages it has
    form,       \* the text, the message replied to, and which form it is
    posts,      \* how many rows currentPosts has
    fetches,    \* how many lists, messages and refreshes of each are not answered
    calls,      \* sends, reactions, departures, deletions that are not answered
    server,     \* how many messages each conversation has
    sent,       \* those sent from here
    read,       \* how far each is marked as read
    blind,      \* history: those marked since their messages were last shown
    last,       \* lastUnreadChatCount of services/sync.go
    owed,       \* history: those an event came for whose new messages were not shown since
    n,          \* how many of the things that MaxSteps bounds
    crossed     \* history: the reader went elsewhere, or sent again, while something was out,
                \* a call failed, or a message was deleted

hist == <<blind, owed>>
view == <<active, panel, form, posts>>
acct == <<server, sent, read, last, hist>>
vars == <<view, fetches, calls, acct, n, crossed>>

NoForm == [text |-> 0, re |-> 0, of |-> 0, id |-> 0]
List   == [of |-> 0, rows |-> 0, from |-> 0]
InConvo == panel.of # 0

\* What is asked for, and of which conversation; the list is of none.
Asked == {"list", "messages", "poll"} \X (Convos \cup {0})

Init == /\ active = 0 /\ panel = List /\ form = NoForm /\ posts = 1
        /\ fetches = [a \in Asked |-> 0] /\ calls = {}
        /\ server = [c \in Convos |-> 1] /\ sent = {}
        /\ read = server /\ last = 0
        /\ blind = {} /\ owed = {}
        /\ n = 0 /\ crossed = 0

Fetching == \E a \in Asked : fetches[a] > 0
Out     == Fetching \/ calls # {}
Step    == n < MaxSteps /\ n' = n + 1
Page(c) == Min({server[c], Limit})

\* Every request is answered for itself, also when the same was asked twice.
Fetch(what, c)    == fetches' = [fetches EXCEPT ![<<what, c>>] = @ + 1]
Answered(what, c) == fetches[<<what, c>>] > 0 /\ fetches' = [fetches EXCEPT ![<<what, c>>] = @ - 1]

Crossed(if) == /\ crossed' = IF if THEN crossed + 1 ELSE crossed
               /\ crossed' <= MaxCrossings

\* Mutant: the conversation on the screen stays the open one.
loadChat_KeepsActive == /\ Fetch("list", 0) /\ Crossed(Out)
                        /\ UNCHANGED <<view, calls, acct, n>>

\* The way back: the button, Escape, the tab, F5.
loadChat == /\ active' = 0
            /\ Fetch("list", 0) /\ Crossed(Out)
            /\ UNCHANGED <<panel, form, posts, calls, acct, n>>

\* The list replaces whatever the panel has; which one is open is not looked at.
Listed == /\ Answered("list", 0)
          /\ panel' = List /\ posts' = Cardinality(Convos)
          /\ UNCHANGED <<active, form, calls, acct, n, crossed>>

\* Mutant: the form still replies to what it did.
Opened_KeepsReply(c) == /\ active' = c /\ panel' = [of |-> c, rows |-> 0, from |-> 0]
                        /\ form' = [form EXCEPT !.text = 0, !.of = c, !.id = n + 1]
                        /\ posts' = 0

Opened(c) == /\ active' = c /\ panel' = [of |-> c, rows |-> 0, from |-> 0]
             /\ form' = [NoForm EXCEPT !.of = c, !.id = n + 1]
             /\ posts' = 0

\* A row of the list.
openChatConvo(c) == /\ ~InConvo /\ Opened(c)
                    /\ Step /\ Fetch("messages", c) /\ Crossed(Out)
                    /\ UNCHANGED <<calls, acct>>

\* The message button of a profile, and its key: switchTab loads the list too, for it
\* takes back the mark that the caller has set; both are out.
OpenFromProfile(c) == /\ Opened(c) /\ Step /\ Crossed(TRUE)
                      /\ fetches' = [fetches EXCEPT ![<<"list", 0>>] = @ + 1, ![<<"messages", c>>] = @ + 1]
                      /\ UNCHANGED <<calls, acct>>

\* Messages go to the panel if it has a place for them, whose rows they replace; in the
\* list of rows they are added to those that an earlier answer brought.  They are marked
\* as read then.
Render(c) == IF InConvo
             THEN /\ panel' = [panel EXCEPT !.rows = Page(c), !.from = c]
                  /\ posts' = posts + Page(c)
                  /\ read' = [read EXCEPT ![c] = server[c]]
                  /\ blind' = blind \ {c} /\ owed' = owed \ {c}
             ELSE UNCHANGED <<panel, posts, read, hist>>

Messages(c) == /\ Answered("messages", c)
               /\ Render(c)
               /\ UNCHANGED <<active, form, calls, server, sent, last, n, crossed>>

\* openChatConvo, silent: the rows are forgotten, and messages fetched for the same panel,
\* beside those that are left to come.
Again(c, left) == /\ active' = c /\ posts' = 0
                  /\ fetches' = IF c = 0 THEN left ELSE [left EXCEPT ![<<"messages", c>>] = @ + 1]

\* A tick of the synchronisation: the event comes when more is unread than at the last
\* tick, and updateChat refreshes what is open.
Unread == FoldSet(LAMBDA c, sum : sum + server[c] - read[c], 0, Convos)
updateChat == /\ last' = Unread /\ last' # last
              /\ IF Unread > last /\ active = 0 THEN Fetch("list", 0) /\ UNCHANGED owed
                 ELSE IF Unread > last /\ InConvo
                 THEN Fetch("poll", active) /\ owed' = owed \cup {c \in {active} : read[c] < server[c]}
                 ELSE UNCHANGED <<fetches, owed>>
              /\ UNCHANGED <<view, calls, server, sent, read, blind, n, crossed>>

\* Mutant: off by one.
Refreshes_OneMore(c) == Page(c) > posts + 1

\* The messages are fetched anew when their number differs.
Refreshes(c) == Page(c) > 0 /\ Page(c) # posts

\* Mutant: the messages are marked, and not fetched.
Polled_MarksOnly(c) == /\ Answered("poll", c)
                       /\ IF Refreshes(c)
                          THEN read' = [read EXCEPT ![c] = server[c]] /\ blind' = blind \cup {c}
                          ELSE UNCHANGED <<read, blind>>
                       /\ UNCHANGED <<view, calls, server, sent, last, owed, n, crossed>>

\* The answer of the refresh: what is open by then is marked, and opened again, though its
\* messages may be on their way already; each answer adds its rows.
Polled(c) == LET left == [fetches EXCEPT ![<<"poll", c>>] = @ - 1]
             IN  /\ fetches[<<"poll", c>>] > 0
                 /\ IF Refreshes(c)
                    THEN /\ Again(active, left)
                         /\ IF active = c
                            THEN read' = [read EXCEPT ![c] = server[c]] /\ blind' = blind \cup {c}
                            ELSE UNCHANGED <<read, blind>>
                    ELSE fetches' = left /\ UNCHANGED <<active, posts, read, blind>>
                 /\ UNCHANGED <<panel, form, calls, server, sent, last, owed, n, crossed>>

NotFetched(a) == /\ Step
                 /\ Answered(a[1], a[2]) /\ Crossed(TRUE)
                 /\ UNCHANGED <<view, calls, acct>>

(***************************************************************************)
(* Writing.                                                                *)
(***************************************************************************)

Type == /\ InConvo /\ Step /\ form' = [form EXCEPT !.text = n']
        /\ UNCHANGED <<active, panel, posts, fetches, calls, acct, crossed>>

\* The reply button of a message: the form on the screen replies to it.
setReplyingTo == /\ InConvo /\ panel.rows > 0 /\ form.re # panel.from /\ form' = [form EXCEPT !.re = panel.from]
                 /\ UNCHANGED <<active, panel, posts, fetches, calls, acct, n, crossed>>
clearReplyingTo == /\ form.re # 0 /\ form' = [form EXCEPT !.re = 0]
                   /\ UNCHANGED <<active, panel, posts, fetches, calls, acct, n, crossed>>

\* Mutant: the message goes to the conversation that is open.
Recipient_Active == active

\* The form sends to the conversation it was made for.
Recipient == form.of

CallOut(what, to) ==
    /\ Step
    /\ calls' = calls \cup {[what |-> what, of |-> to, form |-> form, k |-> n]}
    /\ Crossed(Out)
    /\ UNCHANGED <<view, fetches, acct>>

Submit == InConvo /\ form.text # 0 /\ CallOut("send", Recipient)

\* Mutant: the text stays in the form.
Sent_KeepsText(c) == UNCHANGED form

\* The form the message was sent from is emptied, if it is still there.
Sent(c) == form' = IF form.id = c.form.id THEN [form EXCEPT !.text = 0, !.re = 0] ELSE form

Message(c) == /\ server' = [server EXCEPT ![c.of] = @ + 1]
              /\ sent' = sent \cup {[to |-> c.of, by |-> c.form.of, text |-> c.form.text, re |-> c.form.re, k |-> c.k]}
SendDone(c) == /\ c \in calls /\ c.what = "send" /\ calls' = calls \ {c}
               /\ Message(c)
               /\ Sent(c) /\ Again(c.of, fetches)
               /\ UNCHANGED <<panel, read, last, hist, n, crossed>>

\* A reaction is given or taken back; departure asks first; a message leaves the page,
\* and the list of rows keeps its row.
Call(what) == InConvo /\ panel.rows > 0 /\ CallOut(what, panel.of)
React     == Call("react")
LeaveChat == Call("leave")
DeleteMsg == Call("delete")

Reacted(c) == /\ c \in calls /\ c.what = "react" /\ calls' = calls \ {c} /\ Again(c.of, fetches)
              /\ UNCHANGED <<panel, form, acct, n, crossed>>
Left(c) == /\ c \in calls /\ c.what = "leave" /\ calls' = calls \ {c}
           /\ active' = 0 /\ Fetch("list", 0) /\ Crossed(Fetching)
           /\ UNCHANGED <<panel, form, posts, acct, n>>
MsgDeleted(c) == /\ c \in calls /\ c.what = "delete" /\ calls' = calls \ {c}
                 /\ panel' = [panel EXCEPT !.rows = IF panel.of = c.of /\ @ > 0 THEN @ - 1 ELSE @]
                 /\ server' = [server EXCEPT ![c.of] = IF @ > 0 THEN @ - 1 ELSE @]
                 /\ Crossed(TRUE)
                 /\ UNCHANGED <<active, form, posts, fetches, sent, read, last, hist, n>>

\* An error changes nothing here; a message may have been sent all the same.
CallFailed(c) == /\ c \in calls /\ calls' = calls \ {c}
                 /\ Step
                 /\ \/ UNCHANGED <<server, sent, crossed>>
                    \/ /\ c.what = "send" /\ Crossed(TRUE)
                       /\ Message(c)
                 /\ UNCHANGED <<view, fetches, read, last, hist>>

News(c) == /\ Step
           /\ server' = [server EXCEPT ![c] = @ + 1]
           /\ UNCHANGED <<view, fetches, calls, sent, read, last, hist, crossed>>

Next == \/ loadChat \/ Listed \/ updateChat \/ Type \/ setReplyingTo \/ clearReplyingTo \/ Submit
        \/ React \/ LeaveChat \/ DeleteMsg
        \/ \E c \in Convos : \/ openChatConvo(c) \/ OpenFromProfile(c) \/ Messages(c)
                             \/ Polled(c) \/ News(c)
        \/ \E a \in Asked : NotFetched(a)
        \/ \E c \in calls : SendDone(c) \/ Reacted(c) \/ Left(c) \/ MsgDeleted(c) \/ CallFailed(c)

Spec == Init /\ [][Next]_vars

(***************************************************************************)
(* Properties.                                                             *)
(***************************************************************************)

\* A message is in the conversation it was typed in, however the reader, the answers and
\* the refreshes crossed while it was sent.
GoesWhereTyped == \A s \in sent : s.to = s.by

\* As long as nothing crossed: what is on the screen is what is open, a reply is to a
\* message of the same conversation, and no text is sent twice.
ScreenIsOpen == crossed = 0 /\ ~Out => panel.of = active
RepliesStay == crossed = 0 => \A s \in sent : s.re \in {0, s.to}
SentOnce == crossed = 0 => \A s, t \in sent : s # t => s.text # t.text

\* Nothing is marked as read that was not shown, unless a fetch is still out to show it.
ReadIsShown == crossed = 0 /\ ~Out => blind = {}

\* One event is enough: the conversation that was open comes to show what it had then, as
\* long as the list of rows has those of the panel, each once, and it fits a page.  When its
\* messages were asked for twice at once, by an event that came before the first answer,
\* the rows are there twice, and twice as many may be what the refresh compares with; a
\* full page has the same length after one more message.
EventIsEnough == crossed = 0 /\ ~Out /\ InConvo /\ posts = panel.rows =>
                    panel.of \notin owed \/ server[panel.of] > Limit

(***************************************************************************)
(* What the properties rest on.                                            *)
(***************************************************************************)

Asks(what) == fetches[<<what, active>>] > 0

\* The one call there is, of the form on the screen.
OneCall == \A c \in calls : /\ active # 0 /\ c.of = active /\ c.form.id = form.id
                            /\ c.form.re \in {0, c.of} /\ c.form.text \in 0..n
                            /\ c.what = "send" => \A s \in sent : s.text # c.form.text
                            /\ \A d \in calls : c = d

\* What is asked for, and what is shown: the list, or the conversation that is open with as
\* many rows as were read of it, unless they are asked for.
OpenOrList ==
    /\ InConvo => panel.of = form.of /\ (panel.rows > 0 => panel.from = panel.of)
    /\ active = 0 => /\ \A a \in Asked : fetches[a] > 0 => a = <<"list", 0>>
                     /\ InConvo => Asks("list")
    /\ active # 0 => /\ active \in Convos /\ panel.of = active
                     /\ \A a \in Asked : fetches[a] > 0 => a[1] # "list" /\ a[2] = active
                     /\ \/ Asks("messages")
                        \/ panel.rows = IF read[active] < Limit THEN read[active] ELSE Limit

\* Each text is in one message, and a reply is to its own conversation.
Texts == /\ form.text \in 0..n /\ form.re \in {0, form.of}
         /\ \A s \in sent : /\ s.text \in 0..n /\ s.re \in {0, s.to}
                            /\ form.text # 0 => s.text # form.text

\* What was marked, or announced, is being asked for, unless the rows are there twice.
Announced == /\ blind # {} => blind = {active} /\ Asks("messages")
             /\ active \in owed => \/ server[active] > Limit
                                   \/ Asks("messages")
                                   \/ posts # panel.rows
                                   \/ Asks("poll") /\ read[active] < server[active]

Forms == [text : Nat, re : Convos \cup {0}, of : Convos \cup {0}, id : Nat]
Typed == /\ fetches \in [Asked -> Nat]
         /\ panel \in [of : Convos \cup {0}, rows : Nat, from : Convos \cup {0}] /\ form \in Forms
         /\ calls \subseteq [what : {"send", "react", "leave", "delete"}, of : Convos, form : Forms, k : Nat]
         /\ server \in [Convos -> Nat] /\ read \in [Convos -> Nat] /\ owed \subseteq Convos

Kept == /\ Typed
        /\ OneCall /\ OpenOrList /\ Texts /\ SentOnce /\ Announced

ChatInv == /\ n \in Nat /\ crossed \in Nat
           /\ GoesWhereTyped /\ \A c \in calls : c.what = "send" => c.of = c.form.of
           /\ crossed = 0 => Kept
=============================================================================
