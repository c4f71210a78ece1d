-------------------------------- MODULE Compose --------------------------------
(***************************************************************************)
(* Writing and publishing a thread: the dialog of controllers/compose.ts,  *)
(* and CreatePost and QuotePost of services/post_builder.go.               *)
(*                                                                         *)
(* A submission reads the form in one step and sends the first post in it; *)
(* then it waits for one answer at a time, while the reader may do anything *)
(* else.  Text that cannot be sent, none or too much, is "none".  What is  *)
(* attached is of module Attach; here it may be there or not.              *)
(*                                                                         *)
(* A post is the number of its record in the repository of the account;    *)
(* -1 and -2 are posts of somebody else, -2 a reply to -1; 0 is no post.   *)
(***************************************************************************)
EXTENDS Integers, SequencesExt, FiniteSetsExt

CONSTANTS MaxTurns,   \* bound: how often the dialog is opened or a call fails
          MaxSends,   \* bound: how often the form is sent
          MaxPosts    \* bound: posts of a draft

VARIABLES
    shown,      \* composeModal.open
    asking,     \* confirm-discard-modal.open
    draft,      \* how often the dialog has been opened
    mode,       \* state.composeMode
    target,     \* state.composeTarget
    texts,      \* post-text and the thread-text-inputs
    canSubmit,  \* btn-submit-post is enabled
    canAdd,     \* btn-add-thread-post is enabled
    send,       \* the submissions
    repo,       \* server: the posts of the account
    indexed,    \* server: how many of them the AppView knows; it learns them in order
    losses,     \* how many calls have failed
    uneasy      \* history: the drafts that failed, or were sent while one was on its way

dialog == <<shown, asking, draft, mode, target, texts>>
server == <<repo, indexed>>
vars   == <<dialog, canSubmit, canAdd, send, server, losses, uneasy>>

Posts == {-1, -2} \cup DOMAIN repo
Sends   == DOMAIN send
OnItsWay == {s \in Sends : send[s].phase = "sent"}

Init == /\ shown = FALSE /\ asking = FALSE /\ draft = 0 /\ mode = "post" /\ target = 0
        /\ texts = <<"none">>
        /\ canSubmit = TRUE /\ canAdd = TRUE
        /\ send = <<>> /\ repo = <<>> /\ indexed = 0 /\ losses = 0 /\ uneasy = {}

(***************************************************************************)
(* The dialog.                                                             *)
(***************************************************************************)

\* The keys n, q and r, and the buttons of a post, also while the dialog is open: an
\* open dialog is wiped and used again.
openComposeModal(m, p) ==
    /\ draft + losses < MaxTurns
    /\ shown' = TRUE /\ mode' = m /\ target' = p
    /\ draft' = draft + 1 /\ texts' = <<"none">>
    /\ canAdd' = TRUE
    /\ UNCHANGED <<asking, canSubmit, send, server, losses, uneasy>>

Open == \/ openComposeModal("post", 0)
        \/ \E p \in Posts \ {-1} : openComposeModal("reply", p) \/ openComposeModal("quote", p)

\* The cross, and Escape when no dropdown is open; what follows the first post is not
\* content, and goes without a question.
requestCloseComposeModal ==
    /\ shown
    /\ \E media \in BOOLEAN :
         LET hasContent == texts[1] # "none" \/ media
         IN  shown' = hasContent /\ asking' = (asking \/ hasContent)
    /\ UNCHANGED <<draft, mode, target, texts, canSubmit, canAdd, send, server, losses, uneasy>>

\* Yes, No and Escape.
Confirm == /\ asking /\ asking' = FALSE
           /\ shown' \in {FALSE, shown}
           /\ UNCHANGED <<draft, mode, target, texts, canSubmit, canAdd, send, server, losses, uneasy>>

Type(k, t) == /\ shown /\ ~asking /\ texts[k] # t /\ texts' = [texts EXCEPT ![k] = t]
              /\ UNCHANGED <<shown, asking, draft, mode, target, canSubmit, canAdd, send, server, losses, uneasy>>

AddPost == /\ shown /\ ~asking /\ canAdd /\ Len(texts) < MaxPosts /\ texts' = Append(texts, "none")
           /\ UNCHANGED <<shown, asking, draft, mode, target, canSubmit, canAdd, send, server, losses, uneasy>>

RemovePost(k) == /\ shown /\ ~asking /\ k > 1 /\ texts' = RemoveAt(texts, k)
                 /\ UNCHANGED <<shown, asking, draft, mode, target, canSubmit, canAdd, send, server, losses, uneasy>>

(***************************************************************************)
(* Sending the form.  The answers of the server follow.                    *)
(***************************************************************************)

\* Every box is required, so that a post without words never gets as far as the
\* check that would let it pass with an image.
Sound == \A k \in DOMAIN texts : texts[k] = "words"

\* The button waits until it is enabled, and for the question; Ctrl+Enter does not.
Submit(wait) ==
    /\ shown /\ (wait => canSubmit /\ ~asking) /\ Sound /\ Len(send) < MaxSends
    /\ send' = Append(send, [phase |-> "sent", draft |-> draft, mode |-> mode, items |-> Len(texts),
                             next |-> 1, parent |-> target, root |-> 0])
    /\ canSubmit' = FALSE /\ canAdd' = FALSE
    /\ uneasy' = uneasy \cup IF OnItsWay # {} THEN {draft} \cup {send[s].draft : s \in OnItsWay} ELSE {}
    /\ UNCHANGED <<dialog, server, losses>>

\* reply.root of a record, or itself.
RootInRecord(p) == IF p = -2 THEN -1
                   ELSE IF p \in DOMAIN repo /\ repo[p].root # 0 THEN repo[p].root ELSE p

\* Mutant: the index is asked about every post.
resolveThreadRoot_IndexOnly(p, read) ==
    IF p <= indexed /\ read THEN RootInRecord(p) ELSE p

\* The record of an own post is read from the repository; the index is asked about
\* any other, and about an own one that could not be read.
resolveThreadRoot(p, read) ==
    IF p \in DOMAIN repo /\ read THEN RootInRecord(p)
    ELSE IF p < 0 /\ read THEN RootInRecord(p)
    ELSE IF p \in 1..indexed THEN RootInRecord(p) ELSE p

\* The record that CreatePost or QuotePost writes for a submission; read is whether the
\* parent's record could be read.
NewPost(s, read) ==
    LET c == send[s]
        quote == c.mode = "quote" /\ c.next = 1
    IN  [by |-> s, draft |-> c.draft, item |-> c.next,
         parent |-> IF quote THEN 0 ELSE c.parent,
         root |-> IF quote \/ c.parent = 0 THEN 0
                  ELSE IF c.root # 0 THEN c.root ELSE resolveThreadRoot(c.parent, read),
         guessed |-> ~read]

\* Mutant: the next post answers what the first one answered.
Carried_SameParent(s, post) ==
    [send[s] EXCEPT !.next = @ + 1,
                    !.root = IF @ # 0 THEN @ ELSE IF post.root # 0 THEN post.root ELSE Len(repo')]

\* What is left to send, once the post is there.
Carried(s, post) ==
    [send[s] EXCEPT !.next = @ + 1, !.parent = Len(repo'),
                    !.root = IF @ # 0 THEN @ ELSE IF post.root # 0 THEN post.root ELSE Len(repo')]

\* Mutant: the dialog stays open.
Finish_Open(s) == canSubmit' = TRUE /\ canAdd' = TRUE /\ UNCHANGED shown

\* forceCloseComposeModal closes whatever draft the dialog shows by then.
Finish(s) == canSubmit' = TRUE /\ canAdd' = TRUE /\ shown' = FALSE

Answered(s, read) ==
    /\ s \in OnItsWay
    /\ read \/ draft + losses < MaxTurns
    /\ losses' = losses + (IF read THEN 0 ELSE 1)
    /\ LET post == NewPost(s, read)
           last == send[s].next = send[s].items
       IN  /\ repo' = Append(repo, post)
           /\ send' = [send EXCEPT ![s] = IF last THEN [@ EXCEPT !.phase = "done"] ELSE Carried(s, post)]
           /\ IF last THEN Finish(s) ELSE UNCHANGED <<canSubmit, canAdd, shown>>
    /\ UNCHANGED <<asking, draft, mode, target, texts, indexed, uneasy>>

\* Mutant: the button stays as it is.
Fail_StaysOff(s) ==
    /\ send' = [send EXCEPT ![s].phase = "done"]
    /\ canAdd' = TRUE /\ UNCHANGED canSubmit
    /\ uneasy' = uneasy \cup {send[s].draft}

\* The catch block: the form stays, with the posts that were published.
Fail(s) ==
    /\ send' = [send EXCEPT ![s].phase = "done"]
    /\ canSubmit' = TRUE /\ canAdd' = TRUE
    /\ uneasy' = uneasy \cup {send[s].draft}

\* The call fails; the post may be there all the same.
Failed(s) == /\ s \in OnItsWay /\ draft + losses < MaxTurns /\ losses' = losses + 1
             /\ repo' \in {repo, Append(repo, NewPost(s, TRUE))}
             /\ Fail(s)
             /\ UNCHANGED <<dialog, indexed>>

Index == /\ indexed < Len(repo) /\ indexed' = indexed + 1
         /\ UNCHANGED <<dialog, canSubmit, canAdd, send, repo, losses, uneasy>>

Answers == \E s \in Sends : Failed(s) \/ \E read \in BOOLEAN : Answered(s, read)

Next == \/ Open \/ requestCloseComposeModal \/ Confirm \/ AddPost
        \/ \E k \in DOMAIN texts : RemovePost(k) \/ \E t \in {"none", "words"} : Type(k, t)
        \/ \E wait \in BOOLEAN : Submit(wait)
        \/ Answers
        \/ Index

Spec == Init /\ [][Next]_vars /\ WF_vars(Answers)

(***************************************************************************)
(* Properties.                                                             *)
(***************************************************************************)

\* A reply belongs to the thread of the post it answers, also when that post was
\* written a moment ago and the index does not know it; when its record could not be
\* read, it may be the beginning of a thread of its own.
RootIsRight ==
    \A p \in DOMAIN repo : repo[p].parent # 0 /\ ~repo[p].guessed => repo[p].root = RootInRecord(repo[p].parent)

\* No post of a draft is published twice, unless a submission of it has failed, or the
\* draft was sent again (Ctrl+Enter) while another submission was on its way.
PublishedOnce ==
    \A p, q \in DOMAIN repo : /\ repo[p].draft = repo[q].draft /\ repo[p].item = repo[q].item
                              /\ repo[p].draft \notin uneasy
                              => p = q

\* A thread is published in order and to the right root (compose.ts, post_builder.go).
ThreadIsRight == RootIsRight /\ PublishedOnce

\* What a submission publishes is a chain, whatever is done to the form, and whatever
\* other submission runs, in the meantime.
ThreadView == [p \in DOMAIN repo |-> [by |-> repo[p].by, parent |-> repo[p].parent]]
Chain == INSTANCE Thread WITH repo <- ThreadView, Senders <- 1..MaxSends, Others <- {-1, -2}
ThreadsGrow == Chain!Spec

\* A submission ends, and the reader can send the form again.
Waiting == ~canSubmit
ButtonComesBack == Waiting ~> ~Waiting
=============================================================================
