-------------------------------- MODULE Preview --------------------------------
(***************************************************************************)
(* The preview of the link in the first post of a draft: post0State,       *)
(* checkAndFetchLinkPreviewForPost and its container, of                   *)
(* controllers/compose.ts.                                                 *)
(*                                                                         *)
(* A draft has a state of its own, which timers and answers keep hold of;  *)
(* the container on the page is the same for all drafts.                   *)
(***************************************************************************)
EXTENDS Integers, FiniteSets

CONSTANTS Urls,         \* the URLs a text may hold
          MaxDrafts,    \* bound: how often the dialog is opened
          MaxFetches    \* bound: calls of FetchLinkCard

VARIABLES
    draft,      \* the draft on the screen
    url,        \* the URL in its text, or NoUrl
    link,       \* PostLinkState of every draft: fetched, dismissed, timer
    fetches,    \* the calls of FetchLinkCard on their way
    called,     \* how many there have been
    box,        \* compose-link-preview: what it shows, and of which draft
    asked,      \* history: the URLs the text of a draft has had
    crossed     \* history: a call was made while another was on its way, or one has
                \* failed, or the dialog was opened during a call

vars == <<draft, url, link, fetches, called, box, asked, crossed>>

NoUrl  == "none"
Fresh  == [fetched |-> NoUrl, dismissed |-> NoUrl, timer |-> NoUrl]
Hidden == [shows |-> "nothing", url |-> NoUrl, of |-> 0]
Loading == [Hidden EXCEPT !.shows = "loading"]
Card(d, u) == [shows |-> "card", url |-> u, of |-> d]
Drafts == 1..MaxDrafts

Init == /\ draft = 1 /\ url = NoUrl /\ link = [d \in Drafts |-> Fresh]
        /\ fetches = {} /\ called = 0 /\ box = Hidden
        /\ asked = [d \in Drafts |-> {}] /\ crossed = FALSE

\* Mutant: the state of the last draft is emptied, and used again.
openComposeModal_SameState ==
    /\ draft < MaxDrafts /\ draft' = draft + 1 /\ url' = NoUrl /\ box' = Hidden
    /\ fetches' = {[f EXCEPT !.draft = draft + 1] : f \in fetches}
    /\ link' = [link EXCEPT ![draft + 1].timer = link[draft].timer]
    /\ crossed' = (crossed \/ fetches # {})
    /\ UNCHANGED <<called, asked>>

\* The timer of the old draft goes on, and so do its calls.
openComposeModal ==
    /\ draft < MaxDrafts /\ draft' = draft + 1 /\ url' = NoUrl /\ box' = Hidden
    /\ crossed' = (crossed \/ fetches # {})
    /\ UNCHANGED <<link, fetches, called, asked>>

\* A text without a URL stops no timer; one that was fetched or dismissed starts none.
checkAndFetchLinkPreview(u) ==
    LET s == link[draft] IN
    IF u = NoUrl
    THEN IF s.fetched # NoUrl THEN UNCHANGED <<link, box>>
         ELSE link' = [link EXCEPT ![draft].dismissed = NoUrl] /\ box' = Hidden
    ELSE /\ link' = IF u \in {s.dismissed, s.fetched} THEN link ELSE [link EXCEPT ![draft].timer = u]
         /\ UNCHANGED box

Type(u) == /\ url' = u /\ asked' = [asked EXCEPT ![draft] = @ \cup {u}]
           /\ checkAndFetchLinkPreview(u)
           /\ UNCHANGED <<draft, fetches, called, crossed>>

\* 600 ms without a key.
Fire(d) == /\ link[d].timer # NoUrl /\ called < MaxFetches /\ called' = called + 1
           /\ link' = [link EXCEPT ![d].timer = NoUrl]
           /\ box' = Loading
           /\ fetches' = fetches \cup {[draft |-> d, url |-> link[d].timer, n |-> called']}
           /\ crossed' = (crossed \/ fetches # {} \/ d # draft)
           /\ UNCHANGED <<draft, url, asked>>

Found(f) == /\ link' = [link EXCEPT ![f.draft].fetched = f.url]
            /\ box' = Card(f.draft, f.url)
            /\ UNCHANGED crossed

\* A failed call, or a page without a card, leaves "loading" where there was a card.
NotFound(f) == /\ box' = IF link[f.draft].fetched = NoUrl THEN Hidden ELSE box
               /\ crossed' = (crossed \/ link[f.draft].fetched # NoUrl)
               /\ UNCHANGED link

Answer(f) == /\ f \in fetches /\ fetches' = fetches \ {f}
             /\ Found(f) \/ NotFound(f)
             /\ UNCHANGED <<draft, url, called, asked>>

\* Mutant: the card goes, the link stays.
RemoveCard_OnlyCard == /\ box.shows = "card"
                       /\ link' = [link EXCEPT ![box.of].dismissed = box.url]
                       /\ box' = Hidden
                       /\ UNCHANGED <<draft, url, fetches, called, asked, crossed>>

\* btn-remove-link-preview
RemoveCard == /\ box.shows = "card"
              /\ link' = [link EXCEPT ![box.of] = [@ EXCEPT !.dismissed = box.url, !.fetched = NoUrl]]
              /\ box' = Hidden
              /\ UNCHANGED <<draft, url, fetches, called, asked, crossed>>

Next == \/ openComposeModal \/ RemoveCard
        \/ \E u \in Urls \cup {NoUrl} : Type(u)
        \/ \E d \in Drafts : Fire(d)
        \/ \E f \in fetches : Answer(f)

Spec == Init /\ [][Next]_vars

(***************************************************************************)
(* Properties.                                                             *)
(***************************************************************************)

\* The link a post takes with it was in the text of its own draft, however late the
\* answers about the links of older drafts come.
LinkIsOwn == link[draft].fetched \in asked[draft] \cup {NoUrl}

\* While the calls come one after the other, the card on the screen is of the link that
\* goes with the post, and no link goes with it unseen.
CardIsTheLink == ~crossed /\ fetches = {} =>
    box = IF link[draft].fetched = NoUrl THEN Hidden ELSE Card(draft, link[draft].fetched)

\* What the two rest on: what is fetched and what waits to be was in the text of its own
\* draft, and no draft is touched before it is opened; of the calls there is one at a time,
\* and it is of the draft on the screen.
AnyUrl    == Urls \cup {NoUrl}
LinkState == [fetched : AnyUrl, dismissed : AnyUrl, timer : AnyUrl]
Places    == /\ draft \in Drafts /\ called \in Nat
             /\ link \in [Drafts -> LinkState] /\ asked \in [Drafts -> SUBSET AnyUrl]
             /\ fetches \subseteq [draft : Drafts, url : AnyUrl, n : Nat]
             /\ box.of \in 0..draft /\ box.url \in AnyUrl
OwnLinks  == /\ \A d \in Drafts : /\ link[d].fetched = NoUrl \/ link[d].fetched \in asked[d]
                                  /\ link[d].timer = NoUrl \/ link[d].timer \in asked[d]
                                  /\ d > draft => link[d].fetched = NoUrl /\ link[d].timer = NoUrl
             /\ \A f \in fetches : f.draft <= draft /\ f.url \in asked[f.draft] /\ f.url # NoUrl
OneCall   == ~crossed => \A f \in fetches : f.draft = draft /\ \A g \in fetches : g = f
PreviewInv == Places /\ OwnLinks /\ OneCall /\ CardIsTheLink
=============================================================================
