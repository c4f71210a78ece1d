-------------------------------- MODULE Attach --------------------------------
(***************************************************************************)
(* What is attached to a draft: the images, the video and the GIF of       *)
(* controllers/compose.ts, their alternative texts, and what of them the   *)
(* form sends.  The measures of a video are left out.                      *)
(*                                                                         *)
(* Every piece is the number of the draft it was chosen for.  A file is    *)
(* read after it was chosen, and put where the pieces of the draft of then *)
(* are; several choices may be under way.                                  *)
(***************************************************************************)
EXTENDS Integers, Sequences, FiniteSets

CONSTANTS MaxDrafts,    \* bound: how often the dialog is opened
          MaxChoices,   \* bound: choices of files
          Limit         \* images of a post (4)

VARIABLES
    draft,      \* how often the dialog has been opened
    images,     \* selectedImages
    alts,       \* the alt-text-inputs: are they filled in?
    video,      \* selectedVideo, 0 for none
    gif,        \* selectedGifUrl, 0 for none
    altShown,   \* video-alt-container is visible
    altText,    \* video-alt is filled in
    hasFile,    \* post-video holds a file
    reads,      \* the choices: what they still read
    sent,       \* the last post the form has sent
    crossed     \* history: something was chosen, or a draft opened, during a read

pieces == <<images, alts, video, gif>>
field  == <<altShown, altText, hasFile>>
vars   == <<draft, pieces, field, reads, sent, crossed>>

Nothing == [images |-> 0, alts |-> <<>>, video |-> 0, gif |-> 0, alt |-> FALSE]
Reading == \E r \in DOMAIN reads : reads[r].left > 0

Init == /\ draft = 1 /\ images = <<>> /\ alts = <<>> /\ video = 0 /\ gif = 0
        /\ altShown = FALSE /\ altText = FALSE /\ hasFile = FALSE
        /\ reads = <<>> /\ sent = Nothing /\ crossed = FALSE

\* Mutant: the video of the last draft stays.
openComposeModal_KeepsVideo ==
    /\ draft < MaxDrafts /\ draft' = draft + 1
    /\ images' = <<>> /\ alts' = <<>> /\ gif' = 0 /\ UNCHANGED video
    /\ altShown' = FALSE /\ altText' = FALSE /\ hasFile' = FALSE
    /\ crossed' = (crossed \/ Reading)
    /\ UNCHANGED <<reads, sent>>

\* The files that are being read stay on their way.
openComposeModal ==
    /\ draft < MaxDrafts /\ draft' = draft + 1
    /\ images' = <<>> /\ alts' = <<>> /\ video' = 0 /\ gif' = 0
    /\ altShown' = FALSE /\ altText' = FALSE /\ hasFile' = FALSE
    /\ crossed' = (crossed \/ Reading)
    /\ UNCHANGED <<reads, sent>>

Choice(k, n) == /\ Len(reads) < MaxChoices
                /\ reads' = Append(reads, [kind |-> k, left |-> n, from |-> draft])
                /\ crossed' = (crossed \/ Reading)

\* Mutant: the GIF stays.
PickImages_KeepsGif(n) ==
    /\ Len(images) < Limit
    /\ LET slots == Limit - Len(images) IN Choice("image", IF n > slots THEN slots ELSE n)
    /\ video' = 0 /\ altShown' = FALSE /\ hasFile' = FALSE
    /\ UNCHANGED <<draft, images, alts, gif, altText, sent>>

\* Mutant: the images that are there already are not counted.
PickImages_Uncounted(n) ==
    /\ Choice("image", IF n > Limit THEN Limit ELSE n)
    /\ video' = 0 /\ gif' = 0 /\ altShown' = FALSE /\ hasFile' = FALSE
    /\ UNCHANGED <<draft, images, alts, altText, sent>>

\* The room is counted before the first read.
PickImages(n) ==
    /\ Len(images) < Limit
    /\ LET slots == Limit - Len(images) IN Choice("image", IF n > slots THEN slots ELSE n)
    /\ video' = 0 /\ gif' = 0 /\ altShown' = FALSE /\ hasFile' = FALSE
    /\ UNCHANGED <<draft, images, alts, altText, sent>>

\* Mutant: the alt texts of the images stay.
PickVideo_KeepsAlts == /\ Choice("video", 1)
                       /\ images' = <<>> /\ gif' = 0 /\ hasFile' = TRUE
                       /\ UNCHANGED <<draft, alts, video, altShown, altText, sent>>

PickVideo == /\ Choice("video", 1)
             /\ images' = <<>> /\ alts' = <<>> /\ gif' = 0 /\ hasFile' = TRUE
             /\ UNCHANGED <<draft, video, altShown, altText, sent>>

\* The field is emptied by the reader.
UnpickVideo == /\ hasFile /\ hasFile' = FALSE
               /\ video' = 0 /\ altShown' = FALSE
               /\ crossed' = (crossed \/ Reading)
               /\ UNCHANGED <<draft, images, alts, gif, altText, reads, sent>>

\* A file has been read; an image brings the input for its text with it.
ReadImage(r) == /\ reads[r].kind = "image"
                /\ images' = Append(images, reads[r].from) /\ alts' = Append(alts, FALSE)
                /\ UNCHANGED <<video, gif, altShown>>

ReadVideo(r) == /\ reads[r].kind = "video"
                /\ video' = reads[r].from /\ altShown' = TRUE
                /\ UNCHANGED <<images, alts, gif>>

Read(r) == /\ reads[r].left > 0
           /\ reads' = [reads EXCEPT ![r].left = @ - 1]
           /\ ReadImage(r) \/ ReadVideo(r)
           /\ UNCHANGED <<draft, altText, hasFile, sent, crossed>>

\* A file that cannot be read ends its handler.
Unreadable(r) == /\ reads[r].left > 0 /\ reads' = [reads EXCEPT ![r].left = 0]
                 /\ UNCHANGED <<draft, pieces, field, sent, crossed>>

\* The GIF brings a text of its own.
PickGif == /\ gif = 0
           /\ images' = <<>> /\ alts' = <<>> /\ video' = 0 /\ gif' = draft
           /\ altShown' = TRUE /\ altText' = TRUE /\ hasFile' = FALSE
           /\ crossed' = (crossed \/ Reading)
           /\ UNCHANGED <<draft, reads, sent>>

RemoveGif == /\ gif # 0 /\ gif' = 0 /\ altShown' = FALSE
             /\ UNCHANGED <<draft, images, alts, video, altText, hasFile, reads, sent, crossed>>

Describe == \/ /\ \E i \in DOMAIN alts : ~alts[i] /\ alts' = [alts EXCEPT ![i] = TRUE]
               /\ UNCHANGED altText
            \/ altShown /\ altText' = ~altText /\ UNCHANGED alts
DescribeOne == Describe /\ UNCHANGED <<draft, images, video, gif, altShown, hasFile, reads, sent, crossed>>

\* The texts are looked at before anything is sent; one without a medium is refused
\* elsewhere (module Compose).
Submit == /\ \A i \in DOMAIN alts : alts[i]
          /\ video # 0 \/ gif # 0 => altText
          /\ sent' = [images |-> Len(images), alts |-> alts, video |-> video, gif |-> gif, alt |-> altText]
          /\ UNCHANGED <<draft, pieces, field, reads, crossed>>

Next == \/ openComposeModal \/ PickVideo \/ UnpickVideo \/ PickGif \/ RemoveGif \/ DescribeOne \/ Submit
        \/ \E n \in 1..Limit : PickImages(n)
        \/ \E r \in DOMAIN reads : Read(r) \/ Unreadable(r)

Spec == Init /\ [][Next]_vars

(***************************************************************************)
(* Properties.  The choices of the reader do not wait for the files of the *)
(* choice before: where that matters, the property is about histories in   *)
(* which they did.                                                         *)
(***************************************************************************)

\* Every image has the input for its text, and no input is left without its image: the
\* server refuses a post in which their numbers differ, and nothing on the page would
\* let the reader mend it.
AltPerImage == Len(images) = Len(alts)

\* At most one kind of medium is attached, and the text the form asks for has its field
\* on the page.
OneKind == ~crossed =>
    /\ ~(images # <<>> /\ video # 0) /\ ~(images # <<>> /\ gif # 0) /\ ~(video # 0 /\ gif # 0)
    /\ video # 0 \/ gif # 0 => altShown

\* What is attached was chosen for this draft.
OwnPieces == ~crossed => /\ \A i \in DOMAIN images : images[i] = draft
                         /\ video \in {0, draft} /\ gif \in {0, draft}

\* What is sent is what the server takes: as many texts as images, no empty text, and no
\* more images than a post may have.
SentIsAccepted == /\ sent.images = Len(sent.alts)
                  /\ \A i \in DOMAIN sent.alts : sent.alts[i]
                  /\ sent.video # 0 \/ sent.gif # 0 => sent.alt
                  /\ crossed \/ sent.images <= Limit

\* What these rest on: of the files that were chosen, one choice at most is still read, it
\* is of this draft, and what it is going to bring has its place.
Awaited(r) == /\ reads[r].from = draft /\ gif = 0
              /\ reads[r].kind = "image" => video = 0 /\ Len(images) + reads[r].left <= Limit
              /\ reads[r].kind = "video" => images = <<>> /\ reads[r].left = 1
OneRead == ~crossed =>
    /\ Len(images) <= Limit
    /\ \A r \in DOMAIN reads : reads[r].left > 0 =>
          Awaited(r) /\ \A q \in DOMAIN reads : reads[q].left > 0 => q = r
Picks == [kind : {"image", "video"}, left : Nat, from : Nat]
Pieces == /\ draft \in Nat \ {0} /\ images \in Seq(Nat) /\ alts \in Seq(BOOLEAN)
          /\ video \in Nat /\ gif \in Nat /\ (hasFile => gif = 0)
          /\ reads \in Seq(Picks)
AttachInv == Pieces /\ AltPerImage /\ OneKind /\ OwnPieces /\ SentIsAccepted /\ OneRead
=============================================================================
