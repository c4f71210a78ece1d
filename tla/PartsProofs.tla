------------------------------ MODULE PartsProofs ------------------------------
(***************************************************************************)
(* Proofs about the parts of the pages that Parts lists, each from an      *)
(* inductive invariant of its own: what a row says, the timer of the       *)
(* videos, what is attached to a post, its link, the settings, mentions.   *)
(* The theorems about the pages together are in PagesProofs.               *)
(***************************************************************************)
EXTENDS Parts, FiniteSetTheorems, SequenceTheorems, TLAPS

-----------------------------------------------------------------------------
(***************************************************************************)
(* A row and its videos.  The state of the row: v1 kind, v2 mark, v3 label, *)
(* v4 count, v5 metric, v6 calls, v7 records, v8 others, v9 clicks,        *)
(* v10 failures, v11 tangled; that of the videos: v1 where, v2 inView,     *)
(* v3 registered, v4 observer, v5 watch, v6 playing, v7 sweeping.          *)
(***************************************************************************)

\* A row as it comes, and every click, answer and failure, keep what the button and the count
\* rest on.
LEMMA InitRow == TogglePart!Init => TogglePart!RowInv
<1> SUFFICES ASSUME TogglePart!Init PROVE TogglePart!RowInv
  OBVIOUS
<1>1. PICK on \in 0..1 : /\ v2 = on /\ v3 = (on = 1) /\ v7 = (IF on = 1 THEN {1} ELSE {})
                         /\ v4 = v8 + on /\ v5 = v4
  BY DEF TogglePart!Init
<1>2. v8 \in 0..1 /\ v6 = {} /\ v9 = 0 /\ v11 = FALSE
  BY DEF TogglePart!Init
<1>3. TogglePart!Agreed
  BY <1>1 DEF TogglePart!Agreed
<1> QED
  BY <1>1, <1>2, <1>3 DEF TogglePart!RowInv

\* Each click, answer and failure keeps it.
LEMMA StepRow == TogglePart!RowInv /\ [TogglePart!Next]_TogglePart!vars => TogglePart!RowInv'
<1> SUFFICES ASSUME TogglePart!RowInv, [TogglePart!Next]_TogglePart!vars PROVE TogglePart!RowInv'
  OBVIOUS
<1>1. ASSUME NEW k, TogglePart!Click(k) PROVE TogglePart!RowInv'
  <2>1. UNCHANGED <<v1, v2, v3, v4, v5, v7, v8>> /\ v9 \in Nat /\ v9' = v9 + 1 /\ v11' = (v11 \/ v6 # {})
    BY <1>1 DEF TogglePart!Click, TogglePart!row, TogglePart!RowInv
  <2>2. v2 \in Nat /\ v4 \in Nat /\ v9' \in Nat
    BY <2>1 DEF TogglePart!RowInv
  <2>3. PICK c \in [n : Nat, undo : Nat, count : Nat, got : Nat] :
           v6' = v6 \cup {c} /\ c.n = v9' /\ c.undo = v2 /\ c.count = v4 /\ c.got = 0
    <3> DEFINE x == [n |-> v9', undo |-> v2, count |-> v4, got |-> 0]
    <3>1. /\ x \in [n : Nat, undo : Nat, count : Nat, got : Nat]
          /\ x.n = v9' /\ x.undo = v2 /\ x.count = v4 /\ x.got = 0
      BY <2>2
    <3>2. v6' = v6 \cup {x}
      BY <1>1 DEF TogglePart!Click
    <3> QED
      BY <3>1, <3>2, Zenon
  <2>4. ASSUME ~v11' PROVE v6' = {c} /\ TogglePart!Called(c)'
    <3>1. v6 = {} /\ TogglePart!Agreed
      BY <2>1, <2>4 DEF TogglePart!RowInv
    <3> QED
      BY <3>1, <2>1, <2>2, <2>3 DEF TogglePart!Agreed, TogglePart!Called
  <2> QED
    BY <2>1, <2>3, <2>4 DEF TogglePart!RowInv
<1>2. ASSUME NEW c \in v6, TogglePart!Served(c) PROVE TogglePart!RowInv'
  <2>1. UNCHANGED <<v1, v2, v3, v4, v5, v8, v9, v11>>
    BY <1>2 DEF TogglePart!Served, TogglePart!row
  <2>2. c \in [n : Nat, undo : Nat, count : Nat, got : Nat] /\ c.got = 0
    BY <1>2 DEF TogglePart!RowInv, TogglePart!Served
  <2> DEFINE new == IF v1 = "bookmark" THEN 1 ELSE c.n + 1
             x   == [c EXCEPT !.got = new]
  <2>3. /\ v7' = (IF c.undo # 0 THEN v7 \ {c.undo} ELSE v7 \cup {new})
        /\ v6' = (v6 \ {c}) \cup {x}
    BY <1>2, Zenon DEF TogglePart!Served
  <2>4. new \in Nat \ {0}
    BY <2>2
  <2> HIDE DEF new
  <2>6. /\ x \in [n : Nat, undo : Nat, count : Nat, got : Nat]
        /\ x.n = c.n /\ x.undo = c.undo /\ x.count = c.count /\ x.got = new
    BY <2>2, <2>4
  <2> HIDE DEF x
  <2>7. PICK d \in [n : Nat, undo : Nat, count : Nat, got : Nat] :
           /\ v6' = (v6 \ {c}) \cup {d}
           /\ d.n = c.n /\ d.undo = c.undo /\ d.count = c.count /\ d.got = new
    BY <2>3, <2>6, Zenon
  <2>5. ASSUME ~v11' PROVE v6' = {d} /\ TogglePart!Called(d)'
    <3>1. v6 = {c} /\ TogglePart!Called(c) /\ TogglePart!Agreed
      BY <2>1, <2>2, <2>5 DEF TogglePart!RowInv, TogglePart!Called
    <3> QED
      BY <3>1, <2>1, <2>2, <2>3, <2>4, <2>7 DEF TogglePart!Called, TogglePart!Agreed
  <2> QED
    BY <2>1, <2>5, <2>7 DEF TogglePart!RowInv
<1>3. ASSUME NEW k, NEW c \in v6, TogglePart!Answered(k, c) PROVE TogglePart!RowInv'
  <2>1. UNCHANGED <<v1, v7, v8, v9, v11>> /\ TogglePart!Shown(c) /\ c.got # 0 /\ v6' = v6 \ {c}
    BY <1>3 DEF TogglePart!Answered
  <2>2. c \in [n : Nat, undo : Nat, count : Nat, got : Nat] /\ v2' \in Nat /\ v4' \in Nat
    <3>1. c \in [n : Nat, undo : Nat, count : Nat, got : Nat] /\ v4 \in Nat
      BY DEF TogglePart!RowInv
    <3> QED
      BY <2>1, <3>1 DEF TogglePart!Shown
  <2>3. ASSUME ~v11'
        PROVE  /\ v6' = {} /\ TogglePart!Agreed'
               /\ v1 # "bookmark" => v5' = v4' /\ v4' = v8 + IF v2' = 0 THEN 0 ELSE 1
    <3>1. v6 = {c} /\ TogglePart!Called(c) /\ v8 \in 0..1
          /\ (v1 # "bookmark" => v4 = v8 + IF v2 = 0 THEN 0 ELSE 1)
      BY <2>1, <2>3 DEF TogglePart!RowInv
    <3>2. v6' = {} /\ TogglePart!Agreed'
      BY <2>1, <2>2, <3>1 DEF TogglePart!Shown, TogglePart!Called, TogglePart!Agreed
    <3>3. v1 # "bookmark" => v5' = v4' /\ v4' = v8 + IF v2' = 0 THEN 0 ELSE 1
      BY <2>1, <2>2, <3>1 DEF TogglePart!Shown, TogglePart!Called
    <3> QED
      BY <3>2, <3>3
  <2> QED
    BY <2>1, <2>2, <2>3 DEF TogglePart!RowInv
<1>4. ASSUME NEW c \in v6, TogglePart!Failed(c) PROVE TogglePart!RowInv'
  BY <1>4 DEF TogglePart!Failed, TogglePart!RowInv, TogglePart!Agreed, TogglePart!Called, TogglePart!row
<1>5. CASE UNCHANGED TogglePart!vars
  BY <1>5 DEF TogglePart!vars, TogglePart!RowInv, TogglePart!Agreed, TogglePart!Called, TogglePart!row
<1> QED
  BY <1>1, <1>2, <1>3, <1>4, <1>5 DEF TogglePart!Next, TogglePart!ClickLike, TogglePart!ClickRepost,
     TogglePart!ClickBookmark, TogglePart!Liked, TogglePart!Reposted, TogglePart!Bookmarked

\* The videos as the page comes, and every step of theirs, keep what the timer rests on.
LEMMA InitVideos == VideosPart!Init => VideosPart!VideosInv
BY DEF VideosPart!Init, VideosPart!VideosInv, VideosPart!SweepIsOn, VideosPart!PlayersAreTracked,
       VideosPart!WatchedAreTracked

\* Each step of the videos keeps what the timer rests on.
LEMMA StepVideos == VideosPart!VideosInv /\ [VideosPart!Next]_VideosPart!vars => VideosPart!VideosInv'
<1> SUFFICES ASSUME VideosPart!VideosInv, [VideosPart!Next]_VideosPart!vars
             PROVE  VideosPart!VideosInv'
  OBVIOUS
<1> USE DEF VideosPart!VideosInv, VideosPart!SweepIsOn, VideosPart!PlayersAreTracked,
            VideosPart!WatchedAreTracked
<1>1. ASSUME NEW old \in SUBSET VideosPart!Page, VideosPart!Replace(old) \/ VideosPart!Clear(old)
      PROVE  VideosPart!VideosInv'
  <2>1. CASE VideosPart!Replace(old)
    BY <2>1 DEF VideosPart!Replace, VideosPart!Page, VideosPart!Watching
  <2>2. CASE VideosPart!Clear(old)
    BY <2>2 DEF VideosPart!Clear, VideosPart!forgetVideos, VideosPart!Page
  <2> QED
    BY <1>1, <2>1, <2>2
<1>2. ASSUME NEW v \in Clips, VideosPart!onVisibilityChange(v) PROVE VideosPart!VideosInv'
  BY <1>2 DEF VideosPart!onVisibilityChange, VideosPart!forgetVideos, VideosPart!Now
<1>3. CASE VideosPart!sweepDetachedVideos
  BY <1>3 DEF VideosPart!sweepDetachedVideos, VideosPart!Watching
<1>4. ASSUME NEW v \in Clips, VideosPart!createPostArticle(v) PROVE VideosPart!VideosInv'
  BY <1>4 DEF VideosPart!createPostArticle, VideosPart!observeVideo
<1>5. ASSUME NEW v \in Clips, VideosPart!Remove(v) \/ VideosPart!Scroll(v) PROVE VideosPart!VideosInv'
  BY <1>5 DEF VideosPart!Remove, VideosPart!Scroll
<1>6. CASE UNCHANGED VideosPart!vars
  BY <1>6 DEF VideosPart!vars
<1> QED
  BY <1>1, <1>2, <1>3, <1>4, <1>5, <1>6 DEF VideosPart!Next, VideosPart!Report

(***************************************************************************)
(* The rows: the theorem.                                                  *)
(***************************************************************************)

\* An instance of a module brings its own Cardinality, which is the library's.
LEMMA SameCardinality == \A S : TogglePart!Cardinality(S) = Cardinality(S)
BY DEF TogglePart!Cardinality, Cardinality

\* The invariant of the buttons says what the run checks of them.
LEMMA RowTells == TogglePart!RowInv => TogglePart!ButtonTellsTruth /\ TogglePart!CountIsHonest
<1> SUFFICES ASSUME TogglePart!RowInv
             PROVE  TogglePart!ButtonTellsTruth /\ TogglePart!CountIsHonest
  OBVIOUS
<1>1. CASE v11
  BY <1>1 DEF TogglePart!ButtonTellsTruth, TogglePart!CountIsHonest
<1>2. CASE ~v11
  <2>1. CASE v6 = {}
    <3>1. /\ v7 = {v2} \ {0} /\ v3 = (v2 # 0)
          /\ v1 # "bookmark" => v5 = v8 + IF v2 = 0 THEN 0 ELSE 1
      BY <1>2, <2>1 DEF TogglePart!RowInv, TogglePart!Agreed
    <3>2. TogglePart!Cardinality(v7) = IF v2 = 0 THEN 0 ELSE 1
      <4>1. CASE v2 = 0
        <5>1. v7 = {}
          BY <3>1, <4>1
        <5> QED
          BY <5>1, <4>1, FS_EmptySet, SameCardinality
      <4>2. CASE v2 # 0
        <5>1. v7 = {v2}
          BY <3>1, <4>2
        <5> QED
          BY <5>1, <4>2, FS_Singleton, SameCardinality
      <4> QED
        BY <4>1, <4>2
    <3> QED
      BY <3>1, <3>2 DEF TogglePart!ButtonTellsTruth, TogglePart!CountIsHonest
  <2>2. CASE v6 # {}
    <3>1. PICK c : v6 = {c} /\ TogglePart!Called(c)
      BY <1>2, <2>2 DEF TogglePart!RowInv
    <3>2. v7 = {} \/ v7 = {v2} \/ v7 = {c.got}
      BY <3>1 DEF TogglePart!Called, TogglePart!Agreed
    <3>3. Cardinality(v7) = 0 \/ Cardinality(v7) = 1
      BY <3>2, FS_EmptySet, FS_Singleton
    <3>4. TogglePart!Cardinality(v7) <= 1
      BY <3>3, SameCardinality
    <3> QED
      BY <2>2, <3>4 DEF TogglePart!ButtonTellsTruth, TogglePart!CountIsHonest
  <2> QED
    BY <2>1, <2>2
<1> QED
  BY <1>1, <1>2

-----------------------------------------------------------------------------
(***************************************************************************)
(* What is attached.  The state of the draft: v1 draft, v2 images, v3 alts, *)
(* v4 video, v5 gif, v6 altShown, v9 reads, v10 sent, v11 crossed.         *)
(***************************************************************************)
Reads == Seq(AttachPart!Picks)

\* The parts of a choice.
LEMMA ChoicesAre ==
    \A c \in AttachPart!Picks : c.kind \in {"image", "video"} /\ c.left \in Nat /\ c.from \in Nat
BY DEF AttachPart!Picks

\* The choices that are read.
LEMMA ReadsAre ==
    ASSUME AttachPart!AttachInv
    PROVE  /\ v9 \in Reads /\ DOMAIN v9 = 1..Len(v9) /\ Len(v9) \in Nat
           /\ \A r \in DOMAIN v9 : /\ v9[r] \in AttachPart!Picks /\ v9[r].kind \in {"image", "video"}
                                   /\ v9[r].left \in Nat /\ v9[r].from \in Nat
<1>1. v9 \in Reads
  BY DEF AttachPart!AttachInv, AttachPart!Pieces, Reads
<1>2. DOMAIN v9 = 1..Len(v9) /\ Len(v9) \in Nat /\ \A r \in 1..Len(v9) : v9[r] \in AttachPart!Picks
  BY <1>1, LenProperties, ElementOfSeq DEF Reads
<1> QED
  BY <1>1, <1>2, ChoicesAre

\* No piece is attached.
LEMMA Emptied ==
    /\ <<>> \in Seq(Nat) /\ <<>> \in Seq(BOOLEAN) /\ <<>> \in Seq(AttachPart!Picks)
    /\ Len(<<>>) = 0 /\ DOMAIN <<>> = {}
BY EmptySeq

\* The dialog comes with nothing attached.
LEMMA InitAttach == AttachPart!Init => AttachPart!AttachInv
<1> SUFFICES ASSUME AttachPart!Init PROVE AttachPart!AttachInv
  OBVIOUS
<1>1. AttachPart!Pieces
  BY Emptied DEF AttachPart!Init, AttachPart!Pieces
<1>2. AttachPart!AltPerImage /\ AttachPart!OneKind /\ AttachPart!OwnPieces
  BY DEF AttachPart!Init, AttachPart!AltPerImage, AttachPart!OneKind, AttachPart!OwnPieces
<1>3. AttachPart!SentIsAccepted
  BY PartBounds DEF AttachPart!Init, AttachPart!SentIsAccepted, AttachPart!Nothing
<1>4. AttachPart!OneRead
  BY PartBounds DEF AttachPart!Init, AttachPart!OneRead
<1> QED
  BY <1>1, <1>2, <1>3, <1>4 DEF AttachPart!AttachInv

\* The pieces of a draft that is opened, or that has something chosen for it: whatever is
\* still read of the choice before makes the history a crossed one.
LEMMA Chosen ==
    ASSUME AttachPart!AttachInv, NEW k \in {"image", "video"}, NEW m \in Nat,
           AttachPart!Choice(k, m)
    PROVE  /\ v9' \in Reads
           /\ ~v11' => /\ ~v11 /\ \A r \in DOMAIN v9 : v9[r].left = 0
                       /\ \A r \in DOMAIN v9' : v9'[r].left > 0 =>
                            /\ v9'[r].kind = k /\ v9'[r].left = m /\ v9'[r].from = v1
                            /\ \A q \in DOMAIN v9' : v9'[q].left > 0 => q = r
<1> DEFINE c == [kind |-> k, left |-> m, from |-> v1]
<1>1. v9 \in Reads /\ v1 \in Nat
  BY ReadsAre DEF AttachPart!AttachInv, AttachPart!Pieces
<1>2. /\ c \in AttachPart!Picks
      /\ c.kind = k /\ c.left = m /\ c.from = v1
  BY <1>1 DEF AttachPart!Picks
<1>3. v9' = Append(v9, c) /\ v11' = (v11 \/ AttachPart!Reading)
  BY DEF AttachPart!Choice
<1> HIDE DEF c
<1>4. /\ v9' \in Reads /\ Len(v9') = Len(v9) + 1 /\ v9'[Len(v9) + 1] = c
      /\ \A i \in 1..Len(v9) : v9'[i] = v9[i]
  BY <1>1, <1>2, <1>3, AppendProperties DEF Reads
<1>5. /\ DOMAIN v9 = 1..Len(v9) /\ DOMAIN v9' = 1..(Len(v9) + 1) /\ Len(v9) \in Nat
      /\ \A r \in DOMAIN v9 : v9[r].left \in Nat
  BY <1>1, <1>4, ReadsAre, LenProperties DEF Reads
<1>6. ASSUME ~v11' PROVE ~v11 /\ \A r \in DOMAIN v9 : v9[r].left = 0
  <2>1. ~v11 /\ ~AttachPart!Reading
    BY <1>3, <1>6, Zenon
  <2> QED
    BY <1>5, <2>1 DEF AttachPart!Reading
<1>7. ASSUME ~v11', NEW r \in DOMAIN v9', v9'[r].left > 0
      PROVE  r = Len(v9) + 1
  BY <1>4, <1>5, <1>6, <1>7
<1> QED
  BY <1>2, <1>4, <1>6, <1>7

\* The same of a step that chooses nothing.
LEMMA Crossed ==
    ASSUME AttachPart!AttachInv, v11' = (v11 \/ AttachPart!Reading), v9' = v9, ~v11'
    PROVE  ~v11 /\ \A r \in DOMAIN v9' : ~(v9'[r].left > 0)
BY DEF AttachPart!Reading

\* The dialog is opened for the next draft, and what was attached goes.
LEMMA OpenKeeps ==
    ASSUME AttachPart!AttachInv, AttachPart!openComposeModal PROVE AttachPart!AttachInv'
<1>1. /\ v1' = v1 + 1 /\ v2' = <<>> /\ v3' = <<>> /\ v4' = 0 /\ v5' = 0 /\ v6' = FALSE
      /\ v8' = FALSE /\ v9' = v9 /\ v10' = v10 /\ v11' = (v11 \/ AttachPart!Reading)
  BY DEF AttachPart!openComposeModal
<1>2. AttachPart!Pieces'
  BY <1>1, Emptied DEF AttachPart!AttachInv, AttachPart!Pieces
<1>3. ~v11' => ~v11 /\ \A r \in DOMAIN v9' : ~(v9'[r].left > 0)
  BY <1>1, Crossed
<1>4. AttachPart!AltPerImage' /\ AttachPart!OneKind' /\ AttachPart!OwnPieces'
  BY <1>1, Emptied DEF AttachPart!AltPerImage, AttachPart!OneKind, AttachPart!OwnPieces
<1>5. AttachPart!SentIsAccepted'
  BY <1>1 DEF AttachPart!SentIsAccepted, AttachPart!AttachInv
<1>6. AttachPart!OneRead'
  BY <1>1, <1>3, Emptied, PartBounds DEF AttachPart!OneRead
<1> QED
  BY <1>2, <1>4, <1>5, <1>6 DEF AttachPart!AttachInv

\* Images are chosen, as many as there is room for.
LEMMA PickImagesKeeps ==
    ASSUME AttachPart!AttachInv, NEW k \in 1..AttachLimit, AttachPart!PickImages(k)
    PROVE  AttachPart!AttachInv'
<1> DEFINE slots == AttachLimit - Len(v2)
           m     == IF k > slots THEN slots ELSE k
<1>1. /\ Len(v2) < AttachLimit /\ AttachPart!Choice("image", m)
      /\ v4' = 0 /\ v5' = 0 /\ v6' = FALSE /\ v8' = FALSE /\ UNCHANGED <<v1, v2, v3, v10>>
  BY DEF AttachPart!PickImages
<1>2. v2 \in Seq(Nat) /\ Len(v2) \in Nat /\ AttachLimit \in Nat
  BY PartBounds DEF AttachPart!AttachInv, AttachPart!Pieces
<1>3. m \in Nat /\ Len(v2) + m <= AttachLimit
  BY <1>1, <1>2
<1> HIDE DEF m
<1>4. /\ v9' \in Reads
      /\ ~v11' => /\ ~v11
                  /\ \A r \in DOMAIN v9' : v9'[r].left > 0 =>
                       /\ v9'[r].kind = "image" /\ v9'[r].left = m /\ v9'[r].from = v1
                       /\ \A q \in DOMAIN v9' : v9'[q].left > 0 => q = r
  BY <1>1, <1>3, Chosen
<1>5. AttachPart!Pieces'
  BY <1>1, <1>4 DEF AttachPart!AttachInv, AttachPart!Pieces, Reads
<1>6. AttachPart!AltPerImage' /\ AttachPart!OneKind' /\ AttachPart!OwnPieces'
  BY <1>1, <1>4 DEF AttachPart!AltPerImage, AttachPart!OneKind, AttachPart!OwnPieces, AttachPart!AttachInv
<1>7. AttachPart!SentIsAccepted'
  BY <1>1, <1>4 DEF AttachPart!SentIsAccepted, AttachPart!AttachInv
<1>8. AttachPart!OneRead'
  BY <1>1, <1>2, <1>3, <1>4 DEF AttachPart!OneRead, AttachPart!Awaited
<1> QED
  BY <1>5, <1>6, <1>7, <1>8 DEF AttachPart!AttachInv

\* A video is chosen, which takes the place of the images.
LEMMA PickVideoKeeps ==
    ASSUME AttachPart!AttachInv, AttachPart!PickVideo PROVE AttachPart!AttachInv'
<1>1. /\ AttachPart!Choice("video", 1) /\ v2' = <<>> /\ v3' = <<>> /\ v5' = 0
      /\ UNCHANGED <<v1, v4, v6, v10>>
  BY DEF AttachPart!PickVideo
<1>2. /\ v9' \in Reads
      /\ ~v11' => /\ ~v11
                  /\ \A r \in DOMAIN v9' : v9'[r].left > 0 =>
                       /\ v9'[r].kind = "video" /\ v9'[r].left = 1 /\ v9'[r].from = v1
                       /\ \A q \in DOMAIN v9' : v9'[q].left > 0 => q = r
  BY <1>1, Chosen
<1>3. AttachPart!Pieces'
  BY <1>1, <1>2, Emptied DEF AttachPart!AttachInv, AttachPart!Pieces, Reads
<1>4. AttachPart!AltPerImage' /\ AttachPart!OneKind' /\ AttachPart!OwnPieces'
  BY <1>1, <1>2, Emptied DEF AttachPart!AltPerImage, AttachPart!OneKind, AttachPart!OwnPieces,
     AttachPart!AttachInv
<1>5. AttachPart!SentIsAccepted'
  BY <1>1, <1>2 DEF AttachPart!SentIsAccepted, AttachPart!AttachInv
<1>6. AttachPart!OneRead'
  BY <1>1, <1>2, Emptied, PartBounds DEF AttachPart!OneRead, AttachPart!Awaited
<1> QED
  BY <1>3, <1>4, <1>5, <1>6 DEF AttachPart!AttachInv

\* A file of a choice was read or not: one less, or none, is left of it.
LEMMA Left ==
    ASSUME AttachPart!AttachInv, NEW r \in DOMAIN v9, NEW m \in Nat, m < v9[r].left,
           v9' = [v9 EXCEPT ![r].left = m]
    PROVE  /\ v9' \in Reads /\ DOMAIN v9' = DOMAIN v9 /\ v9[r].left > 0
           /\ v9'[r].left = m /\ v9'[r].kind = v9[r].kind /\ v9'[r].from = v9[r].from
           /\ \A q \in DOMAIN v9 \ {r} : v9'[q] = v9[q]
<1>1. v9 \in Reads
  BY ReadsAre
<1>2. v9[r] \in AttachPart!Picks /\ r \in 1..Len(v9) /\ DOMAIN v9 = 1..Len(v9)
      /\ v9[r].left \in Nat
  BY ReadsAre
<1> DEFINE x == [v9[r] EXCEPT !.left = m]
<1>3. /\ x \in AttachPart!Picks
      /\ x.left = m /\ x.kind = v9[r].kind /\ x.from = v9[r].from
  BY <1>2 DEF AttachPart!Picks
<1>4. v9' = [v9 EXCEPT ![r] = x]
  OBVIOUS
<1> HIDE DEF x
<1>5. v9' \in Reads /\ DOMAIN v9' = DOMAIN v9
  BY <1>1, <1>2, <1>3, <1>4, ExceptSeq, LenProperties DEF Reads
<1> QED
  BY <1>2, <1>3, <1>4, <1>5

\* A file of a choice is read, and takes its place.
LEMMA ReadKeeps ==
    ASSUME AttachPart!AttachInv, NEW r \in DOMAIN v9, AttachPart!Read(r) PROVE AttachPart!AttachInv'
<1> DEFINE m == v9[r].left - 1
<1>0. /\ v9 \in Reads /\ v2 \in Seq(Nat) /\ v3 \in Seq(BOOLEAN) /\ v9[r].left \in Nat
      /\ v9[r].from \in Nat /\ Len(v2) = Len(v3)
  BY ReadsAre DEF AttachPart!AttachInv, AttachPart!Pieces, AttachPart!AltPerImage, Reads
<1>1. /\ v9[r].left > 0 /\ v9' = [v9 EXCEPT ![r].left = m] /\ UNCHANGED <<v1, v8, v10, v11>>
  BY DEF AttachPart!Read
<1>2. m \in Nat /\ m < v9[r].left /\ v9[r].left = m + 1
  BY <1>0, <1>1
<1> HIDE DEF m
<1>3. /\ v9' \in Reads /\ DOMAIN v9' = DOMAIN v9
      /\ v9'[r].left = m /\ v9'[r].kind = v9[r].kind /\ v9'[r].from = v9[r].from
      /\ \A q \in DOMAIN v9 \ {r} : v9'[q] = v9[q]
  BY <1>1, <1>2, Left
<1>4. ~v11 => AttachPart!Awaited(r) /\ \A q \in DOMAIN v9 : v9[q].left > 0 => q = r
  BY <1>1 DEF AttachPart!AttachInv, AttachPart!OneRead
<1>5. ~v11 => \A q \in DOMAIN v9' : v9'[q].left > 0 => q = r
  BY <1>3, <1>4
<1>6. CASE AttachPart!ReadImage(r)
  <2>1. /\ v9[r].kind = "image" /\ v2' = Append(v2, v9[r].from) /\ v3' = Append(v3, FALSE)
        /\ UNCHANGED <<v4, v5, v6>>
    BY <1>6 DEF AttachPart!ReadImage
  <2>2. /\ v2' \in Seq(Nat) /\ Len(v2') = Len(v2) + 1 /\ v2'[Len(v2) + 1] = v9[r].from
        /\ \A i \in 1..Len(v2) : v2'[i] = v2[i]
    BY <1>0, <2>1, AppendProperties
  <2>3. v3' \in Seq(BOOLEAN) /\ Len(v3') = Len(v3) + 1
    BY <1>0, <2>1, AppendProperties
  <2>4. /\ DOMAIN v2' = 1..(Len(v2) + 1) /\ DOMAIN v2 = 1..Len(v2) /\ Len(v2) \in Nat
    BY <1>0, <2>2
  <2>5. AttachPart!Pieces' /\ AttachPart!AltPerImage'
    BY <1>0, <1>1, <1>3, <2>1, <2>2, <2>3
    DEF AttachPart!AttachInv, AttachPart!Pieces, AttachPart!AltPerImage, Reads
  <2>6. AttachPart!OneKind'
    BY <1>1, <1>4, <2>1 DEF AttachPart!AttachInv, AttachPart!OneKind, AttachPart!Awaited
  <2>7. AttachPart!OwnPieces'
    BY <1>1, <1>4, <2>1, <2>2, <2>4 DEF AttachPart!AttachInv, AttachPart!OwnPieces, AttachPart!Awaited
  <2>8. AttachPart!OneRead'
    <3>1. AttachLimit \in Nat
      BY PartBounds
    <3> QED
      BY <1>1, <1>2, <1>3, <1>4, <1>5, <2>1, <2>2, <2>4, <3>1
      DEF AttachPart!OneRead, AttachPart!Awaited
  <2>9. AttachPart!SentIsAccepted'
    BY <1>1 DEF AttachPart!AttachInv, AttachPart!SentIsAccepted
  <2> QED
    BY <2>5, <2>6, <2>7, <2>8, <2>9 DEF AttachPart!AttachInv
<1>7. CASE AttachPart!ReadVideo(r)
  <2>1. /\ v9[r].kind = "video" /\ v4' = v9[r].from /\ v6' = TRUE /\ UNCHANGED <<v2, v3, v5>>
    BY <1>7 DEF AttachPart!ReadVideo
  <2>2. AttachPart!Pieces' /\ AttachPart!AltPerImage'
    BY <1>0, <1>1, <1>3, <2>1
    DEF AttachPart!AttachInv, AttachPart!Pieces, AttachPart!AltPerImage, Reads
  <2>3. AttachPart!OneKind'
    BY <1>1, <1>4, <2>1 DEF AttachPart!AttachInv, AttachPart!OneKind, AttachPart!Awaited
  <2>4. AttachPart!OwnPieces'
    BY <1>1, <1>4, <2>1 DEF AttachPart!AttachInv, AttachPart!OwnPieces, AttachPart!Awaited
  <2>5. AttachPart!OneRead'
    <3>1. ~v11 => m = 0
      BY <1>2, <1>4, <2>1 DEF AttachPart!Awaited
    <3> QED
      BY <1>1, <1>3, <1>5, <2>1, <3>1 DEF AttachPart!AttachInv, AttachPart!OneRead
  <2>6. AttachPart!SentIsAccepted'
    BY <1>1 DEF AttachPart!AttachInv, AttachPart!SentIsAccepted
  <2> QED
    BY <2>2, <2>3, <2>4, <2>5, <2>6 DEF AttachPart!AttachInv
<1> QED
  BY <1>6, <1>7 DEF AttachPart!Read

\* Each step keeps what is attached as it should be.
LEMMA StepAttach == AttachPart!AttachInv /\ [AttachPart!Next]_AttachPart!vars => AttachPart!AttachInv'
<1> SUFFICES ASSUME AttachPart!AttachInv, [AttachPart!Next]_AttachPart!vars PROVE AttachPart!AttachInv'
  OBVIOUS
<1>1. CASE AttachPart!UnpickVideo
  <2>1. /\ v4' = 0 /\ v6' = FALSE /\ v8 /\ v8' = FALSE /\ UNCHANGED <<v1, v2, v3, v5, v9, v10>>
        /\ v11' = (v11 \/ AttachPart!Reading)
    BY <1>1 DEF AttachPart!UnpickVideo
  <2>2. AttachPart!Pieces' /\ AttachPart!AltPerImage'
    BY <2>1 DEF AttachPart!AttachInv, AttachPart!Pieces, AttachPart!AltPerImage
  <2>3. AttachPart!OneKind' /\ AttachPart!OwnPieces'
    <3>1. ~v11' => ~v11
      BY <2>1, Zenon
    <3> QED
      BY <2>1, <3>1 DEF AttachPart!AttachInv, AttachPart!Pieces, AttachPart!OneKind,
         AttachPart!OwnPieces
  <2>4. AttachPart!OneRead'
    BY <2>1, Crossed DEF AttachPart!AttachInv, AttachPart!OneRead
  <2>5. AttachPart!SentIsAccepted'
    BY <2>1 DEF AttachPart!AttachInv, AttachPart!SentIsAccepted
  <2> QED
    BY <2>2, <2>3, <2>4, <2>5 DEF AttachPart!AttachInv
<1>2. CASE AttachPart!PickGif
  <2>1. /\ v2' = <<>> /\ v3' = <<>> /\ v4' = 0 /\ v5' = v1 /\ v6' = TRUE
        /\ v8' = FALSE /\ UNCHANGED <<v1, v9, v10>> /\ v11' = (v11 \/ AttachPart!Reading)
    BY <1>2 DEF AttachPart!PickGif
  <2>2. ~v11' => ~v11 /\ \A r \in DOMAIN v9' : ~(v9'[r].left > 0)
    BY <2>1, Crossed
  <2>3. AttachPart!Pieces'
    BY <2>1, Emptied DEF AttachPart!AttachInv, AttachPart!Pieces
  <2>4. AttachPart!AltPerImage' /\ AttachPart!OneKind' /\ AttachPart!OwnPieces'
    BY <2>1, Emptied DEF AttachPart!AltPerImage, AttachPart!OneKind, AttachPart!OwnPieces
  <2>5. AttachPart!SentIsAccepted'
    BY <2>1 DEF AttachPart!AttachInv, AttachPart!SentIsAccepted
  <2>6. AttachPart!OneRead'
    BY <2>1, <2>2, Emptied, PartBounds DEF AttachPart!OneRead
  <2> QED
    BY <2>3, <2>4, <2>5, <2>6 DEF AttachPart!AttachInv
<1>3. CASE AttachPart!RemoveGif
  <2>1. v5 # 0 /\ v5' = 0 /\ v6' = FALSE /\ UNCHANGED <<v1, v2, v3, v4, v8, v9, v10, v11>>
    BY <1>3 DEF AttachPart!RemoveGif
  <2>2. AttachPart!Pieces' /\ AttachPart!AltPerImage' /\ AttachPart!OwnPieces'
    BY <2>1 DEF AttachPart!AttachInv, AttachPart!Pieces, AttachPart!AltPerImage, AttachPart!OwnPieces
  <2>3. AttachPart!OneKind'
    BY <2>1 DEF AttachPart!AttachInv, AttachPart!OneKind
  <2>4. AttachPart!OneRead' /\ AttachPart!SentIsAccepted'
    BY <2>1 DEF AttachPart!AttachInv, AttachPart!OneRead, AttachPart!Awaited, AttachPart!SentIsAccepted
  <2> QED
    BY <2>2, <2>3, <2>4 DEF AttachPart!AttachInv
<1>4. CASE AttachPart!DescribeOne
  <2>1. UNCHANGED <<v1, v2, v4, v5, v6, v8, v9, v10, v11>>
    BY <1>4 DEF AttachPart!DescribeOne
  <2>2. v3' \in Seq(BOOLEAN) /\ Len(v3') = Len(v3)
    <3>1. v3 \in Seq(BOOLEAN)
      BY DEF AttachPart!AttachInv, AttachPart!Pieces
    <3>2. CASE v3' = v3
      BY <3>1, <3>2
    <3>3. ASSUME NEW i \in DOMAIN v3, v3' = [v3 EXCEPT ![i] = TRUE]
          PROVE  v3' \in Seq(BOOLEAN) /\ Len(v3') = Len(v3)
      <4>1. i \in 1..Len(v3)
        BY <3>1
      <4> QED
        BY <3>1, <3>3, <4>1, ExceptSeq
    <3> QED
      BY <1>4, <3>2, <3>3 DEF AttachPart!DescribeOne, AttachPart!Describe
  <2> QED
    BY <2>1, <2>2 DEF AttachPart!AttachInv, AttachPart!Pieces, AttachPart!AltPerImage,
       AttachPart!OneKind, AttachPart!OwnPieces, AttachPart!SentIsAccepted, AttachPart!OneRead,
       AttachPart!Awaited
<1>5. CASE AttachPart!Submit
  <2>1. /\ \A i \in DOMAIN v3 : v3[i]
        /\ v4 # 0 \/ v5 # 0 => v7
        /\ v10' = [images |-> Len(v2), alts |-> v3, video |-> v4, gif |-> v5, alt |-> v7]
        /\ UNCHANGED <<v1, v2, v3, v4, v5, v6, v8, v9, v11>>
    BY <1>5 DEF AttachPart!Submit, AttachPart!pieces, AttachPart!field
  <2>2. /\ v10'.images = Len(v2) /\ v10'.alts = v3 /\ v10'.video = v4 /\ v10'.gif = v5
        /\ v10'.alt = v7
    BY <2>1
  <2>3. Len(v2) = Len(v3) /\ (~v11 => Len(v2) <= AttachLimit)
    BY DEF AttachPart!AttachInv, AttachPart!AltPerImage, AttachPart!OneRead
  <2>4. AttachPart!SentIsAccepted'
    BY <2>1, <2>2, <2>3 DEF AttachPart!SentIsAccepted
  <2> QED
    BY <2>1, <2>4 DEF AttachPart!AttachInv, AttachPart!Pieces, AttachPart!AltPerImage,
       AttachPart!OneKind, AttachPart!OwnPieces, AttachPart!OneRead, AttachPart!Awaited
<1>6. ASSUME NEW r \in DOMAIN v9, AttachPart!Unreadable(r) PROVE AttachPart!AttachInv'
  <2>1. v9[r].left > 0 /\ v9' = [v9 EXCEPT ![r].left = 0] /\ UNCHANGED <<v1, v2, v3, v4, v5, v6, v8, v10, v11>>
    BY <1>6 DEF AttachPart!Unreadable, AttachPart!pieces, AttachPart!field
  <2>2. v9[r].left \in Nat
    BY ReadsAre
  <2>3. /\ v9' \in Reads /\ DOMAIN v9' = DOMAIN v9 /\ v9'[r].left = 0
        /\ \A q \in DOMAIN v9 \ {r} : v9'[q] = v9[q]
    BY <2>1, <2>2, Left
  <2>4. AttachPart!Pieces'
    BY <2>1, <2>3 DEF AttachPart!AttachInv, AttachPart!Pieces, Reads
  <2>5. AttachPart!OneRead'
    BY <2>1, <2>3 DEF AttachPart!AttachInv, AttachPart!OneRead, AttachPart!Awaited
  <2> QED
    BY <2>1, <2>4, <2>5 DEF AttachPart!AttachInv, AttachPart!AltPerImage, AttachPart!OneKind,
       AttachPart!OwnPieces, AttachPart!SentIsAccepted
<1>7. CASE UNCHANGED AttachPart!vars
  BY <1>7 DEF AttachPart!vars, AttachPart!pieces, AttachPart!field, AttachPart!AttachInv,
     AttachPart!Pieces, AttachPart!AltPerImage, AttachPart!OneKind, AttachPart!OwnPieces,
     AttachPart!SentIsAccepted, AttachPart!OneRead, AttachPart!Awaited
<1> QED
  BY <1>1, <1>2, <1>3, <1>4, <1>5, <1>6, <1>7, OpenKeeps, PickVideoKeeps, PickImagesKeeps,
     ReadKeeps DEF AttachPart!Next

-----------------------------------------------------------------------------
(***************************************************************************)
(* The preview of the link.  Its state: v1 draft, v2 url, v3 link,         *)
(* v4 fetches, v5 called, v6 box, v7 asked, v8 crossed.                    *)
(***************************************************************************)
Calls == [draft : PreviewPart!Drafts, url : PreviewPart!AnyUrl, n : Nat]

\* What the links, the calls and the container are made of.
LEMMA PlacesAre ==
    ASSUME PreviewPart!Places
    PROVE  /\ PreviewPart!Drafts = 1..PreviewDrafts /\ v1 \in Nat /\ v1 \in PreviewPart!Drafts
           /\ v5 \in Nat /\ v6.of \in 0..v1 /\ v6.url \in PreviewPart!AnyUrl
           /\ DOMAIN v3 = PreviewPart!Drafts /\ v3 \in [PreviewPart!Drafts -> PreviewPart!LinkState]
           /\ \A d \in PreviewPart!Drafts : d \in Nat /\ v3[d] \in PreviewPart!LinkState
           /\ v4 \subseteq Calls
           /\ \A f \in v4 : f.draft \in PreviewPart!Drafts /\ f.url \in PreviewPart!AnyUrl
<1>1. /\ v1 \in PreviewPart!Drafts /\ v5 \in Nat
      /\ v3 \in [PreviewPart!Drafts -> PreviewPart!LinkState]
      /\ v4 \subseteq Calls
      /\ v6.of \in 0..v1 /\ v6.url \in PreviewPart!AnyUrl
  BY DEF PreviewPart!Places, Calls
<1>2. PreviewPart!Drafts = 1..PreviewDrafts /\ PreviewDrafts \in Nat
  BY PartBounds DEF PreviewPart!Drafts
<1>3. \A f \in v4 : f.draft \in PreviewPart!Drafts /\ f.url \in PreviewPart!AnyUrl
  BY <1>1 DEF Calls
<1>4. \A d \in PreviewPart!Drafts : v3[d] \in PreviewPart!LinkState
  BY <1>1
<1> QED
  BY <1>1, <1>2, <1>3, <1>4

\* The state of one link is replaced.
LEMMA Linked ==
    ASSUME PreviewPart!Places, NEW d \in PreviewPart!Drafts, NEW x \in PreviewPart!LinkState,
           v3' = [v3 EXCEPT ![d] = x]
    PROVE  /\ v3' \in [PreviewPart!Drafts -> PreviewPart!LinkState]
           /\ v3'[d] = x /\ \A e \in PreviewPart!Drafts \ {d} : v3'[e] = v3[e]
BY PlacesAre

\* The state of a link, with one of its parts replaced.
LEMMA LinkOf ==
    ASSUME NEW s \in PreviewPart!LinkState, NEW u \in PreviewPart!AnyUrl
    PROVE  /\ s.fetched \in PreviewPart!AnyUrl /\ s.dismissed \in PreviewPart!AnyUrl
           /\ s.timer \in PreviewPart!AnyUrl
           /\ LET x == [s EXCEPT !.fetched = u]
              IN  x \in PreviewPart!LinkState /\ x.fetched = u /\ x.timer = s.timer
           /\ LET x == [s EXCEPT !.dismissed = u]
              IN  x \in PreviewPart!LinkState /\ x.fetched = s.fetched /\ x.timer = s.timer
           /\ LET x == [s EXCEPT !.timer = u]
              IN  x \in PreviewPart!LinkState /\ x.fetched = s.fetched /\ x.timer = u
BY DEF PreviewPart!LinkState

\* NoUrl is one of the URLs, and the three kinds of container.
LEMMA Boxes ==
    /\ PreviewPart!NoUrl \in PreviewPart!AnyUrl
    /\ PreviewPart!Hidden.of = 0 /\ PreviewPart!Hidden.url = PreviewPart!NoUrl
    /\ PreviewPart!Hidden.shows = "nothing"
    /\ PreviewPart!Loading.of = 0 /\ PreviewPart!Loading.url = PreviewPart!NoUrl
    /\ \A d, u : LET c == PreviewPart!Card(d, u) IN c.of = d /\ c.url = u /\ c.shows = "card"
BY DEF PreviewPart!AnyUrl, PreviewPart!Hidden, PreviewPart!Loading, PreviewPart!Card

\* The dialog comes without a link.
LEMMA InitPreview == PreviewPart!Init => PreviewPart!PreviewInv
<1> SUFFICES ASSUME PreviewPart!Init PROVE PreviewPart!PreviewInv
  OBVIOUS
<1>1. PreviewPart!Fresh \in PreviewPart!LinkState
      /\ PreviewPart!Fresh.fetched = PreviewPart!NoUrl /\ PreviewPart!Fresh.timer = PreviewPart!NoUrl
  BY Boxes DEF PreviewPart!Fresh, PreviewPart!LinkState
<1>2. /\ v1 = 1 /\ v1 \in PreviewPart!Drafts /\ v4 = {} /\ v5 = 0 /\ v6 = PreviewPart!Hidden
      /\ v3 = [d \in PreviewPart!Drafts |-> PreviewPart!Fresh] /\ v7 = [d \in PreviewPart!Drafts |-> {}]
  BY PartBounds, DialogAssumption DEF PreviewPart!Init, PreviewPart!Drafts
<1>3. PreviewPart!Places
  BY <1>1, <1>2, Boxes DEF PreviewPart!Places
<1>4. PreviewPart!OwnLinks /\ PreviewPart!OneCall
  BY <1>1, <1>2 DEF PreviewPart!OwnLinks, PreviewPart!OneCall
<1>5. PreviewPart!CardIsTheLink
  BY <1>1, <1>2 DEF PreviewPart!CardIsTheLink
<1> QED
  BY <1>3, <1>4, <1>5 DEF PreviewPart!PreviewInv

\* The dialog is opened: the next draft has no link yet.
LEMMA OpenPreview ==
    ASSUME PreviewPart!PreviewInv, PreviewPart!openComposeModal PROVE PreviewPart!PreviewInv'
<1>1. /\ v1 < PreviewDrafts /\ v1' = v1 + 1 /\ v6' = PreviewPart!Hidden
      /\ v8' = (v8 \/ v4 # {}) /\ UNCHANGED <<v3, v4, v5, v7>>
  BY DEF PreviewPart!openComposeModal
<1>2. /\ PreviewPart!Places /\ PreviewPart!OwnLinks /\ v1 \in Nat /\ v1' \in PreviewPart!Drafts
      /\ \A d \in PreviewPart!Drafts : d \in Nat
      /\ \A f \in v4 : f.draft \in PreviewPart!Drafts
  BY <1>1, PlacesAre, PartBounds DEF PreviewPart!PreviewInv
<1>3. PreviewPart!Places'
  BY <1>1, <1>2, Boxes DEF PreviewPart!Places
<1>4. PreviewPart!OwnLinks'
  <2>1. \A d \in PreviewPart!Drafts : d > v1' => d > v1
    BY <1>1, <1>2
  <2>2. ASSUME NEW f \in v4 PROVE f.draft <= v1 => f.draft <= v1'
    <3>1. f.draft \in Nat
      BY <1>2
    <3> QED
      BY <1>1, <1>2, <3>1
  <2> QED
    BY <1>1, <1>2, <2>1, <2>2 DEF PreviewPart!OwnLinks
<1>5. ~v8' => ~v8 /\ v4 = {}
  BY <1>1, Zenon
<1>6. PreviewPart!OneCall' /\ PreviewPart!CardIsTheLink'
  <2>1. v3[v1'].fetched = PreviewPart!NoUrl
    BY <1>1, <1>2 DEF PreviewPart!OwnLinks
  <2> QED
    BY <1>1, <1>5, <2>1 DEF PreviewPart!OneCall, PreviewPart!CardIsTheLink
<1> QED
  BY <1>3, <1>4, <1>6 DEF PreviewPart!PreviewInv

\* The text has changed.
LEMMA TypePreview ==
    ASSUME PreviewPart!PreviewInv, NEW u \in Urls \cup {PreviewPart!NoUrl}, PreviewPart!Type(u)
    PROVE  PreviewPart!PreviewInv'
<1> DEFINE s == v3[v1]
<1>0. /\ PreviewPart!Places /\ PreviewPart!OwnLinks /\ v1 \in PreviewPart!Drafts
      /\ u \in PreviewPart!AnyUrl /\ s \in PreviewPart!LinkState
      /\ PreviewPart!NoUrl \in PreviewPart!AnyUrl
  BY PlacesAre, Boxes DEF PreviewPart!PreviewInv, PreviewPart!AnyUrl
<1>1. /\ v7' = [v7 EXCEPT ![v1] = v7[v1] \cup {u}] /\ UNCHANGED <<v1, v4, v5, v8>>
      /\ PreviewPart!checkAndFetchLinkPreview(u)
  BY DEF PreviewPart!Type
<1>2. /\ v7' \in [PreviewPart!Drafts -> SUBSET PreviewPart!AnyUrl] /\ u \in v7'[v1]
      /\ \A d \in PreviewPart!Drafts : v7[d] \subseteq v7'[d]
  BY <1>0, <1>1 DEF PreviewPart!Places
<1>3. \/ UNCHANGED <<v3, v6>>
      \/ /\ v3' = [v3 EXCEPT ![v1] = [s EXCEPT !.dismissed = PreviewPart!NoUrl]]
         /\ v6' = PreviewPart!Hidden /\ s.fetched = PreviewPart!NoUrl
      \/ v3' = [v3 EXCEPT ![v1] = [s EXCEPT !.timer = u]] /\ v6' = v6
  BY <1>1 DEF PreviewPart!checkAndFetchLinkPreview
<1> HIDE DEF s
<1>4. /\ v3' \in [PreviewPart!Drafts -> PreviewPart!LinkState]
      /\ \A d \in PreviewPart!Drafts : /\ v3'[d].fetched = v3[d].fetched
                                       /\ v3'[d].timer = v3[d].timer \/ (d = v1 /\ v3'[d].timer = u)
      /\ v6' = v6 \/ (v6' = PreviewPart!Hidden /\ v3[v1].fetched = PreviewPart!NoUrl)
  <2>1. CASE UNCHANGED <<v3, v6>>
    BY <1>0, <2>1 DEF PreviewPart!Places
  <2>2. CASE /\ v3' = [v3 EXCEPT ![v1] = [s EXCEPT !.dismissed = PreviewPart!NoUrl]]
             /\ v6' = PreviewPart!Hidden /\ s.fetched = PreviewPart!NoUrl
    <3> DEFINE x == [s EXCEPT !.dismissed = PreviewPart!NoUrl]
    <3>1. x \in PreviewPart!LinkState /\ x.fetched = s.fetched /\ x.timer = s.timer
      BY <1>0, LinkOf
    <3> HIDE DEF x
    <3>2. v3' = [v3 EXCEPT ![v1] = x]
      BY <2>2 DEF x
    <3> QED
      BY <1>0, <2>2, <3>1, <3>2, Linked DEF s
  <2>3. CASE v3' = [v3 EXCEPT ![v1] = [s EXCEPT !.timer = u]] /\ v6' = v6
    <3> DEFINE x == [s EXCEPT !.timer = u]
    <3>1. x \in PreviewPart!LinkState /\ x.fetched = s.fetched /\ x.timer = u
      BY <1>0, LinkOf
    <3> HIDE DEF x
    <3>2. v3' = [v3 EXCEPT ![v1] = x]
      BY <2>3 DEF x
    <3> QED
      BY <1>0, <2>3, <3>1, <3>2, Linked DEF s
  <2> QED
    BY <1>3, <2>1, <2>2, <2>3
<1>5. PreviewPart!Places'
  BY <1>0, <1>1, <1>2, <1>4, Boxes, PlacesAre DEF PreviewPart!Places
<1>6. PreviewPart!OwnLinks'
  <2>1. ASSUME NEW d \in PreviewPart!Drafts
        PROVE  /\ v3'[d].fetched = PreviewPart!NoUrl \/ v3'[d].fetched \in v7'[d]
               /\ v3'[d].timer = PreviewPart!NoUrl \/ v3'[d].timer \in v7'[d]
               /\ d > v1' => v3'[d].fetched = PreviewPart!NoUrl /\ v3'[d].timer = PreviewPart!NoUrl
    BY <1>0, <1>1, <1>2, <1>4, PlacesAre DEF PreviewPart!OwnLinks
  <2>2. ASSUME NEW f \in v4' PROVE f.draft <= v1' /\ f.url \in v7'[f.draft] /\ f.url # PreviewPart!NoUrl
    BY <1>0, <1>1, <1>2, <2>2, PlacesAre DEF PreviewPart!OwnLinks
  <2> QED
    BY <2>1, <2>2 DEF PreviewPart!OwnLinks
<1>7. PreviewPart!OneCall' /\ PreviewPart!CardIsTheLink'
  BY <1>0, <1>1, <1>4 DEF PreviewPart!PreviewInv, PreviewPart!OneCall, PreviewPart!CardIsTheLink
<1> QED
  BY <1>5, <1>6, <1>7 DEF PreviewPart!PreviewInv

\* A timer fires.
LEMMA FirePreview ==
    ASSUME PreviewPart!PreviewInv, NEW d \in PreviewPart!Drafts, PreviewPart!Fire(d)
    PROVE  PreviewPart!PreviewInv'
<1> DEFINE c == [draft |-> d, url |-> v3[d].timer, n |-> v5']
           x == [v3[d] EXCEPT !.timer = PreviewPart!NoUrl]
<1>0. /\ PreviewPart!Places /\ PreviewPart!OwnLinks /\ v1 \in PreviewPart!Drafts
      /\ v3[d] \in PreviewPart!LinkState /\ PreviewPart!NoUrl \in PreviewPart!AnyUrl
      /\ v5 \in Nat /\ v3[d].timer \in PreviewPart!AnyUrl
  BY PlacesAre, Boxes, LinkOf DEF PreviewPart!PreviewInv
<1>1. /\ v3[d].timer # PreviewPart!NoUrl /\ v5' = v5 + 1 /\ v3' = [v3 EXCEPT ![d] = x]
      /\ v6' = PreviewPart!Loading /\ v4' = v4 \cup {c} /\ v8' = (v8 \/ v4 # {} \/ d # v1)
      /\ UNCHANGED <<v1, v7>>
  BY DEF PreviewPart!Fire
<1>2. c \in Calls /\ c.draft = d /\ c.url = v3[d].timer
  BY <1>0, <1>1 DEF Calls
<1>3. x \in PreviewPart!LinkState /\ x.fetched = v3[d].fetched /\ x.timer = PreviewPart!NoUrl
  BY <1>0, LinkOf
<1> HIDE DEF c, x
<1>4. /\ v3' \in [PreviewPart!Drafts -> PreviewPart!LinkState]
      /\ v3'[d] = x /\ \A e \in PreviewPart!Drafts \ {d} : v3'[e] = v3[e]
  BY <1>0, <1>1, <1>3, Linked
<1>5. PreviewPart!Places'
  BY <1>0, <1>1, <1>2, <1>4, Boxes, PlacesAre DEF PreviewPart!Places, Calls
<1>6. PreviewPart!OwnLinks'
  <2>1. d <= v1 /\ v3[d].timer \in v7[d]
    BY <1>0, <1>1, PlacesAre DEF PreviewPart!OwnLinks
  <2>2. \A f \in v4' : f.draft <= v1' /\ f.url \in v7'[f.draft] /\ f.url # PreviewPart!NoUrl
    BY <1>0, <1>1, <1>2, <2>1 DEF PreviewPart!OwnLinks
  <2>3. \A e \in PreviewPart!Drafts :
           /\ v3'[e].fetched = PreviewPart!NoUrl \/ v3'[e].fetched \in v7'[e]
           /\ v3'[e].timer = PreviewPart!NoUrl \/ v3'[e].timer \in v7'[e]
           /\ e > v1' => v3'[e].fetched = PreviewPart!NoUrl /\ v3'[e].timer = PreviewPart!NoUrl
    BY <1>0, <1>1, <1>3, <1>4 DEF PreviewPart!OwnLinks
  <2> QED
    BY <2>2, <2>3 DEF PreviewPart!OwnLinks
<1>7. ~v8' => v4 = {} /\ d = v1
  BY <1>1, Zenon
<1>8. PreviewPart!OneCall' /\ PreviewPart!CardIsTheLink'
  BY <1>1, <1>2, <1>7 DEF PreviewPart!OneCall, PreviewPart!CardIsTheLink
<1> QED
  BY <1>5, <1>6, <1>8 DEF PreviewPart!PreviewInv

\* A call is answered.
LEMMA AnswerPreview ==
    ASSUME PreviewPart!PreviewInv, NEW f \in v4, PreviewPart!Answer(f)
    PROVE  PreviewPart!PreviewInv'
<1>0. /\ PreviewPart!Places /\ PreviewPart!OwnLinks /\ v1 \in PreviewPart!Drafts /\ v1 \in Nat
      /\ f.draft \in PreviewPart!Drafts /\ f.url \in PreviewPart!AnyUrl /\ v3[f.draft] \in PreviewPart!LinkState
      /\ f.draft <= v1 /\ f.url \in v7[f.draft] /\ f.url # PreviewPart!NoUrl /\ f.draft \in 1..v1
  BY PlacesAre, Boxes DEF PreviewPart!PreviewInv, PreviewPart!OwnLinks
<1>1. v4' = v4 \ {f} /\ UNCHANGED <<v1, v5, v7>>
  BY DEF PreviewPart!Answer
<1>2. ~v8 => f.draft = v1 /\ v4' = {}
  BY <1>1 DEF PreviewPart!PreviewInv, PreviewPart!OneCall
<1>3. CASE PreviewPart!Found(f)
  <2> DEFINE x == [v3[f.draft] EXCEPT !.fetched = f.url]
  <2>1. v3' = [v3 EXCEPT ![f.draft] = x] /\ v6' = PreviewPart!Card(f.draft, f.url) /\ v8' = v8
    BY <1>3 DEF PreviewPart!Found
  <2>2. x \in PreviewPart!LinkState /\ x.fetched = f.url /\ x.timer = v3[f.draft].timer
    BY <1>0, LinkOf
  <2> HIDE DEF x
  <2>3. /\ v3' \in [PreviewPart!Drafts -> PreviewPart!LinkState]
        /\ v3'[f.draft] = x /\ \A e \in PreviewPart!Drafts \ {f.draft} : v3'[e] = v3[e]
    BY <1>0, <2>1, <2>2, Linked
  <2>4. v6'.of = f.draft /\ v6'.url = f.url
    BY <2>1, Boxes
  <2>5. PreviewPart!Places'
    BY <1>0, <1>1, <2>3, <2>4 DEF PreviewPart!Places
  <2>6. PreviewPart!OwnLinks'
    <3>1. \A g \in v4' : g.draft <= v1' /\ g.url \in v7'[g.draft] /\ g.url # PreviewPart!NoUrl
      BY <1>0, <1>1 DEF PreviewPart!OwnLinks
    <3>2. \A e \in PreviewPart!Drafts :
             /\ v3'[e].fetched = PreviewPart!NoUrl \/ v3'[e].fetched \in v7'[e]
             /\ v3'[e].timer = PreviewPart!NoUrl \/ v3'[e].timer \in v7'[e]
      BY <1>0, <1>1, <2>2, <2>3 DEF PreviewPart!OwnLinks
    <3>3. \A e \in PreviewPart!Drafts : e > v1 => e # f.draft
      BY <1>0
    <3>4. \A e \in PreviewPart!Drafts :
             e > v1' => v3'[e].fetched = PreviewPart!NoUrl /\ v3'[e].timer = PreviewPart!NoUrl
      BY <1>0, <1>1, <2>3, <3>3 DEF PreviewPart!OwnLinks
    <3> QED
      BY <3>1, <3>2, <3>4 DEF PreviewPart!OwnLinks
  <2>7. PreviewPart!OneCall' /\ PreviewPart!CardIsTheLink'
    BY <1>0, <1>1, <1>2, <2>1, <2>2, <2>3 DEF PreviewPart!OneCall, PreviewPart!CardIsTheLink
  <2> QED
    BY <2>5, <2>6, <2>7 DEF PreviewPart!PreviewInv
<1>4. CASE PreviewPart!NotFound(f)
  <2>1. /\ v6' = (IF v3[f.draft].fetched = PreviewPart!NoUrl THEN PreviewPart!Hidden ELSE v6)
        /\ v8' = (v8 \/ v3[f.draft].fetched # PreviewPart!NoUrl) /\ v3' = v3
    BY <1>4 DEF PreviewPart!NotFound
  <2>2. ~v8' => ~v8 /\ v3[f.draft].fetched = PreviewPart!NoUrl
    BY <2>1, Zenon
  <2>3. PreviewPart!Places'
    BY <1>0, <1>1, <2>1, Boxes DEF PreviewPart!Places
  <2>4. PreviewPart!OwnLinks'
    BY <1>0, <1>1, <2>1 DEF PreviewPart!OwnLinks
  <2>5. PreviewPart!OneCall' /\ PreviewPart!CardIsTheLink'
    BY <1>0, <1>1, <1>2, <2>1, <2>2 DEF PreviewPart!OneCall, PreviewPart!CardIsTheLink
  <2> QED
    BY <2>3, <2>4, <2>5 DEF PreviewPart!PreviewInv
<1> QED
  BY <1>3, <1>4 DEF PreviewPart!Answer

\* The card is removed, and the link with it.
LEMMA RemovePreview ==
    ASSUME PreviewPart!PreviewInv, PreviewPart!RemoveCard PROVE PreviewPart!PreviewInv'
<1>0. /\ PreviewPart!Places /\ PreviewPart!OwnLinks /\ v1 \in PreviewPart!Drafts
      /\ v6.url \in PreviewPart!AnyUrl /\ PreviewPart!NoUrl \in PreviewPart!AnyUrl
  BY PlacesAre, Boxes DEF PreviewPart!PreviewInv
<1>1. /\ v6.shows = "card" /\ v6' = PreviewPart!Hidden /\ UNCHANGED <<v1, v4, v5, v7, v8>>
      /\ v3' = [v3 EXCEPT ![v6.of] = [@ EXCEPT !.dismissed = v6.url, !.fetched = PreviewPart!NoUrl]]
  BY DEF PreviewPart!RemoveCard
<1>2. /\ v3' \in [PreviewPart!Drafts -> PreviewPart!LinkState]
      /\ \A e \in PreviewPart!Drafts : /\ v3'[e].timer = v3[e].timer
                                       /\ v3'[e].fetched \in {v3[e].fetched, PreviewPart!NoUrl}
      /\ v6.of \in PreviewPart!Drafts => v3'[v6.of].fetched = PreviewPart!NoUrl
  <2>1. CASE v6.of \in PreviewPart!Drafts
    <3> DEFINE o == v6.of
               y == [v3[o] EXCEPT !.dismissed = v6.url]
               x == [v3[o] EXCEPT !.dismissed = v6.url, !.fetched = PreviewPart!NoUrl]
    <3>1. v3[o] \in PreviewPart!LinkState /\ v3' = [v3 EXCEPT ![o] = x]
      BY <1>0, <1>1, <2>1, PlacesAre
    <3>2. x \in PreviewPart!LinkState /\ x.fetched = PreviewPart!NoUrl /\ x.timer = v3[o].timer
      BY <1>0, <3>1 DEF PreviewPart!LinkState
    <3> HIDE DEF x
    <3>3. /\ v3' \in [PreviewPart!Drafts -> PreviewPart!LinkState]
          /\ v3'[o] = x /\ \A e \in PreviewPart!Drafts \ {o} : v3'[e] = v3[e]
      BY <1>0, <2>1, <3>1, <3>2, Linked
    <3> QED
      BY <3>2, <3>3
  <2>2. CASE v6.of \notin PreviewPart!Drafts
    <3>1. v3' = v3
      BY <1>0, <1>1, <2>2, PlacesAre
    <3> QED
      BY <1>0, <2>2, <3>1 DEF PreviewPart!Places
  <2> QED
    BY <2>1, <2>2
<1>3. PreviewPart!Places'
  BY <1>0, <1>1, <1>2, Boxes, PlacesAre DEF PreviewPart!Places
<1>4. PreviewPart!OwnLinks'
  BY <1>0, <1>1, <1>2 DEF PreviewPart!OwnLinks
<1>5. PreviewPart!OneCall'
  BY <1>1 DEF PreviewPart!PreviewInv, PreviewPart!OneCall
<1>6. PreviewPart!CardIsTheLink'
  <2> SUFFICES ASSUME ~v8, v4 = {} PROVE v3'[v1].fetched = PreviewPart!NoUrl
    BY <1>1 DEF PreviewPart!CardIsTheLink
  <2>1. v6 = IF v3[v1].fetched = PreviewPart!NoUrl THEN PreviewPart!Hidden
             ELSE PreviewPart!Card(v1, v3[v1].fetched)
    BY DEF PreviewPart!PreviewInv, PreviewPart!CardIsTheLink
  <2>2. v6.of = v1
    BY <1>1, <2>1, Boxes
  <2> QED
    BY <1>0, <1>2, <2>2
<1> QED
  BY <1>3, <1>4, <1>5, <1>6 DEF PreviewPart!PreviewInv

\* Each step keeps every link where it belongs.
LEMMA StepPreview ==
    PreviewPart!PreviewInv /\ [PreviewPart!Next]_PreviewPart!vars => PreviewPart!PreviewInv'
<1> SUFFICES ASSUME PreviewPart!PreviewInv, [PreviewPart!Next]_PreviewPart!vars
             PROVE  PreviewPart!PreviewInv'
  OBVIOUS
<1>1. CASE UNCHANGED PreviewPart!vars
  BY <1>1 DEF PreviewPart!vars, PreviewPart!PreviewInv, PreviewPart!Places, PreviewPart!OwnLinks,
     PreviewPart!OneCall, PreviewPart!CardIsTheLink
<1> QED
  BY <1>1, OpenPreview, TypePreview, FirePreview, AnswerPreview, RemovePreview DEF PreviewPart!Next

\* What the invariant says of the link that the reader sees.
LEMMA LinksAreOwn == PreviewPart!PreviewInv => PreviewPart!LinkIsOwn /\ PreviewPart!CardIsTheLink
BY PlacesAre DEF PreviewPart!PreviewInv, PreviewPart!OwnLinks, PreviewPart!LinkIsOwn

-----------------------------------------------------------------------------
(***************************************************************************)
(* The settings.  Their state: v1 tab, v2 cache, v3 rendered, v4 form,     *)
(* v5 local, v6 stored, v7 account, v8 notif, v9 people, v10 listed,       *)
(* v11 calls, v12 filled, v13 told, v14 dropped, v15 n, v16 crossed.       *)
(***************************************************************************)
LoadCalls == [kind : {"load"}, at : 1..5, why : {"open", "cancel"}, k : Nat]
SaveCalls == [kind : {"save"}, step : {"get", "put", "notif"}, words : Seq(Nat), prefs : Nat,
              base : SettingsPart!Accounts, notif : Nat]
PinCalls  == [kind : {"pin"}, step : {"get", "put"}, base : SettingsPart!Accounts]
AskCalls  == [kind : {"undo", "add"}, who : {"muted", "blocked", "labelers"}]
Places    == [look : Nat, warn : Nat]

\* A load, and the same load one thing further.
LEMMA LoadsAre ==
    ASSUME NEW c \in LoadCalls
    PROVE  /\ c.kind = "load" /\ c.at \in 1..5 /\ c.why \in {"open", "cancel"} /\ c.k \in Nat
           /\ \A i \in 1..5 : LET d == [c EXCEPT !.at = i] IN d \in LoadCalls /\ d.at = i
BY DEF LoadCalls

\* A save, and what its steps make of it.
LEMMA SavesAre ==
    ASSUME NEW c \in SaveCalls, NEW a \in SettingsPart!Accounts, NEW k \in Nat
    PROVE  /\ c.kind = "save" /\ c.step \in {"get", "put", "notif"} /\ c.words \in Seq(Nat)
           /\ c.prefs \in Nat
           /\ LET d == [c EXCEPT !.step = "put", !.base = a]
              IN  /\ d \in SaveCalls /\ d.step = "put" /\ d.base = a
                  /\ d.words = c.words /\ d.prefs = c.prefs
           /\ LET d == [c EXCEPT !.step = "notif", !.notif = k]
              IN  /\ d \in SaveCalls /\ d.step = "notif" /\ d.notif = k
                  /\ d.words = c.words /\ d.prefs = c.prefs
<1> DEFINE W == Seq(Nat)
<1>1. SaveCalls = [kind : {"save"}, step : {"get", "put", "notif"}, words : W, prefs : Nat,
                   base : SettingsPart!Accounts, notif : Nat]
  BY DEF SaveCalls
<1>2. c.words \in W <=> c.words \in Seq(Nat)
  OBVIOUS
<1> HIDE DEF W
<1> QED
  BY <1>1, <1>2

\* A pin, and its second step.
LEMMA PinsAre ==
    ASSUME NEW c \in PinCalls, NEW a \in SettingsPart!Accounts
    PROVE  /\ c.kind = "pin"
           /\ LET d == [c EXCEPT !.step = "put", !.base = a]
              IN  d \in PinCalls /\ d.step = "put" /\ d.base = a
BY DEF PinCalls

\* What a save and a pin leave in the account.
LEMMA AccountsAre ==
    ASSUME NEW a \in SettingsPart!Accounts, NEW words \in Seq(Nat), NEW prefs \in Nat
    PROVE  /\ a.words \in Seq(Nat) /\ a.prefs \in Nat /\ a.feeds \in Nat
           /\ LET b == [a EXCEPT !.words = words, !.prefs = prefs]
              IN  /\ b \in SettingsPart!Accounts
                  /\ b.words = words /\ b.prefs = prefs /\ b.feeds = a.feeds
           /\ LET b == [a EXCEPT !.feeds = @ + 1]
              IN  /\ b \in SettingsPart!Accounts
                  /\ b.words = a.words /\ b.prefs = a.prefs /\ b.feeds = a.feeds + 1
<1> DEFINE W == Seq(Nat)
<1>1. SettingsPart!Accounts = [words : W, prefs : Nat, feeds : Nat]
  BY DEF SettingsPart!Accounts
<1>2. words \in W /\ (a.words \in W <=> a.words \in Seq(Nat))
  OBVIOUS
<1> HIDE DEF W
<1>3. a.words \in W /\ a.prefs \in Nat /\ a.feeds \in Nat
  BY <1>1
<1> DEFINE b == [a EXCEPT !.words = words, !.prefs = prefs]
           c == [a EXCEPT !.feeds = @ + 1]
<1>4. b \in SettingsPart!Accounts /\ b.words = words /\ b.prefs = prefs /\ b.feeds = a.feeds
  BY <1>1, <1>2
<1>5. /\ c \in SettingsPart!Accounts
      /\ c.words = a.words /\ c.prefs = a.prefs /\ c.feeds = a.feeds + 1
  BY <1>1, <1>3
<1> HIDE DEF b, c
<1> QED
  BY <1>2, <1>3, <1>4, <1>5 DEF b, c

\* The form with one of its values replaced.
LEMMA FormsAre ==
    ASSUME NEW f \in SettingsPart!Forms, NEW x \in Nat
    PROVE  /\ f.prefs \in Nat /\ f.notif \in Nat /\ f.warn \in Nat /\ f.look \in Nat
           /\ LET g == [f EXCEPT !.prefs = x]
              IN  /\ g \in SettingsPart!Forms
                  /\ g.prefs = x /\ g.notif = f.notif /\ g.warn = f.warn /\ g.look = f.look
           /\ LET g == [f EXCEPT !.notif = x]
              IN  /\ g \in SettingsPart!Forms
                  /\ g.notif = x /\ g.prefs = f.prefs /\ g.warn = f.warn /\ g.look = f.look
           /\ LET g == [f EXCEPT !.look = x] IN g \in SettingsPart!Forms /\ g.look = x
           /\ \A field \in {"prefs", "notif", "warn", "look"} :
                 [f EXCEPT ![field] = x] \in SettingsPart!Forms
BY DEF SettingsPart!Forms

\* What is on this machine, with one of its values replaced.
LEMMA PlacesKeep ==
    ASSUME NEW p \in Places, NEW x \in Nat
    PROVE  /\ p.look \in Nat /\ p.warn \in Nat
           /\ LET q == [p EXCEPT !.look = x] IN q \in Places /\ q.look = x
           /\ LET q == [p EXCEPT !.warn = x] IN q \in Places /\ q.warn = x /\ q.look = p.look
BY DEF Places

\* A word is added, and one is taken off.
LEMMA WordsAre ==
    ASSUME NEW s \in Seq(Nat)
    PROVE  /\ \A w \in Nat : /\ Append(s, w) \in Seq(Nat)
                             /\ SettingsPart!ToSet(s) \subseteq SettingsPart!ToSet(Append(s, w))
           /\ \A i \in DOMAIN s :
                 /\ SettingsPart!RemoveAt(s, i) \in Seq(Nat)
                 /\ SettingsPart!ToSet(s)
                    \subseteq SettingsPart!ToSet(SettingsPart!RemoveAt(s, i)) \cup {s[i]}
<1>0. DOMAIN s = 1..Len(s) /\ Len(s) \in Nat
  BY LenProperties
<1>1. ASSUME NEW w \in Nat
      PROVE  /\ Append(s, w) \in Seq(Nat)
             /\ SettingsPart!ToSet(s) \subseteq SettingsPart!ToSet(Append(s, w))
  <2> DEFINE t == Append(s, w)
  <2>1. t \in Seq(Nat) /\ Len(t) = Len(s) + 1 /\ \A i \in 1..Len(s) : t[i] = s[i]
    BY AppendProperties
  <2>2. DOMAIN t = 1..Len(t)
    BY <2>1, LenProperties
  <2> HIDE DEF t
  <2>3. \A i \in DOMAIN s : i \in DOMAIN t /\ t[i] = s[i]
    BY <1>0, <2>1, <2>2
  <2>4. SettingsPart!ToSet(s) \subseteq SettingsPart!ToSet(t)
    BY <2>3 DEF SettingsPart!ToSet
  <2> QED
    BY <2>1, <2>4 DEF t
<1>2. ASSUME NEW i \in DOMAIN s
      PROVE  /\ SettingsPart!RemoveAt(s, i) \in Seq(Nat)
             /\ SettingsPart!ToSet(s)
                \subseteq SettingsPart!ToSet(SettingsPart!RemoveAt(s, i)) \cup {s[i]}
  <2> DEFINE a == SubSeq(s, 1, i - 1)
             b == SubSeq(s, i + 1, Len(s))
  <2>0. i \in 1..Len(s)
    BY <1>0
  <2>1. a \in Seq(Nat) /\ Len(a) = i - 1 /\ \A j \in 1..(i - 1) : a[j] = s[j]
    BY <1>0, <2>0, SubSeqProperties
  <2>2. b \in Seq(Nat) /\ Len(b) \in Nat /\ \A j \in DOMAIN s : j > i =>
           \E m \in 1..Len(b) : b[m] = s[j]
    <3>1. /\ i + 1 \in Int /\ Len(s) \in Int /\ \A j \in (i + 1)..Len(s) : s[j] \in Nat
          /\ i <= Len(s)
      BY <1>0, <2>0
    <3>2. /\ b \in Seq(Nat) /\ Len(b) = (IF i + 1 <= Len(s) THEN Len(s) - (i + 1) + 1 ELSE 0)
          /\ \A j \in 1..(Len(s) - (i + 1) + 1) : b[j] = s[i + 1 + j - 1]
      BY <3>1, SubSeqProperties
    <3> HIDE DEF b
    <3>3. Len(b) \in Nat
      BY <1>0, <2>0, <3>1, <3>2
    <3>4. ASSUME NEW j \in DOMAIN s, j > i PROVE \E m \in 1..Len(b) : b[m] = s[j]
      <4> DEFINE m == j - i
      <4>0. j \in Int /\ i \in Int /\ Len(s) \in Int /\ i < j /\ j <= Len(s)
        BY <1>0, <2>0, <3>4
      <4>1. m \in 1..(Len(s) - (i + 1) + 1) /\ i + 1 + m - 1 = j /\ i + 1 <= Len(s)
        <5>1. \A x, y, z \in Int : x < y /\ y <= z
                 => /\ y - x \in 1..(z - (x + 1) + 1) /\ x + 1 + (y - x) - 1 = y /\ x + 1 <= z
          OBVIOUS
        <5> QED
          BY <4>0, <5>1
      <4>3. Len(b) = Len(s) - (i + 1) + 1
        BY <3>2, <4>1
      <4> HIDE DEF m
      <4>2. b[m] = s[j] /\ m \in 1..Len(b)
        BY <3>2, <4>1, <4>3
      <4> QED
        BY <4>2
    <3> QED
      BY <3>2, <3>3, <3>4
  <2> HIDE DEF a, b
  <2> DEFINE t == a \o b
  <2>3. /\ t \in Seq(Nat) /\ Len(t) = Len(a) + Len(b)
        /\ \A j \in 1..(Len(a) + Len(b)) : t[j] = IF j <= Len(a) THEN a[j] ELSE b[j - Len(a)]
    BY <2>1, <2>2, ConcatProperties
  <2>4. DOMAIN t = 1..(Len(a) + Len(b)) /\ Len(a) \in Nat
    BY <1>0, <2>0, <2>1, <2>3, LenProperties
  <2> HIDE DEF t
  <2>5. ASSUME NEW j \in DOMAIN s, j # i PROVE \E m \in DOMAIN t : t[m] = s[j]
    <3>1. CASE j < i
      <4>1. j \in 1..(Len(a) + Len(b)) /\ j \in 1..(i - 1) /\ j <= Len(a)
        BY <1>0, <2>0, <2>1, <2>2, <2>4, <3>1
      <4>2. t[j] = s[j]
        BY <4>1, <2>1, <2>3
      <4> QED
        BY <4>1, <4>2, <2>4
    <3>2. CASE j > i
      <4>1. PICK m \in 1..Len(b) : b[m] = s[j]
        BY <2>2, <3>2
      <4> DEFINE k == Len(a) + m
      <4>2. k \in 1..(Len(a) + Len(b)) /\ ~(k <= Len(a)) /\ k - Len(a) = m
        BY <2>2, <2>4
      <4> HIDE DEF k
      <4>3. t[k] = s[j]
        BY <4>1, <4>2, <2>3
      <4> QED
        BY <4>2, <4>3, <2>4
    <3> QED
      BY <1>0, <2>0, <2>5, <3>1, <3>2
  <2>6. SettingsPart!RemoveAt(s, i) = t
    BY DEF SettingsPart!RemoveAt, a, b, t
  <2>7. SettingsPart!ToSet(s) \subseteq SettingsPart!ToSet(t) \cup {s[i]}
    BY <2>5 DEF SettingsPart!ToSet
  <2> QED
    BY <2>3, <2>6, <2>7
<1> QED
  BY <1>1, <1>2

\* The words that must stay are in what has those that had them.
LEMMA WordsStayIn ==
    ASSUME NEW S, NEW T, NEW D, NEW E, {1, 2} \subseteq S \cup D,
           S \subseteq T \cup E, D \subseteq E
    PROVE  {1, 2} \subseteq T \cup E
OBVIOUS

\* The values in their sets.
LEMMA ValuesAre ==
    ASSUME SettingsPart!Values
    PROVE  /\ v2 \in Seq(Nat) /\ v3 = v2 /\ v4 \in SettingsPart!Forms /\ v15 \in Nat
           /\ v5 \in Places /\ v6 = v5 /\ v7 \in SettingsPart!Accounts /\ v8 \in Nat
           /\ v7.words \in Seq(Nat) /\ v7.prefs \in Nat /\ v7.feeds \in Nat
           /\ v4.prefs \in Nat /\ v4.notif \in Nat /\ v4.warn \in Nat /\ v4.look \in Nat
           /\ v5.look \in Nat /\ v5.warn \in Nat
           /\ v13 \in {"", "saved", "cancelled"}
           /\ v10 \subseteq {"muted", "blocked", "labelers"} /\ v10 \subseteq v9 \cup {"labelers"}
<1>1. /\ v2 \in Seq(Nat) /\ v3 = v2 /\ v4 \in SettingsPart!Forms /\ v15 \in Nat
      /\ v5 \in Places /\ v6 = v5 /\ v7 \in SettingsPart!Accounts /\ v8 \in Nat
      /\ v13 \in {"", "saved", "cancelled"}
      /\ v10 \subseteq {"muted", "blocked", "labelers"} /\ v10 \subseteq v9 \cup {"labelers"}
  BY DEF SettingsPart!Values, Places
<1> QED
  BY <1>1, AccountsAre, FormsAre, PlacesKeep

\* The values after a step.
LEMMA ValuesThen ==
    ASSUME v2' \in Seq(Nat), v3' = v2', v4' \in SettingsPart!Forms, v15' \in Nat,
           v5' \in Places, v6' = v5', v7' \in SettingsPart!Accounts, v8' \in Nat,
           v13' \in {"", "saved", "cancelled"},
           v10' \subseteq {"muted", "blocked", "labelers"}, v10' \subseteq v9' \cup {"labelers"}
    PROVE  SettingsPart!Values'
BY DEF SettingsPart!Values, Places

\* A step that nothing may cross: as long as nothing has, no call is out.
LEMMA Quiet ==
    ASSUME SettingsPart!SettingsInv, NEW cross \in BOOLEAN, SettingsPart!Step(cross)
    PROVE  /\ v16' \in Nat /\ v15' = v15 + 1 /\ v13' = ""
           /\ v16' = 0 => ~cross /\ v16 = 0 /\ SettingsPart!Kept
<1>1. v16 \in Nat /\ (v16 = 0 => SettingsPart!Kept)
  BY DEF SettingsPart!SettingsInv
<1>2. v15' = v15 + 1 /\ v13' = "" /\ v16' = IF cross THEN v16 + 1 ELSE v16
  BY DEF SettingsPart!Step
<1>3. /\ cross => v16' = v16 + 1
      /\ ~cross => v16' = v16
  BY <1>2, Zenon
<1>4. v16 + 1 \in Nat /\ v16 + 1 # 0
  BY <1>1
<1>5. CASE cross
  BY <1>2, <1>3, <1>4, <1>5, Zenon
<1>6. CASE ~cross
  BY <1>1, <1>2, <1>3, <1>6, Zenon
<1> QED
  BY <1>5, <1>6

\* The same of what a call would cross.
LEMMA QuietNow ==
    ASSUME SettingsPart!SettingsInv, SettingsPart!Step(SettingsPart!Out), v16' = 0
    PROVE  /\ SettingsPart!Values /\ SettingsPart!WordsIn(v7.words)
           /\ "prefs" \in v12 => SettingsPart!WordsIn(v2)
           /\ v11 = {} /\ ~SettingsPart!Behind
<1>1. SettingsPart!Out \in BOOLEAN
  BY DEF SettingsPart!Out
<1>2. SettingsPart!Kept /\ v11 = {}
  BY <1>1, Quiet DEF SettingsPart!Out
<1> QED
  BY <1>2 DEF SettingsPart!Kept, SettingsPart!OneCall

\* The call that is out, when nothing has crossed it.
LEMMA TheCall ==
    ASSUME SettingsPart!SettingsInv, NEW c \in v11, v16 = 0
    PROVE  /\ SettingsPart!Values /\ SettingsPart!WordsIn(v7.words)
           /\ "prefs" \in v12 => SettingsPart!WordsIn(v2)
           /\ v11 = {c} /\ v13 = ""
           /\ \/ SettingsPart!Loading(c) /\ (SettingsPart!Behind => c.at <= 3) /\ c.kind = "load"
              \/ ~SettingsPart!Behind /\ SettingsPart!Saving(c) /\ c.kind = "save"
              \/ ~SettingsPart!Behind /\ SettingsPart!Pinning(c) /\ c.kind = "pin"
              \/ ~SettingsPart!Behind /\ SettingsPart!Asking(c) /\ c.kind \in {"undo", "add"}
<1>1. SettingsPart!Kept
  BY DEF SettingsPart!SettingsInv
<1>2. PICK d \in v11 : /\ v11 = {d}
                       /\ \/ SettingsPart!Loading(d) /\ (SettingsPart!Behind => d.at <= 3)
                          \/ ~SettingsPart!Behind /\ (\/ SettingsPart!Saving(d)
                                                      \/ SettingsPart!Pinning(d)
                                                      \/ SettingsPart!Asking(d))
  BY <1>1 DEF SettingsPart!Kept, SettingsPart!OneCall
<1>3. v13 = ""
  BY <1>1 DEF SettingsPart!Kept, SettingsPart!OneCall
<1>4. d = c
  BY <1>2
<1>5. /\ SettingsPart!Loading(d) => d.kind = "load"
      /\ SettingsPart!Saving(d) => d.kind = "save"
      /\ SettingsPart!Pinning(d) => d.kind = "pin"
      /\ SettingsPart!Asking(d) => d.kind \in {"undo", "add"}
  BY DEF SettingsPart!Loading, SettingsPart!Saving, SettingsPart!Pinning, SettingsPart!Asking
<1> QED
  BY <1>1, <1>2, <1>3, <1>4, <1>5 DEF SettingsPart!Kept

\* No call is out after the step.
LEMMA NoneOut ==
    ASSUME SettingsPart!Values', v11' = {}, (~SettingsPart!Behind)',
           (SettingsPart!WordsIn(v7.words))',
           "prefs" \in v12' => (SettingsPart!WordsIn(v2))',
           v13' = "" \/ SettingsPart!InStep'
    PROVE  SettingsPart!Kept'
BY DEF SettingsPart!Kept, SettingsPart!OneCall

\* One load is out after the step.
LEMMA LoadOut ==
    ASSUME SettingsPart!Values', NEW d, v11' = {d}, d \in LoadCalls, v13' = "",
           v4'.warn = v6'.warn, v4'.look = v6'.look,
           d.at > 1 => v2' = v7'.words /\ v4'.prefs = v7'.prefs,
           SettingsPart!Behind' => d.at <= 3,
           (SettingsPart!WordsIn(v7.words))',
           "prefs" \in v12' => (SettingsPart!WordsIn(v2))'
    PROVE  SettingsPart!Kept'
<1>1. (SettingsPart!Loading(d))'
  BY DEF SettingsPart!Loading, LoadCalls
<1>2. SettingsPart!OneCall'
  BY <1>1 DEF SettingsPart!OneCall
<1> QED
  BY <1>2 DEF SettingsPart!Kept

\* Another call is out after the step.
LEMMA OtherOut ==
    ASSUME SettingsPart!Values', NEW d, v11' = {d}, v13' = "", (~SettingsPart!Behind)',
           (SettingsPart!Saving(d))' \/ (SettingsPart!Pinning(d))' \/ (SettingsPart!Asking(d))',
           (SettingsPart!WordsIn(v7.words))',
           "prefs" \in v12' => (SettingsPart!WordsIn(v2))'
    PROVE  SettingsPart!Kept'
<1>2. SettingsPart!OneCall'
  BY DEF SettingsPart!OneCall
<1> QED
  BY <1>2 DEF SettingsPart!Kept

\* The page is loaded, by whatever the reader pressed.
LEMMA LoadBegins ==
    ASSUME SettingsPart!SettingsInv, NEW why \in {"open", "cancel"},
           SettingsPart!Step(SettingsPart!Out), SettingsPart!Load(why),
           UNCHANGED <<v2, v3, v6, v7, v8, v9, v10, v12, v14>>
    PROVE  SettingsPart!SettingsInv'
<1>1. v16' \in Nat /\ v15' = v15 + 1 /\ v13' = ""
  BY Quiet DEF SettingsPart!Out
<1>2. ASSUME v16' = 0 PROVE SettingsPart!Kept'
  <2>1. /\ SettingsPart!Values /\ SettingsPart!WordsIn(v7.words) /\ v11 = {}
        /\ ~SettingsPart!Behind /\ ("prefs" \in v12 => SettingsPart!WordsIn(v2))
    BY <1>2, QuietNow
  <2>2. /\ v4' = [v4 EXCEPT !.look = v6.look, !.warn = v6.warn] /\ v5' = v6
        /\ v11' = v11 \cup {[kind |-> "load", at |-> 1, why |-> why, k |-> v15]}
    BY DEF SettingsPart!Load, SettingsPart!loadLocalSettings
  <2>3. PICK d \in LoadCalls : d.at = 1 /\ v11' = {d}
    <3> DEFINE d == [kind |-> "load", at |-> 1, why |-> why, k |-> v15]
    <3>1. v15 \in Nat
      BY <2>1, ValuesAre
    <3>2. d \in LoadCalls /\ d.at = 1
      BY <3>1 DEF LoadCalls
    <3>3. v11' = {d}
      BY <2>1, <2>2
    <3> QED
      BY <3>2, <3>3, Zenon
  <2>4. v4 \in SettingsPart!Forms /\ v6.look \in Nat /\ v6.warn \in Nat /\ v6 \in Places
    BY <2>1, ValuesAre
  <2>5. v4' \in SettingsPart!Forms /\ v4'.look = v6.look /\ v4'.warn = v6.warn
    <3>1. PICK x \in Nat, y \in Nat : x = v6.look /\ y = v6.warn
      BY <2>4
    <3>2. v4' = [v4 EXCEPT !.look = x, !.warn = y]
      BY <2>2, <3>1
    <3> QED
      BY <2>4, <3>1, <3>2 DEF SettingsPart!Forms
  <2>6. SettingsPart!Values'
    <3>1. /\ v2 \in Seq(Nat) /\ v3 = v2 /\ v15' \in Nat /\ v7 \in SettingsPart!Accounts /\ v8 \in Nat
          /\ v10 \subseteq {"muted", "blocked", "labelers"} /\ v10 \subseteq v9 \cup {"labelers"}
      <4>1. v15 \in Nat => v15 + 1 \in Nat
        OBVIOUS
      <4> QED
        BY <1>1, <2>1, <4>1, ValuesAre, Zenon
    <3> QED
      BY <1>1, <2>2, <2>4, <2>5, <3>1, ValuesThen
  <2>7. /\ (SettingsPart!WordsIn(v7.words))' /\ ("prefs" \in v12' => (SettingsPart!WordsIn(v2))')
        /\ ~SettingsPart!Behind'
    BY <2>1 DEF SettingsPart!WordsIn, SettingsPart!Behind
  <2> QED
    <3>1. v4'.warn = v6'.warn /\ v4'.look = v6'.look /\ ~(d.at > 1)
      BY <2>3, <2>5
    <3> QED
      BY <1>1, <2>3, <2>6, <2>7, <3>1, LoadOut
<1> QED
  BY <1>1, <1>2 DEF SettingsPart!SettingsInv

\* The tab is opened, or the reader cancels.
LEMMA LoadKeeps ==
    ASSUME SettingsPart!SettingsInv, SettingsPart!loadSettings \/ SettingsPart!Cancel
    PROVE  SettingsPart!SettingsInv'
BY LoadBegins DEF SettingsPart!loadSettings, SettingsPart!Cancel, SettingsPart!net

\* The stages of a load by their names.
LEMMA StagesAre ==
    /\ SettingsPart!Stages[1] = "prefs" /\ SettingsPart!Stages[2] = "muted"
    /\ SettingsPart!Stages[3] = "blocked" /\ SettingsPart!Stages[4] = "labelers"
    /\ SettingsPart!Stages[5] = "notif"
BY DEF SettingsPart!Stages

\* A load that is out is at the thing that its answer is about.
LEMMA LoadAt ==
    ASSUME SettingsPart!SettingsInv, NEW c \in v11, v16 = 0,
           NEW i \in 1..5, SettingsPart!IsAt(c, SettingsPart!Stages[i])
    PROVE  /\ c \in LoadCalls /\ c.at = i /\ c.why \in {"open", "cancel"}
           /\ SettingsPart!Behind => i <= 3
           /\ v4.warn = v6.warn /\ v4.look = v6.look
           /\ i > 1 => v2 = v7.words /\ v4.prefs = v7.prefs
           /\ SettingsPart!Values /\ SettingsPart!WordsIn(v7.words)
           /\ "prefs" \in v12 => SettingsPart!WordsIn(v2)
           /\ v11 = {c} /\ v13 = ""
<1>1. c.kind = "load" /\ SettingsPart!Stages[c.at] = SettingsPart!Stages[i]
  BY DEF SettingsPart!IsAt
<1>2. /\ SettingsPart!Loading(c) /\ (SettingsPart!Behind => c.at <= 3)
      /\ SettingsPart!Values /\ SettingsPart!WordsIn(v7.words)
      /\ ("prefs" \in v12 => SettingsPart!WordsIn(v2))
      /\ v11 = {c} /\ v13 = ""
  BY <1>1, TheCall
<1>3. c \in LoadCalls
  BY <1>2 DEF SettingsPart!Loading, LoadCalls
<1>4. c.at \in 1..5 /\ c.why \in {"open", "cancel"}
  BY <1>3, LoadsAre
<1>5. c.at = i
  BY <1>1, <1>4, StagesAre
<1> QED
  BY <1>2, <1>3, <1>4, <1>5 DEF SettingsPart!Loading

\* What comes after the thing that has come: the next one, or the end of the load.
LEMMA NextIs ==
    ASSUME NEW c \in LoadCalls, SettingsPart!NextOf(c)
    PROVE  /\ \A i \in 1..4 : c.at = i =>
                /\ v13' = v13
                /\ \E d \in LoadCalls : d.at = i + 1 /\ v11' = (v11 \ {c}) \cup {d}
           /\ c.at = 5 => v11' = v11 \ {c} /\ v13' \in {v13, "cancelled"}
<1> DEFINE x == [c EXCEPT !.at = @ + 1]
<1>1. ASSUME NEW i \in 1..4, c.at = i
      PROVE  v13' = v13 /\ \E d \in LoadCalls : d.at = i + 1 /\ v11' = (v11 \ {c}) \cup {d}
  <2>1. c.at < 5 /\ i + 1 \in 1..5
    BY <1>1
  <2>2. v11' = (v11 \ {c}) \cup {x} /\ v13' = v13
    BY <2>1, Zenon DEF SettingsPart!NextOf
  <2>3. x = [c EXCEPT !.at = i + 1]
    BY <1>1
  <2> HIDE DEF x
  <2>4. x \in LoadCalls /\ x.at = i + 1
    BY <2>1, <2>3 DEF LoadCalls
  <2> QED
    BY <2>2, <2>4, Zenon
<1>2. ASSUME c.at = 5 PROVE v11' = v11 \ {c} /\ v13' \in {v13, "cancelled"}
  <2>1. ~(c.at < 5)
    BY <1>2
  <2>2. v11' = v11 \ {c} /\ v13' = IF c.why = "cancel" THEN "cancelled" ELSE v13
    BY <2>1, Zenon DEF SettingsPart!NextOf, SettingsPart!Leaves
  <2> QED
    BY <2>2, Zenon
<1> QED
  BY <1>1, <1>2

\* The preferences have come.
LEMMA PrefsKeep ==
    ASSUME SettingsPart!SettingsInv, NEW c \in v11, SettingsPart!LoadedPrefs(c)
    PROVE  SettingsPart!SettingsInv'
<1>1. /\ SettingsPart!IsAt(c, "prefs") /\ v2' = v7.words /\ v3' = v7.words
      /\ v4' = [v4 EXCEPT !.prefs = v7.prefs] /\ v12' = v12 \cup {"prefs"}
      /\ UNCHANGED <<v5, v6, v7, v8, v9, v10, v14, v15, v16>> /\ SettingsPart!NextOf(c)
  BY DEF SettingsPart!LoadedPrefs, SettingsPart!renderMutedWords, SettingsPart!disk, SettingsPart!net
<1>2. ASSUME v16 = 0 PROVE SettingsPart!Kept'
  <2>1. SettingsPart!IsAt(c, SettingsPart!Stages[1]) /\ 1 \in 1..5
    BY <1>1, StagesAre
  <2>2. /\ c \in LoadCalls /\ c.at = 1 /\ v4.warn = v6.warn /\ v4.look = v6.look
        /\ SettingsPart!Values /\ SettingsPart!WordsIn(v7.words) /\ v11 = {c} /\ v13 = ""
    BY <1>2, <2>1, LoadAt
  <2>0. 1 \in 1..4
    OBVIOUS
  <2>3. PICK d \in LoadCalls : v11' = {d} /\ d.at = 1 + 1
    <3>1. \E d \in LoadCalls : d.at = 1 + 1 /\ v11' = (v11 \ {c}) \cup {d}
      BY <1>1, <2>0, <2>2, NextIs, Zenon
    <3> QED
      BY <2>2, <3>1
  <2>4. v13' = v13
    BY <1>1, <2>0, <2>2, NextIs, Zenon
  <2>5. v4 \in SettingsPart!Forms /\ v7.prefs \in Nat /\ v7.words \in Seq(Nat)
    BY <2>2, ValuesAre
  <2>6. /\ v4' \in SettingsPart!Forms /\ v4'.prefs = v7.prefs
        /\ v4'.warn = v4.warn /\ v4'.look = v4.look
    BY <1>1, <2>5, FormsAre
  <2>7. SettingsPart!Values'
    BY <1>1, <2>2, <2>4, <2>5, <2>6, ValuesAre, ValuesThen, Zenon
  <2>8. (SettingsPart!WordsIn(v7.words))' /\ (SettingsPart!WordsIn(v2))'
    BY <1>1, <2>2 DEF SettingsPart!WordsIn
  <2>9. /\ v4'.warn = v6'.warn /\ v4'.look = v6'.look /\ d.at <= 3
        /\ v2' = v7'.words /\ v4'.prefs = v7'.prefs
    <3>1. v4'.warn = v6'.warn /\ v4'.look = v6'.look /\ v2' = v7'.words /\ v4'.prefs = v7'.prefs
      BY <1>1, <2>2, <2>6, Zenon
    <3> QED
      BY <2>3, <3>1
  <2> QED
    BY <2>2, <2>3, <2>4, <2>7, <2>8, <2>9, LoadOut
<1> QED
  BY <1>1, <1>2 DEF SettingsPart!SettingsInv

\* The muted, the blocked or the labelers have come.
LEMMA ListKeeps ==
    ASSUME SettingsPart!SettingsInv, NEW c \in v11, NEW i \in 2..4,
           SettingsPart!Listed(c, SettingsPart!Stages[i])
    PROVE  SettingsPart!SettingsInv'
<1> DEFINE what == SettingsPart!Stages[i]
           gone == {what} \cup IF what = "blocked" THEN {"labelers"} ELSE {}
<1>0. i \in 1..5 /\ i + 1 \in 1..5 /\ i < 5 /\ (what = "blocked" <=> i = 3) /\ what # "prefs"
      /\ (what = "labelers" <=> i = 4) /\ what \in {"muted", "blocked", "labelers"}
  <2>1. i \in 1..5 /\ i + 1 \in 1..5 /\ i < 5 /\ i \in {2, 3, 4}
    OBVIOUS
  <2> QED
    BY <2>1, StagesAre
<1>1. /\ SettingsPart!IsAt(c, what) /\ SettingsPart!NextOf(c)
      /\ v10' = (v10 \ gone) \cup ({what} \cap v9)
      /\ UNCHANGED <<v2, v3, v4, v5, v6, v7, v8, v9, v12, v14, v15, v16>>
  BY DEF SettingsPart!Listed, SettingsPart!disk, SettingsPart!net
<1> HIDE DEF what
<1>2. ASSUME v16 = 0 PROVE SettingsPart!Kept'
  <2>2. /\ c \in LoadCalls /\ c.at = i /\ v4.warn = v6.warn /\ v4.look = v6.look
        /\ v2 = v7.words /\ v4.prefs = v7.prefs /\ SettingsPart!Values
        /\ SettingsPart!WordsIn(v7.words) /\ ("prefs" \in v12 => SettingsPart!WordsIn(v2))
        /\ (SettingsPart!Behind => i <= 3) /\ v11 = {c} /\ v13 = ""
    <3>1. SettingsPart!IsAt(c, SettingsPart!Stages[i]) /\ i > 1
      BY <1>0, <1>1 DEF what
    <3> QED
      BY <1>0, <1>2, <3>1, LoadAt
  <2>0. i \in 1..4
    OBVIOUS
  <2>3. PICK d \in LoadCalls : v11' = {d} /\ d.at = i + 1
    <3>1. \E d \in LoadCalls : d.at = i + 1 /\ v11' = (v11 \ {c}) \cup {d}
      BY <1>1, <2>0, <2>2, NextIs, Zenon
    <3> QED
      BY <2>2, <3>1
  <2>4. v13' = v13
    BY <1>1, <2>0, <2>2, NextIs, Zenon
  <2>5. /\ v10' \subseteq {"muted", "blocked", "labelers"} /\ v10' \subseteq v9 \cup {"labelers"}
    BY <1>0, <1>1, <2>2, ValuesAre
  <2>6. SettingsPart!Values'
    BY <1>1, <2>2, <2>4, <2>5, ValuesAre, ValuesThen, Zenon
  <2>7. SettingsPart!Behind' => d.at <= 3
    <3>1. CASE i = 2
      BY <2>3, <3>1
    <3>2. CASE i = 3
      BY <1>0, <1>1, <3>2 DEF SettingsPart!Behind
    <3>3. CASE i = 4
      BY <1>0, <1>1, <3>3 DEF SettingsPart!Behind
    <3> QED
      BY <3>1, <3>2, <3>3
  <2>8. /\ (SettingsPart!WordsIn(v7.words))' /\ ("prefs" \in v12' => (SettingsPart!WordsIn(v2))')
    BY <1>1, <2>2 DEF SettingsPart!WordsIn
  <2>9. /\ v4'.warn = v6'.warn /\ v4'.look = v6'.look
        /\ v2' = v7'.words /\ v4'.prefs = v7'.prefs
    BY <1>1, <2>2
  <2> QED
    BY <2>2, <2>3, <2>4, <2>6, <2>7, <2>8, <2>9, LoadOut
<1> QED
  BY <1>1, <1>2 DEF SettingsPart!SettingsInv

\* The notification preferences have come, and the load ends.
LEMMA NotifKeeps ==
    ASSUME SettingsPart!SettingsInv, NEW c \in v11,
           SettingsPart!populateNotificationPreferences(c)
    PROVE  SettingsPart!SettingsInv'
<1>1. /\ SettingsPart!IsAt(c, "notif") /\ v4' = [v4 EXCEPT !.notif = v8]
      /\ v12' = v12 \cup {"notif"} /\ SettingsPart!NextOf(c)
      /\ UNCHANGED <<v2, v3, v5, v6, v7, v8, v9, v10, v14, v15, v16>>
  BY DEF SettingsPart!populateNotificationPreferences, SettingsPart!disk, SettingsPart!net
<1>2. ASSUME v16 = 0 PROVE SettingsPart!Kept'
  <2>1. SettingsPart!IsAt(c, SettingsPart!Stages[5]) /\ 5 \in 1..5 /\ ~(5 <= 3) /\ 5 > 1
    BY <1>1, StagesAre
  <2>2. /\ c \in LoadCalls /\ c.at = 5 /\ v4.warn = v6.warn /\ v4.look = v6.look
        /\ v2 = v7.words /\ v4.prefs = v7.prefs
        /\ SettingsPart!Values /\ SettingsPart!WordsIn(v7.words)
        /\ ("prefs" \in v12 => SettingsPart!WordsIn(v2)) /\ ~SettingsPart!Behind
        /\ v11 = {c} /\ v13 = ""
    BY <1>2, <2>1, LoadAt
  <2>3. v11' = {} /\ v13' \in {"", "cancelled"}
    BY <1>1, <2>2, NextIs
  <2>5. v4 \in SettingsPart!Forms /\ v8 \in Nat /\ v6 = v5
    BY <2>2, ValuesAre
  <2>6. /\ v4' \in SettingsPart!Forms /\ v4'.prefs = v4.prefs /\ v4'.notif = v8
        /\ v4'.warn = v4.warn /\ v4'.look = v4.look
    BY <1>1, <2>5, FormsAre
  <2>7. SettingsPart!Values'
    BY <1>1, <2>2, <2>3, <2>5, <2>6, ValuesAre, ValuesThen
  <2>8. /\ (SettingsPart!WordsIn(v7.words))' /\ ("prefs" \in v12' => (SettingsPart!WordsIn(v2))')
        /\ (~SettingsPart!Behind)'
    BY <1>1, <2>2 DEF SettingsPart!WordsIn, SettingsPart!Behind
  <2>9. SettingsPart!InStep'
    BY <1>1, <2>2, <2>5, <2>6 DEF SettingsPart!InStep
  <2> QED
    BY <2>3, <2>7, <2>8, <2>9, NoneOut
<1> QED
  BY <1>1, <1>2 DEF SettingsPart!SettingsInv

\* A load that fails crosses what the properties are about.
LEMMA NotLoadedKeeps ==
    ASSUME SettingsPart!SettingsInv, NEW c \in v11, SettingsPart!NotLoaded(c)
    PROVE  SettingsPart!SettingsInv'
BY Quiet DEF SettingsPart!NotLoaded, SettingsPart!SettingsInv

\* What the reader edits, as nothing is out: only the form, the words and what is on this
\* machine are changed.
LEMMA Edited ==
    ASSUME SettingsPart!SettingsInv, SettingsPart!Step(SettingsPart!Out),
           UNCHANGED <<v7, v8, v9, v10, v11, v12>>,
           SettingsPart!Values /\ v16' = 0 =>
               /\ v2' \in Seq(Nat) /\ v3' = v2' /\ v4' \in SettingsPart!Forms
               /\ v5' \in Places /\ v6' = v5' /\ v14 \subseteq v14'
               /\ SettingsPart!ToSet(v2) \subseteq SettingsPart!ToSet(v2') \cup v14'
    PROVE  SettingsPart!SettingsInv'
<1>1. v16' \in Nat /\ v15' = v15 + 1 /\ v13' = ""
  BY Quiet DEF SettingsPart!Out
<1>2. ASSUME v16' = 0 PROVE SettingsPart!Kept'
  <2>1. /\ SettingsPart!Values /\ SettingsPart!WordsIn(v7.words) /\ v11 = {}
        /\ ~SettingsPart!Behind /\ ("prefs" \in v12 => SettingsPart!WordsIn(v2))
    BY <1>2, QuietNow
  <2>2. v15' \in Nat
    <3>1. v15 \in Nat
      BY <2>1, ValuesAre
    <3>2. v15 + 1 \in Nat
      BY <3>1
    <3> QED
      BY <1>1, <3>2, Zenon
  <2>3. SettingsPart!Values'
    BY <1>1, <1>2, <2>1, <2>2, ValuesAre, ValuesThen
  <2>4. (SettingsPart!WordsIn(v7.words))'
    BY <1>2, <2>1 DEF SettingsPart!WordsIn
  <2>5. "prefs" \in v12' => (SettingsPart!WordsIn(v2))'
    BY <1>2, <2>1, WordsStayIn DEF SettingsPart!WordsIn
  <2>6. (~SettingsPart!Behind)'
    BY <2>1 DEF SettingsPart!Behind
  <2> QED
    BY <1>1, <2>1, <2>3, <2>4, <2>5, <2>6, NoneOut
<1> QED
  BY <1>1, <1>2 DEF SettingsPart!SettingsInv

\* One of the values of the form is edited.
LEMMA EditKeeps ==
    ASSUME SettingsPart!SettingsInv, NEW f \in {"prefs", "notif", "warn", "look"},
           SettingsPart!Edit(f)
    PROVE  SettingsPart!SettingsInv'
<1>1. /\ SettingsPart!Step(SettingsPart!Out) /\ v4' = [v4 EXCEPT ![f] = 2]
      /\ UNCHANGED <<v2, v3, v5, v6, v7, v8, v9, v10, v11, v12, v14>>
  BY DEF SettingsPart!Edit, SettingsPart!disk, SettingsPart!net
<1>2. SettingsPart!Values => v4' \in SettingsPart!Forms
  BY <1>1, ValuesAre, FormsAre
<1> QED
  BY <1>1, <1>2, ValuesAre, Edited

\* What is kept at once is changed.
LEMMA ChangeKeeps ==
    ASSUME SettingsPart!SettingsInv, SettingsPart!ChangeNow PROVE SettingsPart!SettingsInv'
<1>1. /\ SettingsPart!Step(SettingsPart!Out) /\ v4' = [v4 EXCEPT !.look = 3]
      /\ v5' = [v5 EXCEPT !.look = 3] /\ v6' = [v6 EXCEPT !.look = 3]
      /\ UNCHANGED <<v2, v3, v7, v8, v9, v10, v11, v12, v14>>
  BY DEF SettingsPart!ChangeNow, SettingsPart!net
<1>2. SettingsPart!Values => v4' \in SettingsPart!Forms
  BY <1>1, ValuesAre, FormsAre
<1>3. SettingsPart!Values => v5' \in Places /\ v6' = v5'
  BY <1>1, ValuesAre, PlacesKeep
<1> QED
  BY <1>1, <1>2, <1>3, ValuesAre, Edited

\* A muted word is added.
LEMMA AddKeeps ==
    ASSUME SettingsPart!SettingsInv, NEW w \in Nat, SettingsPart!handleAddMutedWords(w)
    PROVE  SettingsPart!SettingsInv'
<1> DEFINE words == IF SettingsPart!Contains(v2, w) THEN v2 ELSE Append(v2, w)
<1>1. /\ SettingsPart!Step(SettingsPart!Out) /\ v2' = words /\ v3' = words
      /\ UNCHANGED <<v4, v5, v6, v7, v8, v9, v10, v11, v12, v14>>
  BY DEF SettingsPart!handleAddMutedWords, SettingsPart!renderMutedWords, SettingsPart!disk,
     SettingsPart!net
<1>2. ASSUME SettingsPart!Values
      PROVE  v2' \in Seq(Nat) /\ SettingsPart!ToSet(v2) \subseteq SettingsPart!ToSet(v2')
  <2>1. v2 \in Seq(Nat)
    BY <1>2, ValuesAre
  <2> QED
    BY <1>1, <2>1, WordsAre
<1> HIDE DEF words
<1> QED
  BY <1>1, <1>2, ValuesAre, Edited

\* A muted word is taken off the list.
LEMMA RemoveWordKeeps ==
    ASSUME SettingsPart!SettingsInv, NEW i \in DOMAIN v3, SettingsPart!RemoveWord(i)
    PROVE  SettingsPart!SettingsInv'
<1>1. /\ SettingsPart!Step(SettingsPart!Out) /\ i \in DOMAIN v2
      /\ v2' = SettingsPart!RemoveAt(v2, i) /\ v3' = v2' /\ v14' = v14 \cup {v3[i]}
      /\ UNCHANGED <<v4, v5, v6, v7, v8, v9, v10, v11, v12>>
  BY DEF SettingsPart!RemoveWord, SettingsPart!renderMutedWords, SettingsPart!disk,
     SettingsPart!net
<1>2. ASSUME SettingsPart!Values
      PROVE  /\ v2' \in Seq(Nat) /\ v14 \subseteq v14'
             /\ SettingsPart!ToSet(v2) \subseteq SettingsPart!ToSet(v2') \cup v14'
  <2>1. v2 \in Seq(Nat) /\ v3 = v2
    BY <1>2, ValuesAre
  <2> QED
    BY <1>1, <2>1, WordsAre
<1> QED
  BY <1>1, <1>2, ValuesAre, Edited

\* The form is sent: it was filled, so that the words on the page hold those that must stay.
LEMMA SubmitKeeps ==
    ASSUME SettingsPart!SettingsInv, SettingsPart!Submit PROVE SettingsPart!SettingsInv'
<1> DEFINE cross == SettingsPart!Out \/ v12 # {"prefs", "notif"}
           s == [kind |-> "save", step |-> "get", words |-> v2, prefs |-> v4.prefs, base |-> v7,
                 notif |-> 0]
<1>1. /\ SettingsPart!Step(cross) /\ v5' = [v5 EXCEPT !.look = v4.look]
      /\ v6' = [v6 EXCEPT !.look = v4.look] /\ v11' = v11 \cup {s}
      /\ UNCHANGED <<v1, v2, v3, v4, v7, v8, v9, v10, v12, v14>>
  BY DEF SettingsPart!Submit, SettingsPart!page, SettingsPart!net
<1>2. cross \in BOOLEAN
  BY DEF SettingsPart!Out
<1>3. /\ v16' \in Nat /\ v15' = v15 + 1 /\ v13' = ""
      /\ v16' = 0 => ~cross /\ v16 = 0 /\ SettingsPart!Kept
  BY <1>1, <1>2, Quiet
<1>4. ASSUME v16' = 0 PROVE SettingsPart!Kept'
  <2>1. /\ v11 = {} /\ "prefs" \in v12 /\ SettingsPart!Kept
    BY <1>3, <1>4 DEF SettingsPart!Out
  <2>2. /\ SettingsPart!Values /\ ~SettingsPart!Behind /\ SettingsPart!WordsIn(v7.words)
        /\ SettingsPart!WordsIn(v2)
    BY <2>1 DEF SettingsPart!Kept, SettingsPart!OneCall
  <2>3. /\ v2 \in Seq(Nat) /\ v4.prefs \in Nat /\ v4.look \in Nat /\ v7 \in SettingsPart!Accounts
        /\ v15 \in Nat /\ v5 \in Places /\ v6 = v5
    BY <2>2, ValuesAre
  <2>4. /\ s \in SaveCalls /\ s.step = "get" /\ s.words = v2 /\ s.prefs = v4.prefs
    <3> DEFINE W == Seq(Nat)
    <3>1. SaveCalls = [kind : {"save"}, step : {"get", "put", "notif"}, words : W, prefs : Nat,
                       base : SettingsPart!Accounts, notif : Nat]
      BY DEF SaveCalls
    <3>2. v2 \in W
      BY <2>3
    <3> HIDE DEF W
    <3> QED
      BY <2>3, <3>1, <3>2
  <2> HIDE DEF s
  <2>5. v5' \in Places /\ v6' = v5' /\ v6'.look = v4.look
    <3>1. PICK x \in Nat : x = v4.look
      BY <2>3
    <3>2. v5' = [v5 EXCEPT !.look = x] /\ v6' = [v6 EXCEPT !.look = x]
      BY <1>1, <3>1
    <3> QED
      BY <2>3, <3>1, <3>2 DEF Places
  <2>6. v15' \in Nat
    <3>1. v15 + 1 \in Nat
      BY <2>3
    <3> QED
      BY <1>3, <3>1, Zenon
  <2>7. SettingsPart!Values'
    BY <1>1, <1>3, <2>2, <2>5, <2>6, ValuesAre, ValuesThen
  <2>8. PICK d \in SaveCalls : /\ v11' = {d} /\ d.step = "get" /\ d.words = v2
                               /\ d.prefs = v4.prefs
    BY <1>1, <2>1, <2>4
  <2>9. (SettingsPart!Saving(d))'
    BY <1>1, <2>1, <2>5, <2>8 DEF SettingsPart!Saving, SaveCalls
  <2>10. /\ (SettingsPart!WordsIn(v7.words))' /\ (SettingsPart!WordsIn(v2))'
         /\ (~SettingsPart!Behind)'
    BY <1>1, <2>2 DEF SettingsPart!WordsIn, SettingsPart!Behind
  <2> QED
    BY <1>3, <2>7, <2>8, <2>9, <2>10, OtherOut
<1> QED
  BY <1>3, <1>4 DEF SettingsPart!SettingsInv

\* A step of a save or a pin reads the account first.
LEMMA MutateKeeps ==
    ASSUME SettingsPart!SettingsInv, NEW c \in v11, SettingsPart!mutatePrefs(c)
    PROVE  SettingsPart!SettingsInv'
<1>1. /\ c.kind \in {"save", "pin"} /\ c.step = "get"
      /\ v11' = (v11 \ {c}) \cup {[c EXCEPT !.step = "put", !.base = v7]}
      /\ UNCHANGED <<v1, v2, v3, v4, v5, v6, v7, v8, v9, v10, v12, v13, v14, v15, v16>>
  BY DEF SettingsPart!mutatePrefs, SettingsPart!Moves, SettingsPart!page, SettingsPart!disk,
     SettingsPart!net, SettingsPart!hist
<1>2. ASSUME v16 = 0 PROVE SettingsPart!Kept'
  <2>1. /\ SettingsPart!Values /\ SettingsPart!WordsIn(v7.words)
        /\ ("prefs" \in v12 => SettingsPart!WordsIn(v2))
        /\ v11 = {c} /\ v13 = "" /\ ~SettingsPart!Behind
        /\ \/ SettingsPart!Saving(c) /\ c.kind = "save"
           \/ SettingsPart!Pinning(c) /\ c.kind = "pin"
    BY <1>1, <1>2, TheCall
  <2>2. v7 \in SettingsPart!Accounts
    BY <2>1, ValuesAre
  <2>3. PICK d : v11' = {d} /\ ((SettingsPart!Saving(d))' \/ (SettingsPart!Pinning(d))')
    <3> DEFINE x == [c EXCEPT !.step = "put", !.base = v7]
    <3>1. v11' = {x}
      BY <1>1, <2>1
    <3>2. CASE SettingsPart!Saving(c)
      <4>1. /\ c \in SaveCalls /\ "prefs" \in v12 /\ v4.look = v6.look
            /\ c.words = v2 /\ c.prefs = v4.prefs
        BY <3>2 DEF SettingsPart!Saving, SaveCalls
      <4>2. x \in SaveCalls /\ x.step = "put" /\ x.base = v7 /\ x.words = c.words /\ x.prefs = c.prefs
        BY <2>2, <4>1 DEF SaveCalls
      <4> HIDE DEF x
      <4>3. PICK d \in SaveCalls : /\ v11' = {d} /\ d.step = "put" /\ d.base = v7
                                   /\ d.words = v2 /\ d.prefs = v4.prefs
        BY <3>1, <4>1, <4>2
      <4>4. (SettingsPart!Saving(d))'
        BY <1>1, <4>1, <4>3 DEF SettingsPart!Saving, SaveCalls
      <4> QED
        BY <4>3, <4>4
    <3>3. CASE SettingsPart!Pinning(c)
      <4>1. c \in PinCalls
        BY <3>3 DEF SettingsPart!Pinning, PinCalls
      <4>2. x \in PinCalls /\ x.step = "put" /\ x.base = v7
        BY <2>2, <4>1, PinsAre
      <4> HIDE DEF x
      <4>3. PICK d \in PinCalls : v11' = {d} /\ d.step = "put" /\ d.base = v7
        BY <3>1, <4>2
      <4>4. (SettingsPart!Pinning(d))'
        BY <1>1, <4>3 DEF SettingsPart!Pinning, PinCalls
      <4> QED
        BY <4>3, <4>4
    <3> QED
      BY <2>1, <3>2, <3>3
  <2>4. SettingsPart!Values'
    BY <1>1, <2>1, ValuesAre, ValuesThen, Zenon
  <2>5. /\ (SettingsPart!WordsIn(v7.words))' /\ ("prefs" \in v12' => (SettingsPart!WordsIn(v2))')
        /\ (~SettingsPart!Behind)' /\ v13' = ""
    BY <1>1, <2>1 DEF SettingsPart!WordsIn, SettingsPart!Behind
  <2> QED
    BY <2>3, <2>4, <2>5, OtherOut
<1> QED
  BY <1>1, <1>2 DEF SettingsPart!SettingsInv

\* What a save makes of the account it has read.
LEMMA PutAccount ==
    ASSUME SettingsPart!Values, NEW c, SettingsPart!Saving(c), c.step = "put"
    PROVE  LET a == SettingsPart!UpdateAllPreferences(c)
           IN  /\ a \in SettingsPart!Accounts
               /\ a.words = v2 /\ a.prefs = v4.prefs /\ a.feeds = v7.feeds
<1>1. c \in SaveCalls /\ c.words = v2 /\ c.prefs = v4.prefs /\ c.base = v7
  BY DEF SettingsPart!Saving, SaveCalls
<1>2. v2 \in Seq(Nat) /\ v4.prefs \in Nat /\ v7 \in SettingsPart!Accounts
  BY ValuesAre
<1>3. PICK w \in Seq(Nat), p \in Nat : w = v2 /\ p = v4.prefs
  BY <1>2
<1>4. SettingsPart!UpdateAllPreferences(c) = [v7 EXCEPT !.words = w, !.prefs = p]
  BY <1>1, <1>3 DEF SettingsPart!UpdateAllPreferences
<1> QED
  BY <1>2, <1>3, <1>4 DEF SettingsPart!Accounts

\* The preferences of a save are written.
LEMMA PutKeeps ==
    ASSUME SettingsPart!SettingsInv, NEW c \in v11, SettingsPart!Put(c)
    PROVE  SettingsPart!SettingsInv'
<1>1. /\ c.kind = "save" /\ c.step = "put" /\ v7' = SettingsPart!UpdateAllPreferences(c)
      /\ v11' = (v11 \ {c}) \cup {[c EXCEPT !.step = "notif", !.notif = v4.notif]}
      /\ UNCHANGED <<v1, v2, v3, v4, v5, v6, v8, v9, v10, v12, v13, v14, v15, v16>>
  BY DEF SettingsPart!Put, SettingsPart!Moves, SettingsPart!page, SettingsPart!disk,
     SettingsPart!hist
<1>2. ASSUME v16 = 0 PROVE SettingsPart!Kept'
  <2>1. /\ SettingsPart!Values /\ ("prefs" \in v12 => SettingsPart!WordsIn(v2))
        /\ v11 = {c} /\ v13 = "" /\ ~SettingsPart!Behind /\ SettingsPart!Saving(c)
    BY <1>1, <1>2, TheCall
  <2>2. /\ c \in SaveCalls /\ "prefs" \in v12 /\ v4.look = v6.look
        /\ c.words = v2 /\ c.prefs = v4.prefs
    BY <2>1 DEF SettingsPart!Saving, SaveCalls
  <2>3. v7' \in SettingsPart!Accounts /\ v7'.words = v2 /\ v7'.prefs = v4.prefs
    BY <1>1, <2>1, PutAccount
  <2>4. PICK d \in SaveCalls : /\ v11' = {d} /\ d.step = "notif" /\ d.notif = v4.notif
                               /\ d.words = v2 /\ d.prefs = v4.prefs
    <3> DEFINE x == [c EXCEPT !.step = "notif", !.notif = v4.notif]
    <3>1. PICK k \in Nat, a \in SettingsPart!Accounts : k = v4.notif /\ a = v7
      BY <2>1, ValuesAre
    <3>2. x = [c EXCEPT !.step = "notif", !.notif = k]
      BY <3>1
    <3> HIDE DEF x
    <3>3. /\ x \in SaveCalls /\ x.step = "notif" /\ x.notif = k
          /\ x.words = c.words /\ x.prefs = c.prefs
      BY <2>2, <3>2 DEF SaveCalls
    <3>4. v11' = {x}
      BY <1>1, <2>1 DEF x
    <3> QED
      BY <2>2, <3>1, <3>3, <3>4
  <2>5. (SettingsPart!Saving(d))'
    BY <1>1, <2>2, <2>3, <2>4 DEF SettingsPart!Saving, SaveCalls
  <2>6. SettingsPart!Values'
    BY <1>1, <2>1, <2>3, ValuesAre, ValuesThen, Zenon
  <2>7. /\ (SettingsPart!WordsIn(v7.words))' /\ (SettingsPart!WordsIn(v2))'
        /\ (~SettingsPart!Behind)' /\ v13' = ""
    BY <1>1, <2>1, <2>2, <2>3 DEF SettingsPart!WordsIn, SettingsPart!Behind
  <2> QED
    BY <2>4, <2>5, <2>6, <2>7, OtherOut
<1> QED
  BY <1>1, <1>2 DEF SettingsPart!SettingsInv

\* A save ends: the page is as the account and this machine have it.
LEMMA SavedKeeps ==
    ASSUME SettingsPart!SettingsInv, NEW c \in v11, SettingsPart!Saved(c)
    PROVE  SettingsPart!SettingsInv'
<1>1. /\ c.kind = "save" /\ c.step = "notif" /\ v11' = v11 \ {c} /\ v8' = c.notif
      /\ v5' = [v5 EXCEPT !.warn = v4.warn] /\ v6' = [v6 EXCEPT !.warn = v4.warn]
      /\ v13' = "saved" /\ UNCHANGED <<v2, v3, v4, v7, v9, v10, v12, v14, v15, v16>>
  BY DEF SettingsPart!Saved
<1>2. ASSUME v16 = 0 PROVE SettingsPart!Kept'
  <2>1. /\ SettingsPart!Values /\ ("prefs" \in v12 => SettingsPart!WordsIn(v2))
        /\ v11 = {c} /\ ~SettingsPart!Behind /\ SettingsPart!Saving(c)
        /\ SettingsPart!WordsIn(v7.words)
    BY <1>1, <1>2, TheCall
  <2>2. /\ v4.look = v6.look /\ c.words = v2 /\ c.prefs = v4.prefs
        /\ v7.words = c.words /\ v7.prefs = c.prefs /\ c.notif = v4.notif
    BY <1>1, <2>1 DEF SettingsPart!Saving
  <2>3. PICK x \in Nat : x = v4.warn /\ v5 \in Places /\ v6 = v5 /\ v4.notif \in Nat
    BY <2>1, ValuesAre
  <2>4. v5' \in Places /\ v6' = v5' /\ v6'.warn = v4.warn /\ v6'.look = v6.look
    <3>1. v5' = [v5 EXCEPT !.warn = x] /\ v6' = [v6 EXCEPT !.warn = x]
      BY <1>1, <2>3
    <3> QED
      BY <2>3, <3>1 DEF Places
  <2>5. v11' = {}
    BY <1>1, <2>1
  <2>6. SettingsPart!Values'
    BY <1>1, <2>1, <2>2, <2>3, <2>4, ValuesAre, ValuesThen, Zenon
  <2>7. SettingsPart!InStep'
    BY <1>1, <2>2, <2>4 DEF SettingsPart!InStep
  <2>8. /\ (SettingsPart!WordsIn(v7.words))' /\ ("prefs" \in v12' => (SettingsPart!WordsIn(v2))')
        /\ (~SettingsPart!Behind)'
    BY <1>1, <2>1 DEF SettingsPart!WordsIn, SettingsPart!Behind
  <2> QED
    BY <2>5, <2>6, <2>7, <2>8, NoneOut
<1> QED
  BY <1>1, <1>2 DEF SettingsPart!SettingsInv

\* A save fails, and the reader is told so.
LEMMA NotSavedKeeps ==
    ASSUME SettingsPart!SettingsInv, NEW c \in v11, SettingsPart!NotSaved(c)
    PROVE  SettingsPart!SettingsInv'
<1>1. /\ SettingsPart!Step(FALSE) /\ c.kind = "save" /\ v11' = v11 \ {c}
      /\ UNCHANGED <<v2, v3, v4, v5, v6, v7, v8, v9, v10, v12, v14>>
  BY DEF SettingsPart!NotSaved, SettingsPart!page, SettingsPart!disk, SettingsPart!net
<1>2. v16' \in Nat /\ v15' = v15 + 1 /\ v13' = "" /\ (v16' = 0 => v16 = 0)
  BY <1>1, Quiet
<1>3. ASSUME v16' = 0 PROVE SettingsPart!Kept'
  <2>1. /\ SettingsPart!Values /\ ("prefs" \in v12 => SettingsPart!WordsIn(v2))
        /\ v11 = {c} /\ ~SettingsPart!Behind /\ SettingsPart!WordsIn(v7.words)
    BY <1>1, <1>2, <1>3, TheCall
  <2>2. v15' \in Nat
    <3>1. v15 \in Nat
      BY <2>1, ValuesAre
    <3>2. v15 + 1 \in Nat
      BY <3>1
    <3> QED
      BY <1>2, <3>2, Zenon
  <2>3. SettingsPart!Values'
    BY <1>1, <1>2, <2>1, <2>2, ValuesAre, ValuesThen
  <2>4. /\ (SettingsPart!WordsIn(v7.words))' /\ ("prefs" \in v12' => (SettingsPart!WordsIn(v2))')
        /\ (~SettingsPart!Behind)' /\ v11' = {}
    BY <1>1, <2>1 DEF SettingsPart!WordsIn, SettingsPart!Behind
  <2> QED
    BY <1>2, <2>3, <2>4, NoneOut
<1> QED
  BY <1>2, <1>3 DEF SettingsPart!SettingsInv

\* A call is begun that changes nothing yet.
LEMMA Begun ==
    ASSUME SettingsPart!SettingsInv, SettingsPart!Step(SettingsPart!Out),
           NEW c, v11' = v11 \cup {c},
           SettingsPart!Values => (c \in PinCalls /\ c.step = "get") \/ c \in AskCalls,
           UNCHANGED <<v2, v3, v4, v5, v6, v7, v8, v9, v10, v12, v14>>
    PROVE  SettingsPart!SettingsInv'
<1>1. v16' \in Nat /\ v15' = v15 + 1 /\ v13' = ""
  BY Quiet DEF SettingsPart!Out
<1>2. ASSUME v16' = 0 PROVE SettingsPart!Kept'
  <2>1. /\ SettingsPart!Values /\ SettingsPart!WordsIn(v7.words) /\ v11 = {}
        /\ ~SettingsPart!Behind /\ ("prefs" \in v12 => SettingsPart!WordsIn(v2))
    BY <1>2, QuietNow
  <2>2. v15' \in Nat
    <3>1. v15 \in Nat
      BY <2>1, ValuesAre
    <3>2. v15 + 1 \in Nat
      BY <3>1
    <3> QED
      BY <1>1, <3>2, Zenon
  <2>3. SettingsPart!Values'
    BY <1>1, <2>1, <2>2, ValuesAre, ValuesThen
  <2>4. (SettingsPart!Pinning(c))' \/ (SettingsPart!Asking(c))'
    BY <2>1 DEF SettingsPart!Pinning, SettingsPart!Asking, PinCalls, AskCalls
  <2>5. /\ (SettingsPart!WordsIn(v7.words))' /\ ("prefs" \in v12' => (SettingsPart!WordsIn(v2))')
        /\ (~SettingsPart!Behind)' /\ v11' = {c}
    BY <2>1 DEF SettingsPart!WordsIn, SettingsPart!Behind
  <2> QED
    BY <1>1, <2>3, <2>4, <2>5, OtherOut
<1> QED
  BY <1>1, <1>2 DEF SettingsPart!SettingsInv

\* A pin, a subscription or a removal is begun.
LEMMA BeginsKeep ==
    ASSUME SettingsPart!SettingsInv,
           \/ SettingsPart!PinFeed \/ SettingsPart!SubscribeLabeler
           \/ \E who \in v10 : SettingsPart!Undo(who)
    PROVE  SettingsPart!SettingsInv'
<1>1. ASSUME SettingsPart!PinFeed PROVE SettingsPart!SettingsInv'
  <2> DEFINE c == [kind |-> "pin", step |-> "get", base |-> v7]
  <2>1. /\ SettingsPart!Step(SettingsPart!Out) /\ v11' = v11 \cup {c}
        /\ UNCHANGED <<v2, v3, v4, v5, v6, v7, v8, v9, v10, v12, v14>>
    BY <1>1 DEF SettingsPart!PinFeed, SettingsPart!page, SettingsPart!disk, SettingsPart!net
  <2>2. SettingsPart!Values => c \in PinCalls /\ c.step = "get"
    BY ValuesAre DEF PinCalls
  <2>3. PICK d : d = c
    OBVIOUS
  <2> HIDE DEF c
  <2> QED
    BY <2>1, <2>2, <2>3, Begun
<1>2. ASSUME SettingsPart!SubscribeLabeler PROVE SettingsPart!SettingsInv'
  <2> DEFINE c == [kind |-> "add", who |-> "labelers"]
  <2>1. /\ SettingsPart!Step(SettingsPart!Out) /\ v11' = v11 \cup {c}
        /\ UNCHANGED <<v2, v3, v4, v5, v6, v7, v8, v9, v10, v12, v14>>
    BY <1>2 DEF SettingsPart!SubscribeLabeler, SettingsPart!page, SettingsPart!disk, SettingsPart!net
  <2>2. c \in AskCalls
    BY DEF AskCalls
  <2> HIDE DEF c
  <2> QED
    BY <2>1, <2>2, Begun
<1>3. ASSUME NEW who \in v10, SettingsPart!Undo(who) PROVE SettingsPart!SettingsInv'
  <2> DEFINE c == [kind |-> "undo", who |-> who]
  <2>1. /\ SettingsPart!Step(SettingsPart!Out) /\ v11' = v11 \cup {c}
        /\ UNCHANGED <<v2, v3, v4, v5, v6, v7, v8, v9, v10, v12, v14>>
    BY <1>3 DEF SettingsPart!Undo, SettingsPart!page, SettingsPart!disk, SettingsPart!net
  <2>2. ASSUME SettingsPart!Values PROVE c \in AskCalls
    <3>1. who \in {"muted", "blocked", "labelers"}
      BY <1>3, <2>2, ValuesAre
    <3> QED
      BY <3>1 DEF AskCalls
  <2> HIDE DEF c
  <2> QED
    BY <2>1, <2>2, Begun
<1> QED
  BY <1>1, <1>2, <1>3

\* A feed is pinned: what the account has is what was read, and one feed more.
LEMMA PinnedKeeps ==
    ASSUME SettingsPart!SettingsInv, NEW c \in v11, SettingsPart!Pinned(c)
    PROVE  SettingsPart!SettingsInv'
<1>1. /\ c.kind = "pin" /\ c.step = "put" /\ v11' = v11 \ {c}
      /\ v7' = [c.base EXCEPT !.feeds = @ + 1]
      /\ UNCHANGED <<v1, v2, v3, v4, v5, v6, v8, v9, v10, v12, v13, v14, v15, v16>>
  BY DEF SettingsPart!Pinned, SettingsPart!page, SettingsPart!disk, SettingsPart!hist
<1>2. ASSUME v16 = 0 PROVE SettingsPart!Kept'
  <2>1. /\ SettingsPart!Values /\ ("prefs" \in v12 => SettingsPart!WordsIn(v2))
        /\ v11 = {c} /\ v13 = "" /\ ~SettingsPart!Behind /\ SettingsPart!Pinning(c)
        /\ SettingsPart!WordsIn(v7.words)
    BY <1>1, <1>2, TheCall
  <2>2. v7 \in SettingsPart!Accounts /\ v7' = [v7 EXCEPT !.feeds = @ + 1]
    BY <1>1, <2>1, ValuesAre DEF SettingsPart!Pinning
  <2>3. v7' \in SettingsPart!Accounts /\ v7'.words = v7.words
    BY <2>2 DEF SettingsPart!Accounts
  <2>4. SettingsPart!Values'
    BY <1>1, <2>1, <2>3, ValuesAre, ValuesThen, Zenon
  <2>5. /\ (SettingsPart!WordsIn(v7.words))' /\ ("prefs" \in v12' => (SettingsPart!WordsIn(v2))')
        /\ (~SettingsPart!Behind)' /\ v11' = {} /\ v13' = ""
    BY <1>1, <2>1, <2>3 DEF SettingsPart!WordsIn, SettingsPart!Behind
  <2> QED
    BY <2>4, <2>5, NoneOut
<1> QED
  BY <1>1, <1>2 DEF SettingsPart!SettingsInv

\* Someone is unmuted or unblocked, and the row goes.
LEMMA UndoneKeeps ==
    ASSUME SettingsPart!SettingsInv, NEW c \in v11, SettingsPart!Undone(c)
    PROVE  SettingsPart!SettingsInv'
<1>1. /\ c.kind = "undo" /\ c.who # "labelers" /\ v11' = v11 \ {c}
      /\ v9' = v9 \ {c.who} /\ v10' = v10 \ {c.who}
      /\ UNCHANGED <<v1, v2, v3, v4, v5, v6, v7, v8, v12, v13, v14, v15, v16>>
  BY DEF SettingsPart!Undone, SettingsPart!disk, SettingsPart!hist
<1>2. ASSUME v16 = 0 PROVE SettingsPart!Kept'
  <2>1. /\ SettingsPart!Values /\ ("prefs" \in v12 => SettingsPart!WordsIn(v2))
        /\ v11 = {c} /\ v13 = "" /\ ~SettingsPart!Behind /\ SettingsPart!WordsIn(v7.words)
    BY <1>1, <1>2, TheCall
  <2>2. /\ v10' \subseteq {"muted", "blocked", "labelers"} /\ v10' \subseteq v9' \cup {"labelers"}
    BY <1>1, <2>1, ValuesAre
  <2>4. SettingsPart!Values'
    BY <1>1, <2>1, <2>2, ValuesAre, ValuesThen, Zenon
  <2>5. /\ (SettingsPart!WordsIn(v7.words))' /\ ("prefs" \in v12' => (SettingsPart!WordsIn(v2))')
        /\ (~SettingsPart!Behind)' /\ v11' = {} /\ v13' = ""
    BY <1>1, <2>1 DEF SettingsPart!WordsIn, SettingsPart!Behind
  <2> QED
    BY <2>4, <2>5, NoneOut
<1> QED
  BY <1>1, <1>2 DEF SettingsPart!SettingsInv

\* A labeler is left or added, and the page is loaded.
LEMMA LabelersKeep ==
    ASSUME SettingsPart!SettingsInv, NEW c \in v11, SettingsPart!Labelers(c)
    PROVE  SettingsPart!SettingsInv'
<1> DEFINE l == [kind |-> "load", at |-> 1, why |-> "open", k |-> v15]
<1>1. /\ c.kind \in {"undo", "add"} /\ v11' = (v11 \ {c}) \cup {l}
      /\ v9 \subseteq v9' \cup {"labelers"}
      /\ v4' = [v4 EXCEPT !.look = v6.look, !.warn = v6.warn] /\ v5' = v6
      /\ UNCHANGED <<v1, v2, v3, v6, v7, v8, v10, v12, v13, v14, v15, v16>>
  BY DEF SettingsPart!Labelers, SettingsPart!Moves, SettingsPart!hist, SettingsPart!loadLocalSettings
<1>2. ASSUME v16 = 0 PROVE SettingsPart!Kept'
  <2>1. /\ SettingsPart!Values /\ ("prefs" \in v12 => SettingsPart!WordsIn(v2))
        /\ v11 = {c} /\ v13 = "" /\ SettingsPart!WordsIn(v7.words)
    BY <1>1, <1>2, TheCall
  <2>2. PICK x \in Nat, y \in Nat : /\ x = v6.look /\ y = v6.warn /\ v4 \in SettingsPart!Forms
                                    /\ v15 \in Nat /\ v6 = v5 /\ v5 \in Places
    BY <2>1, ValuesAre
  <2>3. v4' \in SettingsPart!Forms /\ v4'.look = v6.look /\ v4'.warn = v6.warn
    <3>1. v4' = [v4 EXCEPT !.look = x, !.warn = y]
      BY <1>1, <2>2
    <3> QED
      BY <2>2, <3>1 DEF SettingsPart!Forms
  <2>4. PICK d \in LoadCalls : d.at = 1 /\ v11' = {d}
    <3>1. l \in LoadCalls /\ l.at = 1
      BY <2>2 DEF LoadCalls
    <3>2. v11' = {l}
      BY <1>1, <2>1
    <3> QED
      BY <3>1, <3>2, Zenon
  <2>5. v10 \subseteq v9' \cup {"labelers"}
    BY <1>1, <2>1, ValuesAre
  <2>6. SettingsPart!Values'
    BY <1>1, <2>1, <2>2, <2>3, <2>5, ValuesAre, ValuesThen, Zenon
  <2>7. /\ (SettingsPart!WordsIn(v7.words))' /\ ("prefs" \in v12' => (SettingsPart!WordsIn(v2))')
        /\ v13' = "" /\ v4'.warn = v6'.warn /\ v4'.look = v6'.look
    BY <1>1, <2>1, <2>3 DEF SettingsPart!WordsIn
  <2>8. ~(d.at > 1) /\ d.at <= 3
    BY <2>4
  <2> QED
    BY <2>4, <2>6, <2>7, <2>8, LoadOut
<1> QED
  BY <1>1, <1>2 DEF SettingsPart!SettingsInv

\* The settings before the tab is opened.
LEMMA InitSettings == SettingsPart!Init => SettingsPart!SettingsInv
<1> SUFFICES ASSUME SettingsPart!Init PROVE SettingsPart!SettingsInv
  OBVIOUS
<1>1. /\ v2 = <<>> /\ v3 = <<>> /\ v10 = {} /\ v8 = 1 /\ v15 = 0 /\ v16 = 0 /\ v13 = "" /\ v11 = {}
      /\ v12 = {} /\ v5 = SettingsPart!Start /\ v6 = SettingsPart!Start
  BY DEF SettingsPart!Init
<1>2. v4 = [prefs |-> 0, notif |-> 0, warn |-> 0, look |-> 0]
  BY DEF SettingsPart!Init
<1>3. v7 = [words |-> <<1, 2>>, prefs |-> 1, feeds |-> 0]
  BY DEF SettingsPart!Init
<1>4. v4 \in SettingsPart!Forms
  BY <1>2 DEF SettingsPart!Forms
<1>5. v5 \in Places
  BY <1>1 DEF SettingsPart!Start, Places
<1>6. <<1, 2>> \in Seq(Nat) /\ v7.words = <<1, 2>>
  BY <1>3
<1>7. v7 \in SettingsPart!Accounts
  <2> DEFINE W == Seq(Nat)
             w == <<1, 2>>
  <2>1. SettingsPart!Accounts = [words : W, prefs : Nat, feeds : Nat] /\ w \in W
    BY <1>6 DEF SettingsPart!Accounts
  <2>2. v7 = [words |-> w, prefs |-> 1, feeds |-> 0]
    BY <1>3
  <2> HIDE DEF W, w
  <2> QED
    BY <2>1, <2>2
<1>8. SettingsPart!Values
  <2>1. /\ v2 \in Seq(Nat) /\ v3 = v2 /\ v15 \in Nat /\ v6 = v5 /\ v8 \in Nat
        /\ v13 \in {"", "saved", "cancelled"}
        /\ v10 \subseteq {"muted", "blocked", "labelers"} /\ v10 \subseteq v9 \cup {"labelers"}
    BY <1>1, EmptySeq
  <2>2. v5 \in [look : Nat, warn : Nat]
    BY <1>5 DEF Places
  <2> QED
    BY <1>4, <1>7, <2>1, <2>2, Zenon DEF SettingsPart!Values
<1>9. SettingsPart!WordsIn(v7.words)
  <2> DEFINE w == <<1, 2>>
  <2>1. 1 \in DOMAIN w /\ 2 \in DOMAIN w /\ w[1] = 1 /\ w[2] = 2
    OBVIOUS
  <2>2. v7.words = w
    BY <1>6
  <2> HIDE DEF w
  <2>3. 1 \in SettingsPart!ToSet(w) /\ 2 \in SettingsPart!ToSet(w)
    BY <2>1 DEF SettingsPart!ToSet
  <2> QED
    BY <2>2, <2>3 DEF SettingsPart!WordsIn
<1>10. ~SettingsPart!Behind /\ SettingsPart!OneCall
  BY <1>1 DEF SettingsPart!Behind, SettingsPart!OneCall
<1>11. SettingsPart!Kept
  BY <1>1, <1>8, <1>9, <1>10 DEF SettingsPart!Kept
<1> QED
  BY <1>1, <1>11 DEF SettingsPart!SettingsInv

\* Each step keeps what the settings rest on.
LEMMA StepSettings ==
    SettingsPart!SettingsInv /\ [SettingsPart!Next]_SettingsPart!vars => SettingsPart!SettingsInv'
<1> SUFFICES ASSUME SettingsPart!SettingsInv, [SettingsPart!Next]_SettingsPart!vars
             PROVE  SettingsPart!SettingsInv'
  OBVIOUS
<1>1. CASE UNCHANGED SettingsPart!vars
  <2>1. UNCHANGED <<v1, v2, v3, v4, v5, v6, v7, v8, v9, v10, v11, v12, v13, v14, v15, v16>>
    BY <1>1 DEF SettingsPart!vars, SettingsPart!page, SettingsPart!disk, SettingsPart!net,
       SettingsPart!hist
  <2>2. \A c : /\ (SettingsPart!Loading(c))' <=> SettingsPart!Loading(c)
               /\ (SettingsPart!Saving(c))' <=> SettingsPart!Saving(c)
               /\ (SettingsPart!Pinning(c))' <=> SettingsPart!Pinning(c)
               /\ (SettingsPart!Asking(c))' <=> SettingsPart!Asking(c)
    BY <2>1 DEF SettingsPart!Loading, SettingsPart!Saving, SettingsPart!Pinning, SettingsPart!Asking
  <2>3. SettingsPart!OneCall => SettingsPart!OneCall'
    BY <2>1, <2>2 DEF SettingsPart!OneCall, SettingsPart!Behind
  <2>4. SettingsPart!Values => SettingsPart!Values'
    BY <2>1, ValuesAre, ValuesThen, Zenon
  <2>5. SettingsPart!Kept => SettingsPart!Kept'
    BY <2>1, <2>3, <2>4 DEF SettingsPart!Kept, SettingsPart!WordsIn, SettingsPart!InStep
  <2> QED
    BY <2>1, <2>5 DEF SettingsPart!SettingsInv
<1>2. ASSUME NEW c \in v11,
             \/ SettingsPart!LoadedPrefs(c) \/ SettingsPart!LoadedMutes(c)
             \/ SettingsPart!LoadedBlocks(c) \/ SettingsPart!LoadedLabelers(c)
             \/ SettingsPart!populateNotificationPreferences(c) \/ SettingsPart!NotLoaded(c)
      PROVE  SettingsPart!SettingsInv'
  <2>1. 2 \in 2..4 /\ 3 \in 2..4 /\ 4 \in 2..4
    OBVIOUS
  <2>2. ASSUME SettingsPart!LoadedMutes(c) PROVE SettingsPart!SettingsInv'
    BY <2>1, <2>2, StagesAre, ListKeeps DEF SettingsPart!LoadedMutes
  <2>3. ASSUME SettingsPart!LoadedBlocks(c) PROVE SettingsPart!SettingsInv'
    BY <2>1, <2>3, StagesAre, ListKeeps DEF SettingsPart!LoadedBlocks
  <2>4. ASSUME SettingsPart!LoadedLabelers(c) PROVE SettingsPart!SettingsInv'
    BY <2>1, <2>4, StagesAre, ListKeeps DEF SettingsPart!LoadedLabelers
  <2> QED
    BY <1>2, <2>2, <2>3, <2>4, PrefsKeep, NotifKeeps, NotLoadedKeeps, Zenon
<1>3. ASSUME NEW c \in v11,
             \/ SettingsPart!mutatePrefs(c) \/ SettingsPart!Put(c) \/ SettingsPart!Saved(c)
             \/ SettingsPart!NotSaved(c) \/ SettingsPart!Pinned(c) \/ SettingsPart!Undone(c)
             \/ SettingsPart!Labelers(c)
      PROVE  SettingsPart!SettingsInv'
  BY <1>3, MutateKeeps, PutKeeps, SavedKeeps, NotSavedKeeps, PinnedKeeps, UndoneKeeps, LabelersKeep,
     Zenon
<1>4. ASSUME \/ SettingsPart!loadSettings \/ SettingsPart!Cancel \/ SettingsPart!ChangeNow
             \/ SettingsPart!Submit \/ SettingsPart!PinFeed \/ SettingsPart!SubscribeLabeler
             \/ \E who \in v10 : SettingsPart!Undo(who)
      PROVE  SettingsPart!SettingsInv'
  BY <1>4, LoadKeeps, ChangeKeeps, SubmitKeeps, BeginsKeep, Zenon
<1>5. ASSUME \/ SettingsPart!handleAddMutedWords(3)
             \/ \E i \in DOMAIN v3 : SettingsPart!RemoveWord(i)
             \/ \E f \in {"prefs", "notif", "warn", "look"} : SettingsPart!Edit(f)
      PROVE  SettingsPart!SettingsInv'
  <2>1. 3 \in Nat
    OBVIOUS
  <2> QED
    BY <1>5, <2>1, AddKeeps, RemoveWordKeeps, EditKeeps, Zenon
<1> QED
  BY <1>1, <1>2, <1>3, <1>4, <1>5, Zenon DEF SettingsPart!Next

\* What the invariant says to the reader.
LEMMA SettingsTell ==
    SettingsPart!SettingsInv => /\ SettingsPart!SavedIsKept /\ SettingsPart!CancelRestores
                                /\ SettingsPart!WordsStay /\ SettingsPart!ListedAreOn
<1> SUFFICES ASSUME SettingsPart!SettingsInv
             PROVE  /\ SettingsPart!SavedIsKept /\ SettingsPart!CancelRestores
                    /\ SettingsPart!WordsStay /\ SettingsPart!ListedAreOn
  OBVIOUS
<1>1. v16 = 0 => SettingsPart!Kept
  BY DEF SettingsPart!SettingsInv
<1>2. SettingsPart!SavedIsKept /\ SettingsPart!CancelRestores
  BY <1>1 DEF SettingsPart!SavedIsKept, SettingsPart!CancelRestores, SettingsPart!Kept
<1>3. SettingsPart!WordsStay
  BY <1>1 DEF SettingsPart!WordsStay, SettingsPart!Kept, SettingsPart!WordsIn
<1>4. SettingsPart!ListedAreOn
  <2> SUFFICES ASSUME v16 = 0, v11 = {} PROVE v10 \subseteq v9
    BY DEF SettingsPart!ListedAreOn
  <2>1. ~SettingsPart!Behind /\ SettingsPart!Values
    BY <1>1 DEF SettingsPart!Kept, SettingsPart!OneCall
  <2> QED
    BY <2>1, ValuesAre DEF SettingsPart!Behind
<1> QED
  BY <1>2, <1>3, <1>4

\* A step takes no feed out of the account that was pinned.
LEMMA StepPins ==
    SettingsPart!SettingsInv /\ SettingsPart!Next => SettingsPart!PinsKept
<1> SUFFICES ASSUME SettingsPart!SettingsInv, SettingsPart!Next, v16' = 0
             PROVE  v7'.feeds >= v7.feeds
  BY DEF SettingsPart!PinsKept
<1>1. ASSUME NEW c \in v11, SettingsPart!Put(c) PROVE v7'.feeds >= v7.feeds
  <2>1. /\ c.kind = "save" /\ c.step = "put" /\ v7' = SettingsPart!UpdateAllPreferences(c) /\ v16 = 0
    BY <1>1 DEF SettingsPart!Put, SettingsPart!hist
  <2>2. SettingsPart!Values /\ SettingsPart!Saving(c)
    BY <2>1, TheCall
  <2>3. v7'.feeds = v7.feeds /\ v7.feeds \in Nat
    BY <2>1, <2>2, PutAccount, ValuesAre
  <2> QED
    BY <2>3
<1>2. ASSUME NEW c \in v11, SettingsPart!Pinned(c) PROVE v7'.feeds >= v7.feeds
  <2>1. c.kind = "pin" /\ c.step = "put" /\ v7' = [c.base EXCEPT !.feeds = @ + 1] /\ v16 = 0
    BY <1>2 DEF SettingsPart!Pinned, SettingsPart!hist
  <2>2. SettingsPart!Values /\ SettingsPart!Pinning(c)
    BY <2>1, TheCall
  <2>3. v7 \in SettingsPart!Accounts /\ v7' = [v7 EXCEPT !.feeds = @ + 1]
    BY <2>1, <2>2, ValuesAre DEF SettingsPart!Pinning
  <2>4. v7'.feeds = v7.feeds + 1 /\ v7.feeds \in Nat
    BY <2>3 DEF SettingsPart!Accounts
  <2> QED
    BY <2>4
<1>3. ASSUME v7' = v7, v16 = 0 PROVE v7'.feeds >= v7.feeds
  <2>1. v7.feeds \in Nat
    BY <1>3, ValuesAre DEF SettingsPart!SettingsInv, SettingsPart!Kept
  <2> QED
    BY <1>3, <2>1
<1>4. \A cross \in BOOLEAN : SettingsPart!Step(cross) => v16 = 0
  BY Quiet
<1>5. ASSUME \/ SettingsPart!loadSettings \/ SettingsPart!Cancel \/ SettingsPart!ChangeNow
             \/ SettingsPart!Submit \/ SettingsPart!PinFeed \/ SettingsPart!SubscribeLabeler
             \/ SettingsPart!handleAddMutedWords(3)
             \/ \E i \in DOMAIN v3 : SettingsPart!RemoveWord(i)
             \/ \E f \in {"prefs", "notif", "warn", "look"} : SettingsPart!Edit(f)
             \/ \E who \in v10 : SettingsPart!Undo(who)
             \/ \E c \in v11 : SettingsPart!NotLoaded(c) \/ SettingsPart!NotSaved(c)
      PROVE  v7' = v7 /\ v16 = 0
  <2>1. v7' = v7
    BY <1>5 DEF SettingsPart!loadSettings, SettingsPart!Cancel, SettingsPart!ChangeNow,
       SettingsPart!Submit, SettingsPart!PinFeed, SettingsPart!SubscribeLabeler,
       SettingsPart!handleAddMutedWords, SettingsPart!RemoveWord, SettingsPart!Edit,
       SettingsPart!Undo, SettingsPart!NotLoaded, SettingsPart!NotSaved, SettingsPart!net
  <2>2. \E cross \in BOOLEAN : SettingsPart!Step(cross)
    <3>1. SettingsPart!Out \in BOOLEAN /\ (SettingsPart!Out \/ v12 # {"prefs", "notif"}) \in BOOLEAN
      BY DEF SettingsPart!Out
    <3> QED
      BY <1>5, <3>1, Zenon DEF SettingsPart!loadSettings, SettingsPart!Cancel, SettingsPart!ChangeNow,
         SettingsPart!Submit, SettingsPart!PinFeed, SettingsPart!SubscribeLabeler,
         SettingsPart!handleAddMutedWords, SettingsPart!RemoveWord, SettingsPart!Edit,
         SettingsPart!Undo, SettingsPart!NotLoaded, SettingsPart!NotSaved
  <2> QED
    BY <1>4, <2>1, <2>2
<1>6. ASSUME NEW c \in v11,
             \/ SettingsPart!LoadedPrefs(c) \/ SettingsPart!LoadedMutes(c)
             \/ SettingsPart!LoadedBlocks(c) \/ SettingsPart!LoadedLabelers(c)
             \/ SettingsPart!populateNotificationPreferences(c) \/ SettingsPart!mutatePrefs(c)
             \/ SettingsPart!Saved(c) \/ SettingsPart!Undone(c) \/ SettingsPart!Labelers(c)
      PROVE  v7' = v7 /\ v16 = 0
  BY <1>6 DEF SettingsPart!LoadedPrefs, SettingsPart!LoadedMutes, SettingsPart!LoadedBlocks,
     SettingsPart!LoadedLabelers, SettingsPart!Listed, SettingsPart!populateNotificationPreferences,
     SettingsPart!mutatePrefs, SettingsPart!Saved, SettingsPart!Undone, SettingsPart!Labelers,
     SettingsPart!net, SettingsPart!hist
<1> QED
  BY <1>1, <1>2, <1>3, <1>5, <1>6, Zenon DEF SettingsPart!Next

-----------------------------------------------------------------------------
(***************************************************************************)
(* Mentions.  Their state: v1 text, v2 cursor, v3 start, v4 end, v5 timer, *)
(* v6 fetches, v7 calls, v8 found, v9 active, v10 isVisible, v11 late,     *)
(* v12 eaten.                                                              *)
(***************************************************************************)
\* A part of a text is a text.
LEMMA PartOfText ==
    ASSUME NEW t \in Seq(MentionPart!Letters), NEW a \in Nat \ {0}, NEW b \in 0..Len(t)
    PROVE  /\ SubSeq(t, a, b) \in Seq(MentionPart!Letters)
           /\ Len(SubSeq(t, a, b)) = IF a <= b THEN b - a + 1 ELSE 0
           /\ \A i \in 1..Len(SubSeq(t, a, b)) : SubSeq(t, a, b)[i] = t[a + i - 1]
OBVIOUS

\* Two texts together are one.
LEMMA TextsTogether ==
    \A s, t \in Seq(MentionPart!Letters) : s \o t \in Seq(MentionPart!Letters) /\ Len(s \o t) = Len(s) + Len(t)
OBVIOUS

\* No mention, no list, no text yet.
LEMMA InitMention == MentionPart!Init => MentionPart!MentionInv
<1> SUFFICES ASSUME MentionPart!Init PROVE MentionPart!MentionInv
  OBVIOUS
<1>1. /\ v1 = <<>> /\ v2 = 0 /\ v3 = -1 /\ v4 = -1 /\ v5 = MentionPart!NoQuery /\ v6 = {}
      /\ v10 = FALSE /\ v11 = FALSE /\ v12 = FALSE
  BY DEF MentionPart!Init
<1>2. MentionPart!Typed
  <2>1. <<>> \in Seq(MentionPart!Letters) /\ Len(<<>>) = 0
    OBVIOUS
  <2>2. 0 \in 0..0 /\ FALSE \in BOOLEAN
    OBVIOUS
  <2> QED
    BY Zenon, <1>1, <2>1, <2>2 DEF MentionPart!Typed
<1> QED
  BY <1>1, <1>2 DEF MentionPart!MentionInv, MentionPart!Placed, MentionPart!Listed,
     MentionPart!ActiveIsListed, MentionPart!OnlyMentionReplaced

\* Where there is a mention before the cursor, that is what would be replaced.
LEMMA MentionAtCursor ==
    ASSUME NEW t \in Seq(MentionPart!Letters), NEW c \in 0..Len(t), MentionPart!Query(t, c) # MentionPart!NoQuery
    PROVE  /\ MentionPart!At(t, c) \in Nat /\ MentionPart!At(t, c) < c
           /\ MentionPart!IsMention(SubSeq(t, MentionPart!At(t, c) + 1, c))
<1> DEFINE from == {p \in 1..c : /\ t[p] = "@" /\ (p = 1 \/ t[p - 1] = " ")
                                 /\ \A q \in (p + 1)..c : t[q] = "a"}
<1>1. MentionPart!At(t, c) = IF from = {} THEN -1 ELSE (CHOOSE p \in from : TRUE) - 1
  BY DEF MentionPart!At
<1>2. MentionPart!At(t, c) # -1
  BY DEF MentionPart!Query, MentionPart!NoQuery
<1>3. PICK p \in from : MentionPart!At(t, c) = p - 1
  BY <1>1, <1>2
<1>4. p \in 1..c /\ t[p] = "@" /\ \A q \in (p + 1)..c : t[q] = "a"
  BY <1>3
<1> HIDE DEF from
<1>5. c \in Nat /\ p \in Nat \ {0} /\ p <= c /\ c \in 0..Len(t)
  <2>1. Len(t) \in Nat
    OBVIOUS
  <2> QED
    BY <1>4, <2>1
<1>6. MentionPart!At(t, c) + 1 = p /\ MentionPart!At(t, c) \in Nat /\ MentionPart!At(t, c) < c
  BY <1>3, <1>5
<1>7. PICK w : w = SubSeq(t, p, c)
  OBVIOUS
<1>8. w \in Seq(MentionPart!Letters) /\ Len(w) = c - p + 1 /\ \A i \in 1..Len(w) : w[i] = t[p + i - 1]
  BY <1>5, <1>7, PartOfText
<1>9. w # <<>> /\ Head(w) = "@"
  <2>1. 1 \in 1..Len(w)
    BY <1>5, <1>8
  <2>2. w[1] = t[p]
    BY <1>5, <1>8, <2>1
  <2> QED
    BY <1>4, <1>8, <2>1, <2>2
<1>10. \A i \in 2..Len(w) : w[i] = "a"
  <2> TAKE i \in 2..Len(w)
  <2>1. i \in 1..Len(w) /\ p + i - 1 \in (p + 1)..c
    BY <1>5, <1>8
  <2> QED
    BY <1>4, <1>8, <2>1
<1> QED
  BY <1>6, <1>7, <1>9, <1>10 DEF MentionPart!IsMention

\* After what is typed the list is closed, or what would be replaced is a mention.
LEMMA InputKeeps ==
    ASSUME MentionPart!MentionInv, MentionPart!onInput, v1' \in Seq(MentionPart!Letters), v2' \in 0..Len(v1'),
           UNCHANGED <<v6, v11, v12>>
    PROVE  MentionPart!MentionInv'
<1>0. /\ MentionPart!Typed /\ MentionPart!Placed /\ MentionPart!Listed /\ MentionPart!ActiveIsListed
      /\ MentionPart!OnlyMentionReplaced
  BY DEF MentionPart!MentionInv
<1>1. CASE MentionPart!Query(v1', v2') = MentionPart!NoQuery
  <2>1. v10' = FALSE /\ UNCHANGED <<v3, v4, v5>>
    BY <1>1 DEF MentionPart!onInput, MentionPart!close
  <2> QED
    BY <1>0, <2>1 DEF MentionPart!MentionInv, MentionPart!Typed, MentionPart!Placed, MentionPart!Listed,
       MentionPart!ActiveIsListed, MentionPart!OnlyMentionReplaced
<1>2. CASE MentionPart!Query(v1', v2') # MentionPart!NoQuery
  <2>1. /\ v3' = MentionPart!At(v1', v2') /\ v4' = v2' /\ UNCHANGED <<v8, v9, v10>>
    BY <1>2 DEF MentionPart!onInput, MentionPart!list
  <2>2. v3' \in Nat /\ MentionPart!IsMention(SubSeq(v1', v3' + 1, v2'))
    BY <1>2, <2>1, MentionAtCursor
  <2>3. v4' \in Nat /\ (IF v4' < Len(v1') THEN v4' ELSE Len(v1')) = v2'
    <3>1. Len(v1') \in Nat
      OBVIOUS
    <3> QED
      BY <2>1, <3>1
  <2>4. MentionPart!IsMention(MentionPart!Replaced)'
    BY <2>2, <2>3 DEF MentionPart!Replaced, MentionPart!Cut, MentionPart!IsMention
  <2> QED
    BY <1>0, <2>1, <2>2, <2>3, <2>4
    DEF MentionPart!MentionInv, MentionPart!Typed, MentionPart!Placed, MentionPart!Listed,
       MentionPart!ActiveIsListed, MentionPart!OnlyMentionReplaced
<1> QED
  BY <1>1, <1>2

\* A letter is typed, or taken away.
LEMMA TypeKeeps ==
    ASSUME MentionPart!MentionInv,
           MentionPart!Backspace \/ \E c \in MentionPart!Letters : MentionPart!Type(c)
    PROVE  MentionPart!MentionInv'
<1>1. v1 \in Seq(MentionPart!Letters) /\ v2 \in 0..Len(v1) /\ Len(v1) \in Nat
  BY DEF MentionPart!MentionInv, MentionPart!Typed
<1>2. MentionPart!onInput /\ UNCHANGED <<v6, v11, v12>>
  BY DEF MentionPart!Backspace, MentionPart!Type
<1>3. CASE MentionPart!Backspace
  <2>1. /\ v2 > 0 /\ v2' = v2 - 1
        /\ v1' = SubSeq(v1, 1, v2 - 1) \o SubSeq(v1, v2 + 1, Len(v1))
    BY <1>3 DEF MentionPart!Backspace, MentionPart!RemoveAt
  <2>2. SubSeq(v1, 1, v2 - 1) \in Seq(MentionPart!Letters) /\ Len(SubSeq(v1, 1, v2 - 1)) = v2 - 1
    BY <1>1, <2>1, PartOfText
  <2>3. /\ SubSeq(v1, v2 + 1, Len(v1)) \in Seq(MentionPart!Letters)
        /\ Len(SubSeq(v1, v2 + 1, Len(v1))) = Len(v1) - v2
    BY <1>1, <2>1, PartOfText
  <2>4. v1' \in Seq(MentionPart!Letters) /\ Len(v1') = (v2 - 1) + (Len(v1) - v2)
    BY <2>1, <2>2, <2>3, TextsTogether
  <2>5. v2' \in 0..Len(v1')
    <3>1. PICK a : a = Len(v1)
      OBVIOUS
    <3>2. PICK b : b = Len(v1')
      OBVIOUS
    <3>3. v2 \in 0..a /\ a \in Nat /\ b = (v2 - 1) + (a - v2) /\ v2' = v2 - 1 /\ v2 > 0
      BY <1>1, <2>1, <2>4, <3>1, <3>2
    <3> QED
      BY <3>2, <3>3
  <2> QED
    BY <1>2, <2>4, <2>5, InputKeeps
<1>4. ASSUME NEW c \in MentionPart!Letters, MentionPart!Type(c) PROVE MentionPart!MentionInv'
  <2>1. /\ v2' = v2 + 1
        /\ v1' = SubSeq(v1, 1, (v2 + 1) - 1) \o <<c>> \o SubSeq(v1, v2 + 1, Len(v1))
    BY <1>4 DEF MentionPart!Type, MentionPart!InsertAt
  <2>2. /\ SubSeq(v1, 1, (v2 + 1) - 1) \in Seq(MentionPart!Letters) /\ Len(SubSeq(v1, 1, (v2 + 1) - 1)) = v2
    BY <1>1, PartOfText
  <2>3. /\ SubSeq(v1, v2 + 1, Len(v1)) \in Seq(MentionPart!Letters)
        /\ Len(SubSeq(v1, v2 + 1, Len(v1))) = Len(v1) - v2
    BY <1>1, PartOfText
  <2>4. <<c>> \in Seq(MentionPart!Letters) /\ Len(<<c>>) = 1
    OBVIOUS
  <2>5. /\ SubSeq(v1, 1, (v2 + 1) - 1) \o <<c>> \in Seq(MentionPart!Letters)
        /\ Len(SubSeq(v1, 1, (v2 + 1) - 1) \o <<c>>) = v2 + 1
    BY <2>2, <2>4, TextsTogether
  <2>6. v1' \in Seq(MentionPart!Letters) /\ Len(v1') = (v2 + 1) + (Len(v1) - v2)
    BY <2>1, <2>3, <2>5, TextsTogether
  <2>7. v2' \in 0..Len(v1')
    <3>1. PICK a : a = Len(v1)
      OBVIOUS
    <3>2. PICK b : b = Len(v1')
      OBVIOUS
    <3>3. v2 \in 0..a /\ a \in Nat /\ b = (v2 + 1) + (a - v2) /\ v2' = v2 + 1
      BY <1>1, <2>1, <2>6, <3>1, <3>2
    <3> QED
      BY <3>2, <3>3
  <2> QED
    BY <1>2, <2>6, <2>7, InputKeeps
<1> QED
  BY <1>3, <1>4

\* A profile is chosen: its handle is in the text, and the cursor after it.
LEMMA SelectKeeps ==
    ASSUME MentionPart!MentionInv, MentionPart!selectProfile PROVE MentionPart!MentionInv'
<1>0. /\ MentionPart!Typed /\ MentionPart!Placed /\ MentionPart!Listed /\ MentionPart!ActiveIsListed
      /\ MentionPart!OnlyMentionReplaced
  BY DEF MentionPart!MentionInv
<1>1. /\ v10 /\ v10' = FALSE /\ UNCHANGED <<v3, v4, v5, v6, v11>>
      /\ v12' = (v12 \/ ~MentionPart!IsMention(MentionPart!Replaced))
      /\ v1' = MentionPart!Cut(0, v3) \o <<"@", "a", " ">> \o MentionPart!Cut(v4, Len(v1))
      /\ v2' = IF v3 < Len(v1) THEN v3 + 3 ELSE Len(v1) + 3
  BY DEF MentionPart!selectProfile, MentionPart!close
<1>2. v1 \in Seq(MentionPart!Letters) /\ Len(v1) \in Nat /\ v3 \in Nat /\ v4 \in Nat
  <2>1. v1 \in Seq(MentionPart!Letters)
    BY <1>0 DEF MentionPart!Typed
  <2>2. Len(v1) \in Nat
    BY <2>1
  <2>3. v3 \in Nat /\ v4 \in Nat
    BY Zenon, <1>0, <1>1 DEF MentionPart!Placed
  <2> QED
    BY <2>1, <2>2, <2>3
<1>3. /\ MentionPart!Cut(0, v3) \in Seq(MentionPart!Letters)
      /\ Len(MentionPart!Cut(0, v3)) = IF v3 < Len(v1) THEN v3 ELSE Len(v1)
  BY <1>2, PartOfText DEF MentionPart!Cut
<1>4. /\ MentionPart!Cut(v4, Len(v1)) \in Seq(MentionPart!Letters) /\ Len(MentionPart!Cut(v4, Len(v1))) \in Nat
  BY <1>2, PartOfText DEF MentionPart!Cut
<1>5. <<"@", "a", " ">> \in Seq(MentionPart!Letters) /\ Len(<<"@", "a", " ">>) = 3
  BY DEF MentionPart!Letters
<1>6. /\ MentionPart!Cut(0, v3) \o <<"@", "a", " ">> \in Seq(MentionPart!Letters)
      /\ Len(MentionPart!Cut(0, v3) \o <<"@", "a", " ">>) = Len(MentionPart!Cut(0, v3)) + 3
  BY <1>3, <1>5, TextsTogether
<1>7. /\ v1' \in Seq(MentionPart!Letters)
      /\ Len(v1') = (Len(MentionPart!Cut(0, v3)) + 3) + Len(MentionPart!Cut(v4, Len(v1)))
  BY <1>1, <1>4, <1>6, TextsTogether
<1>8. v2' \in 0..Len(v1')
  <2>1. PICK a, b, c, d : /\ a = Len(v1) /\ b = Len(v1') /\ c = Len(MentionPart!Cut(0, v3))
                         /\ d = Len(MentionPart!Cut(v4, Len(v1)))
    OBVIOUS
  <2>2. /\ a \in Nat /\ d \in Nat /\ b = (c + 3) + d /\ c = IF v3 < a THEN v3 ELSE a
        /\ v2' = IF v3 < a THEN v3 + 3 ELSE a + 3
    BY <1>1, <1>2, <1>3, <1>4, <1>7, <2>1
  <2> QED
    BY <1>2, <2>1, <2>2
<1>9. v12' => v11'
  BY <1>0, <1>1 DEF MentionPart!Listed, MentionPart!OnlyMentionReplaced
<1> QED
  BY <1>1, <1>2, <1>7, <1>8, <1>9
  DEF MentionPart!MentionInv, MentionPart!Typed, MentionPart!Placed, MentionPart!Listed,
     MentionPart!ActiveIsListed, MentionPart!OnlyMentionReplaced

\* A step of the list leaves the text.
LEMMA SuggestedKeeps ==
    ASSUME MentionPart!MentionInv,
           \/ MentionPart!Fire \/ MentionPart!Escape \/ \E c \in 0..Len(v1) : MentionPart!Move(c)
           \/ \E q \in v6, k \in 0..MentionFound : MentionPart!fetchProfiles(q, k)
           \/ \E step \in {1, -1} : MentionPart!Arrow(step)
    PROVE  MentionPart!MentionInv'
<1>0. /\ MentionPart!Typed /\ MentionPart!Placed /\ MentionPart!Listed /\ MentionPart!ActiveIsListed
      /\ MentionPart!OnlyMentionReplaced
  BY DEF MentionPart!MentionInv
<1>1. v1' = v1 /\ UNCHANGED <<v3, v4, v12>>
  BY DEF MentionPart!Fire, MentionPart!Escape, MentionPart!Move, MentionPart!fetchProfiles, MentionPart!Arrow
<1>2. MentionPart!IsMention(MentionPart!Replaced)' <=> MentionPart!IsMention(MentionPart!Replaced)
  BY <1>1 DEF MentionPart!Replaced, MentionPart!Cut, MentionPart!IsMention
<1> USE DEF MentionPart!MentionInv, MentionPart!Typed, MentionPart!Placed, MentionPart!Listed,
       MentionPart!ActiveIsListed, MentionPart!OnlyMentionReplaced
<1>3. CASE MentionPart!Fire
  BY <1>0, <1>1, <1>2, <1>3 DEF MentionPart!Fire, MentionPart!list
<1>4. CASE MentionPart!Escape
  <2>1. v10' = FALSE /\ UNCHANGED <<v1, v2, v3, v4, v5, v6, v11, v12>>
    BY <1>4 DEF MentionPart!Escape, MentionPart!close
  <2> QED
    BY Zenon, <1>0, <2>1
<1>5. ASSUME NEW c \in 0..Len(v1), MentionPart!Move(c) PROVE MentionPart!MentionInv'
  BY <1>0, <1>1, <1>2, <1>5 DEF MentionPart!Move, MentionPart!list
<1>6. ASSUME NEW q \in v6, NEW k \in 0..MentionFound, MentionPart!fetchProfiles(q, k)
      PROVE  MentionPart!MentionInv'
  <2>1. v3 \in Nat /\ v4 \in Nat /\ v2' = v2 /\ k \in Nat
    BY <1>0, <1>6, PartBounds DEF MentionPart!fetchProfiles
  <2>2. CASE k > 0
    <3>1. /\ v8' = k /\ v10' = TRUE /\ v9' = 0
          /\ v11' = (v11 \/ ~MentionPart!IsMention(MentionPart!Replaced))
      BY <1>6, <2>1, <2>2 DEF MentionPart!fetchProfiles, MentionPart!renderDropdown
    <3>2. 0 \in 0..(v8' - 1) /\ v8' \in Nat
      BY <2>1, <2>2, <3>1
    <3>3. v12' => v11'
      BY <1>0, <1>1, <3>1
    <3>4. v11' \/ MentionPart!IsMention(MentionPart!Replaced)'
      BY <1>2, <3>1
    <3> QED
      BY <1>0, <1>1, <2>1, <3>1, <3>2, <3>3, <3>4
  <2>3. CASE ~(k > 0)
    <3>1. v10' = FALSE /\ (v11' <=> v11)
      <4>1. v10' = FALSE /\ v11' = (v11 \/ (k > 0 /\ ~MentionPart!IsMention(MentionPart!Replaced)))
        BY <1>6, <2>3 DEF MentionPart!fetchProfiles, MentionPart!close
      <4>2. v11' <=> v11
        BY <2>3, <4>1
      <4> QED
        BY <4>1, <4>2
    <3> QED
      BY <1>0, <1>1, <2>1, <3>1
  <2> QED
    BY <2>2, <2>3
<1>7. ASSUME NEW step \in {1, -1}, MentionPart!Arrow(step) PROVE MentionPart!MentionInv'
  <2>1. /\ v10 /\ v8 > 0 /\ v9' = (v9 + step + v8) % v8
        /\ UNCHANGED <<v2, v5, v6, v8, v10, v11>>
    BY <1>7 DEF MentionPart!Arrow
  <2>2. v8 \in Nat /\ v9 \in 0..(v8 - 1)
    BY <1>0, <2>1
  <2>3. v9' \in 0..(v8 - 1)
    BY <2>1, <2>2
  <2> QED
    BY <1>0, <1>1, <1>2, <2>1, <2>2, <2>3
<1> QED
  BY <1>3, <1>4, <1>5, <1>6, <1>7

\* A step of it.
LEMMA StepMention == MentionPart!MentionInv /\ [MentionPart!Next]_(MentionPart!vars) => MentionPart!MentionInv'
<1> SUFFICES ASSUME MentionPart!MentionInv, [MentionPart!Next]_(MentionPart!vars)
             PROVE  MentionPart!MentionInv'
  OBVIOUS
<1>1. CASE MentionPart!Next
  BY <1>1, TypeKeeps, SelectKeeps, SuggestedKeeps DEF MentionPart!Next
<1>2. CASE UNCHANGED MentionPart!vars
  BY <1>2 DEF MentionPart!vars, MentionPart!list, MentionPart!MentionInv, MentionPart!Typed,
     MentionPart!Placed, MentionPart!Listed, MentionPart!ActiveIsListed, MentionPart!OnlyMentionReplaced,
     MentionPart!IsMention, MentionPart!Replaced, MentionPart!Cut
<1> QED
  BY <1>1, <1>2
=============================================================================
