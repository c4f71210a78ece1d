----------------------------- MODULE ComposeProofs -----------------------------
(***************************************************************************)
(* Publishing a thread, for any number of drafts, posts, submissions and   *)
(* failures: each post answers the one before it, belongs to the right     *)
(* thread, and is there once.                                              *)
(*                                                                         *)
(* What the three need of the past is in the submissions: a submission on  *)
(* its way carries the last post it has published, the root of that post,  *)
(* and the number of the next; and of two submissions of one draft the     *)
(* first has failed or the second came while it was on its way.            *)
(***************************************************************************)
EXTENDS Compose, SequenceTheorems, TLAPS

Modes == {"post", "reply", "quote"}
NonPosts == {-2, -1, 0}

Submission == [phase : {"sent", "done"}, draft : Nat, mode : Modes, items : Nat \ {0},
               next : Nat \ {0}, parent : Int, root : Int]
Post == [by : Nat \ {0}, draft : Nat, item : Nat \ {0}, parent : Int, root : Int,
         guessed : BOOLEAN]

\* The posts of a submission.
Of(s) == {p \in DOMAIN repo : repo[p].by = s}

Types == /\ shown \in BOOLEAN /\ draft \in Nat /\ mode \in Modes
         /\ target \in NonPosts \cup DOMAIN repo
         /\ texts \in Seq({"none", "words"}) /\ Len(texts) >= 1
         /\ send \in Seq(Submission)
         /\ repo \in Seq(Post)
         /\ indexed \in 0..Len(repo)

\* A post is of a submission and its draft, and answers one that was there before.
Written ==
    \A p \in DOMAIN repo : /\ repo[p].by \in Sends
                           /\ repo[p].draft = send[repo[p].by].draft
                           /\ repo[p].parent \in NonPosts \cup 1..(p - 1)
                           /\ repo[p].parent = 0 => repo[p].root = 0

\* A submission publishes no item twice.
ItemsOnce ==
    \A p, q \in DOMAIN repo : repo[p].by = repo[q].by /\ repo[p].item = repo[q].item => p = q

\* What a submission on its way knows of the posts it has published.
Under(s) ==
    /\ send[s].next \in 1..send[s].items
    /\ send[s].next = 1 => /\ Of(s) = {} /\ send[s].root = 0
                           /\ send[s].parent \in NonPosts \cup DOMAIN repo
    /\ send[s].next > 1 => /\ send[s].parent \in Of(s)
                           /\ \A p \in Of(s) : p <= send[s].parent /\ repo[p].item < send[s].next
                           /\ send[s].root = RootInRecord(send[s].parent)

Chains == \A s \in OnItsWay : Under(s)

\* A draft that is sent twice is uneasy: an easy one is closed when it is published.
DraftsOnce ==
    /\ \A s, u \in Sends : send[s].draft = send[u].draft /\ send[s].draft \notin uneasy => s = u
    /\ \A s \in Sends : /\ send[s].draft <= draft
                        /\ send[s].phase = "done" /\ send[s].draft = draft /\ draft \notin uneasy
                             => ~shown

ComposeInv == Types /\ Written /\ RootIsRight /\ ItemsOnce /\ Chains /\ DraftsOnce

-----------------------------------------------------------------------------
(***************************************************************************)
(* The record of a post, and the account that has one more.                *)
(***************************************************************************)
\* The places of the posts and of the submissions are numbers from 1 on.
LEMMA Domains == Types => DOMAIN repo = 1..Len(repo) /\ DOMAIN send = 1..Len(send)
                          /\ Len(repo) \in Nat /\ Len(send) \in Nat
BY DEF Types

\* What the submissions and the posts are made of.
LEMMA Fields ==
    ASSUME Types
    PROVE  /\ \A s \in Sends : /\ send[s] \in Submission
                              /\ send[s].phase \in {"sent", "done"} /\ send[s].draft \in Nat
                              /\ send[s].items \in Nat \ {0} /\ send[s].next \in Nat \ {0}
                              /\ send[s].parent \in Int /\ send[s].root \in Int
           /\ \A p \in DOMAIN repo : /\ repo[p] \in Post
                                    /\ repo[p].item \in Nat \ {0} /\ repo[p].by \in Nat \ {0}
                                    /\ repo[p].parent \in Int /\ repo[p].root \in Int
<1>1. \A s \in Sends : send[s] \in Submission
  BY Domains DEF Types, Sends
<1>2. \A p \in DOMAIN repo : repo[p] \in Post
  BY Domains DEF Types
<1> QED
  BY <1>1, <1>2 DEF Submission, Post

\* Of a post that is there the root of its thread is another number than 0, and one
\* that is not there has none.
LEMMA Roots ==
    ASSUME Types
    PROVE  /\ \A p \in NonPosts \cup DOMAIN repo : RootInRecord(p) \in Int
           /\ \A p \in DOMAIN repo :
                 RootInRecord(p) = (IF repo[p].root # 0 THEN repo[p].root ELSE p)
                 /\ RootInRecord(p) # 0
<1>1. \A p \in DOMAIN repo : repo[p] \in Post /\ p \in Int /\ p > 0
  BY Domains DEF Types
<1>2. \A p \in DOMAIN repo : repo[p].root \in Int
  BY <1>1 DEF Post
<1>3. \A p \in DOMAIN repo :
        RootInRecord(p) = IF repo[p].root # 0 THEN repo[p].root ELSE p
  BY <1>1 DEF RootInRecord
<1>4. \A p \in NonPosts : RootInRecord(p) \in Int
  BY <1>1 DEF RootInRecord, NonPosts
<1> QED
  BY <1>1, <1>2, <1>3, <1>4

\* The post that a submission on its way publishes.
LEMMA NewPosts ==
    ASSUME ComposeInv, NEW s \in OnItsWay, NEW read \in BOOLEAN
    PROVE  LET post == NewPost(s, read)
           IN /\ post \in Post
              /\ post.by = s /\ post.draft = send[s].draft /\ post.item = send[s].next
              /\ post.parent \in NonPosts \cup DOMAIN repo
              /\ post.parent = 0 => post.root = 0
              /\ ~post.guessed => read
              /\ read /\ post.parent # 0 => post.root = RootInRecord(post.parent)
              /\ send[s].next > 1 => post.parent = send[s].parent /\ post.root = send[s].root
<1> DEFINE c == send[s]
           post == NewPost(s, read)
<1>1. /\ s \in DOMAIN send /\ s \in Nat \ {0} /\ c \in Submission /\ Under(s)
  BY Domains DEF ComposeInv, Chains, OnItsWay, Sends, Types
<1>2. c.parent \in NonPosts \cup DOMAIN repo /\ c.next \in Nat \ {0} /\ c.root \in Int
  BY <1>1 DEF Under, Of, Submission
<1>3. c.next > 1 => c.parent \in DOMAIN repo /\ c.parent # 0 /\ c.root = RootInRecord(c.parent) /\ c.root # 0
  BY <1>1, Roots, Domains DEF Under, Of, ComposeInv
<1>4. c.next = 1 => c.root = 0
  BY <1>1 DEF Under
<1>5. \A p \in NonPosts \cup DOMAIN repo : resolveThreadRoot(p, read) \in Int
  BY Roots, Domains DEF resolveThreadRoot, ComposeInv, NonPosts
<1>6. \A p \in NonPosts \cup DOMAIN repo : p # 0 /\ read => resolveThreadRoot(p, read) = RootInRecord(p)
  BY Domains DEF resolveThreadRoot, ComposeInv, NonPosts
<1> DEFINE par == IF c.mode = "quote" /\ c.next = 1 THEN 0 ELSE c.parent
           rt  == IF par = 0 THEN 0 ELSE IF c.root # 0 THEN c.root
                  ELSE resolveThreadRoot(c.parent, read)
<1>7. post = [by |-> s, draft |-> c.draft, item |-> c.next, parent |-> par, root |-> rt,
              guessed |-> ~read]
  BY DEF NewPost
<1>8. par \in NonPosts \cup DOMAIN repo /\ par \in Int
  BY <1>2, Domains DEF NonPosts, ComposeInv
<1>9. rt \in Int /\ (par = 0 => rt = 0)
  BY <1>2, <1>5
<1>10. read /\ par # 0 => rt = RootInRecord(par)
  <2>1. CASE c.next = 1
    BY <2>1, <1>2, <1>4, <1>6
  <2>2. CASE c.next # 1
    <3>1. c.next > 1
      BY <2>2, <1>2
    <3>2. c.root # 0 /\ c.root = RootInRecord(c.parent) /\ rt = c.root /\ par = c.parent
      BY <3>1, <2>2, <1>3
    <3> QED
      BY <3>2
  <2> QED
    BY <2>1, <2>2
<1>11. c.next > 1 => par = c.parent /\ rt = c.root
  BY <1>3
<1>12. c.draft \in Nat /\ c.next \in Nat \ {0}
  BY <1>1 DEF Submission
<1> HIDE DEF par, rt
<1>13. post \in Post
  BY <1>1, <1>7, <1>8, <1>9, <1>12 DEF Post
<1>14. /\ post.by = s /\ post.draft = c.draft /\ post.item = c.next
       /\ post.parent = par /\ post.root = rt /\ post.guessed = ~read
  BY <1>7
<1> HIDE DEF post
<1> QED
  BY <1>8, <1>9, <1>10, <1>11, <1>13, <1>14 DEF post

\* The account with one more post has the others where they were.
LEMMA OneMore ==
    ASSUME repo \in Seq(Post), NEW e \in Post, repo' = Append(repo, e)
    PROVE  /\ repo' \in Seq(Post)
           /\ DOMAIN repo = 1..Len(repo) /\ Len(repo) \in Nat
           /\ Len(repo') = Len(repo) + 1 /\ DOMAIN repo' = 1..(Len(repo) + 1)
           /\ repo'[Len(repo) + 1] = e
           /\ \A p \in DOMAIN repo : repo'[p] = repo[p]
BY AppendProperties

\* A thread keeps its root.
LEMMA RootsStay ==
    ASSUME repo \in Seq(Post), NEW e \in Post, repo' = Append(repo, e)
    PROVE  \A p \in NonPosts \cup DOMAIN repo : RootInRecord(p)' = RootInRecord(p)
BY OneMore DEF RootInRecord, NonPosts

-----------------------------------------------------------------------------
(***************************************************************************)
(* The steps that publish.                                                 *)
(***************************************************************************)
\* A submission whose posts stay keeps what it knows.
LEMMA UnderStays ==
    ASSUME ComposeInv, NEW s \in OnItsWay, NEW u \in OnItsWay, u # s,
           NEW e \in Post, e.by = s, repo' = Append(repo, e), send'[u] = send[u]
    PROVE  Under(u)'
<1>1. Under(u) /\ u \in DOMAIN send
  BY DEF ComposeInv, Chains, OnItsWay, Sends
<1>2. Of(u)' = Of(u)
  BY OneMore DEF Of, ComposeInv, Types
<1>3. \A p \in Of(u) : p \in DOMAIN repo /\ repo'[p] = repo[p] /\ RootInRecord(p)' = RootInRecord(p)
  BY OneMore, RootsStay DEF Of, ComposeInv, Types
<1>4. DOMAIN repo \subseteq DOMAIN repo'
  BY OneMore DEF ComposeInv, Types
<1>5. send[u].next > 1 => send[u].parent \in Of(u)
  BY <1>1 DEF Under
<1>6. send[u].next > 1 => RootInRecord(send[u].parent)' = RootInRecord(send[u].parent)
  BY <1>5, RootsStay DEF Of, ComposeInv, Types, RootInRecord
<1> QED
  BY <1>1, <1>2, <1>3, <1>4, <1>6 DEF Under

\* A post of a submission on its way, published last: the posts keep what they must.
LEMMA Publishing ==
    ASSUME ComposeInv, NEW s \in OnItsWay, NEW read \in BOOLEAN,
           repo' = Append(repo, NewPost(s, read)),
           DOMAIN send' = DOMAIN send, \A u \in Sends : send'[u].draft = send[u].draft
    PROVE  Written' /\ RootIsRight' /\ ItemsOnce'
<1> DEFINE post == NewPost(s, read)
           new == Len(repo) + 1
<1>1. /\ post \in Post
      /\ post.by = s /\ post.draft = send[s].draft /\ post.item = send[s].next
      /\ post.parent \in NonPosts \cup DOMAIN repo
      /\ post.parent = 0 => post.root = 0
      /\ ~post.guessed => read
      /\ read /\ post.parent # 0 => post.root = RootInRecord(post.parent)
  BY NewPosts
<1>2. repo \in Seq(Post) /\ s \in Sends /\ Under(s) /\ send \in Seq(Submission)
  BY DEF ComposeInv, Types, OnItsWay, Chains
<1> HIDE DEF post
<1>3. repo' = Append(repo, post)
  BY DEF post
<1>4. /\ DOMAIN repo = 1..Len(repo) /\ Len(repo) \in Nat
      /\ DOMAIN repo' = DOMAIN repo \cup {new} /\ new \notin DOMAIN repo
      /\ repo'[new] = post
      /\ \A p \in DOMAIN repo : repo'[p] = repo[p]
  BY <1>1, <1>2, <1>3, OneMore
<1>5. \A p \in NonPosts \cup DOMAIN repo : RootInRecord(p)' = RootInRecord(p)
  BY <1>1, <1>2, <1>3, RootsStay
<1>6. Written'
  <2>1. ASSUME NEW p \in DOMAIN repo
        PROVE  /\ repo'[p].by \in Sends' /\ repo'[p].draft = send'[repo'[p].by].draft
               /\ repo'[p].parent \in NonPosts \cup 1..(p - 1)
               /\ repo'[p].parent = 0 => repo'[p].root = 0
    BY <2>1, <1>4 DEF Written, ComposeInv, Sends
  <2>2. /\ repo'[new].by \in Sends' /\ repo'[new].draft = send'[repo'[new].by].draft
        /\ repo'[new].parent \in NonPosts \cup 1..(new - 1)
        /\ repo'[new].parent = 0 => repo'[new].root = 0
    BY <1>1, <1>2, <1>4 DEF Sends
  <2> QED
    BY <2>1, <2>2, <1>4 DEF Written
<1>7. RootIsRight'
  <2> DEFINE After(q) == IF q = -2 THEN -1
                         ELSE IF q \in DOMAIN repo' /\ repo'[q].root # 0 THEN repo'[q].root ELSE q
  <2>1. \A q \in NonPosts \cup DOMAIN repo : After(q) = RootInRecord(q)
    BY <1>5 DEF RootInRecord
  <2>2. RootIsRight' <=> \A p \in DOMAIN repo' : repo'[p].parent # 0 /\ ~repo'[p].guessed
                            => repo'[p].root = After(repo'[p].parent)
    BY DEF RootIsRight, RootInRecord
  <2> HIDE DEF After
  <2>3. ASSUME NEW p \in DOMAIN repo, repo[p].parent # 0, ~repo[p].guessed
        PROVE  repo[p].root = After(repo[p].parent)
    <3>1. repo[p].parent \in NonPosts \cup DOMAIN repo
      BY <1>4 DEF Written, ComposeInv
    <3> QED
      BY <2>1, <2>3, <3>1 DEF RootIsRight, ComposeInv
  <2>4. post.parent # 0 /\ ~post.guessed => post.root = After(post.parent)
    BY <1>1, <2>1
  <2> QED
    BY <2>2, <2>3, <2>4, <1>4
<1>8. ItemsOnce'
  <2>1. ASSUME NEW p \in DOMAIN repo, repo[p].by = s PROVE repo[p].item # post.item
    <3>1. p \in Of(s)
      BY <2>1 DEF Of
    <3>2. send[s].next > 1
      BY <3>1, <1>2 DEF Under
    <3>3. repo[p].item < send[s].next
      BY <3>1, <3>2, <1>2 DEF Under
    <3>4. repo[p].item \in Int /\ send[s].next \in Int /\ post.item = send[s].next
      BY <1>1, <1>2, Fields DEF ComposeInv
    <3> QED
      BY <3>3, <3>4
  <2> QED
    BY <2>1, <1>1, <1>4 DEF ItemsOnce, ComposeInv
<1> QED
  BY <1>6, <1>7, <1>8

\* The submission that has published a post knows it.
LEMMA CarriedOn ==
    ASSUME ComposeInv, NEW s \in OnItsWay, NEW read \in BOOLEAN,
           send[s].next # send[s].items,
           repo' = Append(repo, NewPost(s, read)),
           send' = [send EXCEPT ![s] = Carried(s, NewPost(s, read))]
    PROVE  Under(s)' /\ send'[s] \in Submission
<1> DEFINE post == NewPost(s, read)
           new == Len(repo) + 1
           root == IF send[s].root # 0 THEN send[s].root
                   ELSE IF post.root # 0 THEN post.root ELSE new
<1>1. /\ post \in Post
      /\ post.by = s /\ post.draft = send[s].draft /\ post.item = send[s].next
      /\ send[s].next > 1 => post.root = send[s].root
  BY NewPosts
<1>2. /\ repo \in Seq(Post) /\ s \in Sends /\ Under(s) /\ send \in Seq(Submission)
      /\ send[s] \in Submission
  BY DEF ComposeInv, Types, OnItsWay, Chains, Sends
<1>3. /\ DOMAIN repo = 1..Len(repo) /\ Len(repo) \in Nat /\ Len(repo') = new
      /\ DOMAIN repo' = DOMAIN repo \cup {new} /\ new \notin DOMAIN repo
      /\ repo'[new] = post
      /\ \A p \in DOMAIN repo : repo'[p] = repo[p]
  BY <1>1, <1>2, OneMore
<1>4. send'[s] = [send[s] EXCEPT !.next = send[s].next + 1, !.parent = new, !.root = root]
  BY <1>2, <1>3 DEF Carried, Sends
<1>5. /\ send'[s].next = send[s].next + 1 /\ send'[s].parent = new /\ send'[s].root = root
      /\ send'[s].items = send[s].items
  <2>1. DOMAIN send[s] = {"phase", "draft", "mode", "items", "next", "parent", "root"}
    BY <1>2 DEF Submission
  <2> HIDE DEF root
  <2> QED
    BY <2>1, <1>4
<1>6. send[s].next \in 1..send[s].items /\ send[s].items \in Nat /\ send[s].next \in Nat \ {0}
  BY <1>2 DEF Under, Submission
<1>7. root = IF post.root # 0 THEN post.root ELSE new
  <2>1. CASE send[s].next = 1
    BY <2>1, <1>2 DEF Under
  <2>2. CASE send[s].next # 1
    <3>1. post.root = send[s].root
      BY <2>2, <1>1, <1>6
    <3> QED
      BY <3>1
  <2> QED
    BY <2>1, <2>2
<1>8. root \in Int
  BY <1>1, <1>3, <1>7 DEF Post
<1> HIDE DEF post, root
<1>9. send'[s] \in Submission
  <2>1. send[s].next + 1 \in Nat \ {0} /\ new \in Int
    BY <1>3, <1>6
  <2> HIDE DEF new
  <2> DEFINE c == send[s]
  <2>2. c \in Submission
    BY <1>2
  <2> HIDE DEF c
  <2>3. c.next + 1 \in Nat \ {0} /\ new \in Int
    BY <2>1 DEF c
  <2>4. [c EXCEPT !.next = c.next + 1, !.parent = new, !.root = root] \in Submission
    BY <2>2, <2>3, <1>8 DEF Submission
  <2> QED
    BY <2>4, <1>4 DEF c
<1>10. new \in Of(s)' /\ \A p \in Of(s)' : p <= new /\ repo'[p].item < send'[s].next
  <2>1. new \in Of(s)'
    BY <1>1, <1>3 DEF Of
  <2>2. ASSUME NEW p \in Of(s) PROVE repo[p].item < send[s].next /\ repo[p].item \in Int /\ p \in Int /\ p <= new
    <3>1. send[s].next > 1
      BY <1>2, <1>6 DEF Under
    <3>2. p \in DOMAIN repo /\ repo[p].item \in Int
      BY Fields DEF Of, ComposeInv
    <3> QED
      BY <3>1, <3>2, <1>2, <1>3 DEF Under
  <2>3. \A p \in Of(s)' : p = new \/ (p \in Of(s) /\ repo'[p] = repo[p])
    BY <1>3 DEF Of
  <2>4. repo'[new].item < send'[s].next
    BY <1>1, <1>3, <1>5, <1>6
  <2>5. ASSUME NEW p \in Of(s)' PROVE p <= new /\ repo'[p].item < send'[s].next
    <3>1. CASE p = new
      BY <3>1, <2>4, <1>3
    <3>2. CASE p \in Of(s) /\ repo'[p] = repo[p]
      BY <3>2, <2>2, <1>5, <1>6
    <3> QED
      BY <3>1, <3>2, <2>3
  <2> QED
    BY <2>1, <2>5
<1>11. root = (IF new = -2 THEN -1
               ELSE IF new \in DOMAIN repo' /\ repo'[new].root # 0 THEN repo'[new].root ELSE new)
  BY <1>3, <1>7
<1>12. send'[s].next \in 1..send'[s].items /\ send'[s].next > 1
  BY <1>5, <1>6
<1>13. send'[s].root = RootInRecord(send[s].parent)'
  BY <1>5, <1>11 DEF RootInRecord
<1> HIDE DEF new
<1>14. send'[s].next # 1
  BY <1>12, <1>5, <1>6
<1> QED
  BY <1>5, <1>9, <1>10, <1>12, <1>13, <1>14 DEF Under

-----------------------------------------------------------------------------
(***************************************************************************)
(* The steps.                                                              *)
(***************************************************************************)
\* A step of the dialog, which leaves submissions and posts alone.
LEMMA DialogKeeps ==
    ASSUME ComposeInv, Types', UNCHANGED <<send, repo, uneasy>>,
           \/ draft' = draft /\ (shown' => shown)
           \/ draft' = draft + 1
    PROVE  ComposeInv'
<1>1. Written' /\ ItemsOnce' /\ RootIsRight'
  BY DEF ComposeInv, Written, ItemsOnce, RootIsRight, RootInRecord, Sends
<1>2. Chains'
  BY DEF ComposeInv, Chains, OnItsWay, Sends, Under, Of, RootInRecord
<1>3. DraftsOnce'
  <2>1. \A s \in Sends : send[s].draft \in Nat
    BY Fields DEF ComposeInv
  <2>2. draft \in Nat
    BY DEF ComposeInv, Types
  <2> QED
    BY <2>1, <2>2 DEF ComposeInv, DraftsOnce, Sends
<1> QED
  BY <1>1, <1>2, <1>3 DEF ComposeInv

\* The boxes of the form, one of them typed in, one more or one less.
LEMMA Boxes ==
    ASSUME Types, NEW k \in DOMAIN texts
    PROVE  /\ \A t \in {"none", "words"} : LET new == [texts EXCEPT ![k] = t]
                                           IN  new \in Seq({"none", "words"}) /\ Len(new) >= 1
           /\ LET new == Append(texts, "none")
              IN  new \in Seq({"none", "words"}) /\ Len(new) >= 1
           /\ k > 1 => LET new == RemoveAt(texts, k)
                       IN  new \in Seq({"none", "words"}) /\ Len(new) >= 1
<1> DEFINE T == {"none", "words"}
<1>1. texts \in Seq(T) /\ Len(texts) >= 1 /\ Len(texts) \in Nat /\ DOMAIN texts = 1..Len(texts)
  BY DEF Types
<1>2. "none" \in T /\ "words" \in T
  OBVIOUS
<1> HIDE DEF T
<1>3. \A t \in T : [texts EXCEPT ![k] = t] \in Seq(T) /\ Len([texts EXCEPT ![k] = t]) = Len(texts)
  BY <1>1, ExceptSeq
<1>4. Append(texts, "none") \in Seq(T) /\ Len(Append(texts, "none")) = Len(texts) + 1
  BY <1>1, <1>2, AppendProperties
<1>5. ASSUME k > 1 PROVE RemoveAt(texts, k) \in Seq(T) /\ Len(RemoveAt(texts, k)) >= 1
  <2> DEFINE a == SubSeq(texts, 1, k - 1)
             b == SubSeq(texts, k + 1, Len(texts))
  <2>1. a \in Seq(T) /\ Len(a) = k - 1
    BY <1>1, <1>5, SubSeqProperties
  <2>2. b \in Seq(T) /\ Len(b) \in Nat
    BY <1>1, <1>5, SubSeqProperties
  <2> HIDE DEF a, b
  <2>3. a \o b \in Seq(T) /\ Len(a \o b) = Len(a) + Len(b)
    BY <2>1, <2>2, ConcatProperties
  <2>4. RemoveAt(texts, k) = a \o b
    BY DEF RemoveAt, a, b
  <2> QED
    BY <2>1, <2>2, <2>3, <2>4, <1>1, <1>5
<1> QED
  BY <1>1, <1>3, <1>4, <1>5 DEF T

\* The form is sent.
LEMMA SubmitKeeps == ASSUME ComposeInv, NEW wait \in BOOLEAN, Submit(wait) PROVE ComposeInv'
<1> DEFINE c == [phase |-> "sent", draft |-> draft, mode |-> mode, items |-> Len(texts),
                 next |-> 1, parent |-> target, root |-> 0]
<1> PICK new \in Int : new = Len(send) + 1
  BY DEF ComposeInv, Types
<1>1. Types /\ repo \in Seq(Post) /\ DOMAIN repo = 1..Len(repo) /\ Len(repo) \in Nat
  BY Domains DEF ComposeInv, Types
<1>2. c \in Submission /\ send \in Seq(Submission) /\ Len(texts) >= 1 /\ Len(texts) \in Nat
  BY <1>1 DEF Types, Submission, NonPosts
<1>3. send' = Append(send, c) /\ UNCHANGED <<dialog, repo, indexed>> /\ shown
  BY DEF Submit, server
<1>4. c.draft = draft /\ c.phase = "sent" /\ c.next = 1 /\ c.items = Len(texts) /\ c.root = 0
      /\ c.parent = target
  OBVIOUS
<1>5. uneasy' = uneasy \cup IF OnItsWay # {} THEN {draft} \cup {send[s].draft : s \in OnItsWay} ELSE {}
  BY DEF Submit
<1> HIDE DEF c
<1>6. /\ send' \in Seq(Submission) /\ DOMAIN send' = DOMAIN send \cup {new} /\ new \notin DOMAIN send
      /\ send'[new] = c /\ \A s \in DOMAIN send : send'[s] = send[s]
  BY <1>2, <1>3, AppendProperties
<1>7. \A s \in Of(new) : FALSE
  BY <1>1, <1>6 DEF Of, ComposeInv, Written, Sends
<1>8. Types'
  BY <1>1, <1>3, <1>6 DEF Types, dialog
<1>9. Written' /\ ItemsOnce' /\ RootIsRight'
  BY <1>3, <1>6 DEF ComposeInv, Written, ItemsOnce, RootIsRight, RootInRecord, Sends
<1>10. Chains'
  <2>1. ASSUME NEW s \in OnItsWay PROVE Under(s)'
    BY <2>1, <1>3, <1>6 DEF ComposeInv, Chains, OnItsWay, Sends, Under, Of, RootInRecord
  <2>2. Under(new)'
    <3>1. target \in NonPosts \cup DOMAIN repo
      BY <1>1 DEF Types
    <3> QED
      BY <3>1, <1>2, <1>3, <1>4, <1>6, <1>7 DEF Under, Of
  <2> QED
    BY <2>1, <2>2, <1>6 DEF Chains, OnItsWay, Sends
<1>11. DraftsOnce'
  <2>1. draft \in Nat /\ \A s \in Sends : send[s].draft \in Nat
    BY <1>1, Fields DEF Types
  <2>2. ASSUME NEW s \in Sends, send[s].draft = draft, draft \notin uneasy' PROVE FALSE
    <3>1. s \notin OnItsWay
      BY <2>2, <1>5
    <3>2. send[s].phase = "done"
      BY <3>1, <2>2, <1>1, Fields DEF OnItsWay
    <3> QED
      BY <3>2, <2>2, <1>3, <1>5 DEF ComposeInv, DraftsOnce
  <2>3. uneasy \subseteq uneasy'
    BY <1>5
  <2>4. \A s, u \in Sends' : send'[s].draft = send'[u].draft /\ send'[s].draft \notin uneasy' => s = u
    BY <2>2, <2>3, <1>4, <1>6 DEF ComposeInv, DraftsOnce, Sends
  <2>5. \A s \in Sends' : /\ send'[s].draft <= draft'
                          /\ send'[s].phase = "done" /\ send'[s].draft = draft' /\ draft' \notin uneasy'
                               => ~shown'
    BY <2>1, <2>2, <2>3, <1>3, <1>4, <1>6 DEF ComposeInv, DraftsOnce, Sends, dialog
  <2> QED
    BY <2>4, <2>5 DEF DraftsOnce
<1> QED
  BY <1>8, <1>9, <1>10, <1>11 DEF ComposeInv

\* Another post of a thread is there, and the submission goes on or is done.
LEMMA AnsweredKeeps ==
    ASSUME ComposeInv, NEW s \in Sends, NEW read \in BOOLEAN, Answered(s, read)
    PROVE  ComposeInv'
<1> DEFINE post == NewPost(s, read)
           last == send[s].next = send[s].items
<1>1. /\ Types /\ s \in OnItsWay /\ send \in Seq(Submission) /\ repo \in Seq(Post)
      /\ post \in Post /\ post.by = s
  BY NewPosts DEF ComposeInv, Types, Answered
<1> HIDE DEF post
<1>2. /\ repo' = Append(repo, post)
      /\ last => send' = [send EXCEPT ![s] = [send[s] EXCEPT !.phase = "done"]] /\ shown' = FALSE
      /\ ~last => send' = [send EXCEPT ![s] = Carried(s, post)] /\ shown' = shown
      /\ UNCHANGED <<draft, mode, target, texts, indexed, uneasy>>
  BY <1>1 DEF Answered, Finish, post, Sends
<1>3. /\ DOMAIN send' = DOMAIN send /\ DOMAIN send = 1..Len(send)
      /\ \A u \in Sends \ {s} : send'[u] = send[u]
  BY <1>1, <1>2, Domains DEF Sends
<1>4. /\ send'[s] \in Submission /\ send'[s].draft = send[s].draft
      /\ last => send'[s].phase = "done"
      /\ ~last => send'[s].phase = "sent" /\ Under(s)'
  <2>1. send[s] \in Submission /\ s \in DOMAIN send /\ send[s].phase = "sent"
    BY <1>1, Fields DEF Sends, OnItsWay
  <2>2. CASE last
    <3>1. send'[s] = [send[s] EXCEPT !.phase = "done"]
      BY <2>1, <2>2, <1>2
    <3> QED
      BY <2>1, <2>2, <3>1 DEF Submission
  <2>3. CASE ~last
    <3>1. send'[s] \in Submission /\ Under(s)'
      BY <2>3, <1>1, <1>2, CarriedOn DEF post
    <3>2. send'[s] = Carried(s, post)
      BY <2>1, <2>3, <1>2
    <3>3. send'[s].draft = send[s].draft /\ send'[s].phase = send[s].phase
      BY <2>1, <3>2 DEF Carried, Submission
    <3> QED
      BY <2>1, <2>3, <3>1, <3>3
  <2> QED
    BY <2>2, <2>3
<1>5. Written' /\ RootIsRight' /\ ItemsOnce'
  BY <1>1, <1>2, <1>3, <1>4, Publishing DEF post, Sends
<1>6. Types'
  <2>1. send' \in Seq(Submission)
    <3>1. send' = [send EXCEPT ![s] = send'[s]]
      BY <1>1, <1>2, <1>3 DEF OnItsWay, Sends
    <3> QED
      BY <3>1, <1>1, <1>3, <1>4, ExceptSeq DEF Sends
  <2>2. repo' \in Seq(Post) /\ Len(repo') = Len(repo) + 1 /\ DOMAIN repo \subseteq DOMAIN repo'
        /\ Len(repo) \in Nat
    BY <1>1, <1>2, OneMore
  <2>3. shown' \in BOOLEAN
    BY <1>1, <1>2 DEF Types
  <2>4. indexed' \in 0..Len(repo')
    BY <1>1, <1>2, <2>2 DEF Types
  <2> QED
    BY <1>1, <1>2, <2>1, <2>2, <2>3, <2>4 DEF Types
<1>7. Chains'
  <2>1. ASSUME NEW u \in OnItsWay', u # s PROVE Under(u)'
    <3>1. u \in OnItsWay /\ send'[u] = send[u]
      BY <2>1, <1>3 DEF OnItsWay, Sends
    <3> QED
      BY <2>1, <3>1, <1>1, <1>2, UnderStays
  <2> QED
    BY <2>1, <1>4 DEF Chains, OnItsWay
<1>8. DraftsOnce'
  BY <1>2, <1>3, <1>4 DEF ComposeInv, DraftsOnce, Sends
<1> QED
  BY <1>5, <1>6, <1>7, <1>8 DEF ComposeInv

\* A call has failed, and its post is there or not.
LEMMA FailedKeeps == ASSUME ComposeInv, NEW s \in Sends, Failed(s) PROVE ComposeInv'
<1> DEFINE post == NewPost(s, TRUE)
<1>1. /\ Types /\ s \in OnItsWay /\ send \in Seq(Submission) /\ repo \in Seq(Post)
      /\ post \in Post /\ post.by = s
  BY NewPosts DEF ComposeInv, Types, Failed
<1>2. /\ repo' = repo \/ repo' = Append(repo, NewPost(s, TRUE))
      /\ send' = [send EXCEPT ![s] = [send[s] EXCEPT !.phase = "done"]]
      /\ uneasy' = uneasy \cup {send[s].draft}
      /\ UNCHANGED <<shown, draft, mode, target, texts, indexed>>
  BY <1>1 DEF Failed, Fail, Sends, dialog
<1>3. /\ DOMAIN send' = DOMAIN send /\ DOMAIN send = 1..Len(send)
      /\ \A u \in Sends \ {s} : send'[u] = send[u]
  BY <1>1, <1>2, Domains DEF Sends
<1>4. /\ send'[s] \in Submission /\ send'[s].draft = send[s].draft /\ send'[s].phase = "done"
  <2>1. send[s] \in Submission /\ s \in DOMAIN send
    BY <1>1, Fields DEF Sends
  <2> QED
    BY <2>1, <1>2 DEF Submission
<1> HIDE DEF post
<1>5. Written' /\ RootIsRight' /\ ItemsOnce'
  <2>1. CASE repo' = repo
    BY <2>1, <1>3, <1>4 DEF ComposeInv, Written, RootIsRight, ItemsOnce, RootInRecord, Sends
  <2>2. CASE repo' = Append(repo, NewPost(s, TRUE))
    BY <2>2, <1>1, <1>3, <1>4, Publishing DEF Sends
  <2> QED
    BY <2>1, <2>2, <1>2
<1>6. Types'
  <2>1. send' \in Seq(Submission)
    <3>1. send' = [send EXCEPT ![s] = send'[s]]
      BY <1>1, <1>2, <1>3 DEF OnItsWay, Sends
    <3> QED
      BY <3>1, <1>1, <1>3, <1>4, ExceptSeq DEF Sends
  <2>2. repo' \in Seq(Post) /\ Len(repo') >= Len(repo) /\ DOMAIN repo \subseteq DOMAIN repo'
        /\ Len(repo') \in Nat /\ Len(repo) \in Nat
    <3>1. repo' = repo \/ repo' = Append(repo, post)
      BY <1>2 DEF post
    <3> QED
      BY <3>1, <1>1, OneMore, Domains
  <2>3. indexed' \in 0..Len(repo')
    BY <1>1, <1>2, <2>2 DEF Types
  <2> QED
    BY <1>1, <1>2, <2>1, <2>2, <2>3 DEF Types
<1>7. Chains'
  <2>1. ASSUME NEW u \in OnItsWay' PROVE Under(u)'
    <3>1. u \in OnItsWay /\ send'[u] = send[u] /\ u # s
      BY <2>1, <1>3, <1>4 DEF OnItsWay, Sends
    <3>2. CASE repo' = repo
      BY <3>1, <3>2 DEF ComposeInv, Chains, Under, Of, RootInRecord
    <3>3. CASE repo' = Append(repo, NewPost(s, TRUE))
      BY <3>1, <3>3, <1>1, UnderStays DEF post
    <3> QED
      BY <3>2, <3>3, <1>2
  <2> QED
    BY <2>1 DEF Chains
<1>8. DraftsOnce'
  BY <1>2, <1>3, <1>4 DEF ComposeInv, DraftsOnce, Sends
<1> QED
  BY <1>5, <1>6, <1>7, <1>8 DEF ComposeInv

\* The invariant holds initially.
LEMMA InitCompose == Init => ComposeInv
<1> SUFFICES ASSUME Init PROVE ComposeInv
  OBVIOUS
<1>1. Types
  <2>1. texts \in Seq({"none", "words"}) /\ Len(texts) = 1
    BY DEF Init
  <2>2. send \in Seq(Submission) /\ repo \in Seq(Post) /\ Len(repo) = 0
    BY EmptySeq DEF Init
  <2>3. 0 \in 0..Len(repo)
    BY <2>2
  <2>4. target \in NonPosts \cup DOMAIN repo /\ mode \in Modes /\ draft \in Nat /\ shown \in BOOLEAN
    BY DEF Init, Modes, NonPosts
  <2>5. indexed \in 0..Len(repo)
    BY <2>3 DEF Init
  <2> QED
    BY <2>1, <2>2, <2>4, <2>5 DEF Types
<1>2. DOMAIN repo = {} /\ DOMAIN send = {}
  BY DEF Init
<1> QED
  BY <1>1, <1>2 DEF ComposeInv, Written, RootIsRight, ItemsOnce, Chains, OnItsWay, DraftsOnce, Sends

\* Every step keeps it.
LEMMA StepCompose == ComposeInv /\ [Next]_vars => ComposeInv'
<1> SUFFICES ASSUME ComposeInv, [Next]_vars PROVE ComposeInv'
  OBVIOUS
<1>0. Types
  BY DEF ComposeInv
<1>1. ASSUME NEW m \in Modes, NEW p \in NonPosts \cup DOMAIN repo, openComposeModal(m, p)
      PROVE  ComposeInv'
  <2>1. Types'
    BY <1>0, <1>1 DEF openComposeModal, Types, server
  <2> QED
    BY <1>1, <2>1, DialogKeeps DEF openComposeModal, server
<1>2. CASE Open
  BY <1>1, <1>2 DEF Open, Modes, NonPosts, Posts
<1>3. CASE requestCloseComposeModal
  <2>1. UNCHANGED <<draft, mode, target, texts, send, repo, indexed, uneasy>>
        /\ shown /\ shown' \in BOOLEAN
    BY <1>3 DEF requestCloseComposeModal, server
  <2>2. Types'
    BY <1>0, <2>1 DEF Types
  <2> QED
    BY <2>1, <2>2, DialogKeeps
<1>4. CASE Confirm
  <2>1. UNCHANGED <<draft, mode, target, texts, send, repo, indexed, uneasy>>
        /\ (shown' => shown) /\ shown' \in BOOLEAN
    <3>1. CASE shown' = FALSE
      BY <3>1, <1>4 DEF Confirm, server
    <3>2. CASE shown' = shown
      BY <3>2, <1>0, <1>4 DEF Confirm, server, Types
    <3> QED
      BY <3>1, <3>2, <1>4 DEF Confirm
  <2>2. Types'
    BY <1>0, <2>1 DEF Types
  <2> QED
    BY <2>1, <2>2, DialogKeeps
<1>5. ASSUME texts' \in Seq({"none", "words"}), Len(texts') >= 1,
             UNCHANGED <<shown, draft, mode, target, send, repo, indexed, uneasy>>
      PROVE  ComposeInv'
  <2>1. Types'
    BY <1>0, <1>5 DEF Types
  <2> QED
    BY <1>5, <2>1, DialogKeeps
<1>6. CASE AddPost
  <2>1. 1 \in DOMAIN texts
    BY <1>0 DEF Types
  <2> QED
    BY <1>0, <1>5, <1>6, <2>1, Boxes DEF AddPost, server
<1>7. ASSUME NEW k \in DOMAIN texts, RemovePost(k) PROVE ComposeInv'
  BY <1>0, <1>5, <1>7, Boxes DEF RemovePost, server
<1>8. ASSUME NEW k \in DOMAIN texts, NEW t \in {"none", "words"}, Type(k, t) PROVE ComposeInv'
  BY <1>0, <1>5, <1>8, Boxes DEF Type, server
<1>9. ASSUME NEW wait \in BOOLEAN, Submit(wait) PROVE ComposeInv'
  BY <1>9, SubmitKeeps
<1>10. CASE Answers
  BY <1>10, AnsweredKeeps, FailedKeeps DEF Answers
<1>11. CASE Index
  <2>1. UNCHANGED <<shown, draft, mode, target, texts, send, repo, uneasy>>
    BY <1>11 DEF Index, dialog
  <2>2. Types'
    BY <1>0, <1>11, <2>1 DEF Index, Types
  <2> QED
    BY <2>1, <2>2, DialogKeeps
<1>12. CASE UNCHANGED vars
  <2>1. UNCHANGED <<shown, draft, mode, target, texts, send, repo, indexed, uneasy>>
    BY <1>12 DEF vars, dialog, server
  <2>2. Types'
    BY <1>0, <2>1 DEF Types
  <2> QED
    BY <2>1, <2>2, DialogKeeps
<1> QED
  BY <1>2, <1>3, <1>4, <1>6, <1>7, <1>8, <1>9, <1>10, <1>11, <1>12 DEF Next

\* The invariant of the dialog and its submissions.
LEMMA Invariant == Spec => []ComposeInv
BY InitCompose, StepCompose, PTL DEF Spec

-----------------------------------------------------------------------------
(***************************************************************************)
(* The theorems.                                                           *)
(***************************************************************************)
\* The invariant says what the threads must be.
LEMMA InvariantIsRight == ComposeInv => ThreadIsRight
<1>1. ComposeInv => PublishedOnce
  <2> SUFFICES ASSUME ComposeInv, NEW p \in DOMAIN repo, NEW q \in DOMAIN repo,
                      repo[p].draft = repo[q].draft, repo[p].item = repo[q].item,
                      repo[p].draft \notin uneasy
               PROVE  p = q
    BY DEF PublishedOnce
  <2>1. repo[p].by = repo[q].by
    BY DEF ComposeInv, Written, DraftsOnce
  <2> QED
    BY <2>1 DEF ComposeInv, ItemsOnce
<1> QED
  BY <1>1 DEF ThreadIsRight, ComposeInv

\* A reply is in the thread of the post it answers unless the record of that post could
\* not be read, and no post of a draft is there twice unless a submission of it failed
\* or another was on its way (handleThreadSubmit, compose.ts; resolveThreadRoot,
\* post_builder.go).
THEOREM ThreadsAreRight == Spec => []ThreadIsRight
BY Invariant, InvariantIsRight, PTL

\* The chains that the posts of the account are: the view of module Thread.
LEMMA Views ==
    ASSUME ComposeInv, NEW e \in Post, repo' = Append(repo, e)
    PROVE  /\ ThreadView' = Append(ThreadView, [by |-> e.by, parent |-> e.parent])
           /\ DOMAIN ThreadView = DOMAIN repo /\ \A s : Chain!By(s) = Of(s)
<1> DEFINE v == [by |-> e.by, parent |-> e.parent]
           V == [by : Nat \ {0}, parent : Int]
           n == Len(repo)
<1>1. /\ repo \in Seq(Post) /\ repo' \in Seq(Post) /\ n \in Nat /\ Len(repo') = n + 1
      /\ DOMAIN repo = 1..n /\ DOMAIN repo' = 1..(n + 1)
      /\ repo'[n + 1] = e /\ \A p \in 1..n : repo'[p] = repo[p]
  BY OneMore DEF ComposeInv, Types
<1>2. v \in V /\ \A p \in 1..n : [by |-> repo[p].by, parent |-> repo[p].parent] \in V
  <2>1. v \in V
    BY DEF Post
  <2>2. \A p \in 1..n : repo[p].by \in Nat \ {0} /\ repo[p].parent \in Int
    BY <1>1, Fields DEF ComposeInv
  <2> QED
    BY <2>1, <2>2
<1>3. ThreadView = [p \in 1..n |-> [by |-> repo[p].by, parent |-> repo[p].parent]]
  BY <1>1 DEF ThreadView
<1>4. ThreadView' = [p \in 1..(n + 1) |-> [by |-> repo'[p].by, parent |-> repo'[p].parent]]
  BY <1>1 DEF ThreadView
<1> HIDE DEF v, V, n
<1>5. ThreadView \in Seq(V) /\ Len(ThreadView) = n
  BY <1>1, <1>2, <1>3, IsASeq
<1>6. /\ Append(ThreadView, v) \in Seq(V) /\ Len(Append(ThreadView, v)) = n + 1
      /\ \A p \in 1..n : Append(ThreadView, v)[p] = ThreadView[p]
      /\ Append(ThreadView, v)[n + 1] = v
  BY <1>2, <1>5, AppendProperties
<1>7. DOMAIN Append(ThreadView, v) = 1..(n + 1)
  BY <1>1, <1>6
<1>8. ThreadView' = Append(ThreadView, v)
  <2>1. n \in Nat
    BY <1>1
  <2>2. ASSUME NEW p \in 1..(n + 1)
        PROVE  ThreadView'[p] = Append(ThreadView, v)[p] /\ ThreadView'[p] \in V
    <3>1. CASE p \in 1..n
      BY <3>1, <1>1, <1>2, <1>3, <1>4, <1>6
    <3>2. CASE p = n + 1
      BY <3>2, <2>1, <1>1, <1>2, <1>4, <1>6 DEF v
    <3>3. p \in 1..n \/ p = n + 1
      BY <2>1
    <3> QED
      BY <3>1, <3>2, <3>3
  <2>3. ThreadView' \in Seq(V) /\ Len(ThreadView') = n + 1
    <3>1. ThreadView' = [p \in 1..(n + 1) |-> ThreadView'[p]]
      BY <1>4
    <3>2. n + 1 \in Nat
      BY <2>1
    <3> QED
      BY <2>2, <3>1, <3>2, IsASeq
  <2> QED
    BY <2>2, <2>3, <1>6, SeqEqual
<1>9. \A s : Chain!By(s) = Of(s)
  BY <1>1, <1>3 DEF Chain!By, Of, n
<1> QED
  BY <1>1, <1>3, <1>8, <1>9 DEF v

\* The largest of some posts.
LEMMA MaxIs ==
    ASSUME NEW S \in SUBSET Int, NEW m \in S, \A p \in S : p <= m
    PROVE  Chain!Max(S) = m
<1>1. m >= m /\ \A y \in S : m >= y
  OBVIOUS
<1>2. Chain!Max(S) \in S /\ \A y \in S : Chain!Max(S) >= y
  BY <1>1 DEF Chain!Max
<1>3. Chain!Max(S) \in Int /\ m \in Int /\ Chain!Max(S) <= m /\ Chain!Max(S) >= m
  BY <1>2
<1> QED
  BY <1>3

\* What publishes one post is a step of Thread.
LEMMA PublishingGrows ==
    ASSUME MaxSends \in Nat, ComposeInv, Len(send) <= MaxSends,
           NEW s \in OnItsWay, NEW read \in BOOLEAN,
           repo' = Append(repo, NewPost(s, read))
    PROVE  Chain!Next
<1> DEFINE post == NewPost(s, read)
<1>1. /\ post \in Post /\ post.by = s /\ post.parent \in NonPosts \cup DOMAIN repo
      /\ send[s].next > 1 => post.parent = send[s].parent
  BY NewPosts
<1>2. Under(s) /\ Types /\ send[s].next \in Nat \ {0} /\ s \in 1..MaxSends
  BY Fields, Domains DEF ComposeInv, Chains, OnItsWay, Sends
<1> HIDE DEF post
<1>3. /\ ThreadView' = Append(ThreadView, [by |-> s, parent |-> post.parent])
      /\ DOMAIN ThreadView = DOMAIN repo /\ Chain!By(s) = Of(s)
  BY <1>1, Views DEF post
<1>4. CASE send[s].next = 1
  <2>1. Chain!By(s) = {}
    BY <1>2, <1>3, <1>4 DEF Under
  <2>2. Chain!Begin(s, post.parent)
    BY <2>1, <1>3 DEF Chain!Begin
  <2>3. post.parent \in {-1, -2} \cup {0} \cup DOMAIN ThreadView
    BY <1>1, <1>3 DEF NonPosts
  <2> QED
    BY <2>2, <2>3, <1>2 DEF Chain!Next
<1>5. CASE send[s].next > 1
  <2>1. Chain!Max(Chain!By(s)) = send[s].parent
    <3>1. Of(s) \in SUBSET Int
      BY <1>2, Domains DEF Of
    <3>2. send[s].parent \in Of(s) /\ \A p \in Of(s) : p <= send[s].parent
      BY <1>2, <1>5 DEF Under
    <3> QED
      BY <3>1, <3>2, <1>3, MaxIs
  <2>2. post.parent = Chain!Max(Chain!By(s)) /\ Chain!By(s) # {}
    BY <2>1, <1>1, <1>2, <1>3, <1>5 DEF Under
  <2>3. Chain!Grow(s)
    BY <2>2, <1>3 DEF Chain!Grow
  <2> QED
    BY <2>3, <1>2 DEF Chain!Next
<1> QED
  BY <1>2, <1>4, <1>5

\* There are no more submissions than the bound lets there be.
Few == Len(send) <= MaxSends

\* Every step of the dialog and its submissions is one of Thread, or leaves the posts alone.
LEMMA StepsGrow ==
    ASSUME MaxSends \in Nat
    PROVE  ComposeInv /\ Few /\ [Next]_vars => Few' /\ [Chain!Next]_ThreadView
<1> SUFFICES ASSUME ComposeInv, Few, [Next]_vars PROVE Few' /\ [Chain!Next]_ThreadView
  OBVIOUS
<1>1. Types
  BY DEF ComposeInv
<1>2. CASE UNCHANGED <<send, repo>>
  BY <1>2 DEF ThreadView, Few
<1>3. ASSUME NEW wait \in BOOLEAN, Submit(wait) PROVE Few' /\ [Chain!Next]_ThreadView
  <2>1. Len(send') = Len(send) + 1 /\ Len(send) < MaxSends /\ repo' = repo /\ Len(send) \in Nat
    BY <1>1, <1>3, Domains DEF Submit, server, Types
  <2> QED
    BY <2>1 DEF ThreadView, Few
<1>4. ASSUME NEW s \in Sends, NEW read \in BOOLEAN, Answered(s, read)
      PROVE  Few' /\ [Chain!Next]_ThreadView
  <2>1. s \in OnItsWay /\ repo' = Append(repo, NewPost(s, read))
    BY <1>4 DEF Answered
  <2>2. DOMAIN send' = DOMAIN send /\ send' \in Seq(Submission)
    BY <1>4, AnsweredKeeps DEF Answered, ComposeInv, Types
  <2>3. Len(send') = Len(send)
    BY <1>1, <2>2 DEF Types
  <2> QED
    BY <2>1, <2>3, PublishingGrows DEF Few
<1>5. ASSUME NEW s \in Sends, Failed(s) PROVE Few' /\ [Chain!Next]_ThreadView
  <2>1. s \in OnItsWay /\ (repo' = repo \/ repo' = Append(repo, NewPost(s, TRUE)))
    BY <1>5 DEF Failed
  <2>2. DOMAIN send' = DOMAIN send /\ send' \in Seq(Submission)
    BY <1>5, FailedKeeps DEF Failed, Fail, ComposeInv, Types
  <2>3. Len(send') = Len(send)
    BY <1>1, <2>2 DEF Types
  <2> QED
    BY <2>1, <2>3, PublishingGrows DEF ThreadView, Few
<1> QED
  BY <1>2, <1>3, <1>4, <1>5 DEF Next, Answers, Open, openComposeModal, requestCloseComposeModal,
     Confirm, AddPost, RemovePost, Type, Index, vars, dialog, server

\* Compose implements Thread: what a submission publishes is a chain, whatever the reader
\* does to the form and whatever other submission runs in the meantime.
THEOREM Implementation == ASSUME MaxSends \in Nat PROVE Spec => ThreadsGrow
<1>1. Init => Few /\ Chain!Init
  BY DEF Init, Chain!Init, ThreadView, Few
<1> QED
  BY Invariant, <1>1, StepsGrow, PTL DEF Spec, ThreadsGrow, Chain!Spec
=============================================================================
