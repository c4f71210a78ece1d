------------------------------ MODULE TabsProofs -------------------------------
(***************************************************************************)
(* Proofs about the tabs and dialogs that Tabs lists, each from an         *)
(* inductive invariant of its own.  The theorems about the pages together  *)
(* are in PagesProofs.                                                     *)
(***************************************************************************)
EXTENDS Tabs, FiniteSetTheorems, SequenceTheorems, WellFoundedInduction, TLAPS

-----------------------------------------------------------------------------
(***************************************************************************)
(* Direct messages.  The state: v1 active, v2 panel, v3 form, v4 posts,    *)
(* v5 fetches, v6 calls, v7 server, v8 sent, v9 read, v10 blind, v11 last, *)
(* v12 owed, v13 n, v14 crossed.                                           *)
(***************************************************************************)
\* The smaller of two numbers.
LEMMA MinOfTwo == \A a, b \in Nat : ChatPart!Min({a, b}) = IF a < b THEN a ELSE b
<1> SUFFICES ASSUME NEW a \in Nat, NEW b \in Nat PROVE ChatPart!Min({a, b}) = IF a < b THEN a ELSE b
  OBVIOUS
<1>1. CASE a < b
  BY <1>1 DEF ChatPart!Min
<1>2. CASE ~(a < b)
  BY <1>2 DEF ChatPart!Min
<1> QED
  BY <1>1, <1>2

\* The page of a conversation.
LEMMA PageIs ==
    ASSUME NEW c \in Convos, v7 \in [Convos -> Nat]
    PROVE  /\ ChatPart!Page(c) = (IF v7[c] < ChatLimit THEN v7[c] ELSE ChatLimit)
           /\ ChatPart!Page(c) \in Nat
<1>1. v7[c] \in Nat /\ ChatLimit \in Nat
  BY TabBounds
<1> QED
  BY <1>1, MinOfTwo DEF ChatPart!Page

\* Direct messages as the page comes.
LEMMA InitChat == ChatPart!Init => ChatPart!ChatInv
<1> SUFFICES ASSUME ChatPart!Init PROVE ChatPart!ChatInv
  OBVIOUS
<1>1. /\ v6 = {} /\ v8 = {} /\ v10 = {} /\ v12 = {}
      /\ v5 \in [ChatPart!Asked -> Nat] /\ \A a \in ChatPart!Asked : v5[a] = 0
  BY DEF ChatPart!Init
<1>2. ChatPart!Typed
  BY <1>1 DEF ChatPart!Init, ChatPart!Typed, ChatPart!List, ChatPart!NoForm, ChatPart!Forms
<1>3. ChatPart!OpenOrList
  BY <1>1 DEF ChatPart!Init, ChatPart!OpenOrList, ChatPart!InConvo, ChatPart!List
<1>4. ChatPart!Texts
  BY <1>1 DEF ChatPart!Init, ChatPart!Texts, ChatPart!NoForm
<1>5. ChatPart!OneCall /\ ChatPart!SentOnce /\ ChatPart!Announced
  BY <1>1 DEF ChatPart!OneCall, ChatPart!SentOnce, ChatPart!Announced
<1> QED
  BY <1>1, <1>2, <1>3, <1>4, <1>5 DEF ChatPart!ChatInv, ChatPart!Kept, ChatPart!GoesWhereTyped, ChatPart!Init

\* The counts go up.
LEMMA StepCounts ==
    ASSUME ChatPart!ChatInv, ChatPart!Next
    PROVE  v13' \in Nat /\ v13 <= v13' /\ v14' \in Nat /\ v14 <= v14'
<1>1. v13 \in Nat /\ v14 \in Nat
  BY DEF ChatPart!ChatInv
<1>2. (v13' = v13 \/ ChatPart!Step) => v13' \in Nat /\ v13 <= v13'
  BY <1>1 DEF ChatPart!Step
<1>3. ASSUME v14' = v14 \/ \E if : ChatPart!Crossed(if)
      PROVE  v14' \in Nat /\ v14 <= v14'
  BY <1>1, <1>3 DEF ChatPart!Crossed
<1>4. (v13' = v13 \/ ChatPart!Step) /\ (v14' = v14 \/ \E if : ChatPart!Crossed(if))
  <2>1. CASE \/ ChatPart!loadChat \/ ChatPart!Listed \/ ChatPart!updateChat \/ ChatPart!Type
             \/ ChatPart!setReplyingTo \/ ChatPart!clearReplyingTo
    BY <2>1, Zenon DEF ChatPart!loadChat, ChatPart!Listed, ChatPart!updateChat, ChatPart!Type,
       ChatPart!setReplyingTo, ChatPart!clearReplyingTo
  <2>2. CASE ChatPart!Submit \/ ChatPart!React \/ ChatPart!LeaveChat \/ ChatPart!DeleteMsg
    BY <2>2, Zenon DEF ChatPart!Submit, ChatPart!React, ChatPart!LeaveChat, ChatPart!DeleteMsg,
       ChatPart!Call, ChatPart!CallOut
  <2>3. ASSUME NEW c \in Convos, \/ ChatPart!openChatConvo(c) \/ ChatPart!OpenFromProfile(c)
                                 \/ ChatPart!Messages(c) \/ ChatPart!Polled(c) \/ ChatPart!News(c)
        PROVE  (v13' = v13 \/ ChatPart!Step) /\ (v14' = v14 \/ \E if : ChatPart!Crossed(if))
    BY <2>3, Zenon DEF ChatPart!openChatConvo, ChatPart!OpenFromProfile, ChatPart!Messages,
       ChatPart!Polled, ChatPart!News
  <2>4. ASSUME NEW a \in ChatPart!Asked, ChatPart!NotFetched(a)
        PROVE  (v13' = v13 \/ ChatPart!Step) /\ (v14' = v14 \/ \E if : ChatPart!Crossed(if))
    BY <2>4, Zenon DEF ChatPart!NotFetched
  <2>5. ASSUME NEW c \in v6, ChatPart!SendDone(c) \/ ChatPart!Reacted(c) \/ ChatPart!Left(c)
                             \/ ChatPart!MsgDeleted(c) \/ ChatPart!CallFailed(c)
        PROVE  (v13' = v13 \/ ChatPart!Step) /\ (v14' = v14 \/ \E if : ChatPart!Crossed(if))
    BY <2>5, Zenon DEF ChatPart!SendDone, ChatPart!Reacted, ChatPart!Left, ChatPart!MsgDeleted,
       ChatPart!CallFailed
  <2> QED
    BY <2>1, <2>2, <2>3, <2>4, <2>5 DEF ChatPart!Next
<1> QED
  BY <1>2, <1>3, <1>4

\* A message goes where it was typed.
LEMMA StepSends ==
    ASSUME ChatPart!ChatInv, ChatPart!Next
    PROVE  ChatPart!GoesWhereTyped' /\ \A c \in v6' : c.what = "send" => c.of = c.form.of
<1>1. ChatPart!GoesWhereTyped /\ \A c \in v6 : c.what = "send" => c.of = c.form.of
  BY DEF ChatPart!ChatInv
<1>2. CASE UNCHANGED <<v6, v8>>
  BY <1>1, <1>2 DEF ChatPart!GoesWhereTyped
<1>3. ASSUME NEW what, NEW to, ChatPart!CallOut(what, to), what = "send" => to = v3.of
      PROVE  ChatPart!GoesWhereTyped' /\ \A c \in v6' : c.what = "send" => c.of = c.form.of
  <2>1. v8' = v8 /\ v6' = v6 \cup {[what |-> what, of |-> to, form |-> v3, k |-> v13]}
    BY <1>3 DEF ChatPart!CallOut, ChatPart!acct
  <2> QED
    BY <1>1, <1>3, <2>1 DEF ChatPart!GoesWhereTyped
<1>4. ASSUME NEW c \in v6, v6' = v6 \ {c}, v8' = v8 \/ (c.what = "send" /\ ChatPart!Message(c))
      PROVE  ChatPart!GoesWhereTyped' /\ \A d \in v6' : d.what = "send" => d.of = d.form.of
  BY <1>1, <1>4 DEF ChatPart!GoesWhereTyped, ChatPart!Message
<1>5. CASE ChatPart!Submit
  BY <1>3, <1>5 DEF ChatPart!Submit, ChatPart!Recipient
<1>6. CASE ChatPart!React \/ ChatPart!LeaveChat \/ ChatPart!DeleteMsg
  BY <1>3, <1>6 DEF ChatPart!React, ChatPart!LeaveChat, ChatPart!DeleteMsg, ChatPart!Call
<1>7. ASSUME NEW c \in v6, ChatPart!SendDone(c) \/ ChatPart!Reacted(c) \/ ChatPart!Left(c)
                           \/ ChatPart!MsgDeleted(c) \/ ChatPart!CallFailed(c)
      PROVE  v6' = v6 \ {c} /\ (v8' = v8 \/ (c.what = "send" /\ ChatPart!Message(c)))
  BY <1>7 DEF ChatPart!SendDone, ChatPart!Reacted, ChatPart!Left, ChatPart!MsgDeleted,
     ChatPart!CallFailed, ChatPart!acct
<1>8. CASE \/ ChatPart!loadChat \/ ChatPart!Listed \/ ChatPart!updateChat \/ ChatPart!Type
           \/ ChatPart!setReplyingTo \/ ChatPart!clearReplyingTo
           \/ \E c \in Convos : \/ ChatPart!openChatConvo(c) \/ ChatPart!OpenFromProfile(c)
                                \/ ChatPart!Messages(c) \/ ChatPart!Polled(c) \/ ChatPart!News(c)
           \/ \E a \in ChatPart!Asked : ChatPart!NotFetched(a)
  BY <1>2, <1>8 DEF ChatPart!loadChat, ChatPart!Listed, ChatPart!updateChat, ChatPart!Type,
     ChatPart!setReplyingTo, ChatPart!clearReplyingTo, ChatPart!openChatConvo,
     ChatPart!OpenFromProfile, ChatPart!Messages, ChatPart!Polled, ChatPart!News,
     ChatPart!NotFetched, ChatPart!acct
<1> QED
  BY <1>4, <1>5, <1>6, <1>7, <1>8 DEF ChatPart!Next

\* What can be asked for of the conversation that is open, or of none.
LEMMA CanAsk ==
    \A c \in Convos \cup {0} : \A what \in {"list", "messages", "poll"} : <<what, c>> \in ChatPart!Asked
BY DEF ChatPart!Asked

\* One more request.
LEMMA OneMore ==
    ASSUME v5 \in [ChatPart!Asked -> Nat], NEW a \in ChatPart!Asked, v5' = [v5 EXCEPT ![a] = @ + 1]
    PROVE  /\ v5' \in [ChatPart!Asked -> Nat] /\ v5'[a] > 0
           /\ \A b \in ChatPart!Asked : v5[b] <= v5'[b] /\ (b # a => v5'[b] = v5[b])
<1>1. v5[a] \in Nat
  OBVIOUS
<1>2. ASSUME NEW b \in ChatPart!Asked PROVE v5'[b] = IF b = a THEN v5[a] + 1 ELSE v5[b]
  OBVIOUS
<1>3. v5' \in [ChatPart!Asked -> Nat]
  BY <1>1
<1> QED
  BY <1>1, <1>2, <1>3

\* One that is answered.
LEMMA OneLess ==
    ASSUME v5 \in [ChatPart!Asked -> Nat], NEW a \in ChatPart!Asked, v5[a] > 0,
           v5' = [v5 EXCEPT ![a] = @ - 1]
    PROVE  /\ v5' \in [ChatPart!Asked -> Nat]
           /\ \A b \in ChatPart!Asked : v5'[b] <= v5[b] /\ (b # a => v5'[b] = v5[b])
<1>1. v5[a] \in Nat /\ v5[a] - 1 \in Nat
  OBVIOUS
<1>2. ASSUME NEW b \in ChatPart!Asked PROVE v5'[b] = IF b = a THEN v5[a] - 1 ELSE v5[b]
  OBVIOUS
<1>3. v5' \in [ChatPart!Asked -> Nat]
  BY <1>1
<1> QED
  BY <1>1, <1>2, <1>3

\* A list that is fetched as nothing else is out.
LEMMA ListFetched ==
    ASSUME ChatPart!Kept, v14 = 0, ~ChatPart!Fetching, v6' = {},
           v1' = 0, ChatPart!Fetch("list", 0),
           UNCHANGED <<v2, v3, v7, v8, v9, v10, v12>>, v13 \in Nat, v13' \in Nat, v13 <= v13'
    PROVE  ChatPart!Kept'
<1> USE DEF ChatPart!Kept
<1>1. v5 \in [ChatPart!Asked -> Nat] /\ <<"list", 0>> \in ChatPart!Asked
  BY CanAsk DEF ChatPart!Typed
<1>2. /\ v5' \in [ChatPart!Asked -> Nat] /\ v5'[<<"list", 0>>] > 0
      /\ \A a \in ChatPart!Asked : a # <<"list", 0>> => v5'[a] = v5[a]
  BY <1>1, OneMore DEF ChatPart!Fetch
<1>3. \A a \in ChatPart!Asked : ~(v5[a] > 0)
  BY DEF ChatPart!Fetching
<1>4. v10 = {}
  <2>1. v1 \in Convos \cup {0}
    BY DEF ChatPart!OpenOrList
  <2> QED
    BY <1>3, <2>1, CanAsk DEF ChatPart!Announced, ChatPart!Asks
<1>5. ChatPart!Typed'
  BY <1>2 DEF ChatPart!Typed
<1>6. ChatPart!OneCall' /\ ChatPart!SentOnce'
  BY DEF ChatPart!OneCall, ChatPart!SentOnce
<1>7. ChatPart!OpenOrList'
  BY <1>2, <1>3 DEF ChatPart!OpenOrList, ChatPart!InConvo, ChatPart!Asks
<1>8. ChatPart!Texts'
  BY DEF ChatPart!Texts
<1>9. ChatPart!Announced'
  BY <1>4, SetsAssumption DEF ChatPart!Announced, ChatPart!Typed
<1> QED
  BY <1>5, <1>6, <1>7, <1>8, <1>9

\* The way back to the list.
LEMMA loadChatKeeps ==
    ASSUME ChatPart!Kept, v14 = 0, v14' = 0, v13 \in Nat, ChatPart!loadChat
    PROVE  ChatPart!Kept'
<1>1. ~ChatPart!Fetching /\ v6 = {}
  BY DEF ChatPart!loadChat, ChatPart!Crossed, ChatPart!Out
<1>2. /\ v1' = 0 /\ ChatPart!Fetch("list", 0) /\ v6' = {}
      /\ UNCHANGED <<v2, v3, v7, v8, v9, v10, v12, v13>>
  BY <1>1 DEF ChatPart!loadChat, ChatPart!acct, ChatPart!hist
<1> QED
  BY <1>1, <1>2, ListFetched

\* The list comes.
LEMMA ListedKeeps ==
    ASSUME ChatPart!Kept, v14 = 0, v13 \in Nat, ChatPart!Listed
    PROVE  ChatPart!Kept'
<1> USE DEF ChatPart!Kept
<1>1. /\ v1' = v1 /\ v2' = ChatPart!List /\ ChatPart!Answered("list", 0)
      /\ UNCHANGED <<v3, v6, v7, v8, v9, v10, v12, v13>>
  BY DEF ChatPart!Listed, ChatPart!acct, ChatPart!hist
<1>2. /\ v5 \in [ChatPart!Asked -> Nat] /\ <<"list", 0>> \in ChatPart!Asked /\ v5[<<"list", 0>>] > 0
      /\ v5' \in [ChatPart!Asked -> Nat] /\ \A a \in ChatPart!Asked : v5'[a] <= v5[a]
  BY <1>1, CanAsk, OneLess DEF ChatPart!Typed, ChatPart!Answered
<1>3. v1 = 0 /\ v6 = {} /\ v10 = {}
  <2>1. v1 = 0
    BY <1>2 DEF ChatPart!OpenOrList
  <2>2. v6 = {}
    BY <2>1 DEF ChatPart!OneCall
  <2>3. <<"messages", 0>> \in ChatPart!Asked /\ ~(v5[<<"messages", 0>>] > 0)
    BY <2>1, CanAsk DEF ChatPart!OpenOrList
  <2> QED
    BY <2>1, <2>2, <2>3 DEF ChatPart!Announced, ChatPart!Asks
<1>4. ChatPart!Typed'
  BY <1>1, <1>2 DEF ChatPart!Typed, ChatPart!List
<1>5. ChatPart!OneCall' /\ ChatPart!SentOnce'
  BY <1>1, <1>3 DEF ChatPart!OneCall, ChatPart!SentOnce
<1>6. ChatPart!OpenOrList'
  <2>1. \A a \in ChatPart!Asked : v5'[a] > 0 => v5[a] > 0
    BY <1>2
  <2> QED
    BY <1>1, <1>3, <2>1 DEF ChatPart!OpenOrList, ChatPart!InConvo, ChatPart!List
<1>7. ChatPart!Texts'
  BY <1>1 DEF ChatPart!Texts
<1>8. ChatPart!Announced'
  BY <1>1, <1>3, SetsAssumption DEF ChatPart!Announced, ChatPart!Typed
<1> QED
  BY <1>4, <1>5, <1>6, <1>7, <1>8

\* A conversation is opened from the list.
LEMMA OpenConvoKeeps ==
    ASSUME ChatPart!Kept, v14 = 0, v14' = 0, v13 \in Nat, NEW c \in Convos, ChatPart!openChatConvo(c)
    PROVE  ChatPart!Kept'
<1> USE DEF ChatPart!Kept
<1>1. ~ChatPart!Fetching /\ v6 = {}
  BY DEF ChatPart!openChatConvo, ChatPart!Crossed, ChatPart!Out
<1>2. /\ v1' = c /\ v2' = [of |-> c, rows |-> 0, from |-> 0] /\ v4' = 0
      /\ v3' = [text |-> 0, re |-> 0, of |-> c, id |-> v13 + 1]
      /\ ChatPart!Fetch("messages", c) /\ v13' = v13 + 1
      /\ UNCHANGED <<v6, v7, v8, v9, v10, v12>>
  BY <1>1 DEF ChatPart!openChatConvo, ChatPart!Opened, ChatPart!NoForm, ChatPart!Step,
     ChatPart!acct, ChatPart!hist
<1>3. /\ v5 \in [ChatPart!Asked -> Nat] /\ <<"messages", c>> \in ChatPart!Asked
      /\ \A a \in ChatPart!Asked : ~(v5[a] > 0)
  BY <1>1, CanAsk DEF ChatPart!Typed, ChatPart!Fetching
<1>4. /\ v5' \in [ChatPart!Asked -> Nat] /\ v5'[<<"messages", c>>] > 0
      /\ \A a \in ChatPart!Asked : a # <<"messages", c>> => v5'[a] = v5[a]
  BY <1>2, <1>3, OneMore DEF ChatPart!Fetch
<1>5. c # 0
  BY SetsAssumption
<1>6. v10 = {}
  <2>1. v1 \in Convos \cup {0}
    BY DEF ChatPart!OpenOrList
  <2> QED
    BY <1>3, <2>1, CanAsk DEF ChatPart!Announced, ChatPart!Asks
<1>7. ChatPart!Typed'
  BY <1>1, <1>2, <1>4 DEF ChatPart!Typed, ChatPart!Forms
<1>8. ChatPart!OneCall' /\ ChatPart!SentOnce'
  BY <1>1, <1>2 DEF ChatPart!OneCall, ChatPart!SentOnce
<1>9. ChatPart!OpenOrList'
  BY <1>2, <1>3, <1>4, <1>5 DEF ChatPart!OpenOrList, ChatPart!InConvo, ChatPart!Asks
<1>10. ChatPart!Texts'
  BY <1>2 DEF ChatPart!Texts
<1>11. ChatPart!Announced'
  BY <1>2, <1>4, <1>6 DEF ChatPart!Announced, ChatPart!Asks
<1> QED
  BY <1>7, <1>8, <1>9, <1>10, <1>11

\* Messages come, for the conversation that is open.
LEMMA MessagesKeep ==
    ASSUME ChatPart!Kept, v14 = 0, v13 \in Nat, NEW c \in Convos, ChatPart!Messages(c)
    PROVE  ChatPart!Kept'
<1> USE DEF ChatPart!Kept
<1>1. /\ ChatPart!Answered("messages", c)
      /\ ChatPart!Render(c) /\ UNCHANGED <<v1, v3, v6, v7, v8, v13>>
  BY DEF ChatPart!Messages
<1>2. /\ v5 \in [ChatPart!Asked -> Nat] /\ <<"messages", c>> \in ChatPart!Asked
      /\ v5[<<"messages", c>>] > 0
      /\ v5' \in [ChatPart!Asked -> Nat] /\ \A a \in ChatPart!Asked : v5'[a] <= v5[a]
  BY <1>1, CanAsk, OneLess DEF ChatPart!Typed, ChatPart!Answered
<1>3. v1 = c /\ v2.of = c /\ c # 0
  BY <1>2, SetsAssumption DEF ChatPart!OpenOrList
<1>4. v7 \in [Convos -> Nat] /\ v9 \in [Convos -> Nat]
  BY DEF ChatPart!Typed
<1>5. /\ v2' = [v2 EXCEPT !.rows = ChatPart!Page(c), !.from = c]
      /\ v9' = [v9 EXCEPT ![c] = v7[c]] /\ v10' = v10 \ {c} /\ v12' = v12 \ {c}
  BY <1>1, <1>3 DEF ChatPart!Render, ChatPart!InConvo
<1>6. ChatPart!Typed'
  BY <1>1, <1>2, <1>4, <1>5, PageIs DEF ChatPart!Typed
<1>7. ChatPart!OneCall' /\ ChatPart!SentOnce'
  BY <1>1 DEF ChatPart!OneCall, ChatPart!SentOnce
<1>8. ChatPart!OpenOrList'
  <2>1. /\ v2'.of = c /\ v2'.from = c /\ v9'[c] = v7[c] /\ v1' = c /\ v3' = v3
        /\ v2'.rows = IF v7[c] < ChatLimit THEN v7[c] ELSE ChatLimit
    BY <1>1, <1>3, <1>4, <1>5, PageIs DEF ChatPart!Typed
  <2>2. v3.of = c
    BY <1>3 DEF ChatPart!OpenOrList, ChatPart!InConvo
  <2>3. \A a \in ChatPart!Asked : v5'[a] > 0 => v5[a] > 0
    BY <1>2
  <2>4. \A a \in ChatPart!Asked : v5'[a] > 0 => a[1] # "list" /\ a[2] = c
    BY <1>3, <2>3 DEF ChatPart!OpenOrList
  <2> QED
    BY <1>3, <2>1, <2>2, <2>4 DEF ChatPart!OpenOrList, ChatPart!InConvo
<1>9. ChatPart!Texts'
  BY <1>1 DEF ChatPart!Texts
<1>10. ChatPart!Announced'
  BY <1>1, <1>3, <1>5 DEF ChatPart!Announced
<1> QED
  BY <1>6, <1>7, <1>8, <1>9, <1>10

\* A refresh is asked for, of the list or of what is open.
LEMMA PollKeeps ==
    ASSUME ChatPart!Kept, v14 = 0, v13 \in Nat, ChatPart!updateChat
    PROVE  ChatPart!Kept'
<1> USE DEF ChatPart!Kept
<1>1. UNCHANGED <<v1, v2, v3, v4, v6, v7, v8, v9, v10, v13, v14>>
  BY DEF ChatPart!updateChat, ChatPart!view
<1>2. \/ v1 = 0 /\ ChatPart!Fetch("list", 0) /\ v12' = v12
      \/ v1 # 0 /\ ChatPart!Fetch("poll", v1) /\ v12' = v12 \cup {c \in {v1} : v9[c] < v7[c]}
      \/ v5' = v5 /\ v12' = v12
  BY DEF ChatPart!updateChat
<1>3. /\ v5 \in [ChatPart!Asked -> Nat] /\ v1 \in Convos \cup {0}
      /\ <<"list", 0>> \in ChatPart!Asked /\ <<"poll", v1>> \in ChatPart!Asked
      /\ <<"messages", v1>> \in ChatPart!Asked
  BY CanAsk DEF ChatPart!Typed, ChatPart!OpenOrList
<1>4. /\ v5' \in [ChatPart!Asked -> Nat] /\ \A a \in ChatPart!Asked : v5[a] <= v5'[a]
      /\ \A a \in ChatPart!Asked : v5'[a] > 0 =>
            \/ v5[a] > 0
            \/ v1 = 0 /\ a = <<"list", 0>>
            \/ v1 # 0 /\ a = <<"poll", v1>>
      /\ v12' = v12 \/ (v1 # 0 /\ v5'[<<"poll", v1>>] > 0 /\ v12' = v12 \cup {c \in {v1} : v9[c] < v7[c]})
  <2>1. CASE v1 = 0 /\ ChatPart!Fetch("list", 0) /\ v12' = v12
    BY <1>3, <2>1, OneMore DEF ChatPart!Fetch
  <2>2. CASE v1 # 0 /\ ChatPart!Fetch("poll", v1) /\ v12' = v12 \cup {c \in {v1} : v9[c] < v7[c]}
    BY <1>3, <2>2, OneMore DEF ChatPart!Fetch
  <2>3. CASE v5' = v5 /\ v12' = v12
    BY <1>3, <2>3
  <2> QED
    BY <1>2, <2>1, <2>2, <2>3
<1>5. ChatPart!Typed'
  <2>1. v12' \subseteq Convos
    BY <1>3, <1>4 DEF ChatPart!Typed
  <2> QED
    BY <1>1, <1>4, <2>1 DEF ChatPart!Typed
<1>6. ChatPart!OneCall' /\ ChatPart!SentOnce' /\ ChatPart!Texts'
  BY <1>1 DEF ChatPart!OneCall, ChatPart!SentOnce, ChatPart!Texts
<1>7. /\ v5[<<"messages", v1>>] > 0 => v5'[<<"messages", v1>>] > 0
      /\ v5[<<"poll", v1>>] > 0 => v5'[<<"poll", v1>>] > 0
      /\ v5[<<"list", 0>>] > 0 => v5'[<<"list", 0>>] > 0
  BY <1>3, <1>4
<1>8. ChatPart!OpenOrList'
  BY <1>1, <1>3, <1>4, <1>7 DEF ChatPart!OpenOrList, ChatPart!InConvo, ChatPart!Asks
<1>9. ChatPart!Announced'
  BY <1>1, <1>4, <1>7 DEF ChatPart!Announced, ChatPart!Asks
<1> QED
  BY <1>5, <1>6, <1>8, <1>9

\* What is open is fetched again: its rows are forgotten.
LEMMA AgainKeeps ==
    ASSUME ChatPart!Kept, v14 = 0, v14' = 0, v13 \in Nat, v13' = v13, v1 # 0, v1' = v1,
           v5' \in [ChatPart!Asked -> Nat], v5'[<<"messages", v1>>] > 0,
           \A a \in ChatPart!Asked : v5'[a] > 0 => v5[a] > 0 \/ a = <<"messages", v1>>,
           v2' = v2, v3' \in ChatPart!Forms, v3'.of = v3.of, v12' = v12,
           v7' \in [Convos -> Nat], v9' \in [Convos -> Nat],
           v10' = v10 \/ v10' = v10 \cup {v1},
           v6' \subseteq v6, ChatPart!OneCall', ChatPart!Texts', ChatPart!SentOnce'
    PROVE  ChatPart!Kept'
<1> USE DEF ChatPart!Kept
<1>1. ChatPart!Typed'
  BY DEF ChatPart!Typed
<1>2. ChatPart!Asks("messages")'
  BY DEF ChatPart!Asks
<1>3. ChatPart!OpenOrList'
  BY <1>2 DEF ChatPart!OpenOrList, ChatPart!InConvo
<1>4. ChatPart!Announced'
  BY <1>2 DEF ChatPart!Announced
<1> QED
  BY <1>1, <1>3, <1>4

\* The open conversation is fetched again, beside what is left of the requests.
LEMMA AgainAsks ==
    ASSUME ChatPart!Kept, v1 # 0, NEW left \in [ChatPart!Asked -> Nat],
           \A a \in ChatPart!Asked : left[a] <= v5[a],
           v5' = [left EXCEPT ![<<"messages", v1>>] = @ + 1]
    PROVE  /\ v5' \in [ChatPart!Asked -> Nat] /\ v5'[<<"messages", v1>>] > 0
           /\ \A a \in ChatPart!Asked : v5'[a] > 0 => v5[a] > 0 \/ a = <<"messages", v1>>
<1> USE DEF ChatPart!Kept
<1>1. v5 \in [ChatPart!Asked -> Nat] /\ <<"messages", v1>> \in ChatPart!Asked
  BY CanAsk DEF ChatPart!Typed, ChatPart!OpenOrList
<1>2. left[<<"messages", v1>>] \in Nat
  BY <1>1
<1>3. v5' \in [ChatPart!Asked -> Nat] /\ v5'[<<"messages", v1>>] = left[<<"messages", v1>>] + 1
  BY <1>1, <1>2
<1>4. ASSUME NEW a \in ChatPart!Asked, v5'[a] > 0, a # <<"messages", v1>> PROVE v5[a] > 0
  <2>1. v5'[a] = left[a] /\ left[a] <= v5[a] /\ left[a] \in Nat /\ v5[a] \in Nat
    BY <1>1, <1>4
  <2> QED
    BY <1>4, <2>1
<1> QED
  BY <1>2, <1>3, <1>4

\* The answer of a refresh.
LEMMA PolledKeeps ==
    ASSUME ChatPart!Kept, v14 = 0, v13 \in Nat, NEW c \in Convos, ChatPart!Polled(c)
    PROVE  ChatPart!Kept'
<1> USE DEF ChatPart!Kept
<1> DEFINE left == [v5 EXCEPT ![<<"poll", c>>] = @ - 1]
<1>1. v5[<<"poll", c>>] > 0 /\ UNCHANGED <<v2, v3, v6, v7, v8, v12, v13, v14>>
  BY DEF ChatPart!Polled
<1>2. /\ v5 \in [ChatPart!Asked -> Nat] /\ <<"poll", c>> \in ChatPart!Asked
      /\ left \in [ChatPart!Asked -> Nat]
      /\ \A a \in ChatPart!Asked : left[a] = IF a = <<"poll", c>> THEN v5[a] - 1 ELSE v5[a]
  <2>1. v5 \in [ChatPart!Asked -> Nat] /\ <<"poll", c>> \in ChatPart!Asked
    BY CanAsk DEF ChatPart!Typed
  <2>2. v5[<<"poll", c>>] - 1 \in Nat
    BY <1>1, <2>1
  <2> QED
    BY <2>1, <2>2
<1>3. \A a \in ChatPart!Asked : left[a] <= v5[a] /\ v5[a] \in Nat /\ left[a] \in Nat
  BY <1>2
<1>4. v1 = c /\ c # 0 /\ v2.of = c
  BY <1>1, <1>2, SetsAssumption DEF ChatPart!OpenOrList
<1>5. v7 \in [Convos -> Nat] /\ v9 \in [Convos -> Nat]
  BY DEF ChatPart!Typed
<1>6. ChatPart!OneCall' /\ ChatPart!SentOnce' /\ ChatPart!Texts'
  <2>1. v1' = v1
    BY <1>4 DEF ChatPart!Polled, ChatPart!Again
  <2> QED
    BY <1>1, <2>1 DEF ChatPart!OneCall, ChatPart!SentOnce, ChatPart!Texts
<1>7. CASE ChatPart!Refreshes(c)
  <2>1. /\ v1' = v1 /\ v9' = [v9 EXCEPT ![c] = v7[c]] /\ v10' = v10 \cup {c}
        /\ v5' = [left EXCEPT ![<<"messages", v1>>] = @ + 1]
    BY <1>4, <1>7 DEF ChatPart!Polled, ChatPart!Again
  <2> HIDE DEF left
  <2>2. /\ v5' \in [ChatPart!Asked -> Nat] /\ v5'[<<"messages", v1>>] > 0
        /\ \A a \in ChatPart!Asked : v5'[a] > 0 => v5[a] > 0 \/ a = <<"messages", v1>>
    BY <1>2, <1>3, <1>4, <2>1, AgainAsks
  <2>3. v3' \in ChatPart!Forms /\ v9' \in [Convos -> Nat]
    BY <1>1, <1>5, <2>1 DEF ChatPart!Typed
  <2> QED
    BY <1>1, <1>4, <1>5, <1>6, <2>1, <2>2, <2>3, AgainKeeps
<1>8. CASE ~ChatPart!Refreshes(c)
  <2>1. v5' = left /\ UNCHANGED <<v1, v4, v9, v10>>
    BY <1>8 DEF ChatPart!Polled
  <2> HIDE DEF left
  <2>2. <<"messages", v1>> \in ChatPart!Asked /\ v5'[<<"messages", v1>>] = v5[<<"messages", v1>>]
    BY <1>2, <1>4, <2>1, CanAsk
  <2>3. ChatPart!Typed'
    BY <1>1, <1>2, <2>1 DEF ChatPart!Typed
  <2>4. \A a \in ChatPart!Asked : v5'[a] > 0 => v5[a] > 0
    BY <1>3, <2>1
  <2>5. ChatPart!OpenOrList'
    BY <1>1, <1>4, <2>1, <2>2, <2>4 DEF ChatPart!OpenOrList, ChatPart!InConvo, ChatPart!Asks
  <2>6. v9[c] < v7[c] /\ ~ChatPart!Asks("messages") /\ v4 = v2.rows => v7[c] > ChatLimit
    <3>1. /\ ChatPart!Page(c) = (IF v7[c] < ChatLimit THEN v7[c] ELSE ChatLimit)
          /\ v7[c] \in Nat /\ v9[c] \in Nat /\ ChatLimit \in Nat
      BY <1>5, PageIs, TabBounds
    <3>2. ChatPart!Page(c) = 0 \/ ChatPart!Page(c) = v4
      BY <1>8, <3>1 DEF ChatPart!Refreshes
    <3>3. ~ChatPart!Asks("messages") => v2.rows = IF v9[c] < ChatLimit THEN v9[c] ELSE ChatLimit
      BY <1>4 DEF ChatPart!OpenOrList
    <3> QED
      BY <3>1, <3>2, <3>3
  <2>7. ChatPart!Announced'
    BY <1>1, <1>4, <2>1, <2>2, <2>6 DEF ChatPart!Announced, ChatPart!Asks
  <2> QED
    BY <1>6, <2>3, <2>5, <2>7
<1> QED
  BY <1>7, <1>8

\* Something new in a conversation.
LEMMA NewsKeeps ==
    ASSUME ChatPart!Kept, v14 = 0, v13 \in Nat, NEW c \in Convos, ChatPart!News(c)
    PROVE  ChatPart!Kept'
<1> USE DEF ChatPart!Kept
<1>1. /\ v7' = [v7 EXCEPT ![c] = @ + 1] /\ v13' = v13 + 1
      /\ UNCHANGED <<v1, v2, v3, v4, v5, v6, v8, v9, v10, v12, v14>>
  BY DEF ChatPart!News, ChatPart!Step, ChatPart!view, ChatPart!hist
<1>2. v7 \in [Convos -> Nat] /\ v9 \in [Convos -> Nat] /\ v12 \subseteq Convos
  BY DEF ChatPart!Typed
<1>3. v7' \in [Convos -> Nat] /\ \A d \in Convos : v7[d] <= v7'[d] /\ v7'[d] \in Nat
  BY <1>1, <1>2
<1>4. ChatPart!Typed'
  BY <1>1, <1>3 DEF ChatPart!Typed
<1>5. ChatPart!OneCall' /\ ChatPart!SentOnce' /\ ChatPart!Texts'
  BY <1>1 DEF ChatPart!OneCall, ChatPart!SentOnce, ChatPart!Texts
<1>6. ChatPart!OpenOrList'
  BY <1>1 DEF ChatPart!OpenOrList, ChatPart!InConvo, ChatPart!Asks
<1>7. ChatPart!Announced'
  <2>1. ASSUME v1 \in v12
        PROVE  /\ v7[v1] > ChatLimit => v7'[v1] > ChatLimit
               /\ v9[v1] < v7[v1] => v9[v1] < v7'[v1]
    <3>1. v7[v1] \in Nat /\ v7'[v1] \in Nat /\ v7[v1] <= v7'[v1] /\ v9[v1] \in Nat /\ ChatLimit \in Nat
      BY <1>2, <1>3, <2>1, TabBounds
    <3> QED
      BY <3>1
  <2> QED
    BY <1>1, <2>1 DEF ChatPart!Announced, ChatPart!Asks
<1> QED
  BY <1>4, <1>5, <1>6, <1>7

\* The form on the screen is changed, and nothing else.
LEMMA FormKeeps ==
    ASSUME ChatPart!Kept, v14 = 0, v13 \in Nat, v13' \in Nat, v13 <= v13',
           v3' \in ChatPart!Forms, v3'.of = v3.of, v3'.id = v3.id,
           v3'.text = v3.text \/ (v3'.text = v13 + 1 /\ v13' = v13 + 1),
           v3'.re \in {0, v3.of},
           UNCHANGED <<v1, v2, v4, v5, v6, v7, v8, v9, v10, v12, v14>>
    PROVE  ChatPart!Kept'
<1> USE DEF ChatPart!Kept
<1>1. ChatPart!Typed'
  BY DEF ChatPart!Typed
<1>2. v3.text \in Nat
  BY DEF ChatPart!Typed, ChatPart!Forms
<1>3. ChatPart!OneCall' /\ ChatPart!SentOnce'
  <2>1. 0..v13 \subseteq 0..v13'
    OBVIOUS
  <2> QED
    BY <2>1 DEF ChatPart!OneCall, ChatPart!SentOnce
<1>4. ChatPart!OpenOrList'
  BY DEF ChatPart!OpenOrList, ChatPart!InConvo, ChatPart!Asks
<1>5. ChatPart!Texts'
  BY <1>2 DEF ChatPart!Texts
<1>6. ChatPart!Announced'
  BY DEF ChatPart!Announced, ChatPart!Asks
<1> QED
  BY <1>1, <1>3, <1>4, <1>5, <1>6

\* A text is typed, and a reply is begun and given up.
LEMMA WriteKeeps ==
    ASSUME ChatPart!Kept, v14 = 0, v13 \in Nat,
           ChatPart!Type \/ ChatPart!setReplyingTo \/ ChatPart!clearReplyingTo
    PROVE  ChatPart!Kept'
<1> USE DEF ChatPart!Kept
<1>1. v3 \in ChatPart!Forms
  BY DEF ChatPart!Typed
<1>2. CASE ChatPart!Type
  <2>1. /\ v13' = v13 + 1 /\ v3' = [v3 EXCEPT !.text = v13 + 1]
        /\ UNCHANGED <<v1, v2, v4, v5, v6, v7, v8, v9, v10, v12, v14>>
    BY <1>2 DEF ChatPart!Type, ChatPart!Step, ChatPart!acct, ChatPart!hist
  <2>2. /\ v3' \in ChatPart!Forms /\ v3'.of = v3.of /\ v3'.id = v3.id /\ v3'.re = v3.re
        /\ v3'.text = v13 + 1
    BY <1>1, <2>1 DEF ChatPart!Forms
  <2> QED
    BY <2>1, <2>2, FormKeeps DEF ChatPart!Texts
<1>3. ASSUME NEW m \in {0, v3.of}, v3' = [v3 EXCEPT !.re = m], v13' = v13,
             UNCHANGED <<v1, v2, v4, v5, v6, v7, v8, v9, v10, v12, v14>>
      PROVE  ChatPart!Kept'
  <2>1. /\ v3' \in ChatPart!Forms /\ v3'.of = v3.of /\ v3'.id = v3.id /\ v3'.re = m
        /\ v3'.text = v3.text
    BY <1>1, <1>3 DEF ChatPart!Forms
  <2>2. v13' \in Nat /\ v13 <= v13' /\ v3'.re \in {0, v3.of}
    BY <1>3, <2>1
  <2>3. UNCHANGED <<v1, v2, v4, v5, v6, v7, v8, v9, v10, v12, v14>>
    BY <1>3
  <2> QED
    BY <2>1, <2>2, <2>3, FormKeeps
<1>4. CASE ChatPart!setReplyingTo
  <2>1. /\ v3' = [v3 EXCEPT !.re = v2.from] /\ v13' = v13
        /\ UNCHANGED <<v1, v2, v4, v5, v6, v7, v8, v9, v10, v12, v14>>
    BY <1>4 DEF ChatPart!setReplyingTo, ChatPart!acct, ChatPart!hist
  <2>2. v2.from = v3.of
    BY <1>4 DEF ChatPart!setReplyingTo, ChatPart!OpenOrList
  <2> QED
    BY <1>3, <2>1, <2>2
<1>5. CASE ChatPart!clearReplyingTo
  BY <1>3, <1>5 DEF ChatPart!clearReplyingTo, ChatPart!acct, ChatPart!hist
<1> QED
  BY <1>2, <1>4, <1>5

\* A call is made, as nothing else is out.
LEMMA CallKeeps ==
    ASSUME ChatPart!Kept, v14 = 0, v14' = 0, v13 \in Nat,
           NEW what \in {"send", "react", "leave", "delete"}, NEW to, to = v2.of,
           ChatPart!InConvo, what = "send" => v3.text # 0, ChatPart!CallOut(what, to)
    PROVE  ChatPart!Kept'
<1> USE DEF ChatPart!Kept
<1> DEFINE c == [what |-> what, of |-> to, form |-> v3, k |-> v13]
<1>1. ~ChatPart!Fetching /\ v6 = {}
  BY DEF ChatPart!CallOut, ChatPart!Crossed, ChatPart!Out
<1>2. v6' = {c} /\ v13' = v13 + 1 /\ UNCHANGED <<v1, v2, v3, v4, v5, v7, v8, v9, v10, v12, v14>>
  BY <1>1 DEF ChatPart!CallOut, ChatPart!Step, ChatPart!view, ChatPart!acct, ChatPart!hist
<1>3. v1 # 0 /\ v2.of = v1 /\ v3.of = v1 /\ v1 \in Convos
  BY <1>1, CanAsk DEF ChatPart!OpenOrList, ChatPart!InConvo, ChatPart!Fetching, ChatPart!Asks
<1>4. v3 \in ChatPart!Forms
  BY DEF ChatPart!Typed
<1>5. ChatPart!Typed'
  BY <1>2, <1>3, <1>4 DEF ChatPart!Typed
<1>6. PICK t \in Nat : t = v3.text /\ t \in 0..v13
  BY DEF ChatPart!Texts
<1>7. 0..v13 \subseteq 0..(v13 + 1)
  OBVIOUS
<1>8. ChatPart!SentOnce' /\ ChatPart!Texts'
  BY <1>2, <1>7 DEF ChatPart!SentOnce, ChatPart!Texts
<1>9. ChatPart!OpenOrList' /\ ChatPart!Announced'
  BY <1>2 DEF ChatPart!OpenOrList, ChatPart!InConvo, ChatPart!Asks, ChatPart!Announced
<1>10. ChatPart!OneCall'
  <2>1. /\ v1' # 0 /\ c.of = v1' /\ c.form.id = v3'.id /\ c.form.re \in {0, c.of}
        /\ c.form.text \in 0..v13'
        /\ c.what = "send" => \A s \in v8' : s.text # c.form.text
    BY <1>2, <1>3, <1>6, <1>7 DEF ChatPart!Texts
  <2> QED
    BY <1>2, <2>1 DEF ChatPart!OneCall
<1> QED
  BY <1>5, <1>8, <1>9, <1>10

\* The call that is answered is the only one, of the conversation that is open.
LEMMA OneAnswered ==
    ASSUME ChatPart!Kept, NEW c \in v6
    PROVE  /\ v6 \ {c} = {} /\ v1 # 0 /\ v1 \in Convos /\ c.of = v1 /\ v3.of = v1
           /\ c.form.id = v3.id /\ c.form.re \in {0, c.of} /\ c.form.text \in 0..v13
           /\ c.form.of \in Convos \cup {0}
           /\ c.what = "send" => \A s \in v8 : s.text # c.form.text
<1> USE DEF ChatPart!Kept
<1>1. /\ v6 \ {c} = {} /\ v1 # 0 /\ c.of = v1 /\ c.form.id = v3.id /\ c.form.re \in {0, c.of}
      /\ c.form.text \in 0..v13
      /\ c.what = "send" => \A s \in v8 : s.text # c.form.text
  BY DEF ChatPart!OneCall
<1>2. v1 \in Convos /\ v3.of = v1
  BY <1>1 DEF ChatPart!OpenOrList, ChatPart!InConvo
<1>3. c.form \in ChatPart!Forms
  BY DEF ChatPart!Typed
<1>4. c.form.of \in Convos \cup {0}
  BY <1>3 DEF ChatPart!Forms
<1> QED
  BY <1>1, <1>2, <1>4

\* A message has gone, and the form it was sent from is emptied.
LEMMA SendDoneKeeps ==
    ASSUME ChatPart!Kept, v14 = 0, v13 \in Nat, NEW c \in v6, ChatPart!SendDone(c)
    PROVE  ChatPart!Kept'
<1> USE DEF ChatPart!Kept
<1> DEFINE m == [to |-> c.of, by |-> c.form.of, text |-> c.form.text, re |-> c.form.re, k |-> c.k]
<1>1. /\ c.what = "send" /\ v6' = v6 \ {c} /\ v7' = [v7 EXCEPT ![c.of] = @ + 1] /\ v8' = v8 \cup {m}
      /\ ChatPart!Sent(c) /\ ChatPart!Again(c.of, v5)
      /\ UNCHANGED <<v2, v9, v10, v12, v13, v14>>
  BY DEF ChatPart!SendDone, ChatPart!Message, ChatPart!hist
<1>2. /\ v6 \ {c} = {} /\ v1 # 0 /\ v1 \in Convos /\ c.of = v1 /\ v3.of = v1
      /\ c.form.id = v3.id /\ c.form.re \in {0, c.of} /\ c.form.text \in 0..v13
      /\ \A s \in v8 : s.text # c.form.text
  BY <1>1, OneAnswered
<1>3. v3' = [v3 EXCEPT !.text = 0, !.re = 0]
  BY <1>1, <1>2 DEF ChatPart!Sent
<1>4. v3 \in ChatPart!Forms /\ v7 \in [Convos -> Nat] /\ v9 \in [Convos -> Nat]
  BY DEF ChatPart!Typed
<1>5. v3' \in ChatPart!Forms /\ v3'.of = v3.of /\ v3'.text = 0 /\ v3'.re = 0
  BY <1>3, <1>4 DEF ChatPart!Forms
<1>6. v7' \in [Convos -> Nat]
  BY <1>1, <1>2, <1>4
<1>7. ChatPart!OneCall'
  BY <1>1, <1>2 DEF ChatPart!OneCall
<1>8. ChatPart!Texts'
  BY <1>1, <1>2, <1>5 DEF ChatPart!Texts
<1>9. ChatPart!SentOnce'
  BY <1>1, <1>2 DEF ChatPart!SentOnce
<1>10. /\ v1' = v1
       /\ v5' \in [ChatPart!Asked -> Nat] /\ v5'[<<"messages", v1>>] > 0
       /\ \A a \in ChatPart!Asked : v5'[a] > 0 => v5[a] > 0 \/ a = <<"messages", v1>>
  <2>1. v1' = v1 /\ v5' = [v5 EXCEPT ![<<"messages", v1>>] = @ + 1]
    BY <1>1, <1>2 DEF ChatPart!Again
  <2>2. v5 \in [ChatPart!Asked -> Nat] /\ \A a \in ChatPart!Asked : v5[a] <= v5[a]
    BY DEF ChatPart!Typed
  <2> QED
    BY <1>2, <2>1, <2>2, AgainAsks
<1>11. v9' \in [Convos -> Nat] /\ v6' \subseteq v6 /\ v10' = v10 /\ v12' = v12 /\ v2' = v2 /\ v14' = 0
  BY <1>1, <1>4
<1> QED
  BY <1>1, <1>2, <1>5, <1>6, <1>7, <1>8, <1>9, <1>10, <1>11, AgainKeeps

\* A reaction is there.
LEMMA ReactedKeeps ==
    ASSUME ChatPart!Kept, v14 = 0, v13 \in Nat, NEW c \in v6, ChatPart!Reacted(c)
    PROVE  ChatPart!Kept'
<1> USE DEF ChatPart!Kept
<1>1. /\ v6' = v6 \ {c} /\ ChatPart!Again(c.of, v5)
      /\ UNCHANGED <<v2, v3, v7, v8, v9, v10, v12, v13, v14>>
  BY DEF ChatPart!Reacted, ChatPart!acct, ChatPart!hist
<1>2. v6 \ {c} = {} /\ v1 # 0 /\ c.of = v1
  BY OneAnswered
<1>3. v3' \in ChatPart!Forms /\ v7' \in [Convos -> Nat] /\ v9' \in [Convos -> Nat]
  BY <1>1 DEF ChatPart!Typed
<1>4. ChatPart!OneCall' /\ ChatPart!Texts' /\ ChatPart!SentOnce'
  BY <1>1, <1>2 DEF ChatPart!OneCall, ChatPart!Texts, ChatPart!SentOnce
<1>5. /\ v1' = v1
      /\ v5' \in [ChatPart!Asked -> Nat] /\ v5'[<<"messages", v1>>] > 0
      /\ \A a \in ChatPart!Asked : v5'[a] > 0 => v5[a] > 0 \/ a = <<"messages", v1>>
  <2>1. v1' = v1 /\ v5' = [v5 EXCEPT ![<<"messages", v1>>] = @ + 1]
    BY <1>1, <1>2 DEF ChatPart!Again
  <2>2. v5 \in [ChatPart!Asked -> Nat] /\ \A a \in ChatPart!Asked : v5[a] <= v5[a]
    BY DEF ChatPart!Typed
  <2> QED
    BY <1>2, <2>1, <2>2, AgainAsks
<1>6. v6' \subseteq v6 /\ v3'.of = v3.of
  BY <1>1 DEF ChatPart!Typed
<1> QED
  BY <1>1, <1>2, <1>3, <1>4, <1>5, <1>6, AgainKeeps

\* The conversation was left, as nothing was fetched, or an answer did not come.
LEMMA GoneKeeps ==
    ASSUME ChatPart!Kept, v14 = 0, v14' = 0, v13 \in Nat, v13' \in Nat, v13 <= v13', NEW c \in v6,
           ChatPart!Left(c) \/ ChatPart!CallFailed(c)
    PROVE  ChatPart!Kept'
<1> USE DEF ChatPart!Kept
<1>1. v6 \ {c} = {}
  BY OneAnswered
<1>2. CASE ChatPart!Left(c)
  <2>1. ~ChatPart!Fetching /\ v1' = 0 /\ ChatPart!Fetch("list", 0) /\ v6' = {}
    BY <1>1, <1>2 DEF ChatPart!Left, ChatPart!Crossed
  <2>2. UNCHANGED <<v2, v3, v7, v8, v9, v10, v12>>
    BY <1>2 DEF ChatPart!Left, ChatPart!acct, ChatPart!hist
  <2> QED
    BY <2>1, <2>2, ListFetched
<1>3. CASE ChatPart!CallFailed(c)
  <2>1. /\ v6' = {} /\ UNCHANGED <<v1, v2, v3, v4, v5, v7, v8, v9, v10, v12>>
    BY <1>1, <1>3 DEF ChatPart!CallFailed, ChatPart!Crossed, ChatPart!view, ChatPart!hist
  <2>2. ChatPart!Typed' /\ ChatPart!OneCall' /\ ChatPart!SentOnce'
    BY <2>1 DEF ChatPart!Typed, ChatPart!OneCall, ChatPart!SentOnce
  <2>3. 0..v13 \subseteq 0..v13'
    OBVIOUS
  <2>4. ChatPart!Texts'
    BY <2>1, <2>3 DEF ChatPart!Texts
  <2>5. ChatPart!OpenOrList' /\ ChatPart!Announced'
    BY <2>1 DEF ChatPart!OpenOrList, ChatPart!InConvo, ChatPart!Asks, ChatPart!Announced
  <2> QED
    BY <2>2, <2>4, <2>5
<1> QED
  BY <1>2, <1>3

\* Each step keeps what the messages rest on.
LEMMA StepChat == ChatPart!ChatInv /\ [ChatPart!Next]_ChatPart!vars => ChatPart!ChatInv'
<1> SUFFICES ASSUME ChatPart!ChatInv, [ChatPart!Next]_ChatPart!vars PROVE ChatPart!ChatInv'
  OBVIOUS
<1>1. CASE UNCHANGED ChatPart!vars
  <2>1. UNCHANGED <<v1, v2, v3, v4, v5, v6, v7, v8, v9, v10, v11, v12, v13, v14>>
    BY <1>1 DEF ChatPart!vars, ChatPart!view, ChatPart!acct, ChatPart!hist
  <2> QED
    BY <2>1 DEF ChatPart!ChatInv, ChatPart!Kept, ChatPart!GoesWhereTyped, ChatPart!Typed, ChatPart!OneCall,
       ChatPart!OpenOrList, ChatPart!Texts, ChatPart!SentOnce, ChatPart!Announced, ChatPart!InConvo,
       ChatPart!Asks
<1>2. CASE ChatPart!Next
  <2>1. v13 \in Nat /\ v13' \in Nat /\ v13 <= v13' /\ v14 \in Nat /\ v14' \in Nat /\ v14 <= v14'
    BY <1>2, StepCounts DEF ChatPart!ChatInv
  <2>2. ChatPart!GoesWhereTyped' /\ \A c \in v6' : c.what = "send" => c.of = c.form.of
    BY <1>2, StepSends
  <2>3. ASSUME v14' = 0 PROVE ChatPart!Kept'
    <3>1. v14 = 0 /\ ChatPart!Kept
      BY <2>1, <2>3 DEF ChatPart!ChatInv
    <3>2. ASSUME ChatPart!Crossed(TRUE) PROVE FALSE
      BY <2>3, <3>1, <3>2 DEF ChatPart!Crossed
    <3>3. CASE ChatPart!loadChat
      BY <2>1, <2>3, <3>1, <3>3, loadChatKeeps
    <3>4. CASE ChatPart!Listed
      BY <2>1, <3>1, <3>4, ListedKeeps
    <3>5. CASE ChatPart!updateChat
      BY <2>1, <3>1, <3>5, PollKeeps
    <3>6. CASE ChatPart!Type \/ ChatPart!setReplyingTo \/ ChatPart!clearReplyingTo
      BY <2>1, <3>1, <3>6, WriteKeeps
    <3>7. CASE ChatPart!Submit
      <4>1. v2.of = v3.of
        BY <3>1, <3>7 DEF ChatPart!Submit, ChatPart!Kept, ChatPart!OpenOrList
      <4> QED
        BY <2>1, <2>3, <3>1, <3>7, <4>1, CallKeeps DEF ChatPart!Submit, ChatPart!Recipient
    <3>8. CASE ChatPart!React \/ ChatPart!LeaveChat \/ ChatPart!DeleteMsg
      BY <2>1, <2>3, <3>1, <3>8, CallKeeps DEF ChatPart!React, ChatPart!LeaveChat, ChatPart!DeleteMsg,
         ChatPart!Call
    <3>9. ASSUME NEW c \in Convos, \/ ChatPart!openChatConvo(c) \/ ChatPart!OpenFromProfile(c)
                                   \/ ChatPart!Messages(c) \/ ChatPart!Polled(c) \/ ChatPart!News(c)
          PROVE  ChatPart!Kept'
      BY <2>1, <2>3, <3>1, <3>2, <3>9, OpenConvoKeeps, MessagesKeep, PolledKeeps, NewsKeeps
         DEF ChatPart!OpenFromProfile
    <3>10. ASSUME NEW a \in ChatPart!Asked, ChatPart!NotFetched(a) PROVE FALSE
      BY <3>2, <3>10 DEF ChatPart!NotFetched
    <3>11. ASSUME NEW c \in v6, ChatPart!SendDone(c) \/ ChatPart!Reacted(c) \/ ChatPart!Left(c)
                                \/ ChatPart!MsgDeleted(c) \/ ChatPart!CallFailed(c)
           PROVE  ChatPart!Kept'
      BY <2>1, <2>3, <3>1, <3>2, <3>11, SendDoneKeeps, ReactedKeeps, GoneKeeps DEF ChatPart!MsgDeleted
    <3> QED
      BY <1>2, <3>3, <3>4, <3>5, <3>6, <3>7, <3>8, <3>9, <3>10, <3>11 DEF ChatPart!Next
  <2> QED
    BY <2>1, <2>2, <2>3 DEF ChatPart!ChatInv
<1> QED
  BY <1>1, <1>2

\* What the invariant says of the messages.
LEMMA ChatTells ==
    ChatPart!ChatInv => /\ ChatPart!GoesWhereTyped /\ ChatPart!ScreenIsOpen /\ ChatPart!RepliesStay
                        /\ ChatPart!SentOnce /\ ChatPart!ReadIsShown /\ ChatPart!EventIsEnough
<1> SUFFICES ASSUME ChatPart!ChatInv
             PROVE  /\ ChatPart!GoesWhereTyped /\ ChatPart!ScreenIsOpen /\ ChatPart!RepliesStay
                    /\ ChatPart!SentOnce /\ ChatPart!ReadIsShown /\ ChatPart!EventIsEnough
  OBVIOUS
<1>1. v14 = 0 => ChatPart!Kept
  BY DEF ChatPart!ChatInv
<1>2. ChatPart!GoesWhereTyped
  BY DEF ChatPart!ChatInv
<1>3. ChatPart!RepliesStay
  BY <1>1 DEF ChatPart!RepliesStay, ChatPart!Kept, ChatPart!Texts
<1>4. ChatPart!SentOnce
  BY <1>1 DEF ChatPart!SentOnce, ChatPart!Kept
<1>5. ASSUME v14 = 0, ~ChatPart!Out
      PROVE  /\ ~ChatPart!Asks("messages") /\ ~ChatPart!Asks("poll") /\ ~ChatPart!Asks("list")
             /\ v1 \in Convos \cup {0} /\ ChatPart!Kept
  <2>1. v1 \in Convos \cup {0} /\ ChatPart!Kept
    BY <1>1, <1>5 DEF ChatPart!Kept, ChatPart!OpenOrList
  <2> QED
    BY <1>5, <2>1, CanAsk DEF ChatPart!Out, ChatPart!Fetching, ChatPart!Asks
<1>6. ChatPart!ScreenIsOpen
  BY <1>5 DEF ChatPart!ScreenIsOpen, ChatPart!Kept, ChatPart!OpenOrList, ChatPart!InConvo
<1>7. ChatPart!ReadIsShown
  BY <1>5 DEF ChatPart!ReadIsShown, ChatPart!Kept, ChatPart!Announced
<1>8. ChatPart!EventIsEnough
  <2>1. ASSUME v14 = 0, ~ChatPart!Out, ChatPart!InConvo PROVE v2.of = v1
    BY <1>5, <2>1 DEF ChatPart!Kept, ChatPart!OpenOrList
  <2> QED
    BY <1>5, <2>1 DEF ChatPart!EventIsEnough, ChatPart!Kept, ChatPart!Announced
<1> QED
  BY <1>2, <1>3, <1>4, <1>6, <1>7, <1>8

-----------------------------------------------------------------------------
(***************************************************************************)
(* Subscriptions.  Their state: v1 sub, v2 shown, v3 tick, v4 handlers,    *)
(* v5 puts, v6 n.                                                          *)
(***************************************************************************)
\* The dialog as it comes has no handlers,
LEMMA InitSubscription == SubscriptionPart!Init => SubscriptionPart!SubInv
BY DEF SubscriptionPart!Init, SubscriptionPart!SubInv, SubscriptionPart!SubOfShown

\* and however it is opened, sent, answered and closed it has those of the one it shows.
LEMMA StepSubscription ==
    SubscriptionPart!SubInv /\ [SubscriptionPart!Next]_SubscriptionPart!vars
      => SubscriptionPart!SubInv'
<1> SUFFICES ASSUME SubscriptionPart!SubInv, [SubscriptionPart!Next]_SubscriptionPart!vars
             PROVE  SubscriptionPart!SubInv'
  OBVIOUS
<1> USE DEF SubscriptionPart!SubInv, SubscriptionPart!SubOfShown
<1>1. ASSUME NEW p \in People, SubscriptionPart!OpenSub(p) PROVE SubscriptionPart!SubInv'
  BY <1>1, SetsAssumption DEF SubscriptionPart!OpenSub
<1>2. CASE SubscriptionPart!Tick \/ SubscriptionPart!CloseSub
  BY <1>2 DEF SubscriptionPart!Tick, SubscriptionPart!CloseSub
<1>3. CASE SubscriptionPart!SubmitSub
  BY <1>3 DEF SubscriptionPart!SubmitSub
<1>4. ASSUME NEW c \in v5, SubscriptionPart!PutDone(c) \/ SubscriptionPart!PutFailed(c)
      PROVE  SubscriptionPart!SubInv'
  BY <1>4 DEF SubscriptionPart!PutDone, SubscriptionPart!PutFailed
<1>5. CASE UNCHANGED SubscriptionPart!vars
  BY <1>5 DEF SubscriptionPart!vars
<1> QED
  BY <1>1, <1>2, <1>3, <1>4, <1>5 DEF SubscriptionPart!Next

-----------------------------------------------------------------------------
(***************************************************************************)
(* The editor.  Its state: v1 record, v2 open, v3 opening, v4 form,        *)
(* v5 save, v6 ok, v7 fair, v8 n.                                          *)
(***************************************************************************)
\* A set of numbers has a least one.
LEMMA MinOfSome ==
    ASSUME NEW S \in SUBSET Nat, S # {}
    PROVE  EditorPart!Min(S) \in S /\ \A y \in S : EditorPart!Min(S) <= y
<1> DEFINE Less == {ss \in Nat \X Nat : ss[1] < ss[2]}
<1>1. IsWellFoundedOn(Less, Nat)
  BY NatLessThanWellFounded DEF OpToRel
<1>2. \E x \in S : \A y \in S : ~(<<y, x>> \in Less)
  <2> HIDE DEF Less
  <2> QED
    BY <1>1, WFMin
<1>3. ASSUME NEW x \in Nat, NEW y \in Nat, ~(<<y, x>> \in Less) PROVE x <= y
  <2>1. ~(y < x)
    BY <1>3
  <2> QED
    BY <2>1
<1> HIDE DEF Less
<1>4. \E x \in S : \A y \in S : x <= y
  BY <1>2, <1>3
<1> QED
  BY <1>4 DEF EditorPart!Min

\* The next label that differs, if any.
LEMMA LabelIs ==
    ASSUME NEW f, NEW i \in Nat
    PROVE  LET d == EditorPart!Differ(f, i) IN
           IF d = {} THEN \A l \in Labels : l >= i => (l \in f.checked <=> l \in f.initial)
           ELSE /\ EditorPart!Min(d) \in Labels
                /\ \A l \in Labels : i <= l /\ l < EditorPart!Min(d) => (l \in f.checked <=> l \in f.initial)
<1> DEFINE d == EditorPart!Differ(f, i)
<1>1. \A l \in Labels : l \in d <=> l >= i /\ ~(l \in f.checked <=> l \in f.initial)
  BY DEF EditorPart!Differ
<1>2. d \subseteq Labels /\ d \in SUBSET Nat
  BY LabelsAssumption DEF EditorPart!Differ
<1>3. CASE d = {}
  BY <1>1, <1>3
<1>4. CASE d # {}
  <2>1. EditorPart!Min(d) \in d /\ \A y \in d : EditorPart!Min(d) <= y
    BY <1>2, <1>4, MinOfSome
  <2>2. ASSUME NEW l \in Labels, i <= l, l < EditorPart!Min(d)
        PROVE  l \in f.checked <=> l \in f.initial
    <3>1. l \notin d
      BY <1>2, <2>1, <2>2, LabelsAssumption
    <3>2. l >= i
      BY <2>2, LabelsAssumption
    <3> QED
      BY <1>1, <3>1, <3>2
  <2> QED
    BY <1>2, <1>4, <2>1, <2>2
<1> QED
  BY <1>3, <1>4

\* No save is out.
LEMMA NothingSaved == EditorPart!NoSave \in EditorPart!Saves /\ EditorPart!NoSave.at = ""
BY DEF EditorPart!NoSave, EditorPart!Saves

\* The editor as it comes.
LEMMA InitEditor == EditorPart!Init => EditorPart!EditorInv
<1> SUFFICES ASSUME EditorPart!Init PROVE EditorPart!EditorInv
  OBVIOUS
<1>1. EditorPart!Typed
  <2>1. v1 = [name |-> 0, picture |-> 0, labels |-> {1}] /\ {1} \in SUBSET Labels
    BY LabelsAssumption DEF EditorPart!Init
  <2>2. v1 \in [name : 0..1, picture : 0..1, labels : SUBSET Labels]
    BY <2>1
  <2>3. v4 \in EditorPart!Forms
    BY DEF EditorPart!Init, EditorPart!Forms
  <2> QED
    BY <2>2, <2>3, NothingSaved DEF EditorPart!Init, EditorPart!Typed
<1>2. EditorPart!Staged /\ EditorPart!InitialIsRead /\ EditorPart!SavedSoFar /\ EditorPart!SavedIsForm
  BY DEF EditorPart!Init, EditorPart!Staged, EditorPart!InitialIsRead, EditorPart!SavedSoFar,
     EditorPart!SavedIsForm, EditorPart!NoSave
<1> QED
  BY <1>1, <1>2 DEF EditorPart!EditorInv

\* It is opened,
LEMMA OpenEditorKeeps == EditorPart!EditorInv /\ EditorPart!OpenEditor => EditorPart!EditorInv'
<1> SUFFICES ASSUME EditorPart!EditorInv, EditorPart!OpenEditor PROVE EditorPart!EditorInv'
  OBVIOUS
<1> USE DEF EditorPart!EditorInv
<1>1. /\ ~v2 /\ v3' = TRUE /\ v6' = FALSE /\ v7' = (v5 = EditorPart!NoSave)
      /\ v4' = [name |-> v1.name, picture |-> 0, checked |-> {}, initial |-> {}]
      /\ UNCHANGED <<v1, v2, v5, v8>>
  BY DEF EditorPart!OpenEditor
<1>2. EditorPart!Typed'
  <2>1. v1.name \in 0..1
    BY DEF EditorPart!Typed
  <2>2. v4' \in EditorPart!Forms
    BY <1>1, <2>1 DEF EditorPart!Forms
  <2> QED
    BY <1>1, <2>2, NothingSaved DEF EditorPart!Typed
<1>3. EditorPart!Staged'
  BY <1>1 DEF EditorPart!Staged
<1>5. EditorPart!InitialIsRead' /\ EditorPart!SavedIsForm'
  BY <1>1 DEF EditorPart!InitialIsRead, EditorPart!SavedIsForm
<1>4. EditorPart!SavedSoFar'
  BY <1>1, NothingSaved DEF EditorPart!SavedSoFar
<1> QED
  BY <1>2, <1>3, <1>4, <1>5

\* its labels come,
LEMMA GotLabelsKeep ==
    ASSUME EditorPart!EditorInv, NEW read \in BOOLEAN, EditorPart!GotLabels(read)
    PROVE  EditorPart!EditorInv'
<1> DEFINE ls == IF read THEN v1.labels ELSE {}
<1> USE DEF EditorPart!EditorInv
<1>1. /\ v3 /\ v3' = FALSE /\ v2' = TRUE /\ v7' = (v7 /\ ls = v1.labels)
      /\ v4' = [v4 EXCEPT !.checked = v4.checked \cup ls, !.initial = v4.initial \cup ls]
      /\ UNCHANGED <<v1, v5, v6, v8>>
  BY DEF EditorPart!GotLabels
<1>2. ls \subseteq Labels
  BY DEF EditorPart!Typed
<1> HIDE DEF ls
<1>3. /\ v4'.name = v4.name /\ v4'.picture = v4.picture /\ v4'.checked = v4.checked \cup ls
      /\ v4'.initial = v4.initial \cup ls /\ v4' \in EditorPart!Forms
  BY <1>1, <1>2 DEF EditorPart!Typed, EditorPart!Forms
<1>4. EditorPart!Typed'
  BY <1>1, <1>3 DEF EditorPart!Typed, EditorPart!NoSave
<1>5. ~v6 /\ ~v2
  BY <1>1 DEF EditorPart!Staged
<1>6. v7 => v5 = EditorPart!NoSave
  BY <1>5 DEF EditorPart!Staged
<1>7. EditorPart!Staged'
  BY <1>1, <1>5, <1>6 DEF EditorPart!Staged, EditorPart!NoSave
<1>8. EditorPart!InitialIsRead'
  BY <1>1, <1>3, <1>5 DEF EditorPart!InitialIsRead
<1>9. EditorPart!SavedIsForm'
  BY <1>1, <1>5 DEF EditorPart!SavedIsForm
<1>10. EditorPart!SavedSoFar'
  BY <1>1, <1>6, NothingSaved DEF EditorPart!SavedSoFar
<1> QED
  BY <1>4, <1>7, <1>8, <1>9, <1>10

\* what it holds is changed,
LEMMA EditProfileKeeps ==
    ASSUME EditorPart!EditorInv, NEW f \in EditorPart!Forms, f.initial = v4.initial, EditorPart!Edit(f)
    PROVE  EditorPart!EditorInv'
<1> USE DEF EditorPart!EditorInv
<1>1. v2 /\ v4' = f /\ v7' = (v7 /\ v5 = EditorPart!NoSave) /\ UNCHANGED <<v1, v2, v3, v5, v6>>
  BY DEF EditorPart!Edit
<1>2. ~v6 /\ ~v3
  BY <1>1 DEF EditorPart!Staged
<1>3. EditorPart!Typed' /\ EditorPart!Staged'
  BY <1>1 DEF EditorPart!Typed, EditorPart!Staged
<1>4. EditorPart!InitialIsRead' /\ EditorPart!SavedIsForm'
  BY <1>1, <1>2 DEF EditorPart!InitialIsRead, EditorPart!SavedIsForm
<1>5. EditorPart!SavedSoFar'
  BY <1>1, NothingSaved DEF EditorPart!SavedSoFar
<1> QED
  BY <1>3, <1>4, <1>5

LEMMA EditsKeep ==
    ASSUME EditorPart!EditorInv,
           \/ EditorPart!EditName \/ EditorPart!EditPicture
           \/ \E l \in Labels : EditorPart!EditLabel(l)
    PROVE  EditorPart!EditorInv'
<1>0. v4 \in EditorPart!Forms
  BY DEF EditorPart!EditorInv, EditorPart!Typed
<1>1. CASE EditorPart!EditName
  <2>1. /\ [v4 EXCEPT !.name = 1] \in EditorPart!Forms
        /\ [v4 EXCEPT !.name = 1].initial = v4.initial
    BY <1>0 DEF EditorPart!Forms
  <2> QED
    BY <1>1, <2>1, EditProfileKeeps DEF EditorPart!EditName
<1>2. CASE EditorPart!EditPicture
  <2>1. /\ [v4 EXCEPT !.picture = 1] \in EditorPart!Forms
        /\ [v4 EXCEPT !.picture = 1].initial = v4.initial
    BY <1>0 DEF EditorPart!Forms
  <2> QED
    BY <1>2, <2>1, EditProfileKeeps DEF EditorPart!EditPicture
<1>3. ASSUME NEW l \in Labels, EditorPart!EditLabel(l) PROVE EditorPart!EditorInv'
  <2> DEFINE g == [v4 EXCEPT !.checked = IF l \in @ THEN @ \ {l} ELSE @ \cup {l}]
  <2>1. g \in EditorPart!Forms /\ g.initial = v4.initial
    BY <1>0 DEF EditorPart!Forms
  <2>2. EditorPart!Edit(g)
    BY <1>3 DEF EditorPart!EditLabel
  <2> HIDE DEF g
  <2> QED
    BY <2>1, <2>2, EditProfileKeeps
<1> QED
  BY <1>1, <1>2, <1>3

\* it is closed, and sent;
LEMMA CloseEditorKeeps == EditorPart!EditorInv /\ EditorPart!CloseEditor => EditorPart!EditorInv'
<1> SUFFICES ASSUME EditorPart!EditorInv, EditorPart!CloseEditor PROVE EditorPart!EditorInv'
  OBVIOUS
<1> USE DEF EditorPart!EditorInv
<1>1. /\ v2 /\ v2' = FALSE /\ v7' = (v7 /\ v5 = EditorPart!NoSave)
      /\ UNCHANGED <<v1, v3, v4, v5, v6, v8>>
  BY DEF EditorPart!CloseEditor
<1>2. EditorPart!Typed' /\ EditorPart!Staged'
  BY <1>1 DEF EditorPart!Typed, EditorPart!Staged, EditorPart!NoSave
<1>3. EditorPart!InitialIsRead' /\ EditorPart!SavedIsForm' /\ EditorPart!SavedSoFar'
  BY <1>1 DEF EditorPart!InitialIsRead, EditorPart!SavedIsForm, EditorPart!SavedSoFar, EditorPart!Staged,
     EditorPart!NoSave, EditorPart!PictureIsSaved, EditorPart!Passed
<1> QED
  BY <1>2, <1>3

LEMMA SaveClickKeeps == EditorPart!EditorInv /\ EditorPart!SaveClick => EditorPart!EditorInv'
<1> SUFFICES ASSUME EditorPart!EditorInv, EditorPart!SaveClick PROVE EditorPart!EditorInv'
  OBVIOUS
<1> USE DEF EditorPart!EditorInv
<1>1. /\ v2 /\ v5' = [at |-> "name", label |-> 0, add |-> FALSE, name |-> v4.name]
      /\ UNCHANGED <<v1, v2, v3, v4, v6, v7>>
  BY DEF EditorPart!SaveClick, EditorPart!NoSave
<1>2. EditorPart!Typed' /\ EditorPart!Staged'
  BY <1>1 DEF EditorPart!Typed, EditorPart!Forms, EditorPart!Saves, EditorPart!Staged, EditorPart!NoSave
<1>3. EditorPart!InitialIsRead' /\ EditorPart!SavedIsForm' /\ EditorPart!SavedSoFar'
  BY <1>1 DEF EditorPart!InitialIsRead, EditorPart!SavedIsForm, EditorPart!SavedSoFar
<1> QED
  BY <1>2, <1>3

\* the name is written,
LEMMA UpdateProfileKeeps ==
    ASSUME EditorPart!EditorInv, NEW read \in BOOLEAN, EditorPart!UpdateProfile(read)
    PROVE  EditorPart!EditorInv'
<1> USE DEF EditorPart!EditorInv
<1>1. /\ v5.at = "name" /\ v5' = [v5 EXCEPT !.at = "picture"] /\ v7' = (v7 /\ v1'.labels = v1.labels)
      /\ v1' = (IF read THEN [v1 EXCEPT !.name = v5.name]
                ELSE [name |-> v5.name, picture |-> 0, labels |-> {}])
      /\ UNCHANGED <<v2, v3, v4, v6, v8>>
  BY DEF EditorPart!UpdateProfile, EditorPart!Written
<1>2. v1'.name = v5.name /\ v1' \in [name : 0..1, picture : 0..1, labels : SUBSET Labels]
  <2>1. v5.name \in 0..1 /\ v1 \in [name : 0..1, picture : 0..1, labels : SUBSET Labels]
    BY DEF EditorPart!Typed, EditorPart!Saves
  <2>2. CASE read
    BY <1>1, <2>1, <2>2
  <2>3. CASE ~read
    BY <1>1, <2>1, <2>3
  <2> QED
    BY <2>2, <2>3
<1>3. /\ v5'.at = "picture" /\ v5'.label = v5.label /\ v5'.add = v5.add /\ v5'.name = v5.name
      /\ v5' \in EditorPart!Saves
  BY <1>1 DEF EditorPart!Typed, EditorPart!Saves
<1>4. v5 # EditorPart!NoSave /\ v5' # EditorPart!NoSave
  BY <1>1, <1>3, NothingSaved
<1>5. EditorPart!Typed' /\ EditorPart!Staged'
  BY <1>1, <1>2, <1>3, <1>4 DEF EditorPart!Typed, EditorPart!Staged
<1>6. ~v6
  BY <1>4 DEF EditorPart!Staged
<1>7. EditorPart!InitialIsRead' /\ EditorPart!SavedIsForm'
  BY <1>1, <1>6 DEF EditorPart!InitialIsRead, EditorPart!SavedIsForm
<1>8. EditorPart!SavedSoFar'
  BY <1>1, <1>2, <1>3 DEF EditorPart!SavedSoFar
<1> QED
  BY <1>5, <1>7, <1>8

\* and on to the next label, or the end.
LEMMA LabelledKeeps ==
    ASSUME EditorPart!EditorInv, v5 # EditorPart!NoSave, NEW f \in EditorPart!Forms, NEW i \in Nat,
           EditorPart!Labelled(f, i), v1' \in [name : 0..1, picture : 0..1, labels : SUBSET Labels],
           v1'.name = v1.name, UNCHANGED <<v3, v7>>, v5.at \in {"picture", "label"},
           f.name = v4.name, f.picture = v4.picture,
           v7 => /\ v1'.labels = f.initial
                 /\ f.picture # 0 => v1'.picture = f.picture
                 /\ \A m \in Labels : m < i => (m \in f.checked <=> m \in f.initial)
    PROVE  EditorPart!EditorInv'
<1> DEFINE d == EditorPart!Differ(f, i)
           l == EditorPart!Min(d)
<1>1. /\ v4' = f
      /\ IF d # {} THEN /\ v5' = [v5 EXCEPT !.at = "label", !.label = l, !.add = l \in f.checked]
                        /\ UNCHANGED <<v2, v6>>
         ELSE v5' = EditorPart!NoSave /\ v2' = FALSE /\ v6' = ~v3
  BY DEF EditorPart!Labelled
<1>2. /\ d # {} => /\ l \in Labels
                   /\ \A m \in Labels : i <= m /\ m < l => (m \in f.checked <=> m \in f.initial)
      /\ d = {} => \A m \in Labels : m >= i => (m \in f.checked <=> m \in f.initial)
  BY LabelIs
<1>3. ~v6 /\ v5 \in EditorPart!Saves /\ (v7 => v2) /\ ~(v2 /\ v3)
  BY DEF EditorPart!EditorInv, EditorPart!Staged, EditorPart!Typed
<1>4. v7 => v1'.name = f.name
  BY DEF EditorPart!EditorInv, EditorPart!SavedSoFar
<1> HIDE DEF d, l
<1>5. CASE d # {}
  <2>1. /\ v5' \in EditorPart!Saves /\ v5'.at = "label" /\ v5'.label = l /\ v5'.add = (l \in f.checked)
    <3> DEFINE add == l \in f.checked
    <3>1. v5' = [v5 EXCEPT !.at = "label", !.label = l, !.add = add] /\ add \in BOOLEAN
      BY <1>1, <1>5
    <3> HIDE DEF add
    <3>2. v5' \in EditorPart!Saves /\ v5'.at = "label" /\ v5'.label = l /\ v5'.add = add
      BY <1>2, <1>3, <1>5, <3>1 DEF EditorPart!Saves
    <3> QED
      BY <3>2 DEF add
  <2>2. EditorPart!Typed' /\ EditorPart!Staged'
    BY <1>1, <1>2, <1>3, <1>5, <2>1, NothingSaved DEF EditorPart!Typed, EditorPart!Staged
  <2>3. EditorPart!InitialIsRead' /\ EditorPart!SavedIsForm'
    BY <1>1, <1>3, <1>5 DEF EditorPart!InitialIsRead, EditorPart!SavedIsForm
  <2>4. v7 => \A m \in Labels : m < l => (m \in f.checked <=> m \in f.initial)
    <3> SUFFICES ASSUME v7, NEW m \in Labels, m < l PROVE m \in f.checked <=> m \in f.initial
      OBVIOUS
    <3>1. m < i \/ i <= m
      BY LabelsAssumption
    <3> QED
      BY <1>2, <1>5, <3>1
  <2>5. EditorPart!SavedSoFar'
    BY <1>1, <1>2, <1>4, <1>5, <2>1, <2>4
    DEF EditorPart!SavedSoFar, EditorPart!Passed, EditorPart!PictureIsSaved
  <2> QED
    BY <2>2, <2>3, <2>5 DEF EditorPart!EditorInv
<1>6. CASE d = {}
  <2>1. v5' = EditorPart!NoSave /\ v2' = FALSE /\ v6' = ~v3
    BY <1>1, <1>6
  <2>2. EditorPart!Typed'
    BY <1>1, <2>1, NothingSaved DEF EditorPart!Typed
  <2>3. EditorPart!Staged'
    BY <2>1 DEF EditorPart!Staged
  <2>4. v7 => f.checked = f.initial
    <3> SUFFICES ASSUME v7 PROVE f.checked = f.initial
      OBVIOUS
    <3>1. f.checked \subseteq Labels /\ f.initial \subseteq Labels
      BY DEF EditorPart!Forms
    <3>2. \A m \in Labels : m \in f.checked <=> m \in f.initial
      BY <1>2, <1>6, LabelsAssumption
    <3> QED
      BY <3>1, <3>2
  <2>5. EditorPart!InitialIsRead' /\ EditorPart!SavedIsForm'
    BY <1>1, <1>3, <1>4, <2>1, <2>4 DEF EditorPart!InitialIsRead, EditorPart!SavedIsForm
  <2>6. EditorPart!SavedSoFar'
    BY <2>1, NothingSaved DEF EditorPart!SavedSoFar
  <2> QED
    BY <2>2, <2>3, <2>5, <2>6 DEF EditorPart!EditorInv
<1> QED
  BY <1>5, <1>6

\* The picture is written,
LEMMA PictureKeeps == EditorPart!EditorInv /\ EditorPart!Picture => EditorPart!EditorInv'
<1> SUFFICES ASSUME EditorPart!EditorInv, EditorPart!Picture PROVE EditorPart!EditorInv'
  OBVIOUS
<1>1. /\ v5.at = "picture" /\ EditorPart!Labelled(v4, 1) /\ UNCHANGED <<v3, v7, v8>>
      /\ v1' = [v1 EXCEPT !.picture = IF v4.picture # 0 THEN v4.picture ELSE v1.picture]
  BY DEF EditorPart!Picture, EditorPart!Written
<1>2. /\ v4 \in EditorPart!Forms /\ v1 \in [name : 0..1, picture : 0..1, labels : SUBSET Labels]
      /\ v5 # EditorPart!NoSave /\ v4.picture \in 0..1
  BY <1>1, NothingSaved DEF EditorPart!EditorInv, EditorPart!Typed, EditorPart!Forms
<1>3. /\ v1' \in [name : 0..1, picture : 0..1, labels : SUBSET Labels] /\ v1'.name = v1.name
      /\ v1'.labels = v1.labels /\ (v4.picture # 0 => v1'.picture = v4.picture)
  BY <1>1, <1>2
<1>4. v7 => v1.labels = v4.initial
  BY <1>2 DEF EditorPart!EditorInv, EditorPart!InitialIsRead, EditorPart!Staged
<1>5. \A m \in Labels : ~(m < 1)
  BY LabelsAssumption
<1> QED
  BY <1>1, <1>2, <1>3, <1>4, <1>5, LabelledKeeps

\* a label,
LEMMA SetLabelKeeps == EditorPart!EditorInv /\ EditorPart!SetLabel => EditorPart!EditorInv'
<1> SUFFICES ASSUME EditorPart!EditorInv, EditorPart!SetLabel PROVE EditorPart!EditorInv'
  OBVIOUS
<1> DEFINE l == v5.label
           f == EditorPart!Noted
<1>1. /\ v5.at = "label" /\ EditorPart!Labelled(f, l + 1) /\ UNCHANGED <<v3, v7, v8>>
      /\ v1' = [v1 EXCEPT !.labels = IF v5.add THEN v1.labels \cup {l} ELSE v1.labels \ {l}]
  BY DEF EditorPart!SetLabel, EditorPart!Written
<1>2. /\ v4 \in EditorPart!Forms /\ v1 \in [name : 0..1, picture : 0..1, labels : SUBSET Labels]
      /\ v5 # EditorPart!NoSave /\ v5 \in EditorPart!Saves /\ l \in Labels /\ l \in Nat
  BY <1>1, NothingSaved, LabelsAssumption
  DEF EditorPart!EditorInv, EditorPart!Typed, EditorPart!Saves
<1>3. v7 => /\ v5.add = (l \in v4.checked) /\ v1.labels = v4.initial
            /\ EditorPart!Passed(l) /\ EditorPart!PictureIsSaved
  BY <1>1, <1>2 DEF EditorPart!EditorInv, EditorPart!InitialIsRead, EditorPart!Staged, EditorPart!SavedSoFar
<1>4. v1.labels \in SUBSET Labels /\ v4.initial \in SUBSET Labels
  BY <1>2 DEF EditorPart!Forms
<1>5. f = [v4 EXCEPT !.initial = IF v5.add THEN v4.initial \cup {l} ELSE v4.initial \ {l}]
  BY DEF EditorPart!Noted
<1> HIDE DEF l, f
<1>6. /\ f \in EditorPart!Forms /\ f.name = v4.name /\ f.picture = v4.picture /\ f.checked = v4.checked
      /\ f.initial = (IF v5.add THEN v4.initial \cup {l} ELSE v4.initial \ {l})
  <2>1. (IF v5.add THEN v4.initial \cup {l} ELSE v4.initial \ {l}) \in SUBSET Labels
    BY <1>2, <1>4
  <2> QED
    BY <1>2, <1>5, <2>1 DEF EditorPart!Forms
<1>7. /\ v1' \in [name : 0..1, picture : 0..1, labels : SUBSET Labels] /\ v1'.name = v1.name
      /\ v1'.labels = (IF v5.add THEN v1.labels \cup {l} ELSE v1.labels \ {l})
      /\ v1'.picture = v1.picture
  <2>1. (IF v5.add THEN v1.labels \cup {l} ELSE v1.labels \ {l}) \in SUBSET Labels
    BY <1>2, <1>4
  <2> QED
    BY <1>1, <1>2, <2>1
<1>8. v7 => \A m \in Labels : m < l + 1 => (m \in f.checked <=> m \in f.initial)
  <2> SUFFICES ASSUME v7, NEW m \in Labels, m < l + 1 PROVE m \in f.checked <=> m \in f.initial
    OBVIOUS
  <2>1. m < l \/ m = l
    BY <1>2, LabelsAssumption
  <2>2. CASE m = l
    BY <1>3, <1>6, <2>2
  <2>3. CASE m < l
    <3>1. m # l
      BY <1>2, <2>3, LabelsAssumption
    <3> QED
      BY <1>3, <1>6, <2>3, <3>1 DEF EditorPart!Passed
  <2> QED
    BY <2>1, <2>2, <2>3
<1>9. v7 => v1'.labels = f.initial /\ (f.picture # 0 => v1'.picture = f.picture)
  BY <1>3, <1>6, <1>7 DEF EditorPart!PictureIsSaved
<1>10. l + 1 \in Nat
  BY <1>2
<1> QED
  BY <1>1, <1>2, <1>6, <1>7, <1>8, <1>9, <1>10, LabelledKeeps

\* or a call fails.
LEMMA SaveFailedKeeps ==
    ASSUME EditorPart!EditorInv, NEW done \in BOOLEAN, EditorPart!SaveFailed(done)
    PROVE  EditorPart!EditorInv'
<1>1. /\ v5 # EditorPart!NoSave /\ v5' = EditorPart!NoSave /\ v7' = (v7 /\ v1'.labels = v1.labels)
      /\ UNCHANGED <<v2, v3, v4, v6>> /\ (v1' = EditorPart!Written(TRUE) \/ v1' = v1)
  BY DEF EditorPart!SaveFailed
<1>2. /\ v4 \in EditorPart!Forms /\ v1 \in [name : 0..1, picture : 0..1, labels : SUBSET Labels]
      /\ v5 \in EditorPart!Saves /\ (v5.at = "label" => v5.label \in Labels) /\ v5.at # ""
  BY <1>1 DEF EditorPart!EditorInv, EditorPart!Typed
<1>3. v5.name \in 0..1 /\ v4.picture \in 0..1 /\ v1.labels \in SUBSET Labels /\ v1.picture \in 0..1
  BY <1>2 DEF EditorPart!Forms, EditorPart!Saves
<1>4. v1' \in [name : 0..1, picture : 0..1, labels : SUBSET Labels]
  <2>1. CASE v1' = v1
    BY <1>2, <2>1
  <2>2. CASE v1' = EditorPart!Written(TRUE)
    <3>1. CASE v5.at = "name"
      BY <1>2, <1>3, <2>2, <3>1 DEF EditorPart!Written
    <3>2. CASE v5.at = "picture"
      BY <1>2, <1>3, <2>2, <3>2 DEF EditorPart!Written
    <3>3. CASE v5.at = "label"
      <4>1. (IF v5.add THEN v1.labels \cup {v5.label} ELSE v1.labels \ {v5.label}) \in SUBSET Labels
        BY <1>2, <1>3, <3>3
      <4>2. v1' = [v1 EXCEPT !.labels = IF v5.add THEN v1.labels \cup {v5.label}
                                                  ELSE v1.labels \ {v5.label}]
        BY <2>2, <3>3 DEF EditorPart!Written
      <4> QED
        BY <1>2, <4>1, <4>2
    <3> QED
      BY <1>2, <3>1, <3>2, <3>3 DEF EditorPart!Saves
  <2> QED
    BY <1>1, <2>1, <2>2
<1>5. EditorPart!Typed'
  BY <1>1, <1>2, <1>4, NothingSaved DEF EditorPart!Typed
<1>6. ~v6
  BY <1>1 DEF EditorPart!EditorInv, EditorPart!Staged
<1>7. EditorPart!Staged' /\ EditorPart!SavedIsForm'
  BY <1>1, <1>6 DEF EditorPart!EditorInv, EditorPart!Staged, EditorPart!SavedIsForm
<1>8. EditorPart!InitialIsRead'
  BY <1>1, <1>6 DEF EditorPart!EditorInv, EditorPart!InitialIsRead
<1>9. EditorPart!SavedSoFar'
  BY <1>1, NothingSaved DEF EditorPart!SavedSoFar
<1> QED
  BY <1>5, <1>7, <1>8, <1>9 DEF EditorPart!EditorInv

\* Each step of the editor keeps what it rests on.
LEMMA StepEditor ==
    EditorPart!EditorInv /\ [EditorPart!Next]_EditorPart!vars => EditorPart!EditorInv'
<1> SUFFICES ASSUME EditorPart!EditorInv, [EditorPart!Next]_EditorPart!vars
             PROVE  EditorPart!EditorInv'
  OBVIOUS
<1>1. CASE UNCHANGED EditorPart!vars
  BY <1>1 DEF EditorPart!vars, EditorPart!EditorInv, EditorPart!Typed, EditorPart!Staged,
     EditorPart!InitialIsRead, EditorPart!SavedSoFar, EditorPart!SavedIsForm, EditorPart!Passed,
     EditorPart!PictureIsSaved
<1>2. CASE EditorPart!Next
  BY <1>2, OpenEditorKeeps, GotLabelsKeep, EditsKeep, CloseEditorKeeps, SaveClickKeeps,
     UpdateProfileKeeps, PictureKeeps, SetLabelKeeps, SaveFailedKeeps DEF EditorPart!Next
<1> QED
  BY <1>1, <1>2

-----------------------------------------------------------------------------
(***************************************************************************)
(* Profiles.  Their state: v1 tab, v2 who, v3 mode, v4 header, v5 box,     *)
(* v6 content, v7 rows, v8 kept, v9 cursor, v10 last, v11 busy, v12 loads, *)
(* v13 ask, v14 calls, v15 follows, v16 muted, v17 n, v18 clean,           *)
(* v19 tangled, v20 spilled.                                               *)
(***************************************************************************)
\* What a header can say.
LEMMA HeadersAre ==
    /\ ProfilePart!NoHeader \in ProfilePart!Headers /\ ProfilePart!NoHeader.of = 0
    /\ \A p \in People : /\ ProfilePart!Buttons(p) \in ProfilePart!Headers
                         /\ ProfilePart!Buttons(p).of = p
                         /\ ProfilePart!Buttons(p).follow = (v15[p] > 0)
<1>1. ProfilePart!NoHeader \in ProfilePart!Headers /\ ProfilePart!NoHeader.of = 0
  BY DEF ProfilePart!NoHeader, ProfilePart!Headers
<1>2. ASSUME NEW p \in People
      PROVE  /\ ProfilePart!Buttons(p) \in ProfilePart!Headers /\ ProfilePart!Buttons(p).of = p
             /\ ProfilePart!Buttons(p).follow = (v15[p] > 0)
  <2> DEFINE f == v15[p] > 0
             m == p \in v16
  <2>1. f \in BOOLEAN /\ m \in BOOLEAN /\ ProfilePart!Buttons(p) = [of |-> p, follow |-> f, mute |-> m]
    BY DEF ProfilePart!Buttons
  <2> HIDE DEF f, m
  <2>2. ProfilePart!Buttons(p) \in ProfilePart!Headers /\ ProfilePart!Buttons(p).follow = f
    BY <2>1 DEF ProfilePart!Headers
  <2> QED
    BY <2>1, <2>2 DEF f
<1> QED
  BY <1>1, <1>2

\* A load that begins, and one that asks for rows.
LEMMA LoadIs ==
    /\ \A w, b : LET l == [ProfilePart!NewLoad EXCEPT !.who = w, !.keep = b] IN
          l.at = "header" /\ l.who = w /\ l.header = ProfilePart!NoHeader
    /\ \A w, m, b, c : LET l == ProfilePart!AtContent(ProfilePart!NewLoad, w, m, b, c) IN
          /\ l.at = "content" /\ l.who = w /\ l.mode = m /\ l.box = b
          /\ l.header = ProfilePart!NoHeader
BY DEF ProfilePart!NewLoad, ProfilePart!AtContent

\* Profiles as they come.
LEMMA InitProfile == ProfilePart!Init => ProfilePart!ProfileInv
<1> SUFFICES ASSUME ProfilePart!Init PROVE ProfilePart!ProfileInv
  OBVIOUS
<1>1. ProfilePart!Typed
  BY SetsAssumption, HeadersAre DEF ProfilePart!Init, ProfilePart!Typed, ProfilePart!Modes, ProfilePart!NoAsk
<1>2. ProfilePart!OneLoad
  BY DEF ProfilePart!Init, ProfilePart!OneLoad
<1>3. ProfilePart!OneFollow /\ ProfilePart!FollowedOnce
  BY DEF ProfilePart!Init, ProfilePart!OneFollow, ProfilePart!FollowedOnce
<1>4. ProfilePart!BusyEnds /\ ProfilePart!OtherRowsStay
  BY DEF ProfilePart!Init, ProfilePart!BusyEnds, ProfilePart!OtherRowsStay
<1> QED
  BY <1>1, <1>2, <1>3, <1>4 DEF ProfilePart!ProfileInv

-----------------------------------------------------------------------------
(***************************************************************************)
(* The mark, and the rows of the other tab.                                *)
(***************************************************************************)
\* The page is marked while there are loads only, and the rows of the other tab stay.
LEMMA MarkKept ==
    ASSUME ProfilePart!ProfileInv, ProfilePart!Next PROVE ProfilePart!BusyEnds' /\ ProfilePart!OtherRowsStay'
<1>0. ProfilePart!BusyEnds /\ ProfilePart!OtherRowsStay /\ v1 \in {"profile", "other"}
  BY DEF ProfilePart!ProfileInv, ProfilePart!Typed
<1> USE <1>0 DEF ProfilePart!BusyEnds, ProfilePart!OtherRowsStay
<1>1. ASSUME NEW w, NEW r, NEW b, ProfilePart!Fresh(w, r, b) PROVE v12' # {}
  BY <1>1 DEF ProfilePart!Fresh
<1>2. CASE ProfilePart!LoadMore
  BY <1>2 DEF ProfilePart!LoadMore, ProfilePart!list, ProfilePart!place
<1>3. ASSUME NEW p \in People, ProfilePart!OpenProfile(p)
      PROVE ProfilePart!BusyEnds' /\ ProfilePart!OtherRowsStay'
  <2>1. CASE v1 = "other" \/ v10 # p
    <3>1. v12' # {}
      BY <1>3, <2>1, <1>1 DEF ProfilePart!OpenProfile, ProfilePart!Switch
    <3> QED
      BY <1>3, <3>1 DEF ProfilePart!OpenProfile, ProfilePart!Switch
  <2>2. CASE ~(v1 = "other" \/ v10 # p)
    BY <1>3, <2>2 DEF ProfilePart!OpenProfile, ProfilePart!Switch, ProfilePart!list
  <2> QED
    BY <2>1, <2>2
<1>4. ASSUME NEW p, ProfilePart!OpenRow(p) \/ ProfilePart!TabWithin(p)
      PROVE ProfilePart!BusyEnds' /\ ProfilePart!OtherRowsStay'
  BY <1>1, <1>4 DEF ProfilePart!OpenRow, ProfilePart!TabWithin
<1>5. CASE ProfilePart!ToOther
  BY <1>5 DEF ProfilePart!ToOther
<1>6. CASE ProfilePart!Later
  BY <1>1, <1>6 DEF ProfilePart!Later, ProfilePart!place, ProfilePart!Spill
<1>7. ASSUME NEW c \in v14, ProfilePart!Done(c) PROVE ProfilePart!BusyEnds' /\ ProfilePart!OtherRowsStay'
  BY <1>1, <1>7 DEF ProfilePart!Done, ProfilePart!place, ProfilePart!Spill
<1>8. ASSUME NEW l \in v12, ProfilePart!GotProfile(l) \/ ProfilePart!GotKnown(l)
      PROVE ProfilePart!BusyEnds' /\ ProfilePart!OtherRowsStay'
  <2>1. v12' # {}
    BY <1>8 DEF ProfilePart!GotProfile, ProfilePart!GotKnown, ProfilePart!Render, ProfilePart!Moves
  <2> QED
    BY <1>8, <2>1 DEF ProfilePart!GotProfile, ProfilePart!GotKnown, ProfilePart!list, ProfilePart!place
<1>9. ASSUME NEW l \in v12, NEW found, ProfilePart!GotPinned(l, found)
      PROVE ProfilePart!BusyEnds' /\ ProfilePart!OtherRowsStay'
  <2>1. v12' # {}
    BY <1>9 DEF ProfilePart!GotPinned, ProfilePart!Moves
  <2> QED
    BY <1>9, <2>1 DEF ProfilePart!GotPinned, ProfilePart!place, ProfilePart!Spill
<1>10. ASSUME NEW l \in v12, ProfilePart!NotLoaded(l) \/ \E b \in BOOLEAN : ProfilePart!GotContent(l, b)
       PROVE ProfilePart!BusyEnds' /\ ProfilePart!OtherRowsStay'
  <2>1. CASE ProfilePart!NotLoaded(l)
    BY <2>1 DEF ProfilePart!NotLoaded, ProfilePart!list, ProfilePart!place
  <2>2. ASSUME NEW b \in BOOLEAN, ProfilePart!GotContent(l, b)
        PROVE  ProfilePart!BusyEnds' /\ ProfilePart!OtherRowsStay'
    <3>1. PICK m : m = ProfilePart!AtContent(l, v2, v3, v5, v9')
      OBVIOUS
    <3>2. /\ v12' = (v12 \ {l}) \cup (IF b THEN {m} ELSE {}) /\ v11' = b /\ UNCHANGED <<v1, v8>>
          /\ v20' = (v20 \/ v1 = "other")
      BY <2>2, <3>1 DEF ProfilePart!GotContent, ProfilePart!place, ProfilePart!Spill
    <3>3. ProfilePart!BusyEnds'
      BY <3>2
    <3>4. ProfilePart!OtherRowsStay'
      BY <3>2
    <3> QED
      BY <3>3, <3>4
  <2> QED
    BY <1>10, <2>1, <2>2
<1>11. CASE \/ ProfilePart!Follow \/ ProfilePart!Mute \/ \E yes \in BOOLEAN : ProfilePart!Answer(yes)
            \/ \E c \in v14 : ProfilePart!NotDone(c)
  BY <1>11 DEF ProfilePart!Follow, ProfilePart!Mute, ProfilePart!Answer, ProfilePart!NotDone,
     ProfilePart!list, ProfilePart!place
<1> QED
  BY <1>2, <1>3, <1>4, <1>5, <1>6, <1>7, <1>8, <1>9, <1>10, <1>11 DEF ProfilePart!Next

-----------------------------------------------------------------------------
(***************************************************************************)
(* The account.                                                            *)
(***************************************************************************)
\* A call goes out.
LEMMA CallKeepsFollows ==
    ASSUME ProfilePart!ProfileInv, NEW what, NEW p \in People, ProfilePart!CallOut(what, p), UNCHANGED v15,
           what = "follow" /\ v18 /\ v12 = {} => v15[p] = 0
    PROVE  ProfilePart!OneFollow' /\ ProfilePart!FollowedOnce' /\ \A c \in v14' : c.of \in People
<1> DEFINE c == [what |-> what, of |-> p, k |-> v17]
<1>1. v14' = v14 \cup {c} /\ v19' = (v19 \/ v14 # {} \/ v12 # {} \/ ~v18)
  BY DEF ProfilePart!CallOut
<1>2. c.what = what /\ c.of = p
  OBVIOUS
<1> HIDE DEF c
<1>3. ProfilePart!OneFollow'
  BY <1>1, <1>2 DEF ProfilePart!OneFollow
<1>4. ProfilePart!FollowedOnce'
  BY <1>1 DEF ProfilePart!ProfileInv, ProfilePart!FollowedOnce
<1> QED
  BY <1>1, <1>2, <1>3, <1>4 DEF ProfilePart!ProfileInv, ProfilePart!Typed

\* A call is served.
LEMMA ServeKeeps ==
    ASSUME ProfilePart!ProfileInv, NEW c \in v14, ProfilePart!Serve(c), v14' = v14 \ {c}, v19' = v19
    PROVE  /\ ProfilePart!OneFollow' /\ ProfilePart!FollowedOnce' /\ v15' \in [People -> Nat]
           /\ \A d \in v14' : d.of \in People
<1> DEFINE x == IF c.what = "follow" THEN v15[c.of] + 1
                ELSE IF c.what = "unfollow" /\ v15[c.of] > 0 THEN v15[c.of] - 1 ELSE v15[c.of]
<1>1. c.of \in People /\ v15 \in [People -> Nat]
  BY DEF ProfilePart!ProfileInv, ProfilePart!Typed
<1>2. v15' = [v15 EXCEPT ![c.of] = x]
  BY DEF ProfilePart!Serve
<1>3. x \in Nat /\ (c.what = "follow" => x = v15[c.of] + 1) /\ (c.what # "follow" => x <= v15[c.of])
  BY <1>1
<1> HIDE DEF x
<1>4. /\ v15' \in [People -> Nat] /\ v15'[c.of] = x
      /\ \A p \in People : p # c.of => v15'[p] = v15[p]
  BY <1>1, <1>2, <1>3
<1>5. ~v19 => v14 = {c} /\ (c.what = "follow" => v15[c.of] = 0)
  <2> SUFFICES ASSUME ~v19 PROVE v14 = {c} /\ (c.what = "follow" => v15[c.of] = 0)
    OBVIOUS
  <2>1. ProfilePart!OneFollow
    BY DEF ProfilePart!ProfileInv
  <2>2. (\A e \in v14 : c = e) /\ (c.what = "follow" => v15[c.of] = 0)
    BY Zenon, <2>1 DEF ProfilePart!OneFollow
  <2> QED
    BY <2>2
<1>6. ProfilePart!OneFollow'
  BY <1>5 DEF ProfilePart!OneFollow
<1>7. ProfilePart!FollowedOnce'
  <2> SUFFICES ASSUME ~v19, NEW p \in People PROVE v15'[p] <= 1
    BY DEF ProfilePart!FollowedOnce
  <2>1. v15[p] <= 1 /\ v15[p] \in Nat
    BY <1>1 DEF ProfilePart!ProfileInv, ProfilePart!FollowedOnce
  <2>2. CASE p # c.of
    BY <1>4, <2>1, <2>2
  <2>3. CASE p = c.of
    <3>1. CASE c.what = "follow"
      BY <1>3, <1>4, <1>5, <2>3, <3>1
    <3>2. CASE c.what # "follow"
      BY <1>3, <1>4, <2>1, <2>3, <3>2
    <3> QED
      BY <3>1, <3>2
  <2> QED
    BY <2>2, <2>3
<1> QED
  BY <1>4, <1>6, <1>7 DEF ProfilePart!ProfileInv, ProfilePart!Typed

\* What leaves the account and the calls alone keeps what is known of them.
LEMMA FollowsStay ==
    ASSUME ProfilePart!ProfileInv, UNCHANGED <<v14, v15, v19>>
    PROVE  /\ ProfilePart!OneFollow' /\ ProfilePart!FollowedOnce' /\ v15' \in [People -> Nat]
           /\ \A d \in v14' : d.of \in People
BY DEF ProfilePart!ProfileInv, ProfilePart!Typed, ProfilePart!OneFollow, ProfilePart!FollowedOnce

-----------------------------------------------------------------------------
(***************************************************************************)
(* The load that nothing crossed.                                          *)
(***************************************************************************)
\* What is shown stays shown, and what a load has left behind stays so.
LEMMA ShownStays ==
    ASSUME UNCHANGED <<v2, v3, v4, v6, v7, v15, v16>>
    PROVE  /\ ProfilePart!Shown => ProfilePart!Shown'
           /\ \A p : ProfilePart!Buttons(p)' = ProfilePart!Buttons(p)
           /\ \A l : ProfilePart!Stage(l) /\ v5' = v5 => ProfilePart!Stage(l)'
<1>1. \A p : ProfilePart!Buttons(p)' = ProfilePart!Buttons(p)
  BY DEF ProfilePart!Buttons
<1>2. ProfilePart!Shown => ProfilePart!Shown'
  BY <1>1 DEF ProfilePart!Shown
<1>3. \A l : ProfilePart!Stage(l) /\ v5' = v5 => ProfilePart!Stage(l)'
  BY <1>1, <1>2 DEF ProfilePart!Stage
<1> QED
  BY <1>1, <1>2, <1>3

\* As nothing crossed it there is one load, or none.
LEMMA LoadOfClean ==
    ASSUME ProfilePart!ProfileInv, v18, NEW l \in v12
    PROVE  v1 = "profile" /\ v12 = {l} /\ ProfilePart!Stage(l)
<1>1. v1 = "profile" /\ \E k \in v12 : v12 = {k} /\ ProfilePart!Stage(k)
  BY DEF ProfilePart!ProfileInv, ProfilePart!OneLoad
<1> QED
  BY <1>1

\* A load begins anew,
LEMMA FreshKeeps ==
    ASSUME ProfilePart!ProfileInv, NEW w \in People, NEW r, NEW b, ProfilePart!Fresh(w, r, b), v2' = w,
           v18' => v12 = {} /\ v1' = "profile"
    PROVE  /\ ProfilePart!OneLoad' /\ v4' \in ProfilePart!Headers
           /\ \A l \in v12' : l.who \in People /\ l.header \in ProfilePart!Headers
<1>1. PICK x : v12' = v12 \cup {x} /\ x.at = "header" /\ x.who = w /\ x.header = ProfilePart!NoHeader
  <2> DEFINE y == [ProfilePart!NewLoad EXCEPT !.who = w, !.keep = b]
  <2>1. v12' = v12 \cup {y}
    BY DEF ProfilePart!Fresh
  <2>2. y.at = "header" /\ y.who = w /\ y.header = ProfilePart!NoHeader
    BY LoadIs
  <2> HIDE DEF y
  <2> QED
    BY Zenon, <2>1, <2>2
<1>2. v4' = ProfilePart!NoHeader /\ v6' = <<>> /\ v7' = <<>>
  BY DEF ProfilePart!Fresh
<1>3. ProfilePart!Stage(x)'
  BY <1>1, <1>2 DEF ProfilePart!Stage
<1>4. ProfilePart!OneLoad'
  <2> SUFFICES ASSUME v18' PROVE v1' = "profile" /\ \E l \in v12' : v12' = {l} /\ ProfilePart!Stage(l)'
    BY DEF ProfilePart!OneLoad
  <2>1. v12' = {x}
    BY <1>1
  <2> QED
    BY <1>3, <2>1
<1>5. \A l \in v12' : l.who \in People /\ l.header \in ProfilePart!Headers
  BY <1>1, <1>2, HeadersAre DEF ProfilePart!ProfileInv, ProfilePart!Typed
<1> QED
  BY <1>2, <1>4, <1>5, HeadersAre

\* or for more,
LEMMA LoadMoreKeeps ==
    ASSUME ProfilePart!ProfileInv, ProfilePart!LoadMore
    PROVE  ProfilePart!OneLoad' /\ \A l \in v12' : l.who \in People /\ l.header \in ProfilePart!Headers
<1>1. PICK x : /\ v12' = v12 \cup {x} /\ x.at = "content" /\ x.who = v2 /\ x.mode = v3 /\ x.box = v5
               /\ x.header = ProfilePart!NoHeader
  BY LoadIs DEF ProfilePart!LoadMore
<1>2. /\ v18' = (v18 /\ v12 = {}) /\ v1 = "profile"
      /\ UNCHANGED <<v1, v2, v3, v4, v5, v6, v7, v15, v16>>
  BY DEF ProfilePart!LoadMore, ProfilePart!screen, ProfilePart!list, ProfilePart!place, ProfilePart!graph
<1>3. ProfilePart!OneLoad'
  <2> SUFFICES ASSUME v18' PROVE v1' = "profile" /\ \E l \in v12' : v12' = {l} /\ ProfilePart!Stage(l)'
    BY DEF ProfilePart!OneLoad
  <2>1. v12' = {x} /\ ProfilePart!Shown
    BY <1>1, <1>2 DEF ProfilePart!ProfileInv, ProfilePart!OneLoad
  <2>2. ProfilePart!Shown'
    BY <1>2, <2>1, ShownStays
  <2>3. ProfilePart!Stage(x)'
    BY <1>1, <1>2, <2>2 DEF ProfilePart!Stage
  <2> QED
    BY <1>2, <2>1, <2>3
<1>4. \A l \in v12' : l.who \in People /\ l.header \in ProfilePart!Headers
  BY <1>1, <1>2, HeadersAre DEF ProfilePart!ProfileInv, ProfilePart!Typed
<1> QED
  BY <1>3, <1>4

\* the tab is left,
LEMMA ToOtherKeeps ==
    ASSUME ProfilePart!ProfileInv, ProfilePart!ToOther PROVE ProfilePart!OneLoad'
<1>1. /\ v1 = "profile" /\ v1' = "other" /\ v18' = (v18 /\ v12 = {} /\ v14 = {})
      /\ UNCHANGED <<v2, v4, v12, v15, v16>>
  BY DEF ProfilePart!ToOther, ProfilePart!screen, ProfilePart!graph
<1> SUFFICES ASSUME v18' PROVE v12' = {} /\ v4' \in {ProfilePart!NoHeader, ProfilePart!Buttons(v2)}'
  BY <1>1 DEF ProfilePart!OneLoad
<1>2. v12 = {} /\ v4 \in {ProfilePart!NoHeader, ProfilePart!Buttons(v2)}
  BY <1>1 DEF ProfilePart!ProfileInv, ProfilePart!OneLoad
<1> QED
  BY <1>1, <1>2 DEF ProfilePart!Buttons, ProfilePart!NoHeader

\* a load goes on,
LEMMA MovesKeep ==
    ASSUME ProfilePart!ProfileInv, NEW l \in v12, NEW m, ProfilePart!Moves(l, m), UNCHANGED <<v1, v18>>,
           m.who \in People, m.header \in ProfilePart!Headers, v18 => ProfilePart!Stage(m)'
    PROVE  ProfilePart!OneLoad' /\ \A k \in v12' : k.who \in People /\ k.header \in ProfilePart!Headers
<1>1. v12' = (v12 \ {l}) \cup {m}
  BY DEF ProfilePart!Moves
<1>2. ProfilePart!OneLoad'
  <2> SUFFICES ASSUME v18 PROVE v1' = "profile" /\ \E k \in v12' : v12' = {k} /\ ProfilePart!Stage(k)'
    BY DEF ProfilePart!OneLoad
  <2>1. v1 = "profile" /\ v12 = {l}
    BY LoadOfClean
  <2>2. v12' = {m}
    BY <1>1, <2>1
  <2> QED
    BY <2>1, <2>2
<1> QED
  BY <1>1, <1>2 DEF ProfilePart!ProfileInv, ProfilePart!Typed

\* What is written of the header goes on the screen,
LEMMA RenderKeeps ==
    ASSUME ProfilePart!ProfileInv, NEW l \in v12, NEW h \in ProfilePart!Headers, ProfilePart!Render(l, h),
           UNCHANGED <<v1, v2, v3, v7, v15, v16, v18>>,
           v18 => v7 = <<>> /\ h = ProfilePart!Buttons(v2)
    PROVE  /\ ProfilePart!OneLoad' /\ v4' \in ProfilePart!Headers
           /\ \A k \in v12' : k.who \in People /\ k.header \in ProfilePart!Headers
<1>1. /\ l.who \in People /\ l.header \in ProfilePart!Headers /\ v2 \in People
      /\ v3 \in ProfilePart!Modes
  BY DEF ProfilePart!ProfileInv, ProfilePart!Typed
<1>2. v4' = h /\ v5' = l.k /\ v6' = <<>>
  BY DEF ProfilePart!Render
<1>3. ASSUME v18 PROVE ProfilePart!Shown' /\ l.who = v2
  <2>1. ProfilePart!Buttons(v2)' = ProfilePart!Buttons(v2)
    BY DEF ProfilePart!Buttons
  <2>2. l.who = v2
    BY <1>3, LoadOfClean DEF ProfilePart!Stage
  <2> QED
    BY <1>2, <1>3, <2>1, <2>2 DEF ProfilePart!Shown, ProfilePart!IsInjective
<1>4. CASE v3 = "posts"
  <2> DEFINE y == [l EXCEPT !.at = "pinned"]
  <2>1. PICK m : /\ ProfilePart!Moves(l, m) /\ m = y
    BY <1>4 DEF ProfilePart!Render
  <2>2. m.at = "pinned" /\ m.who = l.who /\ m.header = l.header
    BY <2>1
  <2>3. v18 => ProfilePart!Stage(m)'
    BY <1>3, <1>4, <2>2 DEF ProfilePart!Stage
  <2> QED
    BY <1>1, <1>2, <2>1, <2>2, <2>3, MovesKeep
<1>5. CASE v3 # "posts"
  <2>1. PICK m : ProfilePart!Moves(l, m) /\ m = ProfilePart!AtContent(l, v2, v3, l.k, v9)
    BY <1>5 DEF ProfilePart!Render
  <2>2. m.at = "content" /\ m.who = v2 /\ m.mode = v3 /\ m.box = l.k /\ m.header = l.header
    BY <2>1 DEF ProfilePart!AtContent
  <2>3. v18 => ProfilePart!Stage(m)'
    BY <1>2, <1>3, <2>2 DEF ProfilePart!Stage
  <2> QED
    BY <1>1, <1>2, <2>1, <2>2, <2>3, MovesKeep
<1> QED
  BY <1>4, <1>5

-----------------------------------------------------------------------------
(***************************************************************************)
(* The rows of a page.                                                     *)
(***************************************************************************)
\* A row of a profile.
ProfileRows == People \X ProfilePart!Modes \X Nat

\* A row that is not there yet makes none double.
LEMMA NewRow ==
    ASSUME NEW s \in Seq(ProfileRows), NEW r \in ProfileRows, r \notin ProfilePart!Range(s),
           ProfilePart!IsInjective(s)
    PROVE  ProfilePart!IsInjective(Append(s, r))
<1>1. /\ DOMAIN s = 1..Len(s) /\ Len(s) \in Nat /\ DOMAIN Append(s, r) = 1..(Len(s) + 1)
      /\ \A i \in 1..Len(s) : Append(s, r)[i] = s[i]
      /\ Append(s, r)[Len(s) + 1] = r
  OBVIOUS
<1>2. \A i \in 1..Len(s) : s[i] # r
  BY DEF ProfilePart!Range
<1> SUFFICES ASSUME NEW a \in 1..(Len(s) + 1), NEW b \in 1..(Len(s) + 1), Append(s, r)[a] = Append(s, r)[b]
             PROVE  a = b
  BY <1>1 DEF ProfilePart!IsInjective
<1>3. (a \in 1..Len(s) \/ a = Len(s) + 1) /\ (b \in 1..Len(s) \/ b = Len(s) + 1)
  BY <1>1
<1>4. a \in 1..Len(s) /\ b \in 1..Len(s) => (s[a] = s[b] => a = b)
  BY <1>1 DEF ProfilePart!IsInjective
<1> QED
  BY <1>1, <1>2, <1>3, <1>4

\* The two rows of a page are of the load's profile and tab, and are not one.
LEMMA RowsOfPage ==
    ASSUME NEW l, l.who \in People, l.mode \in ProfilePart!Modes
    PROVE  LET p == ProfilePart!PageOf(l) IN
           /\ p \in Seq(ProfileRows) /\ Len(p) = 2 /\ p[1] # p[2]
           /\ \A i \in 1..2 : p[i] \in ProfileRows /\ p[i][1] = l.who /\ p[i][2] = l.mode
<1> DEFINE num(i) == IF l.cursor = 0 THEN i ELSE i + IF ProfilePart!OfPosts(l.mode) THEN 1 ELSE 2
           p      == ProfilePart!PageOf(l)
<1>1. p = [i \in 1..2 |-> <<l.who, l.mode, num(i)>>]
  BY DEF ProfilePart!PageOf
<1>2. num(1) \in Nat /\ num(2) \in Nat /\ num(1) # num(2)
  OBVIOUS
<1> HIDE DEF num, p
<1>3. p[1] = <<l.who, l.mode, num(1)>> /\ p[2] = <<l.who, l.mode, num(2)>>
  BY <1>1
<1>4. p[1] \in ProfileRows /\ p[2] \in ProfileRows
  BY <1>2, <1>3 DEF ProfileRows
<1>5. p \in Seq(ProfileRows) /\ Len(p) = 2
  <2>1. \A i \in 1..2 : p[i] \in ProfileRows
    BY <1>4
  <2>2. p = <<p[1], p[2]>>
    BY <1>1
  <2>3. \A q, r \in ProfileRows : <<q, r>> \in Seq(ProfileRows) /\ Len(<<q, r>>) = 2
    OBVIOUS
  <2> QED
    BY Zenon, <1>4, <2>2, <2>3
<1>6. p[1] # p[2]
  BY <1>2, <1>3
<1>7. \A i \in 1..2 : p[i][1] = l.who /\ p[i][2] = l.mode
  BY <1>3
<1> QED
  BY <1>4, <1>5, <1>6, <1>7 DEF p

\* What is added of it is of them too, and no post is there twice.
LEMMA NewIs ==
    ASSUME NEW l, l.who \in People, l.mode \in ProfilePart!Modes, v7 \in Seq(ProfileRows)
    PROVE  LET new == ProfilePart!New(l) IN
           /\ new \in Seq(ProfileRows)
           /\ \A i \in DOMAIN new : new[i][1] = l.who /\ new[i][2] = l.mode
           /\ ProfilePart!OfPosts(l.mode) /\ ProfilePart!IsInjective(v7) => ProfilePart!IsInjective(v7 \o new)
<1> DEFINE p == ProfilePart!PageOf(l)
           x == p[1]
           y == p[2]
           new == ProfilePart!New(l)
<1>1. /\ p \in Seq(ProfileRows) /\ Len(p) = 2 /\ x # y /\ x \in ProfileRows /\ y \in ProfileRows
      /\ x[1] = l.who /\ x[2] = l.mode /\ y[1] = l.who /\ y[2] = l.mode
      /\ \A i \in 1..2 : p[i][1] = l.who /\ p[i][2] = l.mode
  BY RowsOfPage
<1>2. CASE ~ProfilePart!OfPosts(l.mode)
  <2>1. new = p
    BY <1>2 DEF ProfilePart!New
  <2> QED
    BY <1>1, <1>2, <2>1
<1>3. CASE ProfilePart!OfPosts(l.mode)
  <2>1. new = ProfilePart!Unless(x) \o ProfilePart!Unless(y)
    BY <1>3 DEF ProfilePart!New
  <2> HIDE DEF x, y, new
  <2> DEFINE c(r) == r \in ProfilePart!Range(v7)
  <2>2. /\ ProfilePart!Unless(x) = IF c(x) THEN <<>> ELSE <<x>>
        /\ ProfilePart!Unless(y) = IF c(y) THEN <<>> ELSE <<y>>
    BY DEF ProfilePart!Unless
  <2>3. CASE c(x) /\ c(y)
    <3>1. new = <<>> /\ v7 \o new = v7
      BY <2>1, <2>2, <2>3
    <3> QED
      BY <3>1 DEF new
  <2>4. CASE ~c(x) /\ c(y)
    <3>1. new = <<x>> /\ v7 \o new = Append(v7, x)
      BY <1>1, <2>1, <2>2, <2>4
    <3>2. ProfilePart!IsInjective(v7) => ProfilePart!IsInjective(v7 \o new)
      BY Zenon, <1>1, <2>4, <3>1, NewRow
    <3>3. new \in Seq(ProfileRows) /\ \A i \in DOMAIN new : new[i][1] = l.who /\ new[i][2] = l.mode
      BY <1>1, <3>1
    <3> QED
      BY <3>2, <3>3 DEF new
  <2>5. CASE c(x) /\ ~c(y)
    <3>1. new = <<y>> /\ v7 \o new = Append(v7, y)
      BY <1>1, <2>1, <2>2, <2>5
    <3>2. ProfilePart!IsInjective(v7) => ProfilePart!IsInjective(v7 \o new)
      BY Zenon, <1>1, <2>5, <3>1, NewRow
    <3>3. new \in Seq(ProfileRows) /\ \A i \in DOMAIN new : new[i][1] = l.who /\ new[i][2] = l.mode
      BY <1>1, <3>1
    <3> QED
      BY <3>2, <3>3 DEF new
  <2>6. CASE ~c(x) /\ ~c(y)
    <3>1. new = <<x>> \o <<y>>
      BY <2>1, <2>2, <2>6
    <3>2. <<x>> \in Seq(ProfileRows) /\ <<y>> \in Seq(ProfileRows) /\ Append(v7, x) \in Seq(ProfileRows)
      BY <1>1
    <3>3. v7 \o new = Append(Append(v7, x), y)
      <4>1. v7 \o new = (v7 \o <<x>>) \o <<y>>
        BY <3>1, <3>2, ConcatAssociative
      <4>2. v7 \o <<x>> = Append(v7, x)
        BY <1>1, AppendIsConcat
      <4>3. Append(v7, x) \o <<y>> = Append(Append(v7, x), y)
        BY <1>1, <3>2, AppendIsConcat
      <4> QED
        BY <4>1, <4>2, <4>3
    <3>4. y \notin ProfilePart!Range(Append(v7, x))
      BY <1>1, <2>6 DEF ProfilePart!Range
    <3>5. ProfilePart!IsInjective(v7) => ProfilePart!IsInjective(v7 \o new)
      BY Zenon, <1>1, <2>6, <3>2, <3>3, <3>4, NewRow
    <3>6. new \in Seq(ProfileRows) /\ Len(new) = 2 /\ new[1] = x /\ new[2] = y
      BY <1>1, <3>1, <3>2
    <3>7. \A i \in DOMAIN new : new[i][1] = l.who /\ new[i][2] = l.mode
      BY <1>1, <3>6
    <3> QED
      BY <3>5, <3>6, <3>7 DEF new
  <2> QED
    BY <2>3, <2>4, <2>5, <2>6
<1> QED
  BY <1>2, <1>3

-----------------------------------------------------------------------------
(***************************************************************************)
(* The steps of a load.                                                    *)
(***************************************************************************)
\* What is out is a call of one there is.
LEMMA LoadTyped ==
    ASSUME ProfilePart!ProfileInv
    PROVE  /\ v1 \in {"profile", "other"} /\ v2 \in People /\ v3 \in ProfilePart!Modes
           /\ v4 \in ProfilePart!Headers /\ v15 \in [People -> Nat]
           /\ \A l \in v12 : l.who \in People /\ l.header \in ProfilePart!Headers
BY DEF ProfilePart!ProfileInv, ProfilePart!Typed

\* The profile comes, or those who follow it,
LEMMA HeaderKeeps ==
    ASSUME ProfilePart!ProfileInv, NEW l \in v12, ProfilePart!GotProfile(l) \/ ProfilePart!GotKnown(l)
    PROVE  /\ ProfilePart!OneLoad' /\ v4' \in ProfilePart!Headers
           /\ \A k \in v12' : k.who \in People /\ k.header \in ProfilePart!Headers
<1>0. /\ UNCHANGED <<v1, v2, v3, v7, v15, v16, v18>>
      /\ l.who \in People /\ l.header \in ProfilePart!Headers /\ v4 \in ProfilePart!Headers
  BY LoadTyped DEF ProfilePart!GotProfile, ProfilePart!GotKnown, ProfilePart!list, ProfilePart!place,
     ProfilePart!graph
<1>1. v18 => ProfilePart!Stage(l)
  BY LoadOfClean
<1>2. CASE ProfilePart!GotKnown(l)
  <2>1. v18 => v7 = <<>> /\ l.header = ProfilePart!Buttons(v2)
    BY <1>1, <1>2 DEF ProfilePart!GotKnown, ProfilePart!Stage
  <2> QED
    BY <1>0, <1>2, <2>1, RenderKeeps DEF ProfilePart!GotKnown
<1>3. CASE ProfilePart!GotProfile(l) /\ l.who = 1
  <2>1. v18 => v7 = <<>> /\ ProfilePart!Buttons(1) = ProfilePart!Buttons(v2)
    BY <1>1, <1>3 DEF ProfilePart!GotProfile, ProfilePart!Stage
  <2>2. ProfilePart!Buttons(1) \in ProfilePart!Headers
    BY SetsAssumption, HeadersAre
  <2> QED
    BY <1>0, <1>3, <2>1, <2>2, RenderKeeps DEF ProfilePart!GotProfile
<1>4. CASE ProfilePart!GotProfile(l) /\ l.who # 1
  <2>1. PICK m : ProfilePart!Moves(l, m) /\ m = [l EXCEPT !.at = "known", !.header = ProfilePart!Buttons(l.who)]
    BY <1>4 DEF ProfilePart!GotProfile
  <2>2. m.at = "known" /\ m.who = l.who /\ (v18 => m.header = ProfilePart!Buttons(l.who))
    <3>1. m.at = "known" /\ m.who = l.who
      BY <2>1
    <3>2. v18 => m.header = ProfilePart!Buttons(l.who)
      BY <1>1, <2>1 DEF ProfilePart!Stage
    <3> QED
      BY <3>1, <3>2
  <2>3. UNCHANGED <<v4, v6>>
    BY <1>4 DEF ProfilePart!GotProfile, ProfilePart!screen
  <2>4. v18 => ProfilePart!Stage(m)'
    BY <1>0, <1>1, <1>4, <2>2, <2>3 DEF ProfilePart!GotProfile, ProfilePart!Stage, ProfilePart!Buttons
  <2>5. m.header \in ProfilePart!Headers
    BY <1>0, <2>1, HeadersAre
  <2> QED
    BY <1>0, <2>1, <2>2, <2>3, <2>4, <2>5, MovesKeep
<1> QED
  BY <1>2, <1>3, <1>4

\* the pinned post,
LEMMA PinKeptOnProfile ==
    ASSUME ProfilePart!ProfileInv, NEW l \in v12, NEW found, ProfilePart!GotPinned(l, found)
    PROVE  /\ ProfilePart!OneLoad' /\ v4' \in ProfilePart!Headers
           /\ \A k \in v12' : k.who \in People /\ k.header \in ProfilePart!Headers
<1>0. /\ UNCHANGED <<v1, v2, v3, v4, v5, v15, v16, v18>> /\ l.at = "pinned"
      /\ v2 \in People /\ l.header \in ProfilePart!Headers /\ v4 \in ProfilePart!Headers
  BY LoadTyped DEF ProfilePart!GotPinned, ProfilePart!place, ProfilePart!graph
<1>1. PICK m : ProfilePart!Moves(l, m) /\ m = ProfilePart!AtContent(l, v2, v3, v5, v9)
  BY DEF ProfilePart!GotPinned
<1>2. m.at = "content" /\ m.who = v2 /\ m.mode = v3 /\ m.box = v5 /\ m.header = l.header
  BY <1>1 DEF ProfilePart!AtContent
<1>3. ASSUME v18 PROVE ProfilePart!Shown'
  <2>1. /\ l.who = v2 /\ v3 = "posts" /\ v7 = <<>> /\ v6 = <<>> /\ v4 = ProfilePart!Buttons(v2)
    BY <1>0, <1>3, LoadOfClean DEF ProfilePart!Stage, ProfilePart!Shown
  <2>2. PICK r : r = <<v2, "posts", 2>>
    OBVIOUS
  <2>3. r \in People \X ProfilePart!Modes \X Nat /\ r[1] = v2 /\ r[2] = "posts"
    BY <1>0, <2>2 DEF ProfilePart!Modes
  <2>4. (v7' = <<r>> /\ v6' = <<r>>) \/ (v7' = <<>> /\ v6' = <<>>)
    BY <2>1, <2>2 DEF ProfilePart!GotPinned, ProfilePart!Pinned
  <2>5. v4' = ProfilePart!Buttons(v2)'
    BY <1>0, <2>1 DEF ProfilePart!Buttons
  <2>6. v7' \in Seq(ProfileRows) /\ \A i \in DOMAIN v7' : i = 1 /\ v7'[i] = r
    <3>0. r \in ProfileRows
      BY <2>3 DEF ProfileRows
    <3>1. CASE v7' = <<r>>
      <4>1. v7' \in Seq(ProfileRows) /\ Len(v7') = 1 /\ v7'[1] = r
        BY <3>0, <3>1
      <4> QED
        BY <4>1
    <3>2. CASE v7' = <<>>
      BY <3>2
    <3> QED
      BY <2>4, <3>1, <3>2
  <2>7. ProfilePart!IsInjective(v7)'
    BY <2>6 DEF ProfilePart!IsInjective
  <2>8. v7' = v6' /\ \A i \in DOMAIN v7' : v7'[i][1] = v2' /\ v7'[i][2] = v3'
    BY <1>0, <2>1, <2>3, <2>4, <2>6
  <2> QED
    BY <2>5, <2>6, <2>7, <2>8 DEF ProfilePart!Shown, ProfileRows
<1>4. v18 => ProfilePart!Stage(m)'
  BY <1>0, <1>2, <1>3 DEF ProfilePart!Stage
<1> QED
  BY <1>0, <1>1, <1>2, <1>4, MovesKeep

\* and a page of rows.
LEMMA ContentKeeps ==
    ASSUME ProfilePart!ProfileInv, NEW l \in v12, NEW on \in BOOLEAN, ProfilePart!GotContent(l, on)
    PROVE  /\ ProfilePart!OneLoad' /\ v4' \in ProfilePart!Headers
           /\ \A k \in v12' : k.who \in People /\ k.header \in ProfilePart!Headers
<1>a. PICK m : m = ProfilePart!AtContent(l, v2, v3, v5, v9')
  OBVIOUS
<1>b. /\ m.who = v2 /\ m.at = "content" /\ m.mode = v3 /\ m.box = v5 /\ m.header = l.header
      /\ m.header \in ProfilePart!Headers /\ v2 \in People
  BY <1>a, LoadTyped DEF ProfilePart!AtContent
<1>0. /\ UNCHANGED <<v1, v2, v3, v4, v5, v15, v16, v18>> /\ l.at = "content"
      /\ v12' = (v12 \ {l}) \cup (IF on THEN {m} ELSE {})
      /\ l.who \in People /\ v3 \in ProfilePart!Modes /\ v4 \in ProfilePart!Headers
      /\ v7' = v7 \o ProfilePart!New(l)
      /\ v6' = IF l.box = v5 THEN v6 \o ProfilePart!New(l) ELSE v6
  BY <1>a, LoadTyped DEF ProfilePart!GotContent, ProfilePart!place, ProfilePart!graph
<1>1. ASSUME v18 PROVE ProfilePart!Shown' /\ v12 = {l} /\ v1 = "profile"
  <2>1. v12 = {l} /\ l.who = v2 /\ l.mode = v3 /\ l.box = v5 /\ ProfilePart!Shown /\ v1 = "profile"
    BY <1>0, <1>1, LoadOfClean DEF ProfilePart!Stage
  <2>2. /\ v4 = ProfilePart!Buttons(v2) /\ v6 = v7 /\ v7 \in Seq(ProfileRows)
        /\ \A i \in DOMAIN v7 : v7[i][1] = v2 /\ v7[i][2] = v3
        /\ ProfilePart!OfPosts(v3) => ProfilePart!IsInjective(v7)
    BY <2>1 DEF ProfilePart!Shown, ProfileRows
  <2>3. PICK s : s = ProfilePart!New(l)
    OBVIOUS
  <2>4. /\ s \in Seq(ProfileRows) /\ \A i \in DOMAIN s : s[i][1] = v2 /\ s[i][2] = v3
        /\ ProfilePart!OfPosts(v3) => ProfilePart!IsInjective(v7 \o s)
    BY <1>0, <2>1, <2>2, <2>3, NewIs
  <2>5. v7' = v7 \o s /\ v6' = v7'
    BY <1>0, <2>1, <2>2, <2>3
  <2>6. v7' \in Seq(ProfileRows)
    BY <2>2, <2>4, <2>5
  <2>7. \A i \in DOMAIN v7' : v7'[i][1] = v2 /\ v7'[i][2] = v3
    <3>1. /\ DOMAIN v7 = 1..Len(v7) /\ DOMAIN s = 1..Len(s) /\ DOMAIN v7' = 1..(Len(v7) + Len(s))
          /\ Len(v7) \in Nat /\ Len(s) \in Nat
      BY <2>2, <2>4, <2>5
    <3>2. \A i \in 1..(Len(v7) + Len(s)) : v7'[i] = IF i <= Len(v7) THEN v7[i] ELSE s[i - Len(v7)]
      BY <2>2, <2>4, <2>5
    <3> SUFFICES ASSUME NEW i \in 1..(Len(v7) + Len(s)) PROVE v7'[i][1] = v2 /\ v7'[i][2] = v3
      BY <3>1
    <3>3. CASE i <= Len(v7)
      BY <2>2, <3>1, <3>2, <3>3
    <3>4. CASE ~(i <= Len(v7))
      <4>1. i - Len(v7) \in 1..Len(s) /\ v7'[i] = s[i - Len(v7)]
        BY <3>1, <3>2, <3>4
      <4> QED
        BY <2>4, <3>1, <4>1
    <3> QED
      BY <3>3, <3>4
  <2>8. v4' = ProfilePart!Buttons(v2)'
    BY <1>0, <2>2 DEF ProfilePart!Buttons
  <2>9. ProfilePart!OfPosts(v3)' => ProfilePart!IsInjective(v7)'
    BY <1>0, <2>4, <2>5 DEF ProfilePart!OfPosts, ProfilePart!IsInjective
  <2> QED
    BY <1>0, <2>1, <2>5, <2>6, <2>7, <2>8, <2>9 DEF ProfilePart!Shown, ProfileRows
<1>2. ProfilePart!OneLoad'
  <2> SUFFICES ASSUME v18 PROVE ProfilePart!OneLoad'
    BY <1>0 DEF ProfilePart!OneLoad
  <2>1. CASE on
    <3>1. v12' = {m} /\ v1' = "profile"
      BY <1>0, <1>1, <2>1
    <3>2. ProfilePart!Stage(m)'
      BY <1>0, <1>1, <1>b DEF ProfilePart!Stage
    <3> QED
      BY <3>1, <3>2 DEF ProfilePart!OneLoad
  <2>2. CASE ~on
    <3>1. v12' = {}
      BY <1>0, <1>1, <2>2
    <3> QED
      BY <1>1, <3>1 DEF ProfilePart!OneLoad, ProfilePart!Shown
  <2> QED
    BY <2>1, <2>2
<1>3. \A k \in v12' : k.who \in People /\ k.header \in ProfilePart!Headers
  BY <1>0, <1>b, LoadTyped
<1> QED
  BY <1>0, <1>2, <1>3, LoadTyped

-----------------------------------------------------------------------------
(***************************************************************************)
(* Every step.                                                             *)
(***************************************************************************)
\* What goes on outside of the loads leaves them as they are.
LEMMA AsideKeeps ==
    ASSUME ProfilePart!ProfileInv, UNCHANGED <<v1, v2, v3, v4, v5, v6, v7, v12, v15, v16>>, v18' => v18
    PROVE  /\ ProfilePart!OneLoad' /\ v4' \in ProfilePart!Headers
           /\ \A k \in v12' : k.who \in People /\ k.header \in ProfilePart!Headers
<1>1. ProfilePart!OneLoad'
  <2> SUFFICES ASSUME v18
               PROVE  \/ /\ v12 = {} /\ (v1 = "profile" => ProfilePart!Shown')
                         /\ v4 \in {ProfilePart!NoHeader, ProfilePart!Buttons(v2)'}
                      \/ v1 = "profile" /\ \E l \in v12 : v12 = {l} /\ ProfilePart!Stage(l)'
    BY DEF ProfilePart!OneLoad, ProfilePart!NoHeader
  <2>1. \/ /\ v12 = {} /\ (v1 = "profile" => ProfilePart!Shown)
           /\ v4 \in {ProfilePart!NoHeader, ProfilePart!Buttons(v2)}
        \/ v1 = "profile" /\ \E l \in v12 : v12 = {l} /\ ProfilePart!Stage(l)
    BY DEF ProfilePart!ProfileInv, ProfilePart!OneLoad
  <2>2. ProfilePart!Buttons(v2)' = ProfilePart!Buttons(v2)
    BY DEF ProfilePart!Buttons
  <2> QED
    BY <2>1, <2>2, ShownStays
<1> QED
  BY <1>1, LoadTyped

\* The loads, however they go on.
LEMMA LoadStep ==
    ASSUME ProfilePart!ProfileInv, ProfilePart!Next
    PROVE  /\ ProfilePart!OneLoad' /\ v4' \in ProfilePart!Headers
           /\ \A k \in v12' : k.who \in People /\ k.header \in ProfilePart!Headers
<1> DEFINE Kept == /\ ProfilePart!OneLoad' /\ v4' \in ProfilePart!Headers
                   /\ \A k \in v12' : k.who \in People /\ k.header \in ProfilePart!Headers
<1>0. v2 \in People
  BY LoadTyped
<1>1. CASE ProfilePart!LoadMore
  <2>1. v4' = v4
    BY <1>1 DEF ProfilePart!LoadMore, ProfilePart!screen
  <2> QED
    BY <1>1, <2>1, LoadMoreKeeps, LoadTyped
<1>2. CASE ProfilePart!ToOther
  <2>1. v4' = v4 /\ v12' = v12
    BY <1>2 DEF ProfilePart!ToOther, ProfilePart!screen
  <2> QED
    BY <1>2, <2>1, ToOtherKeeps, LoadTyped
<1>3. CASE ProfilePart!Later
  <2>1. /\ ProfilePart!Fresh(v2, v7, v7 # <<>>) /\ UNCHANGED <<v1, v2>>
        /\ v18' = (v12 = {} /\ v14 = {} /\ v1 = "profile")
    BY <1>3 DEF ProfilePart!Later, ProfilePart!place
  <2> QED
    BY <1>0, <2>1, FreshKeeps
<1>4. ASSUME NEW p \in People, ProfilePart!OpenProfile(p) PROVE Kept
  <2>0. v2' = p /\ ProfilePart!Switch(p) /\ UNCHANGED <<v15, v16>>
    BY <1>4 DEF ProfilePart!OpenProfile, ProfilePart!graph
  <2>1. CASE v1 = "other" \/ v10 # p
    <3>1. PICK r : ProfilePart!Fresh(p, r, FALSE)
      BY <2>0, <2>1 DEF ProfilePart!Switch
    <3>2. v1' = "profile" /\ v18' = (v12 = {} /\ v14 = {})
      BY <2>0, <2>1 DEF ProfilePart!Switch
    <3> QED
      BY <2>0, <3>1, <3>2, FreshKeeps
  <2>2. CASE ~(v1 = "other" \/ v10 # p)
    <3>1. v18' = FALSE /\ v4' = v4 /\ v12' = v12
      BY <2>0, <2>2 DEF ProfilePart!Switch, ProfilePart!screen
    <3> QED
      BY <3>1, LoadTyped DEF ProfilePart!OneLoad
  <2> QED
    BY <2>1, <2>2
<1>5. ASSUME NEW p \in People, ProfilePart!OpenRow(p) PROVE Kept
  <2>1. /\ ProfilePart!Fresh(p, v7, FALSE) /\ v2' = p /\ v1' = v1 /\ v1 = "profile"
        /\ v18' = (v12 = {} /\ v14 = {})
    BY <1>5 DEF ProfilePart!OpenRow
  <2> QED
    BY <2>1, FreshKeeps
<1>6. ASSUME NEW m \in ProfilePart!Modes, ProfilePart!TabWithin(m) PROVE Kept
  <2>1. /\ ProfilePart!Fresh(v2, v7, FALSE) /\ v2' = v2 /\ v1' = v1 /\ v1 = "profile"
        /\ v18' = (v12 = {} /\ v14 = {})
    BY <1>6 DEF ProfilePart!TabWithin
  <2> QED
    BY <1>0, <2>1, FreshKeeps
<1>7. CASE ProfilePart!Follow \/ ProfilePart!Mute \/ \E yes \in BOOLEAN : ProfilePart!Answer(yes)
  <2>1. UNCHANGED <<v1, v2, v3, v4, v5, v6, v7, v12, v15, v16>>
    BY <1>7 DEF ProfilePart!Follow, ProfilePart!Mute, ProfilePart!Answer, ProfilePart!screen,
       ProfilePart!list, ProfilePart!place, ProfilePart!graph
  <2>2. v18' => v18
    BY <1>7 DEF ProfilePart!Follow, ProfilePart!Mute, ProfilePart!Answer, ProfilePart!CallOut
  <2> QED
    BY <2>1, <2>2, AsideKeeps
<1>8. ASSUME NEW c \in v14, ProfilePart!Done(c) PROVE Kept
  <2>1. /\ ProfilePart!Fresh(v2, v7, FALSE) /\ UNCHANGED <<v1, v2>>
        /\ v18' = (v12 = {} /\ v14' = {} /\ v1 = "profile")
    BY <1>8 DEF ProfilePart!Done, ProfilePart!place
  <2> QED
    BY <1>0, <2>1, FreshKeeps
<1>9. ASSUME NEW c \in v14, ProfilePart!NotDone(c) PROVE Kept
  <2>1. UNCHANGED <<v1, v2, v3, v4, v5, v6, v7, v12, v15, v16, v18>>
    BY <1>9 DEF ProfilePart!NotDone, ProfilePart!screen, ProfilePart!list, ProfilePart!place,
       ProfilePart!graph
  <2> QED
    BY <2>1, AsideKeeps
<1>10. ASSUME NEW l \in v12, ProfilePart!NotLoaded(l) PROVE Kept
  <2>1. v18' = FALSE /\ v4' = v4 /\ v12' = v12 \ {l}
    BY <1>10 DEF ProfilePart!NotLoaded, ProfilePart!screen
  <2> QED
    BY <2>1, LoadTyped DEF ProfilePart!OneLoad
<1>11. ASSUME NEW l \in v12, ProfilePart!GotProfile(l) \/ ProfilePart!GotKnown(l) PROVE Kept
  BY <1>11, HeaderKeeps
<1>12. ASSUME NEW l \in v12, NEW found \in BOOLEAN, ProfilePart!GotPinned(l, found) PROVE Kept
  BY <1>12, PinKeptOnProfile
<1>13. ASSUME NEW l \in v12, NEW on \in BOOLEAN, ProfilePart!GotContent(l, on) PROVE Kept
  BY <1>13, ContentKeeps
<1> QED
  BY <1>1, <1>2, <1>3, <1>4, <1>5, <1>6, <1>7, <1>8, <1>9, <1>10, <1>11, <1>12, <1>13
  DEF ProfilePart!Next

\* The account, and the question that is open.
LEMMA AccountStep ==
    ASSUME ProfilePart!ProfileInv, ProfilePart!Next
    PROVE  /\ ProfilePart!OneFollow' /\ ProfilePart!FollowedOnce' /\ v15' \in [People -> Nat]
           /\ \A c \in v14' : c.of \in People
<1> DEFINE Kept == /\ ProfilePart!OneFollow' /\ ProfilePart!FollowedOnce' /\ v15' \in [People -> Nat]
                   /\ \A c \in v14' : c.of \in People
<1>1. /\ v15 \in [People -> Nat] /\ v4 \in ProfilePart!Headers
      /\ v13 = ProfilePart!NoAsk \/ (v13.of \in People /\ v13.what \in {"mute", "unmute"})
  BY DEF ProfilePart!ProfileInv, ProfilePart!Typed
<1>2. CASE ProfilePart!Follow
  <2> DEFINE w == IF v4.follow THEN "unfollow" ELSE "follow"
  <2>1. ProfilePart!CallOut(w, v4.of) /\ v15' = v15 /\ v4.of \notin {0, 1}
    BY <1>2 DEF ProfilePart!Follow, ProfilePart!graph
  <2>2. v4.of \in People
    BY <1>1, <2>1 DEF ProfilePart!Headers
  <2>3. ASSUME w = "follow", v18, v12 = {} PROVE v15[v4.of] = 0
    <3>1. v4 = ProfilePart!Buttons(v2) /\ v2 \in People
      BY <2>1, <2>3, HeadersAre, LoadTyped DEF ProfilePart!ProfileInv, ProfilePart!OneLoad
    <3>2. v4.of = v2 /\ v4.follow = (v15[v2] > 0) /\ v15[v2] \in Nat
      BY <1>1, <3>1, HeadersAre
    <3>3. ~v4.follow
      BY <2>3
    <3>4. ~(v15[v2] > 0)
      BY Zenon, <3>2, <3>3
    <3> QED
      BY <3>2, <3>4
  <2> HIDE DEF w
  <2> QED
    BY <1>1, <2>1, <2>2, <2>3, CallKeepsFollows
<1>3. ASSUME NEW yes \in BOOLEAN, ProfilePart!Answer(yes) PROVE Kept
  <2>1. CASE yes
    <3>1. ProfilePart!CallOut(v13.what, v13.of) /\ v15' = v15 /\ v13 # ProfilePart!NoAsk
      BY <1>3, <2>1 DEF ProfilePart!Answer, ProfilePart!graph
    <3>2. v13.of \in People /\ v13.what # "follow"
      BY <1>1, <3>1
    <3> QED
      BY <1>1, <3>1, <3>2, CallKeepsFollows
  <2>2. CASE ~yes
    BY <1>3, <2>2, FollowsStay DEF ProfilePart!Answer, ProfilePart!graph
  <2> QED
    BY <2>1, <2>2
<1>4. ASSUME NEW c \in v14, ProfilePart!Done(c) PROVE Kept
  BY <1>4, ServeKeeps DEF ProfilePart!Done
<1>5. ASSUME NEW c \in v14, ProfilePart!NotDone(c) PROVE Kept
  <2>1. v14' = v14 \ {c} /\ UNCHANGED <<v15, v19>>
    BY <1>5 DEF ProfilePart!NotDone, ProfilePart!graph
  <2> QED
    BY <2>1 DEF ProfilePart!ProfileInv, ProfilePart!Typed, ProfilePart!OneFollow, ProfilePart!FollowedOnce
<1>6. CASE \/ ProfilePart!LoadMore \/ ProfilePart!ToOther \/ ProfilePart!Later \/ ProfilePart!Mute
           \/ \E p \in People : ProfilePart!OpenProfile(p) \/ ProfilePart!OpenRow(p)
           \/ \E m \in ProfilePart!Modes : ProfilePart!TabWithin(m)
  <2>1. UNCHANGED <<v14, v15, v19>>
    BY <1>6 DEF ProfilePart!LoadMore, ProfilePart!ToOther, ProfilePart!Later, ProfilePart!Mute,
       ProfilePart!OpenProfile, ProfilePart!OpenRow, ProfilePart!TabWithin, ProfilePart!graph
  <2> QED
    BY <2>1, FollowsStay
<1>7. ASSUME NEW l \in v12, \/ ProfilePart!GotProfile(l) \/ ProfilePart!GotKnown(l)
                            \/ ProfilePart!NotLoaded(l)
                            \/ \E b \in BOOLEAN : ProfilePart!GotPinned(l, b) \/ ProfilePart!GotContent(l, b)
      PROVE Kept
  <2>1. UNCHANGED <<v14, v15, v19>>
    BY <1>7 DEF ProfilePart!GotProfile, ProfilePart!GotKnown, ProfilePart!GotContent,
       ProfilePart!NotLoaded, ProfilePart!GotPinned, ProfilePart!graph
  <2> QED
    BY <2>1, FollowsStay
<1> QED
  BY <1>2, <1>3, <1>4, <1>5, <1>6, <1>7 DEF ProfilePart!Next

\* Which tab is shown, whose profile is open, and what is asked.
LEMMA PlaceStep ==
    ASSUME ProfilePart!ProfileInv, ProfilePart!Next
    PROVE  /\ v1' \in {"profile", "other"} /\ v2' \in People /\ v3' \in ProfilePart!Modes
           /\ v13' = ProfilePart!NoAsk \/ (v13'.of \in People /\ v13'.what \in {"mute", "unmute"})
<1>1. /\ v1 \in {"profile", "other"} /\ v2 \in People /\ v3 \in ProfilePart!Modes
      /\ v4 \in ProfilePart!Headers /\ "posts" \in ProfilePart!Modes
      /\ v13 = ProfilePart!NoAsk \/ (v13.of \in People /\ v13.what \in {"mute", "unmute"})
  BY DEF ProfilePart!ProfileInv, ProfilePart!Typed, ProfilePart!Modes
<1>2. CASE ProfilePart!Mute
  <2>1. /\ v13' = [what |-> IF v4.mute THEN "unmute" ELSE "mute", of |-> v4.of] /\ v4.of # 0
        /\ UNCHANGED <<v1, v2, v3>>
    BY <1>2 DEF ProfilePart!Mute, ProfilePart!place
  <2>2. v4.of \in People
    BY <1>1, <2>1 DEF ProfilePart!Headers
  <2>3. v13'.of = v4.of /\ v13'.what \in {"mute", "unmute"}
    BY <2>1
  <2> QED
    BY <1>1, <2>1, <2>2, <2>3
<1>3. CASE \/ ProfilePart!LoadMore \/ ProfilePart!ToOther \/ ProfilePart!Later \/ ProfilePart!Follow
           \/ \E p \in People : ProfilePart!OpenProfile(p) \/ ProfilePart!OpenRow(p)
           \/ \E m \in ProfilePart!Modes : ProfilePart!TabWithin(m)
           \/ \E yes \in BOOLEAN : ProfilePart!Answer(yes)
  BY <1>1, <1>3 DEF ProfilePart!LoadMore, ProfilePart!ToOther, ProfilePart!Later, ProfilePart!Follow,
     ProfilePart!OpenProfile, ProfilePart!Switch, ProfilePart!OpenRow, ProfilePart!TabWithin,
     ProfilePart!Answer, ProfilePart!place, ProfilePart!NoAsk
<1>4. CASE \/ \E l \in v12 : \/ ProfilePart!GotProfile(l) \/ ProfilePart!GotKnown(l)
                             \/ ProfilePart!NotLoaded(l)
                             \/ \E b \in BOOLEAN : ProfilePart!GotPinned(l, b) \/ ProfilePart!GotContent(l, b)
           \/ \E c \in v14 : ProfilePart!Done(c) \/ ProfilePart!NotDone(c)
  BY <1>1, <1>4 DEF ProfilePart!GotProfile, ProfilePart!GotKnown, ProfilePart!GotContent,
     ProfilePart!NotLoaded, ProfilePart!GotPinned, ProfilePart!Done, ProfilePart!NotDone,
     ProfilePart!place, ProfilePart!NoAsk
<1> QED
  BY <1>2, <1>3, <1>4 DEF ProfilePart!Next

\* A step of a profile.
LEMMA StepProfile == ProfilePart!ProfileInv /\ [ProfilePart!Next]_(ProfilePart!vars) => ProfilePart!ProfileInv'
<1> SUFFICES ASSUME ProfilePart!ProfileInv, [ProfilePart!Next]_(ProfilePart!vars)
             PROVE  ProfilePart!ProfileInv'
  OBVIOUS
<1>1. CASE ProfilePart!Next
  BY <1>1, PlaceStep, LoadStep, AccountStep, MarkKept
  DEF ProfilePart!ProfileInv, ProfilePart!Typed, ProfilePart!NoAsk, ProfilePart!Headers, ProfilePart!Modes
<1>2. CASE UNCHANGED ProfilePart!vars
  <2>1. /\ UNCHANGED <<v1, v2, v3, v4, v5, v6, v7, v8, v9, v10, v11, v12, v13, v14, v15, v16>>
        /\ UNCHANGED <<v17, v18, v19, v20>>
    BY <1>2 DEF ProfilePart!vars, ProfilePart!screen, ProfilePart!list, ProfilePart!place,
       ProfilePart!graph
  <2>2. ProfilePart!OneLoad'
    BY <2>1, AsideKeeps
  <2> QED
    BY <2>1, <2>2 DEF ProfilePart!ProfileInv, ProfilePart!Typed, ProfilePart!OneFollow,
       ProfilePart!FollowedOnce, ProfilePart!BusyEnds, ProfilePart!OtherRowsStay,
       ProfilePart!NoAsk, ProfilePart!Headers, ProfilePart!Modes
<1> QED
  BY <1>1, <1>2

\* What a profile promises follows from it.
LEMMA ProfileTells ==
    ProfilePart!ProfileInv => /\ ProfilePart!RowsOnScreen /\ ProfilePart!PostOnce
                              /\ ProfilePart!ButtonsTellTruth /\ ProfilePart!BusyEnds
                              /\ ProfilePart!OtherRowsStay
<1> SUFFICES ASSUME ProfilePart!ProfileInv
             PROVE  /\ ProfilePart!RowsOnScreen /\ ProfilePart!PostOnce
                    /\ ProfilePart!ButtonsTellTruth /\ ProfilePart!BusyEnds
                    /\ ProfilePart!OtherRowsStay
  OBVIOUS
<1>1. ProfilePart!Quiet => ProfilePart!Shown /\ v4.of = v2
  BY LoadTyped, HeadersAre
  DEF ProfilePart!Quiet, ProfilePart!ProfileInv, ProfilePart!OneLoad, ProfilePart!Shown
<1> QED
  BY <1>1 DEF ProfilePart!ProfileInv, ProfilePart!RowsOnScreen, ProfilePart!PostOnce,
     ProfilePart!ButtonsTellTruth, ProfilePart!FollowedOnce, ProfilePart!Shown

-----------------------------------------------------------------------------
(***************************************************************************)
(* The search and the picker.  Their state: v1 open, v2 typed, v3 timer,   *)
(* v4 gets, v5 calls, v6 grid, v7 overtaken, v8 here, v9 mine, v10 other,  *)
(* v11 rows, v12 busy, v13 hunts, v14 asked, v15 mixed.                    *)
(***************************************************************************)
\* Both as they come.
LEMMA InitFinder == FinderPart!Init => FinderPart!FinderInv
BY DEF FinderPart!Init, FinderPart!FinderInv, FinderPart!OneRequest, FinderPart!OneSearch,
   FinderPart!BusyEnds

\* A request runs alone, or is not counted on.
LEMMA RequestIsOne ==
    ASSUME NEW q, FinderPart!Request(q), v2' = q, v3' = FinderPart!Off, ~v7' => v4 = {}
    PROVE  FinderPart!OneRequest'
<1>1. PICK g : g.query = q /\ v4' = v4 \cup {g}
  <2> DEFINE h == [query |-> q, n |-> v5']
  <2>1. h.query = q /\ v4' = v4 \cup {h}
    BY DEF FinderPart!Request
  <2> HIDE DEF h
  <2> QED
    BY <2>1
<1> SUFFICES ASSUME ~v7' PROVE \E h \in v4' : v4' = {h} /\ h.query = v2'
  BY DEF FinderPart!OneRequest, FinderPart!Off
<1>2. v4 = {}
  OBVIOUS
<1> QED
  BY <1>1, <1>2

\* A step of the picker.
LEMMA StepPicker ==
    ASSUME FinderPart!FinderInv,
           \/ FinderPart!Fire \/ FinderPart!openGifPicker \/ FinderPart!CloseGif
           \/ \E g \in v4 : FinderPart!renderGifs(g)
           \/ \E q \in Queries \cup {FinderPart!Trending} : FinderPart!InputGif(q)
    PROVE  FinderPart!FinderInv'
<1>0. FinderPart!OneRequest
  BY DEF FinderPart!FinderInv
<1>1. UNCHANGED <<v8, v9, v10, v11, v12, v13, v15>>
  BY DEF FinderPart!Fire, FinderPart!openGifPicker, FinderPart!CloseGif, FinderPart!renderGifs,
     FinderPart!InputGif, FinderPart!search
<1>2. ASSUME FinderPart!Fire PROVE FinderPart!OneRequest'
  <2>1. CASE v1 /\ ~v7
    <3>1. v3 = v2
      BY <1>0, <1>2, <2>1 DEF FinderPart!OneRequest, FinderPart!Fire
    <3> QED
      BY <1>2, <3>1, RequestIsOne DEF FinderPart!Fire
  <2>2. CASE ~(v1 /\ ~v7)
    <3>1. ~(v1' /\ ~v7')
      BY <1>2, <2>2 DEF FinderPart!Fire
    <3> QED
      BY <3>1 DEF FinderPart!OneRequest
  <2> QED
    BY <2>1, <2>2
<1>3. ASSUME FinderPart!openGifPicker PROVE FinderPart!OneRequest'
  <2>1. /\ FinderPart!Request(FinderPart!Trending) /\ v2' = FinderPart!Trending /\ v3' = v3
        /\ ~v7' => v4 = {} /\ v3 = FinderPart!Off
    BY <1>3 DEF FinderPart!openGifPicker
  <2>2. v7' => FinderPart!OneRequest'
    BY DEF FinderPart!OneRequest
  <2>3. ~v7' => FinderPart!OneRequest'
    BY <2>1, RequestIsOne
  <2> QED
    BY <2>2, <2>3
<1>4. ASSUME FinderPart!CloseGif PROVE FinderPart!OneRequest'
  BY <1>4 DEF FinderPart!CloseGif, FinderPart!OneRequest
<1>5. ASSUME NEW g \in v4, FinderPart!renderGifs(g) PROVE FinderPart!OneRequest'
  BY <1>0, <1>5 DEF FinderPart!renderGifs, FinderPart!OneRequest
<1>6. ASSUME NEW q \in Queries \cup {FinderPart!Trending}, FinderPart!InputGif(q)
      PROVE  FinderPart!OneRequest'
  <2>1. q # FinderPart!Off
    BY SetsAssumption DEF FinderPart!Off, FinderPart!Trending
  <2> QED
    BY <1>6, <2>1 DEF FinderPart!InputGif, FinderPart!OneRequest
<1>7. FinderPart!OneRequest'
  BY <1>2, <1>3, <1>4, <1>5, <1>6
<1> QED
  BY <1>1, <1>7 DEF FinderPart!FinderInv, FinderPart!OneSearch, FinderPart!BusyEnds

\* A step of the tab.
LEMMA StepTab ==
    ASSUME FinderPart!FinderInv,
           \/ FinderPart!Switch \/ \E q \in Queries : FinderPart!Search(q)
           \/ \E i \in DOMAIN v13, ok \in BOOLEAN : FinderPart!Results(i, ok)
    PROVE  FinderPart!FinderInv'
<1>0. v13 \in Seq(Queries) /\ FinderPart!OneSearch /\ FinderPart!BusyEnds
  BY DEF FinderPart!FinderInv
<1>1. UNCHANGED <<v1, v2, v3, v4, v6, v7>>
  BY DEF FinderPart!Switch, FinderPart!Search, FinderPart!Results, FinderPart!picker
<1>2. FinderPart!OneRequest'
  BY <1>1 DEF FinderPart!FinderInv, FinderPart!OneRequest
<1>3. CASE FinderPart!Switch
  <2>1. UNCHANGED <<v9, v11, v12, v13>> /\ v10' = <<>> /\ (~v15' => ~v15 /\ v13 = <<>>)
    BY <1>3 DEF FinderPart!Switch
  <2>2. ~v15 /\ v13 = <<>> => v9 = v11
    BY <1>0 DEF FinderPart!OneSearch
  <2>3. FinderPart!OneSearch'
    BY <2>1, <2>2 DEF FinderPart!OneSearch
  <2> QED
    BY <1>0, <1>2, <2>1, <2>3 DEF FinderPart!FinderInv, FinderPart!BusyEnds
<1>4. ASSUME NEW q \in Queries, FinderPart!Search(q) PROVE FinderPart!FinderInv'
  <2>1. v13' = Append(v13, q) /\ v13' \in Seq(Queries) /\ v13' # <<>>
    BY <1>0, <1>4 DEF FinderPart!Search
  <2>2. FinderPart!OneSearch'
    <3>1. v9' = <<>> /\ v10' = v10 /\ v8' = v8 /\ v8 /\ (~v15' => ~v15 /\ v13 = <<>>)
      BY <1>4 DEF FinderPart!Search
    <3>2. ~v15 => v10 = <<>>
      BY <1>0 DEF FinderPart!OneSearch
    <3>3. v13 = <<>> => Len(v13') = 1
      BY <2>1
    <3> QED
      BY <3>1, <3>2, <3>3 DEF FinderPart!OneSearch
  <2> QED
    BY <1>2, <2>1, <2>2 DEF FinderPart!FinderInv, FinderPart!BusyEnds
<1>5. ASSUME NEW i \in DOMAIN v13, NEW ok \in BOOLEAN, FinderPart!Results(i, ok)
      PROVE  FinderPart!FinderInv'
  <2>1. v13' = SubSeq(v13, 1, i - 1) \o SubSeq(v13, i + 1, Len(v13)) /\ i \in 1..Len(v13)
    BY <1>0, <1>5 DEF FinderPart!Results
  <2>2. v13' \in Seq(Queries) /\ Len(v13') = Len(v13) - 1
    <3>1. SubSeq(v13, 1, i - 1) \in Seq(Queries) /\ Len(SubSeq(v13, 1, i - 1)) = i - 1
      BY <1>0, <2>1
    <3>2. SubSeq(v13, i + 1, Len(v13)) \in Seq(Queries) /\ Len(SubSeq(v13, i + 1, Len(v13))) = Len(v13) - i
      BY <1>0, <2>1
    <3>3. \A s, t \in Seq(Queries) : s \o t \in Seq(Queries) /\ Len(s \o t) = Len(s) + Len(t)
      OBVIOUS
    <3>4. Len(v13) \in Nat /\ i \in Nat
      BY <1>0, <2>1
    <3>5. v13' \in Seq(Queries) /\ Len(v13') = (i - 1) + (Len(v13) - i)
      BY <2>1, <3>1, <3>2, <3>3
    <3> QED
      BY <3>4, <3>5
  <2>3. ASSUME ~v15, Len(v13) = 1
        PROVE  v13' = <<>> /\ v9' = v11' /\ v10' = <<>>
    <3>1. v8 /\ v9 = <<>> /\ v10 = <<>> /\ i = 1
      BY <1>0, <2>1, <2>3 DEF FinderPart!OneSearch
    <3>2. v13' = <<>>
      BY <2>2, <2>3, EmptySeq
    <3> QED
      BY <1>5, <3>1, <3>2 DEF FinderPart!Results
  <2>4. ~v15 => Len(v13) = 1
    BY <1>0, <2>1 DEF FinderPart!OneSearch
  <2>5. FinderPart!OneSearch' /\ FinderPart!BusyEnds'
    BY <1>5, <2>3, <2>4 DEF FinderPart!Results, FinderPart!Settled, FinderPart!OneSearch, FinderPart!BusyEnds
  <2> QED
    BY <1>2, <2>2, <2>5 DEF FinderPart!FinderInv
<1> QED
  BY <1>3, <1>4, <1>5

\* A step of either.
LEMMA StepFinder == FinderPart!FinderInv /\ [FinderPart!Next]_(FinderPart!vars) => FinderPart!FinderInv'
<1> SUFFICES ASSUME FinderPart!FinderInv, [FinderPart!Next]_(FinderPart!vars)
             PROVE  FinderPart!FinderInv'
  OBVIOUS
<1>1. CASE FinderPart!Next
  BY <1>1, StepPicker, StepTab DEF FinderPart!Next, FinderPart!Answers
<1>2. CASE UNCHANGED FinderPart!vars
  BY <1>2 DEF FinderPart!vars, FinderPart!picker, FinderPart!search, FinderPart!FinderInv,
     FinderPart!OneRequest, FinderPart!OneSearch, FinderPart!BusyEnds
<1> QED
  BY <1>1, <1>2

\* What they promise.
LEMMA FinderTells ==
    FinderPart!FinderInv => FinderPart!GridIsOfField /\ FinderPart!RowsAreState /\ FinderPart!BusyEnds
BY DEF FinderPart!FinderInv, FinderPart!OneRequest, FinderPart!OneSearch, FinderPart!GridIsOfField,
   FinderPart!RowsAreState

-----------------------------------------------------------------------------
(***************************************************************************)
(* Feeds.  Their state: v1 acct, v2 listed, v3 tab, v4 mode, v5 panel,     *)
(* v6 rows, v7 kept, v8 busy, v9 loads, v10 ask, v11 calls, v12 route,     *)
(* v13 uri, v14 loaded, v15 shows, v16 n, v17 wanted, v18 blind, v19 lost, *)
(* v20 clean, v21 chosen.                                                  *)
(***************************************************************************)
\* A finite set can be put in an order.
LEMMA SetInOrder ==
    ASSUME NEW S, IsFiniteSet(S)
    PROVE  Cardinality(S) \in Nat /\ \E s : s \in Bijection(1..Cardinality(S), S)
<1>1. Cardinality(S) \in Nat /\ ExistsBijection(1..Cardinality(S), S)
  BY FS_CardinalityType
<1> QED
  BY <1>1 DEF ExistsBijection

\* The feeds of a set are.
LEMMA FeedsInOrder ==
    ASSUME NEW S \in SUBSET FeedIds
    PROVE  Cardinality(S) \in Nat /\ FeedsPart!InOrder(S) \in [1..Cardinality(S) -> S]
<1>1. IsFiniteSet(S)
  BY FinitenessAssumption, FS_Subset
<1>2. FeedsPart!Bijection(1..Cardinality(S), S) = Bijection(1..Cardinality(S), S)
  BY DEF FeedsPart!Bijection, Bijection, FeedsPart!Injection, Injection, FeedsPart!Surjection,
         Surjection, FeedsPart!IsInjective, IsInjective
<1>3. FeedsPart!InOrder(S) = CHOOSE s \in Bijection(1..Cardinality(S), S) : TRUE
  BY <1>2 DEF FeedsPart!InOrder, FeedsPart!Cardinality, Cardinality
<1>4. FeedsPart!InOrder(S) \in Bijection(1..Cardinality(S), S)
  BY <1>1, <1>3, SetInOrder
<1> QED
  BY <1>1, <1>4, SetInOrder DEF Bijection, Injection

\* What a mode shows is a sequence of rows of that mode, which say what the list has.
LEMMA RowsOfMode ==
    ASSUME NEW m \in FeedsPart!Modes, NEW list
    PROVE  /\ \E X : FeedsPart!RowsOf(m, list) \in Seq(X)
           /\ \A i \in DOMAIN FeedsPart!RowsOf(m, list) :
                 LET r == FeedsPart!RowsOf(m, list)[i] IN r.m = m /\ (r.f # 0 => r.st = list[r.f])
<1> DEFINE At(f) == [m |-> m, f |-> f, st |-> IF f = 0 THEN "" ELSE list[f]]
           S     == {f \in FeedIds : list[f] # "no"}
           Has   == FeedsPart!InOrder(S)
           All   == FeedsPart!InOrder(FeedIds)
           X     == {At(f) : f \in FeedIds \cup {0, All[1]}}
           R     == FeedsPart!RowsOf(m, list)
<1>1. \A x \in X : x.m = m /\ (x.f # 0 => x.st = list[x.f])
  <2>1. \A f : At(f).m = m /\ At(f).f = f /\ (f # 0 => At(f).st = list[f])
    OBVIOUS
  <2>2. \A x \in X : \E f : x = At(f)
    OBVIOUS
  <2> HIDE DEF At, X
  <2> QED
    BY <2>1, <2>2
<1>2. At(0) \in X /\ At(All[1]) \in X /\ \A f \in FeedIds : At(f) \in X
  OBVIOUS
<1> DEFINE OfHas == [i \in DOMAIN Has |-> At(Has[i])]
           OfAll == [i \in DOMAIN All |-> At(All[i])]
<1>3. OfHas \in Seq(X)
  <2>1. Cardinality(S) \in Nat /\ Has \in [1..Cardinality(S) -> S]
    BY FeedsInOrder
  <2>2. OfHas \in [1..Cardinality(S) -> X]
    <3> HIDE DEF Has, At, X
    <3>1. DOMAIN Has = 1..Cardinality(S) /\ \A i \in 1..Cardinality(S) : Has[i] \in FeedIds
      BY <2>1
    <3> QED
      BY <3>1, <1>2
  <2> HIDE DEF OfHas, X
  <2> QED
    BY <2>1, <2>2, SeqDef
<1>4. OfAll \in Seq(X)
  <2>1. Cardinality(FeedIds) \in Nat /\ All \in [1..Cardinality(FeedIds) -> FeedIds]
    BY FeedsInOrder
  <2>2. OfAll \in [1..Cardinality(FeedIds) -> X]
    <3> HIDE DEF All, At, X
    <3>1. DOMAIN All = 1..Cardinality(FeedIds) /\ \A i \in 1..Cardinality(FeedIds) : All[i] \in FeedIds
      BY <2>1
    <3> QED
      BY <3>1, <1>2
  <2> HIDE DEF OfAll, X
  <2> QED
    BY <2>1, <2>2, SeqDef
<1>5. R = CASE m = "saved" -> <<At(0)>> \o OfHas
            [] m = "discover" -> OfAll
            [] m = "trending" -> <<At(All[1])>>
            [] m = "lists" -> <<At(0)>>
  BY DEF FeedsPart!RowsOf
<1>6. R \in Seq(X)
  <2> HIDE DEF At, X, OfHas, OfAll, R, All
  <2>1. <<At(0)>> \in Seq(X) /\ <<At(All[1])>> \in Seq(X)
    BY <1>2
  <2>2. <<At(0)>> \o OfHas \in Seq(X)
    BY <2>1, <1>3
  <2> QED
    BY <2>1, <2>2, <1>4, <1>5 DEF FeedsPart!Modes
<1>7. \A i \in DOMAIN R : R[i] \in X
  <2> HIDE DEF R, X
  <2> QED
    BY <1>6
<1> QED
  <2> HIDE DEF R, X
  <2>1. \A i \in DOMAIN R : R[i].m = m /\ (R[i].f # 0 => R[i].st = list[R[i].f])
    BY <1>1, <1>7
  <2> QED
    BY <2>1, <1>6 DEF R

LEMMA InitFeeds == ASSUME FeedsPart!Init PROVE FeedsPart!FeedsInv
BY DEF FeedsPart!Init, FeedsPart!FeedsInv, FeedsPart!Modes, FeedsPart!OneLoad, FeedsPart!OneChoice,
       FeedsPart!ChosenIsShown

\* Rows that come for the one load there is, of the mode that is set, are all that is shown.
LEMMA RenderedAlone ==
    ASSUME FeedsPart!FeedsInv, NEW l, NEW list, v9 = {l}, v6 = <<>>,
           FeedsPart!Rendered(l, v4, list), v4' = v4, ~v19' => list = v1'
    PROVE  v9' = {} /\ FeedsPart!Shown'
<1>1. PICK R : R = FeedsPart!RowsOf(v4, list)
  OBVIOUS
<1>2. v4 \in FeedsPart!Modes
  BY DEF FeedsPart!FeedsInv
<1>3. /\ \E X : R \in Seq(X)
      /\ \A i \in DOMAIN R : R[i].m = v4 /\ (R[i].f # 0 => R[i].st = list[R[i].f])
  BY <1>1, <1>2, RowsOfMode
<1>4. v5' = R /\ v6' = v6 \o R /\ v9' = v9 \ {l}
  BY <1>1 DEF FeedsPart!Rendered
<1>5. v6' = R
  BY <1>3, <1>4, EmptySeq, ConcatEmptySeq
<1> QED
  BY <1>3, <1>4, <1>5 DEF FeedsPart!Shown

\* A load that begins with nothing out is the one there is.
LEMMA BeginIsOne ==
    ASSUME NEW was, v9 = {}, FeedsPart!Begin(was), v3' = "feeds"
    PROVE  FeedsPart!OneLoad'
BY DEF FeedsPart!Begin, FeedsPart!NewLoad, FeedsPart!OneLoad

\* The loads of the tab.
LEMMA StepOfLoads ==
    ASSUME FeedsPart!FeedsInv,
           \/ \E m \in FeedsPart!Modes : FeedsPart!ToFeeds(m) \/ FeedsPart!SetMode(m)
           \/ \E l \in v9 : \/ FeedsPart!GotRows(l) \/ FeedsPart!NotLoaded(l)
                            \/ \E list \in FeedsPart!Answers : FeedsPart!GotSaved(l, list)
    PROVE  FeedsPart!FeedsInv'
<1> USE DEF FeedsPart!FeedsInv, FeedsPart!Idle, FeedsPart!saved, FeedsPart!line
<1>1. ASSUME NEW m \in FeedsPart!Modes, FeedsPart!ToFeeds(m) \/ FeedsPart!SetMode(m)
      PROVE  FeedsPart!FeedsInv'
  <2>1. v4' = m /\ v20' = FeedsPart!Idle /\ v3' = "feeds" /\ \E was : FeedsPart!Begin(was)
    BY <1>1 DEF FeedsPart!ToFeeds, FeedsPart!SetMode
  <2>2. UNCHANGED <<v1, v2, v17, v11, v13, v15, v18, v21>>
    BY <1>1 DEF FeedsPart!ToFeeds, FeedsPart!SetMode
  <2>3. FeedsPart!OneLoad'
    <3>1. CASE v20'
      BY <2>1, <2>2, <3>1, BeginIsOne
    <3>2. CASE ~v20'
      BY <3>2 DEF FeedsPart!OneLoad
    <3> QED
      BY <3>1, <3>2
  <2>4. FeedsPart!OneChoice' /\ FeedsPart!ChosenIsShown'
    BY <2>2 DEF FeedsPart!OneChoice, FeedsPart!ChosenIsShown
  <2> QED
    BY <1>1, <2>1, <2>3, <2>4
<1>2. ASSUME NEW l \in v9, FeedsPart!GotRows(l)
      PROVE  FeedsPart!FeedsInv'
  <2>1. UNCHANGED <<v1, v2, v17, v3, v4, v11, v13, v15, v18, v19, v20, v21>>
    BY <1>2 DEF FeedsPart!GotRows
  <2>2. FeedsPart!OneLoad'
    <3>1. CASE v20
      <4>1. v9 = {l} /\ l.at = v4 /\ (~v19 => v2 = v1) /\ v6 = <<>>
        BY <1>2, <3>1 DEF FeedsPart!OneLoad, FeedsPart!GotRows
      <4>2. v9' = {} /\ FeedsPart!Shown'
        BY <1>2, <2>1, <4>1, RenderedAlone DEF FeedsPart!GotRows
      <4> QED
        BY <4>2 DEF FeedsPart!OneLoad
    <3>2. CASE ~v20
      BY <2>1, <3>2 DEF FeedsPart!OneLoad
    <3> QED
      BY <3>1, <3>2
  <2> QED
    BY <2>1, <2>2 DEF FeedsPart!OneChoice, FeedsPart!ChosenIsShown
<1>3. ASSUME NEW l \in v9, FeedsPart!NotLoaded(l)
      PROVE  FeedsPart!FeedsInv'
  BY <1>3 DEF FeedsPart!NotLoaded, FeedsPart!OneLoad, FeedsPart!OneChoice, FeedsPart!ChosenIsShown
<1>4. ASSUME NEW l \in v9, NEW list \in FeedsPart!Answers, FeedsPart!GotSaved(l, list)
      PROVE  FeedsPart!FeedsInv'
  <2>1. /\ UNCHANGED <<v1, v17, v3, v4, v11, v13, v15, v18, v20, v21>>
        /\ ~v19' => v2' = v1'
    BY <1>4 DEF FeedsPart!GotSaved
  <2>2. FeedsPart!OneLoad'
    <3>1. CASE v20
      <4>1. v9 = {l} /\ v6 = <<>> /\ v3 = "feeds"
        BY <1>4, <3>1 DEF FeedsPart!OneLoad
      <4>2. CASE v4 = "saved"
        <5>1. FeedsPart!Rendered(l, v4, v2')
          BY <1>4, <4>2 DEF FeedsPart!GotSaved
        <5>2. v9' = {} /\ FeedsPart!Shown'
          BY <2>1, <4>1, <5>1, RenderedAlone
        <5> QED
          BY <5>2 DEF FeedsPart!OneLoad
      <4>3. CASE v4 # "saved"
        <5> DEFINE new == [at |-> v4, k |-> l.k]
        <5>1. v9' = {new} /\ v6' = <<>>
          BY <1>4, <4>1, <4>3 DEF FeedsPart!GotSaved
        <5>2. new.at = v4'
          BY <2>1
        <5> QED
          <6> HIDE DEF new
          <6> QED
            BY <2>1, <4>1, <5>1, <5>2 DEF FeedsPart!OneLoad
      <4> QED
        BY <4>2, <4>3
    <3>2. CASE ~v20
      BY <2>1, <3>2 DEF FeedsPart!OneLoad
    <3> QED
      BY <3>1, <3>2
  <2> QED
    BY <2>1, <2>2 DEF FeedsPart!OneChoice, FeedsPart!ChosenIsShown
<1> QED
  BY <1>1, <1>2, <1>3, <1>4

\* A choice is the only one, made from what the account has, or it is blind.
LEMMA ChoiceIsOne ==
    ASSUME FeedsPart!FeedsInv, NEW f, NEW to, FeedsPart!Choose(f, to)
    PROVE  FeedsPart!FeedsInv'
<1> DEFINE c == [f |-> f, to |-> to, sent |-> FeedsPart!Sent(f, to), k |-> v16]
<1>1. /\ UNCHANGED <<v1, v2, v3, v4, v5, v6, v9, v13, v15, v17, v19, v21>>
      /\ v11' = v11 \cup {c}
      /\ v18' = (v18 \/ v2 # v1 \/ v11 # {}) /\ v20' = (v20 /\ v9 = {})
  BY DEF FeedsPart!Choose, FeedsPart!saved, FeedsPart!screen, FeedsPart!line
<1>2. FeedsPart!OneLoad'
  BY <1>1 DEF FeedsPart!FeedsInv, FeedsPart!OneLoad, FeedsPart!Shown
<1>3. FeedsPart!OneChoice'
  <2> SUFFICES ASSUME ~v18' PROVE v1' = v17' /\ \A d \in v11' : v11' = {d} /\ d.sent = [v1' EXCEPT ![d.f] = d.to]
    BY DEF FeedsPart!OneChoice
  <2>1. v11' = {c} /\ v2 = v1 /\ v1 = v17
    BY <1>1 DEF FeedsPart!FeedsInv, FeedsPart!OneChoice
  <2>2. c.sent = [v1 EXCEPT ![c.f] = c.to]
    BY <2>1 DEF FeedsPart!Sent
  <2> QED
    <3> HIDE DEF c
    <3> QED
      BY <1>1, <2>1, <2>2
<1> QED
  BY <1>1, <1>2, <1>3 DEF FeedsPart!FeedsInv, FeedsPart!ChosenIsShown

\* What is carried out alone is what was chosen.
LEMMA CarriedIsWanted ==
    ASSUME FeedsPart!FeedsInv, NEW c \in v11, FeedsPart!Carried(c), v11' = v11 \ {c}, v18' = v18
    PROVE  FeedsPart!OneChoice'
BY DEF FeedsPart!Carried, FeedsPart!FeedsInv, FeedsPart!OneChoice

LEMMA StepOfChoices ==
    ASSUME FeedsPart!FeedsInv,
           \/ \E r \in FeedsPart!Range(v5) : FeedsPart!Save(r) \/ FeedsPart!Pin(r) \/ FeedsPart!Unsave(r)
           \/ \E b \in BOOLEAN : FeedsPart!Answer(b) \/ \E c \in v11 : FeedsPart!NotDone(c, b)
           \/ \E c \in v11 : FeedsPart!Done(c)
    PROVE  FeedsPart!FeedsInv'
<1> USE DEF FeedsPart!saved, FeedsPart!screen, FeedsPart!line
<1>1. ASSUME NEW r, FeedsPart!Save(r) \/ FeedsPart!Pin(r)
      PROVE  FeedsPart!FeedsInv'
  <2>1. \E f, to : FeedsPart!Choose(f, to)
    BY <1>1 DEF FeedsPart!Save, FeedsPart!Pin
  <2> QED
    BY <2>1, ChoiceIsOne
<1>2. ASSUME NEW r, FeedsPart!Unsave(r)
      PROVE  FeedsPart!FeedsInv'
  BY <1>2 DEF FeedsPart!Unsave, FeedsPart!FeedsInv, FeedsPart!OneLoad, FeedsPart!OneChoice,
              FeedsPart!ChosenIsShown, FeedsPart!Shown
<1>3. ASSUME NEW b \in BOOLEAN, FeedsPart!Answer(b)
      PROVE  FeedsPart!FeedsInv'
  <2>1. CASE b
    BY <1>3, <2>1, ChoiceIsOne DEF FeedsPart!Answer
  <2>2. CASE ~b
    BY <1>3, <2>2 DEF FeedsPart!Answer, FeedsPart!FeedsInv, FeedsPart!OneLoad, FeedsPart!OneChoice,
                      FeedsPart!ChosenIsShown, FeedsPart!Shown
  <2> QED
    BY <2>1, <2>2
<1>4. ASSUME NEW b \in BOOLEAN, NEW c \in v11, FeedsPart!NotDone(c, b)
      PROVE  FeedsPart!FeedsInv'
  <2>1. /\ UNCHANGED <<v3, v4, v5, v6, v9, v13, v15, v18, v20, v21>>
        /\ v19' = TRUE /\ v11' = v11 \ {c} /\ v2' = v2
    BY <1>4 DEF FeedsPart!NotDone, FeedsPart!Carried
  <2>2. FeedsPart!OneChoice'
    <3>1. CASE b
      BY <1>4, <2>1, <3>1, CarriedIsWanted DEF FeedsPart!NotDone
    <3>2. CASE ~b
      BY <1>4, <2>1, <3>2 DEF FeedsPart!NotDone, FeedsPart!OneChoice, FeedsPart!FeedsInv
    <3> QED
      BY <3>1, <3>2
  <2> QED
    BY <2>1, <2>2 DEF FeedsPart!FeedsInv, FeedsPart!OneLoad, FeedsPart!ChosenIsShown, FeedsPart!Shown
<1>5. ASSUME NEW c \in v11, FeedsPart!Done(c)
      PROVE  FeedsPart!FeedsInv'
  <2>1. /\ UNCHANGED <<v3, v4, v13, v15, v18, v19, v21>> /\ v11' = v11 \ {c}
        /\ v20' = (v9 = {} /\ v11' = {} /\ v3 = "feeds")
    BY <1>5 DEF FeedsPart!Done
  <2>2. FeedsPart!OneChoice'
    BY <1>5, <2>1, CarriedIsWanted DEF FeedsPart!Done
  <2>3. FeedsPart!OneLoad'
    <3>1. FeedsPart!Begin(v6)
      BY <1>5 DEF FeedsPart!Done
    <3>2. CASE v20'
      BY <2>1, <3>1, <3>2, BeginIsOne
    <3>3. CASE ~v20'
      BY <3>3 DEF FeedsPart!OneLoad
    <3> QED
      BY <3>2, <3>3
  <2> QED
    BY <2>1, <2>2, <2>3 DEF FeedsPart!FeedsInv, FeedsPart!ChosenIsShown
<1> QED
  BY <1>1, <1>2, <1>3, <1>4, <1>5

\* On the timeline the rows of the tab are not looked at.
LEMMA LineIsShown ==
    ASSUME FeedsPart!FeedsInv, NEW f, FeedsPart!ToTimeline(f)
    PROVE  FeedsPart!FeedsInv'
<1>1. /\ UNCHANGED <<v1, v2, v17, v4, v9, v11, v18, v19>> /\ v3' = "timeline"
      /\ v20' = (v20 /\ v9 = {} /\ v11 = {})
  BY DEF FeedsPart!ToTimeline, FeedsPart!saved, FeedsPart!Idle
<1>2. FeedsPart!ChosenIsShown'
  BY DEF FeedsPart!ToTimeline, FeedsPart!Loads, FeedsPart!ChosenIsShown
<1> QED
  BY <1>1, <1>2 DEF FeedsPart!FeedsInv, FeedsPart!OneLoad, FeedsPart!OneChoice

LEMMA StepOfTimeline ==
    ASSUME FeedsPart!FeedsInv,
           \/ FeedsPart!KeyTimeline
           \/ \E f \in FeedIds \cup {0} : FeedsPart!AltShift(f)
           \/ \E r \in FeedsPart!Range(v5) : FeedsPart!OpenFeed(r) \/ FeedsPart!OpenTrend(r)
           \/ \E b \in BOOLEAN : FeedsPart!TrendFound(b)
    PROVE  FeedsPart!FeedsInv'
<1> USE DEF FeedsPart!saved, FeedsPart!screen, FeedsPart!line
<1>1. ASSUME NEW f, FeedsPart!ToTimeline(f)
      PROVE  FeedsPart!FeedsInv'
  BY <1>1, LineIsShown
<1>2. ASSUME NEW f, FeedsPart!AltShift(f)
      PROVE  FeedsPart!FeedsInv'
  <2>1. /\ UNCHANGED <<v1, v2, v17, v4, v9, v11, v18, v19>> /\ v3' = "timeline"
        /\ v20' = (v20 /\ v9 = {} /\ v11 = {})
    BY <1>2 DEF FeedsPart!AltShift, FeedsPart!Idle
  <2>2. FeedsPart!ChosenIsShown'
    BY <1>2 DEF FeedsPart!AltShift, FeedsPart!Loads, FeedsPart!ChosenIsShown
  <2> QED
    BY <2>1, <2>2 DEF FeedsPart!FeedsInv, FeedsPart!OneLoad, FeedsPart!OneChoice
<1>3. ASSUME UNCHANGED <<FeedsPart!saved, FeedsPart!screen, FeedsPart!line, v3, v4, v11, v18, v19, v20>>
      PROVE  FeedsPart!FeedsInv'
  BY <1>3 DEF FeedsPart!FeedsInv, FeedsPart!OneLoad, FeedsPart!OneChoice, FeedsPart!ChosenIsShown,
              FeedsPart!Shown
<1>4. CASE FeedsPart!KeyTimeline
  BY <1>1, <1>4 DEF FeedsPart!KeyTimeline
<1>5. ASSUME NEW r, FeedsPart!OpenFeed(r) \/ FeedsPart!OpenTrend(r)
      PROVE  FeedsPart!FeedsInv'
  BY <1>1, <1>3, <1>5 DEF FeedsPart!OpenFeed, FeedsPart!OpenTrend
<1>6. ASSUME NEW b \in BOOLEAN, FeedsPart!TrendFound(b)
      PROVE  FeedsPart!FeedsInv'
  BY <1>1, <1>3, <1>6 DEF FeedsPart!TrendFound
<1> QED
  BY <1>2, <1>4, <1>5, <1>6

LEMMA StepFeeds == ASSUME FeedsPart!FeedsInv, [FeedsPart!Next]_FeedsPart!vars PROVE FeedsPart!FeedsInv'
<1>1. CASE FeedsPart!Next
  BY <1>1, StepOfLoads, StepOfChoices, StepOfTimeline DEF FeedsPart!Next
<1>2. CASE UNCHANGED FeedsPart!vars
  BY <1>2 DEF FeedsPart!vars, FeedsPart!saved, FeedsPart!screen, FeedsPart!line, FeedsPart!FeedsInv,
              FeedsPart!OneLoad, FeedsPart!OneChoice, FeedsPart!ChosenIsShown, FeedsPart!Shown
<1> QED
  BY <1>1, <1>2

\* What the invariant says of the screen and of the account.
LEMMA FeedsTells ==
    ASSUME FeedsPart!FeedsInv
    PROVE  /\ FeedsPart!RowsOnScreen /\ FeedsPart!ChoicesKept
           /\ FeedsPart!ButtonsTellTruth /\ FeedsPart!ChosenIsShown
<1>1. FeedsPart!Quiet => FeedsPart!Shown
  BY DEF FeedsPart!FeedsInv, FeedsPart!OneLoad, FeedsPart!Quiet, FeedsPart!Idle
<1> QED
  BY <1>1 DEF FeedsPart!FeedsInv, FeedsPart!OneChoice, FeedsPart!Shown, FeedsPart!RowsOnScreen,
              FeedsPart!ChoicesKept, FeedsPart!ButtonsTellTruth

-----------------------------------------------------------------------------
(***************************************************************************)
(* Lists.  Their state: v1 lang, v2 owned, v3 muted, v4 blocks, v5 packs,  *)
(* v6 twice, v7 tab, v8 panel, v9 items, v10 busy, v11 rows, v12 loads,    *)
(* v13 dialog, v14 calls, v15 route, v16 n, v17 clean, v18 told,           *)
(* v19 loaded.                                                             *)
(***************************************************************************)
\* The lists that come in an order are all that were to come.
LEMMA ListsInOrder ==
    ASSUME NEW S \in SUBSET ListIds, NEW all, all = ListsPart!InOrder(S)
    PROVE  /\ Cardinality(S) \in Nat /\ all \in [1..Cardinality(S) -> S]
           /\ {all[i] : i \in 1..Cardinality(S)} = S
<1>1. IsFiniteSet(S)
  BY FinitenessAssumption, FS_Subset
<1>2. ListsPart!Bijection(1..Cardinality(S), S) = Bijection(1..Cardinality(S), S)
  BY DEF ListsPart!Bijection, Bijection, ListsPart!Injection, Injection, ListsPart!Surjection,
         Surjection, ListsPart!IsInjective, IsInjective
<1>3. all = CHOOSE s \in Bijection(1..Cardinality(S), S) : TRUE
  BY <1>2 DEF ListsPart!InOrder, ListsPart!Cardinality, Cardinality
<1>4. all \in Bijection(1..Cardinality(S), S)
  BY <1>1, <1>3, SetInOrder
<1>5. all \in [1..Cardinality(S) -> S] /\ \A t \in S : \E i \in 1..Cardinality(S) : all[i] = t
  BY <1>4 DEF Bijection, Injection, Surjection
<1>6. {all[i] : i \in 1..Cardinality(S)} = S
  BY <1>5
<1> QED
  BY <1>1, <1>5, <1>6, SetInOrder

LEMMA InitLists == ASSUME ListsPart!Init PROVE ListsPart!ListsInv
<1>1. ListsPart!Typed
  <2>1. v9 \in Seq(ListsPart!Items)
    BY EmptySeq DEF ListsPart!Init
  <2>2. v2 \subseteq ListIds /\ v4 \in [ListIds -> Nat]
    BY SetsAssumption DEF ListsPart!Init
  <2> QED
    BY <2>1, <2>2 DEF ListsPart!Init, ListsPart!Typed
<1>2. ListsPart!BlockedOnce
  BY DEF ListsPart!Init, ListsPart!BlockedOnce
<1>3. ListsPart!OneLoad /\ ListsPart!Own
  BY DEF ListsPart!Init, ListsPart!OneLoad, ListsPart!Own
<1> QED
  BY <1>1, <1>2, <1>3 DEF ListsPart!ListsInv

\* Where a dialog goes on, or a link is looked up, nothing else is changed.
LEMMA DialogKeeps ==
    ASSUME ListsPart!ListsInv,
           UNCHANGED <<ListsPart!account, ListsPart!here, ListsPart!screen, v12, v14, v17, v18>>,
           v13' = ListsPart!NoDialog \/ v13'.what \in ListsPart!OfList
    PROVE  ListsPart!ListsInv'
<1>1. UNCHANGED <<v2, v3, v4, v6, v7, v8, v9, v11, v12, v14, v17, v18>>
  BY DEF ListsPart!account, ListsPart!here, ListsPart!screen
<1>2. ListsPart!Typed'
  BY <1>1 DEF ListsPart!ListsInv, ListsPart!Typed, ListsPart!NoDialog
<1>3. ListsPart!OneLoad'
  BY <1>1 DEF ListsPart!ListsInv, ListsPart!OneLoad, ListsPart!Matched, ListsPart!Doomed
<1>4. ListsPart!BlockedOnce' /\ ListsPart!Own'
  BY <1>1 DEF ListsPart!ListsInv, ListsPart!BlockedOnce, ListsPart!Own, ListsPart!Doomed
<1> QED
  BY <1>2, <1>3, <1>4 DEF ListsPart!ListsInv

\* A call is the only one, made when no load is out, or it is not told.
LEMMA SendIsOne ==
    ASSUME ListsPart!ListsInv, NEW c, ListsPart!Send(c),
           UNCHANGED <<ListsPart!account, ListsPart!here, ListsPart!screen, v12, v17>>,
           v13' = ListsPart!NoDialog,
           c.what \in ListsPart!OfList \cup ListsPart!OfRow, c.l \in ListIds,
           c.what \in ListsPart!OfRow => c.box = v8.box
    PROVE  ListsPart!ListsInv'
<1>1. /\ UNCHANGED <<v2, v3, v4, v6, v7, v8, v9, v11, v12, v17>>
      /\ v14' = v14 \cup {c} /\ v18' = (v18 /\ v14 = {} /\ v12 = {})
  BY DEF ListsPart!account, ListsPart!here, ListsPart!screen, ListsPart!Send
<1>2. ListsPart!Typed'
  BY <1>1 DEF ListsPart!ListsInv, ListsPart!Typed, ListsPart!NoDialog
<1>3. ListsPart!OneLoad'
  BY <1>1 DEF ListsPart!ListsInv, ListsPart!OneLoad, ListsPart!Matched, ListsPart!Doomed
<1>4. ListsPart!BlockedOnce'
  BY <1>1 DEF ListsPart!ListsInv, ListsPart!BlockedOnce
<1>5. ListsPart!Own'
  <2>1. CASE v18'
    <3>1. v14' = {c} /\ v12 = {} /\ v18
      BY <1>1, <2>1
    <3> QED
      BY <1>1, <3>1 DEF ListsPart!ListsInv, ListsPart!Own
  <2>2. CASE ~v18'
    BY <2>2 DEF ListsPart!Own
  <2> QED
    BY <2>1, <2>2
<1> QED
  BY <1>2, <1>3, <1>4, <1>5 DEF ListsPart!ListsInv

\* The lists are loaded with nothing out, or it is not clean.
LEMMA LoadIsOne ==
    ASSUME ListsPart!ListsInv, ListsPart!LoadLists(v14'), v18' = v18, v13' = v13, v14' \subseteq v14,
           v2' \subseteq ListIds, v4' \in [ListIds -> Nat], ListsPart!BlockedOnce'
    PROVE  ListsPart!ListsInv'
<1> DEFINE new == [kind |-> "lists", of |-> 0, box |-> ListsPart!Box]
<1>1. /\ v8' = [kind |-> "lists", box |-> ListsPart!Box] /\ v9' = <<>> /\ v11' = <<>>
      /\ v12' = v12 \cup {new} /\ v17' = (v12 = {} /\ v14' = {})
  BY DEF ListsPart!LoadLists, ListsPart!Place
<1>2. new.kind = "lists" /\ v8'.kind = "lists"
  BY <1>1
<1> HIDE DEF new
<1>3. ListsPart!Typed'
  <2>1. v9' \in Seq(ListsPart!Items)
    BY <1>1, EmptySeq
  <2> QED
    BY <1>1, <1>2, <2>1 DEF ListsPart!ListsInv, ListsPart!Typed, ListsPart!NoDialog
<1>4. ListsPart!OneLoad' /\ ListsPart!Own'
  <2>1. CASE v17'
    <3>1. v12' = {new} /\ v14' = {}
      BY <1>1, <2>1
    <3> QED
      BY <1>1, <1>2, <3>1 DEF ListsPart!OneLoad, ListsPart!Own
  <2>2. CASE ~v17'
    BY <2>2 DEF ListsPart!OneLoad, ListsPart!Own
  <2> QED
    BY <2>1, <2>2
<1> QED
  BY <1>3, <1>4 DEF ListsPart!ListsInv

\* So are the posts of a list.
LEMMA ViewIsOne ==
    ASSUME ListsPart!ListsInv, NEW l \in ListIds, ListsPart!ViewFeed(l),
           UNCHANGED <<ListsPart!account, v13, v14, v18>>, v17' => v12 = {}
    PROVE  ListsPart!ListsInv'
<1> DEFINE new == [kind |-> "feed", of |-> l, box |-> ListsPart!Box]
<1>1. /\ UNCHANGED <<v2, v3, v4, v6>>
      /\ v8' = [kind |-> "feed", box |-> ListsPart!Box] /\ v9' = <<>>
      /\ v12' = v12 \cup {new}
  BY DEF ListsPart!ViewFeed, ListsPart!Place, ListsPart!account
<1>2. new.kind = "feed" /\ new.of = l /\ v8'.kind = "feed"
  BY <1>1
<1> HIDE DEF new
<1>3. ListsPart!Typed'
  <2>1. v9' \in Seq(ListsPart!Items)
    BY <1>1, EmptySeq
  <2> QED
    BY <1>1, <1>2, <2>1 DEF ListsPart!ListsInv, ListsPart!Typed, ListsPart!NoDialog
<1>4. ListsPart!OneLoad'
  BY <1>1, <1>2 DEF ListsPart!OneLoad
<1>5. ListsPart!BlockedOnce' /\ ListsPart!Own'
  BY <1>1, <1>2 DEF ListsPart!ListsInv, ListsPart!BlockedOnce, ListsPart!Own
<1> QED
  BY <1>3, <1>4, <1>5 DEF ListsPart!ListsInv

\* A link to a tab that is not loaded loads the lists and the posts of one: the place of the lists is
\* not the one the panel has in the end.
LEMMA LinkIsDoomed ==
    ASSUME ListsPart!ListsInv, ListsPart!Routed(TRUE), ~v19'
    PROVE  ListsPart!ListsInv'
<1>1. PICK b : b = ListsPart!Box
  OBVIOUS
<1>2. PICK c : c = CHOOSE k \in 1..2 * ListsLoads + 1 : k \notin {b, v8.box} /\ \A l \in v12 : l.box # k
  OBVIOUS
<1> DEFINE lists == [kind |-> "lists", of |-> 0, box |-> b]
           feed  == [kind |-> "feed", of |-> 1, box |-> c]
<1>3. /\ UNCHANGED <<v2, v3, v4, v6, v13, v14, v18>> /\ v17' = (v12 = {})
      /\ Cardinality(v12) + 1 < ListsLoads
      /\ v8' = [kind |-> "feed", box |-> c] /\ v9' = <<>> /\ v12' = v12 \cup {lists, feed}
  BY <1>1, <1>2 DEF ListsPart!Routed, ListsPart!Same, ListsPart!account, ListsPart!Cardinality,
                    Cardinality
<1>4. v12 = {} => c # b
  <2> SUFFICES ASSUME v12 = {} PROVE c # b
    OBVIOUS
  <2>1. Cardinality(v12) = 0
    BY FS_EmptySet
  <2>2. ListsLoads \in Nat /\ ListsLoads >= 2
    BY <1>3, <2>1, TabBounds
  <2>3. {1, 2, 3} \subseteq 1..2 * ListsLoads + 1
    BY <2>2
  <2>4. \E k \in {1, 2, 3} : k \notin {b, v8.box}
    OBVIOUS
  <2> QED
    BY <1>2, <2>3, <2>4
<1>5. lists.box = b /\ feed.kind = "feed" /\ feed.of = 1 /\ lists.kind = "lists" /\ v8'.kind = "feed" /\ v8'.box = c
  BY <1>3
<1> HIDE DEF lists, feed
<1>6. ListsPart!Typed'
  <2>1. v9' \in Seq(ListsPart!Items)
    BY <1>3, EmptySeq
  <2> QED
    BY <1>3, <1>5, <2>1, SetsAssumption DEF ListsPart!ListsInv, ListsPart!Typed, ListsPart!NoDialog
<1>7. ListsPart!OneLoad'
  BY <1>3, <1>4, <1>5 DEF ListsPart!OneLoad, ListsPart!Doomed
<1>8. ListsPart!BlockedOnce' /\ ListsPart!Own'
  BY <1>3, <1>5 DEF ListsPart!ListsInv, ListsPart!BlockedOnce, ListsPart!Own
<1> QED
  BY <1>6, <1>7, <1>8 DEF ListsPart!ListsInv

\* What is not clean has to be typed only.
LEMMA UncleanKeeps ==
    ASSUME ListsPart!ListsInv, ~v17', UNCHANGED <<ListsPart!account, v13, v14, v9>>,
           \A l \in v12' : l.kind = "feed" => l \in v12
    PROVE  ListsPart!ListsInv'
<1>1. UNCHANGED <<v2, v3, v4, v6, v9, v13, v14>>
  BY DEF ListsPart!account
<1>2. ListsPart!Typed'
  BY <1>1 DEF ListsPart!ListsInv, ListsPart!Typed, ListsPart!NoDialog
<1> QED
  BY <1>1, <1>2 DEF ListsPart!ListsInv, ListsPart!OneLoad, ListsPart!BlockedOnce, ListsPart!Own

\* The posts of a member, that come into whatever rows there are.
LEMMA StepOfMember ==
    ASSUME ListsPart!ListsInv, NEW l \in v12, ListsPart!GotPinned(l) \/ ListsPart!GotPage(l)
    PROVE  ListsPart!ListsInv'
<1>1. ~v17' /\ UNCHANGED <<ListsPart!account, v13, v14, v9>>
  BY DEF ListsPart!GotPinned, ListsPart!GotPage
<1>2. ASSUME NEW d \in v12', d.kind = "feed"
      PROVE  d \in v12
  <2>1. CASE ListsPart!GotPinned(l)
    <3>1. PICK e : e = [l EXCEPT !.kind = "page"]
      OBVIOUS
    <3>2. v12' = (v12 \ {l}) \cup {e} /\ l.kind = "member"
      BY <2>1, <3>1 DEF ListsPart!GotPinned
    <3>3. CASE d = e
      <4>1. e.kind # "feed"
        BY <3>1, <3>2, <1>2, <3>3
      <4> QED
        BY <1>2, <3>3, <4>1
    <3> QED
      BY <1>2, <3>2, <3>3
  <2>2. CASE ListsPart!GotPage(l)
    BY <1>2, <2>2 DEF ListsPart!GotPage
  <2> QED
    BY <2>1, <2>2
<1> QED
  BY <1>1, <1>2, UncleanKeeps

\* Going there, away and on to the posts of a list or a member.
LEMMA StepOfWays ==
    ASSUME ListsPart!ListsInv,
           \/ ListsPart!ToLists \/ ListsPart!ToOther \/ ListsPart!Back \/ ListsPart!Follow
           \/ ListsPart!OpenMember
           \/ \E i \in DOMAIN v9 : ListsPart!OpenFeed(i)
           \/ \E found \in BOOLEAN : ListsPart!Routed(found)
    PROVE  ListsPart!ListsInv'
<1> USE DEF ListsPart!Same
<1>0. /\ v2 \subseteq ListIds /\ v4 \in [ListIds -> Nat] /\ v9 \in Seq(ListsPart!Items)
      /\ v13 = ListsPart!NoDialog \/ v13.what \in ListsPart!OfList
  BY DEF ListsPart!ListsInv, ListsPart!Typed
<1>1. ASSUME ListsPart!ToLists \/ ListsPart!Back
      PROVE  ListsPart!ListsInv'
  <2>1. /\ ListsPart!LoadLists(v14') /\ UNCHANGED <<v2, v4, v6, v13, v14, v18>>
    BY <1>1 DEF ListsPart!ToLists, ListsPart!Back, ListsPart!account
  <2>2. ListsPart!BlockedOnce'
    BY <2>1 DEF ListsPart!ListsInv, ListsPart!BlockedOnce
  <2> QED
    BY <1>0, <2>1, <2>2, LoadIsOne
<1>2. CASE ListsPart!ToOther
  <2>1. /\ UNCHANGED <<v2, v3, v4, v6, v8, v9, v12, v13, v14, v18>>
        /\ v7' = "other" /\ v17' = (v17 /\ v12 = {})
    BY <1>2 DEF ListsPart!ToOther, ListsPart!account
  <2>2. ListsPart!Typed'
    BY <2>1 DEF ListsPart!ListsInv, ListsPart!Typed, ListsPart!NoDialog
  <2> QED
    BY <2>1, <2>2 DEF ListsPart!ListsInv, ListsPart!OneLoad, ListsPart!BlockedOnce, ListsPart!Own
<1>3. CASE ListsPart!OpenMember
  <2>1. PICK b : b = ListsPart!Box
    OBVIOUS
  <2>2. /\ UNCHANGED <<v2, v3, v4, v6, v8, v9, v13, v14, v18>> /\ ~v17'
        /\ v12' = v12 \cup {[kind |-> "member", of |-> 0, box |-> b]}
    BY <1>3, <2>1 DEF ListsPart!OpenMember, ListsPart!account
  <2>3. \A l \in v12' : l.kind = "feed" => l \in v12
    BY <2>2
  <2> QED
    BY <1>3, <2>2, <2>3, UncleanKeeps DEF ListsPart!OpenMember
<1>4. ASSUME UNCHANGED <<ListsPart!here, ListsPart!screen, v12, v17>>, ListsPart!Same
      PROVE  ListsPart!ListsInv'
  BY <1>0, <1>4, DialogKeeps
<1>5. CASE ListsPart!Follow
  BY <1>4, <1>5 DEF ListsPart!Follow
<1>6. ASSUME NEW i \in DOMAIN v9, ListsPart!OpenFeed(i)
      PROVE  ListsPart!ListsInv'
  <2>1. v9[i] \in ListsPart!Items
    BY <1>0
  <2>2. v9[i].l \in ListIds
    BY <2>1 DEF ListsPart!Items
  <2> QED
    BY <1>6, <2>2, ViewIsOne DEF ListsPart!OpenFeed
<1>7. ASSUME NEW found \in BOOLEAN, ListsPart!Routed(found)
      PROVE  ListsPart!ListsInv'
  <2>1. CASE ~found
    BY <1>4, <1>7, <2>1 DEF ListsPart!Routed
  <2>2. CASE found /\ v19'
    BY <1>7, <2>2, ViewIsOne, SetsAssumption DEF ListsPart!Routed
  <2>3. CASE found /\ ~v19'
    <3>1. ListsPart!Routed(TRUE)
      BY <1>7, <2>3 DEF ListsPart!Routed
    <3> QED
      BY <2>3, <3>1, LinkIsDoomed
  <2> QED
    BY <2>1, <2>2, <2>3
<1> QED
  BY <1>1, <1>2, <1>3, <1>5, <1>6, <1>7

\* A row says what the account has of its list.
LEMMA ItemTells ==
    ASSUME NEW l \in ListIds, v4 \in [ListIds -> Nat]
    PROVE  LET it == ListsPart!Item(l) IN
           /\ it \in ListsPart!Items /\ it.l = l
           /\ it.mute = (l \in v3) /\ it.block = (v4[l] > 0)
BY DEF ListsPart!Item, ListsPart!Items

\* The lists that come are those the account has.
LEMMA StepOfLists ==
    ASSUME ListsPart!ListsInv, NEW l \in v12, ListsPart!GotLists(l)
    PROVE  ListsPart!ListsInv'
<1>0. PICK S, all : S = v2 /\ all = ListsPart!InOrder(S)
  OBVIOUS
<1> DEFINE its == [i \in DOMAIN all |-> ListsPart!Item(all[i])]
           new == [i \in DOMAIN all |-> [kind |-> "list", of |-> all[i]]]
<1>1. /\ v2 \subseteq ListIds /\ v4 \in [ListIds -> Nat] /\ v9 \in Seq(ListsPart!Items)
  BY DEF ListsPart!ListsInv, ListsPart!Typed
<1>2. PICK k : /\ k = Cardinality(S) /\ k \in Nat /\ all \in [1..k -> S] /\ {all[i] : i \in 1..k} = S
  <2>1. /\ Cardinality(S) \in Nat /\ all \in [1..Cardinality(S) -> S]
        /\ {all[i] : i \in 1..Cardinality(S)} = S
    BY <1>0, <1>1, ListsInOrder
  <2> QED
    BY <2>1
<1>3. /\ UNCHANGED <<v2, v3, v4, v6, v7, v8, v13, v14, v18>>
      /\ l.kind = "lists" /\ v12' = v12 \ {l} /\ v11' = v11 \o new
      /\ v17' = (v17 /\ v8.box = l.box /\ v7 = "lists")
      /\ IF v8.box = l.box THEN v9' = its ELSE v9' = v9
  BY <1>0 DEF ListsPart!GotLists, ListsPart!Shown, ListsPart!account
<1>4. /\ DOMAIN its = 1..k /\ DOMAIN new = 1..k
      /\ \A i \in 1..k : /\ its[i] \in ListsPart!Items /\ its[i].l = all[i]
                         /\ its[i].mute = (all[i] \in v3) /\ its[i].block = (v4[all[i]] > 0)
                         /\ new[i].of = all[i] /\ new[i].kind = "list" /\ all[i] \in S
  <2>1. \A i \in 1..k : all[i] \in S
    BY <1>2
  <2>2. DOMAIN all = 1..k
    BY <1>2
  <2>3. \A i \in 1..k : LET it == ListsPart!Item(all[i]) IN
           /\ it \in ListsPart!Items /\ it.l = all[i]
           /\ it.mute = (all[i] \in v3) /\ it.block = (v4[all[i]] > 0)
    BY <1>0, <1>1, <2>1, ItemTells
  <2> QED
    BY <2>1, <2>2, <2>3
<1>5. its \in Seq(ListsPart!Items) /\ \E X : new \in Seq(X)
  <2>1. its \in [1..k -> ListsPart!Items] /\ new \in [1..k -> {new[i] : i \in 1..k}]
    <3>1. its = [i \in 1..k |-> its[i]] /\ new = [i \in 1..k |-> new[i]]
      BY <1>4
    <3> HIDE DEF its, new
    <3> QED
      BY <1>4, <3>1
  <2> HIDE DEF its, new
  <2>2. \A X, s : s \in [1..k -> X] => s \in Seq(X)
    <3>1. k \in Nat
      BY <1>2
    <3> QED
      BY <3>1, SeqDef
  <2>3. its \in Seq(ListsPart!Items)
    BY <2>1, <2>2
  <2>4. new \in Seq({new[i] : i \in 1..k})
    BY <2>1, <2>2, Zenon
  <2> QED
    BY <2>3, <2>4
<1>6. {its[i].l : i \in 1..k} = v2
  <2> HIDE DEF its
  <2>1. {its[i].l : i \in 1..k} = {all[i] : i \in 1..k}
    BY <1>4
  <2> QED
    BY <1>0, <1>2, <2>1
<1> HIDE DEF its, new
<1>7. ListsPart!Typed'
  BY <1>1, <1>3, <1>5 DEF ListsPart!ListsInv, ListsPart!Typed, ListsPart!NoDialog
\* The one that is out, for the panel.
<1>8. ASSUME v17', \A d \in v12 : ~ListsPart!Doomed(d)
      PROVE  /\ v12 = {l} /\ v8.kind = "lists" /\ v11' = new /\ v9' = its
  <2>1. v17 /\ v12 # {}
    BY <1>3, <1>8
  <2>2. v12 = {l} /\ v8.kind = "lists" /\ v11 = <<>>
    BY <1>3, <1>8, <2>1 DEF ListsPart!ListsInv, ListsPart!OneLoad
  <2>3. v11' = new
    BY <1>3, <1>5, <2>2, EmptySeq, ConcatEmptySeq
  <2> QED
    BY <1>3, <1>8, <2>2, <2>3
<1>9. ASSUME v17', NEW d \in v12, ListsPart!Doomed(d)
      PROVE  d \in v12' /\ ListsPart!Doomed(d)'
  BY <1>3, <1>9 DEF ListsPart!Doomed
<1>10. ListsPart!OneLoad'
  <2> SUFFICES ASSUME v17' PROVE ListsPart!OneLoad'
    BY DEF ListsPart!OneLoad
  <2>1. CASE \E d \in v12 : ListsPart!Doomed(d)
    BY <1>9, <2>1 DEF ListsPart!OneLoad
  <2>2. CASE \A d \in v12 : ~ListsPart!Doomed(d)
    <3>1. v12' = {} /\ v8'.kind = "lists" /\ v11' = new /\ v9' = its
      BY <1>3, <1>8, <2>2
    <3>2. ListsPart!Matched'
      <4>1. [i \in DOMAIN new |-> new[i].of] = [i \in DOMAIN its |-> its[i].l]
        BY <1>4
      <4> QED
        BY <1>4, <3>1, <4>1 DEF ListsPart!Matched
    <3> QED
      BY <3>1, <3>2 DEF ListsPart!OneLoad
  <2> QED
    BY <2>1, <2>2
<1>11. ListsPart!BlockedOnce'
  BY <1>3 DEF ListsPart!ListsInv, ListsPart!BlockedOnce
<1>12. ListsPart!Own'
  <2> SUFFICES ASSUME v18', v17', v8'.kind = "lists", v7' = "lists" PROVE ListsPart!Own'
    BY DEF ListsPart!Own
  <2>1. CASE \E d \in v12 : ListsPart!Doomed(d)
    BY <1>9, <2>1 DEF ListsPart!Own
  <2>2. CASE \A d \in v12 : ~ListsPart!Doomed(d)
    <3>1. v12' = {} /\ v9' = its /\ v12 # {}
      BY <1>3, <1>8, <2>2
    <3>2. v14' = {}
      BY <1>3, <2>2, <3>1 DEF ListsPart!ListsInv, ListsPart!Own
    <3>3. {its[i].l : i \in DOMAIN its} = v2'
      BY <1>3, <1>4, <1>6
    <3>4. \A i \in DOMAIN its : its[i].mute = (its[i].l \in v3') /\ its[i].block = (v4'[its[i].l] > 0)
      BY <1>3, <1>4
    <3> QED
      BY <3>1, <3>2, <3>3, <3>4 DEF ListsPart!Own
  <2> QED
    BY <2>1, <2>2
<1> QED
  BY <1>7, <1>10, <1>11, <1>12 DEF ListsPart!ListsInv

\* The posts that come are those of the list whose posts the panel is for.
LEMMA StepOfFeed ==
    ASSUME ListsPart!ListsInv, NEW l \in v12, ListsPart!GotFeed(l)
    PROVE  ListsPart!ListsInv'
<1> DEFINE it  == ListsPart!Item(l.of)
           row == [kind |-> "post", of |-> l.of]
<1>1. /\ v2 \subseteq ListIds /\ v4 \in [ListIds -> Nat] /\ v9 \in Seq(ListsPart!Items)
  BY DEF ListsPart!ListsInv, ListsPart!Typed
<1>2. /\ UNCHANGED <<v2, v3, v4, v6, v7, v8, v13, v14, v18>>
      /\ l.kind = "feed" /\ v12' = v12 \ {l} /\ v11' = <<row>>
      /\ v17' = ((v17 \/ (v12 = {l} /\ v8.kind = "feed")) /\ v8.box = l.box /\ v7 = "lists")
      /\ IF v8.box = l.box THEN v9' = <<it>> ELSE v9' = v9
  BY DEF ListsPart!GotFeed, ListsPart!Shown, ListsPart!account, ListsPart!here
<1>3. l.of \in ListIds
  BY <1>2 DEF ListsPart!ListsInv, ListsPart!Typed
<1>4. it \in ListsPart!Items /\ it.l = l.of /\ row.of = l.of /\ row.kind = "post"
  BY <1>1, <1>3, ItemTells
<1> HIDE DEF it, row
<1>5. ListsPart!Typed'
  <2>1. v9' \in Seq(ListsPart!Items)
    <3>1. <<it>> \in Seq(ListsPart!Items)
      BY <1>4
    <3> QED
      BY <1>1, <1>2, <3>1
  <2> QED
    BY <1>1, <1>2, <2>1 DEF ListsPart!ListsInv, ListsPart!Typed, ListsPart!NoDialog
<1>6. ASSUME v17', NEW d \in v12, ListsPart!Doomed(d)
      PROVE  d \in v12' /\ ListsPart!Doomed(d)'
  BY <1>2, <1>6 DEF ListsPart!Doomed
<1>7. ASSUME v17', \A d \in v12 : ~ListsPart!Doomed(d)
      PROVE  v12 = {l} /\ v8.kind = "feed" /\ v9' = <<it>>
  <2>1. CASE v12 = {l} /\ v8.kind = "feed"
    BY <1>2, <1>7, <2>1
  <2>2. CASE v17 /\ v12 # {}
    BY <1>2, <1>7, <2>2 DEF ListsPart!ListsInv, ListsPart!OneLoad
  <2> QED
    BY <1>2, <1>7, <2>1, <2>2
<1>8. ListsPart!OneLoad'
  <2> SUFFICES ASSUME v17' PROVE ListsPart!OneLoad'
    BY DEF ListsPart!OneLoad
  <2>1. CASE \E d \in v12 : ListsPart!Doomed(d)
    BY <1>6, <2>1 DEF ListsPart!OneLoad
  <2>2. CASE \A d \in v12 : ~ListsPart!Doomed(d)
    <3>1. v12' = {} /\ v8'.kind = "feed" /\ v9' = <<it>> /\ v11' = <<row>>
      BY <1>2, <1>7, <2>2
    <3>2. ListsPart!Matched'
      <4>1. [i \in DOMAIN <<row>> |-> <<row>>[i].of] = [i \in DOMAIN <<it>> |-> <<it>>[i].l]
        BY <1>4
      <4>2. \A i \in DOMAIN <<row>> : <<row>>[i].kind = "post"
        BY <1>4
      <4> QED
        BY <3>1, <4>1, <4>2 DEF ListsPart!Matched
    <3> QED
      BY <3>1, <3>2 DEF ListsPart!OneLoad
  <2> QED
    BY <2>1, <2>2
<1>9. ListsPart!BlockedOnce'
  BY <1>2 DEF ListsPart!ListsInv, ListsPart!BlockedOnce
<1>10. ListsPart!Own'
  <2> SUFFICES ASSUME v17', v8'.kind = "lists" PROVE ListsPart!Own'
    BY DEF ListsPart!Own
  <2>1. PICK d \in v12 : ListsPart!Doomed(d)
    BY <1>2, <1>7
  <2> QED
    BY <1>6, <2>1 DEF ListsPart!Own
<1> QED
  BY <1>5, <1>8, <1>9, <1>10 DEF ListsPart!ListsInv

\* Prompts, and what is sent.
LEMMA StepOfButtons ==
    ASSUME ListsPart!ListsInv,
           \/ ListsPart!Create \/ ListsPart!CreatePack \/ ListsPart!Cancelled
           \/ \E i \in DOMAIN v9 : \/ ListsPart!EditList(i) \/ ListsPart!DeleteList(i)
                                   \/ ListsPart!Mute(i) \/ ListsPart!Block(i)
           \/ \E l \in ListIds : ListsPart!Answered(l)
    PROVE  ListsPart!ListsInv'
<1>0. v9 \in Seq(ListsPart!Items) /\ (v13 = ListsPart!NoDialog \/ v13.what \in ListsPart!OfList)
  BY DEF ListsPart!ListsInv, ListsPart!Typed
<1>1. ASSUME NEW what \in ListsPart!OfList, NEW l, ListsPart!Prompt(what, l)
      PROVE  ListsPart!ListsInv'
  <2>1. v13' = [what |-> what, l |-> l, at |-> 1, of |-> v2]
    BY <1>1 DEF ListsPart!Prompt
  <2>2. v13'.what \in ListsPart!OfList
    BY <2>1
  <2>3. UNCHANGED <<ListsPart!account, ListsPart!here, ListsPart!screen, v12, v14, v17, v18>>
    BY <1>1 DEF ListsPart!Prompt
  <2> QED
    BY <2>2, <2>3, DialogKeeps
<1>2. CASE ListsPart!Create \/ ListsPart!CreatePack
  BY <1>1, <1>2 DEF ListsPart!Create, ListsPart!CreatePack, ListsPart!OfList
<1>3. ASSUME NEW i \in DOMAIN v9, ListsPart!EditList(i) \/ ListsPart!DeleteList(i)
      PROVE  ListsPart!ListsInv'
  BY <1>1, <1>3 DEF ListsPart!EditList, ListsPart!DeleteList, ListsPart!OfList
<1>4. CASE ListsPart!Cancelled
  BY <1>4, DialogKeeps DEF ListsPart!Cancelled
<1>5. ASSUME NEW i \in DOMAIN v9, ListsPart!Mute(i) \/ ListsPart!Block(i)
      PROVE  ListsPart!ListsInv'
  <2>1. v9[i].l \in ListIds
    <3>1. v9[i] \in ListsPart!Items
      BY <1>0
    <3> QED
      BY <3>1 DEF ListsPart!Items
  <2>2. PICK what \in ListsPart!OfRow : ListsPart!Send(ListsPart!Call(what, v9[i].l))
    BY <1>5 DEF ListsPart!Mute, ListsPart!Block, ListsPart!OfRow
  <2>3. PICK c : c = ListsPart!Call(what, v9[i].l)
    OBVIOUS
  <2>4. c.what = what /\ c.l = v9[i].l /\ c.box = v8.box
    BY <2>3 DEF ListsPart!Call
  <2>5. v13' = ListsPart!NoDialog /\ UNCHANGED <<ListsPart!account, ListsPart!here, ListsPart!screen, v12, v17>>
    BY <1>5 DEF ListsPart!Mute, ListsPart!Block, ListsPart!Free
  <2> QED
    BY <2>1, <2>2, <2>3, <2>4, <2>5, SendIsOne
<1>6. ASSUME NEW l \in ListIds, ListsPart!Answered(l)
      PROVE  ListsPart!ListsInv'
  <2>1. /\ v13.what \in ListsPart!OfList
        /\ UNCHANGED <<ListsPart!account, ListsPart!here, ListsPart!screen, v12, v17>>
    BY <1>0, <1>6 DEF ListsPart!Answered
  <2>2. CASE v13.at < ListsPart!LastPrompt(v13.what)
    <3>1. v13' = [v13 EXCEPT !.at = @ + 1] /\ UNCHANGED <<v14, v18>>
      BY <1>6, <2>2 DEF ListsPart!Answered
    <3>2. v13'.what = v13.what
      BY <3>1
    <3> QED
      BY <2>1, <3>1, <3>2, DialogKeeps
  <2>3. CASE ~(v13.at < ListsPart!LastPrompt(v13.what))
    <3>1. v13' = ListsPart!NoDialog /\ ListsPart!Send(ListsPart!Call(v13.what, l))
      BY <1>6, <2>3 DEF ListsPart!Answered
    <3>2. PICK c : c = ListsPart!Call(v13.what, l)
      OBVIOUS
    <3>3. c.what = v13.what /\ c.l = l /\ c.box = v8.box
      BY <3>2 DEF ListsPart!Call
    <3> QED
      BY <2>1, <3>1, <3>2, <3>3, SendIsOne
  <2> QED
    BY <2>2, <2>3
<1> QED
  BY <1>2, <1>3, <1>4, <1>5, <1>6

\* What a call leaves of the account.
LEMMA ServedKeeps ==
    ASSUME ListsPart!ListsInv, NEW c \in v14, ListsPart!Served(c)
    PROVE  v2' \subseteq ListIds /\ v4' \in [ListIds -> Nat] /\ ListsPart!BlockedOnce'
<1>1. /\ v2 \subseteq ListIds /\ v4 \in [ListIds -> Nat] /\ c.l \in ListIds
  BY DEF ListsPart!ListsInv, ListsPart!Typed
<1>2. v2' \subseteq ListIds
  BY <1>1 DEF ListsPart!Served
<1>3. v4' \in [ListIds -> Nat]
  BY <1>1 DEF ListsPart!Served
<1>4. ListsPart!BlockedOnce'
  <2> SUFFICES ASSUME NEW l \in ListIds, l \notin v6' PROVE v4'[l] <= 1
    BY DEF ListsPart!BlockedOnce
  <2>1. l \notin v6 /\ v4[l] <= 1
    BY DEF ListsPart!Served, ListsPart!ListsInv, ListsPart!BlockedOnce
  <2> QED
    BY <1>1, <2>1 DEF ListsPart!Served
<1> QED
  BY <1>2, <1>3, <1>4

\* The row of a call is changed as the account is.
LEMMA SaidIsServed ==
    ASSUME ListsPart!ListsInv, NEW c \in v14, c.what \in ListsPart!OfRow, ListsPart!Served(c),
           NEW it \in ListsPart!Items,
           it.mute = (it.l \in v3), it.l \notin v6 => it.block = (v4[it.l] > 0)
    PROVE  LET s == ListsPart!Said(c, it) IN
           /\ s.mute = (s.l \in v3')
           /\ s.l \notin v6' => s.block = (v4'[s.l] > 0)
<1>1. /\ v4 \in [ListIds -> Nat] /\ c.l \in ListIds /\ it.l \in ListIds
  BY DEF ListsPart!ListsInv, ListsPart!Typed, ListsPart!Items
<1>2. it.l \notin v6 => v4[it.l] <= 1
  BY <1>1 DEF ListsPart!ListsInv, ListsPart!BlockedOnce
<1>3. CASE it.l # c.l
  <2>1. ListsPart!Said(c, it) = it
    BY <1>3 DEF ListsPart!Said
  <2>2. (it.l \in v3') = (it.l \in v3)
    BY <1>3 DEF ListsPart!Served
  <2>3. v4'[it.l] = v4[it.l] /\ (it.l \notin v6' => it.l \notin v6)
    BY <1>1, <1>3 DEF ListsPart!Served
  <2> QED
    BY <2>1, <2>2, <2>3
<1>4. CASE it.l = c.l /\ c.what \in {"mute", "unmute"}
  <2>1. ListsPart!Said(c, it) = [it EXCEPT !.mute = (c.what = "mute")]
    BY <1>4 DEF ListsPart!Said
  <2>2. ListsPart!Said(c, it).mute = (c.what = "mute") /\ ListsPart!Said(c, it).l = it.l /\ ListsPart!Said(c, it).block = it.block
    BY <2>1 DEF ListsPart!Items
  <2>3. v4' = v4 /\ v6' = v6 /\ (it.l \in v3') = (c.what = "mute")
    BY <1>4 DEF ListsPart!Served
  <2> QED
    BY <2>2, <2>3
<1>5. CASE it.l = c.l /\ c.what = "block"
  <2>1. ListsPart!Said(c, it) = [it EXCEPT !.block = TRUE]
    BY <1>5 DEF ListsPart!Said
  <2>2. ListsPart!Said(c, it).mute = it.mute /\ ListsPart!Said(c, it).l = it.l /\ ListsPart!Said(c, it).block
    BY <2>1 DEF ListsPart!Items
  <2>3. v3' = v3 /\ v4'[it.l] > 0
    BY <1>1, <1>5 DEF ListsPart!Served
  <2> QED
    BY <2>2, <2>3
<1>6. CASE it.l = c.l /\ c.what = "unblock"
  <2>1. ListsPart!Said(c, it) = [it EXCEPT !.block = FALSE, !.undo = FALSE]
    BY <1>6 DEF ListsPart!Said
  <2>2. ListsPart!Said(c, it).mute = it.mute /\ ListsPart!Said(c, it).l = it.l /\ ListsPart!Said(c, it).block = FALSE
    BY <2>1 DEF ListsPart!Items
  <2>3. v3' = v3 /\ v6' = v6
    BY <1>6 DEF ListsPart!Served
  <2>4. v4[it.l] <= 1 => (v4'[it.l] > 0) = FALSE
    BY <1>1, <1>6 DEF ListsPart!Served
  <2>5. it.l \notin v6' => ListsPart!Said(c, it).block = (v4'[it.l] > 0)
    BY <1>2, <2>2, <2>3, <2>4
  <2>6. ListsPart!Said(c, it).mute = (it.l \in v3')
    BY <2>2, <2>3
  <2> QED
    BY <2>2, <2>5, <2>6
<1> QED
  BY <1>3, <1>4, <1>5, <1>6 DEF ListsPart!OfRow

LEMMA SaidKeeps ==
    ASSUME NEW c, c.what \in ListsPart!OfRow, NEW it \in ListsPart!Items
    PROVE  ListsPart!Said(c, it) \in ListsPart!Items /\ ListsPart!Said(c, it).l = it.l
BY DEF ListsPart!Said, ListsPart!Items, ListsPart!OfRow

\* The row of a call that is answered is changed, where it is still shown.
LEMMA StepOfSwitch ==
    ASSUME ListsPart!ListsInv, NEW c \in v14, ListsPart!Switched(c)
    PROVE  ListsPart!ListsInv'
<1> DEFINE said == [i \in DOMAIN v9 |-> ListsPart!Said(c, v9[i])]
<1>1. /\ v9 \in Seq(ListsPart!Items) /\ c.what \in ListsPart!OfRow /\ c.l \in ListIds
  BY DEF ListsPart!ListsInv, ListsPart!Typed, ListsPart!Switched
<1>2. /\ UNCHANGED <<v7, v8, v11, v12, v13, v17, v18>> /\ v14' = v14 \ {c}
      /\ ListsPart!Served(c)
      /\ IF v8.box = c.box THEN v9' = said ELSE v9' = v9
  BY DEF ListsPart!Switched, ListsPart!here
<1>3. v2' = v2 /\ v4' \in [ListIds -> Nat] /\ ListsPart!BlockedOnce' /\ v2 \subseteq ListIds
  <2>1. v2' = v2
    BY <1>1, <1>2 DEF ListsPart!Served, ListsPart!OfRow
  <2> QED
    BY <1>2, <2>1, ServedKeeps DEF ListsPart!ListsInv, ListsPart!Typed
<1>4. PICK k \in Nat : k = Len(v9) /\ DOMAIN v9 = 1..k /\ \A i \in 1..k : v9[i] \in ListsPart!Items
  BY <1>1
<1>5. \A i \in 1..k : said[i] \in ListsPart!Items /\ said[i].l = v9[i].l
  <2>1. \A it \in ListsPart!Items : ListsPart!Said(c, it) \in ListsPart!Items /\ ListsPart!Said(c, it).l = it.l
    BY <1>1, SaidKeeps
  <2> QED
    BY <1>4, <2>1
<1>6. said \in Seq(ListsPart!Items) /\ DOMAIN said = 1..k
  <2>1. said = [i \in 1..k |-> said[i]]
    BY <1>4
  <2> HIDE DEF said
  <2>2. said \in [1..k -> ListsPart!Items]
    BY <1>5, <2>1
  <2> QED
    BY <2>2, <1>4, SeqDef
<1>7. /\ v9' \in Seq(ListsPart!Items) /\ DOMAIN v9' = 1..k
      /\ \A i \in 1..k : v9'[i].l = v9[i].l
  <2> HIDE DEF said
  <2> QED
    BY <1>1, <1>2, <1>4, <1>5, <1>6
<1>8. ListsPart!Typed'
  BY <1>2, <1>3, <1>7 DEF ListsPart!ListsInv, ListsPart!Typed, ListsPart!NoDialog
<1>9. ListsPart!OneLoad'
  <2>1. [i \in DOMAIN v9' |-> v9'[i].l] = [i \in DOMAIN v9 |-> v9[i].l]
    BY <1>4, <1>7
  <2>2. ListsPart!Matched => ListsPart!Matched'
    BY <1>2, <2>1 DEF ListsPart!Matched
  <2> QED
    BY <1>2, <2>2 DEF ListsPart!ListsInv, ListsPart!OneLoad, ListsPart!Doomed
<1>10. ListsPart!Own'
  <2> SUFFICES ASSUME v18, v17, v8.kind = "lists", v7 = "lists" PROVE ListsPart!Own'
    BY <1>2 DEF ListsPart!Own
  <2>1. CASE v12 # {}
    <3>1. PICK d \in v12 : ListsPart!Doomed(d)
      BY <2>1 DEF ListsPart!ListsInv, ListsPart!Own
    <3> QED
      BY <1>2, <3>1 DEF ListsPart!Own, ListsPart!Doomed
  <2>2. CASE v12 = {}
    <3>1. /\ v14 = {c} /\ c.box = v8.box /\ {v9[i].l : i \in DOMAIN v9} = v2
          /\ \A i \in 1..k : /\ v9[i].mute = (v9[i].l \in v3)
                             /\ v9[i].l \notin v6 => v9[i].block = (v4[v9[i].l] > 0)
      BY <1>1, <1>4, <2>2 DEF ListsPart!ListsInv, ListsPart!Own
    <3>2. v9' = said /\ v14' = {}
      BY <1>2, <3>1
    <3>3. {v9'[i].l : i \in DOMAIN v9'} = v2'
      <4>1. {v9'[i].l : i \in DOMAIN v9'} = {v9[i].l : i \in DOMAIN v9}
        BY <1>4, <1>7
      <4> QED
        BY <1>3, <3>1, <4>1
    <3>4. \A i \in 1..k : /\ said[i].mute = (said[i].l \in v3')
                          /\ said[i].l \notin v6' => said[i].block = (v4'[said[i].l] > 0)
      <4> TAKE i \in 1..k
      <4>1. PICK it : it = v9[i]
        OBVIOUS
      <4>2. /\ it \in ListsPart!Items /\ it.mute = (it.l \in v3)
            /\ it.l \notin v6 => it.block = (v4[it.l] > 0)
        BY <1>4, <3>1, <4>1
      <4>3. LET s == ListsPart!Said(c, it) IN
            /\ s.mute = (s.l \in v3')
            /\ s.l \notin v6' => s.block = (v4'[s.l] > 0)
        BY <1>1, <1>2, <4>2, SaidIsServed
      <4>4. said[i] = ListsPart!Said(c, it)
        BY <1>4, <4>1
      <4> QED
        BY <4>3, <4>4, Zenon
    <3> HIDE DEF said
    <3>5. \A i \in DOMAIN v9' : /\ v9'[i].mute = (v9'[i].l \in v3')
                                /\ v9'[i].l \notin v6' => v9'[i].block = (v4'[v9'[i].l] > 0)
      BY <1>6, <3>2, <3>4
    <3> QED
      BY <1>2, <2>2, <3>2, <3>3, <3>5 DEF ListsPart!Own
  <2> QED
    BY <2>1, <2>2
<1> QED
  BY <1>3, <1>8, <1>9, <1>10 DEF ListsPart!ListsInv

\* The lists are loaded again once they are changed.
LEMMA StepOfCalls ==
    ASSUME ListsPart!ListsInv, NEW c \in v14, ListsPart!Done(c) \/ ListsPart!NotDone(c)
    PROVE  ListsPart!ListsInv'
<1>1. CASE ListsPart!Done(c)
  <2>1. /\ ListsPart!LoadLists(v14') /\ v18' = v18 /\ v13' = v13 /\ v14' \subseteq v14
        /\ ListsPart!Served(c)
    BY <1>1 DEF ListsPart!Done
  <2> QED
    BY <2>1, ServedKeeps, LoadIsOne
<1>2. CASE ListsPart!NotDone(c)
  <2>1. /\ UNCHANGED <<v2, v3, v4, v6, v7, v8, v9, v11, v12, v13, v17>>
        /\ v14' = v14 \ {c} /\ v18' = FALSE
    BY <1>2 DEF ListsPart!NotDone, ListsPart!account, ListsPart!here, ListsPart!screen
  <2>2. ListsPart!Typed'
    BY <2>1 DEF ListsPart!ListsInv, ListsPart!Typed, ListsPart!NoDialog
  <2>3. ListsPart!OneLoad'
    BY <2>1 DEF ListsPart!ListsInv, ListsPart!OneLoad, ListsPart!Matched, ListsPart!Doomed
  <2>4. ListsPart!BlockedOnce' /\ ListsPart!Own'
    BY <2>1 DEF ListsPart!ListsInv, ListsPart!BlockedOnce, ListsPart!Own
  <2> QED
    BY <2>2, <2>3, <2>4 DEF ListsPart!ListsInv
<1> QED
  BY <1>1, <1>2

\* A load that fails leaves the screen unclean.
LEMMA StepOfFailure ==
    ASSUME ListsPart!ListsInv, NEW l \in v12, ListsPart!NotLoaded(l)
    PROVE  ListsPart!ListsInv'
<1>1. /\ UNCHANGED <<v2, v3, v4, v6, v7, v8, v9, v11, v13, v14, v18>>
      /\ v12' = v12 \ {l} /\ v17' = FALSE
  BY DEF ListsPart!NotLoaded, ListsPart!account, ListsPart!here
<1>2. ListsPart!Typed'
  BY <1>1 DEF ListsPart!ListsInv, ListsPart!Typed, ListsPart!NoDialog
<1> QED
  BY <1>1, <1>2 DEF ListsPart!ListsInv, ListsPart!OneLoad, ListsPart!BlockedOnce, ListsPart!Own

LEMMA StepLists == ASSUME ListsPart!ListsInv, [ListsPart!Next]_ListsPart!vars PROVE ListsPart!ListsInv'
<1>1. CASE ListsPart!Next
  <2>1. \/ \/ ListsPart!ToLists \/ ListsPart!ToOther \/ ListsPart!Back \/ ListsPart!Follow
           \/ ListsPart!OpenMember
           \/ \E i \in DOMAIN v9 : ListsPart!OpenFeed(i)
           \/ \E found \in BOOLEAN : ListsPart!Routed(found)
        \/ \/ ListsPart!Create \/ ListsPart!CreatePack \/ ListsPart!Cancelled
           \/ \E i \in DOMAIN v9 : \/ ListsPart!EditList(i) \/ ListsPart!DeleteList(i)
                                   \/ ListsPart!Mute(i) \/ ListsPart!Block(i)
           \/ \E l \in ListIds : ListsPart!Answered(l)
        \/ \E l \in v12 : \/ ListsPart!GotLists(l) \/ ListsPart!GotFeed(l)
                          \/ ListsPart!GotPinned(l) \/ ListsPart!GotPage(l) \/ ListsPart!NotLoaded(l)
        \/ \E c \in v14 : ListsPart!Switched(c) \/ ListsPart!Done(c) \/ ListsPart!NotDone(c)
    BY <1>1 DEF ListsPart!Next
  <2> QED
    BY <2>1, StepOfWays, StepOfButtons, StepOfLists, StepOfFeed, StepOfMember,
       StepOfFailure, StepOfSwitch, StepOfCalls
<1>2. CASE UNCHANGED ListsPart!vars
  <2>1. UNCHANGED <<ListsPart!account, ListsPart!here, ListsPart!screen, v12, v13, v14, v17, v18>>
    BY <1>2 DEF ListsPart!vars
  <2>2. v13 = ListsPart!NoDialog \/ v13.what \in ListsPart!OfList
    BY DEF ListsPart!ListsInv, ListsPart!Typed
  <2> QED
    BY <2>1, <2>2, DialogKeeps
<1> QED
  BY <1>1, <1>2

\* What the invariant says of the panel and of the account.
LEMMA ListsTells ==
    ASSUME ListsPart!ListsInv
    PROVE  ListsPart!RowsOnScreen /\ ListsPart!ListsAreOwn
<1>1. ListsPart!RowsOnScreen
  BY DEF ListsPart!ListsInv, ListsPart!OneLoad, ListsPart!Matched, ListsPart!RowsOnScreen, ListsPart!Quiet
<1>2. ListsPart!ListsAreOwn
  BY DEF ListsPart!ListsInv, ListsPart!Own, ListsPart!ListsAreOwn, ListsPart!Quiet
<1> QED
  BY <1>1, <1>2

-----------------------------------------------------------------------------
(***************************************************************************)
(* The keys and the rows.  Their state: v1 tab, v2 cur, v3 focused,        *)
(* v4 list, v5 kept, v6 index, v7 home, v8 held, v9 stack, v10 modal,      *)
(* v11 closing, v12 coming, v13 scope, v14 asked, v15 calls, v16 seen.     *)
(***************************************************************************)
\* There is a row to begin with.
LEMMA SizeIsOne == DeskSize \in Nat \ {0}
BY TabBounds, DeskAssumption

LEMMA UpToOne == ASSUME NEW n \in Nat, NEW i \in 1..(n + 1), i # n + 1 PROVE i \in 1..n /\ i < n + 1
OBVIOUS

\* What splice leaves: all but the element of that position, in their order.
LEMMA SplicedAway ==
    ASSUME NEW S, NEW L \in Seq(S), NEW i
    PROVE  /\ DeskPart!Spliced(L, i) \in Seq(S)
           /\ \A k \in DOMAIN DeskPart!Spliced(L, i) :
                 \E j \in DOMAIN L : j # i /\ DeskPart!Spliced(L, i)[k] = L[j]
           /\ \A j \in DOMAIN L : j # i => L[j] \in DeskPart!Range(DeskPart!Spliced(L, i))
<1> DOMAIN L = 1..Len(L) /\ Len(L) \in Nat
  BY LenProperties
<1>1. CASE i \notin DOMAIN L
  <2>1. DeskPart!Spliced(L, i) = L
    BY <1>1 DEF DeskPart!Spliced
  <2> QED
    BY <1>1, <2>1 DEF DeskPart!Range
<1>2. CASE i \in DOMAIN L
  <2> DEFINE A == SubSeq(L, 1, i - 1)
             B == SubSeq(L, i + 1, Len(L))
  <2>0. i \in Nat \ {0} /\ i <= Len(L)
    BY <1>2
  <2>1. /\ A \in Seq(S) /\ Len(A) = i - 1 /\ \A k \in 1..(i - 1) : A[k] = L[k]
    BY <1>2, SubSeqProperties, ElementOfSeq
  <2>2. /\ B \in Seq(S) /\ Len(B) = Len(L) - i /\ \A k \in 1..(Len(L) - i) : B[k] = L[i + k]
    BY <1>2, SubSeqProperties, ElementOfSeq
  <2>3. DeskPart!Spliced(L, i) = A \o B
    BY <1>2 DEF DeskPart!Spliced
  <2> HIDE DEF A, B
  <2>4. /\ A \o B \in Seq(S) /\ DOMAIN (A \o B) = 1..(Len(L) - 1)
        /\ \A k \in 1..(Len(L) - 1) : (A \o B)[k] = IF k < i THEN L[k] ELSE L[k + 1]
    <3>0. Len(A) + Len(B) = Len(L) - 1
      BY <2>0, <2>1, <2>2
    <3>1. /\ A \o B \in Seq(S) /\ Len(A \o B) = Len(A) + Len(B)
          /\ \A k \in 1..(Len(A) + Len(B)) : (A \o B)[k] = IF k <= Len(A) THEN A[k] ELSE B[k - Len(A)]
      BY <2>1, <2>2, ConcatProperties
    <3>2. DOMAIN (A \o B) = 1..(Len(L) - 1)
      BY <3>0, <3>1, LenProperties
    <3>3. ASSUME NEW k \in 1..(Len(L) - 1) PROVE (A \o B)[k] = IF k < i THEN L[k] ELSE L[k + 1]
      <4>1. (A \o B)[k] = IF k <= i - 1 THEN A[k] ELSE B[k - (i - 1)]
        BY <2>1, <3>0, <3>1
      <4>2. CASE k < i
        BY <2>0, <2>1, <4>1, <4>2
      <4>3. CASE ~(k < i)
        <5>1. k - (i - 1) \in 1..(Len(L) - i) /\ i + (k - (i - 1)) = k + 1
          BY <2>0, <4>3
        <5> QED
          BY <2>0, <2>2, <4>1, <4>3, <5>1
      <4> QED
        BY <4>2, <4>3
    <3> QED
      BY <3>1, <3>2, <3>3
  <2> DEFINE C == A \o B
  <2> HIDE DEF C
  <2>c. /\ C \in Seq(S) /\ DOMAIN C = 1..(Len(L) - 1)
        /\ \A k \in 1..(Len(L) - 1) : C[k] = IF k < i THEN L[k] ELSE L[k + 1]
    BY <2>4 DEF C
  <2>5. ASSUME NEW k \in DOMAIN C
        PROVE  \E j \in DOMAIN L : j # i /\ C[k] = L[j]
    <3>0. k \in 1..(Len(L) - 1) /\ C[k] = IF k < i THEN L[k] ELSE L[k + 1]
      BY <2>c
    <3>1. CASE k < i
      <4>1. k \in DOMAIN L /\ k # i
        BY <2>0, <3>0, <3>1
      <4> QED
        BY <4>1, <3>0, <3>1
    <3>2. CASE ~(k < i)
      <4>1. k + 1 \in DOMAIN L /\ k + 1 # i
        BY <2>0, <3>0, <3>2
      <4> QED
        BY <4>1, <3>0, <3>2
    <3> QED
      BY <3>1, <3>2
  <2>6. ASSUME NEW j \in DOMAIN L, j # i
        PROVE  L[j] \in DeskPart!Range(C)
    <3>1. CASE j < i
      <4>1. j \in 1..(Len(L) - 1)
        BY <2>0, <3>1
      <4>2. C[j] = L[j]
        BY <2>c, <3>1, <4>1
      <4> QED
        BY <2>c, <4>1, <4>2 DEF DeskPart!Range
    <3>2. CASE ~(j < i)
      <4>1. j - 1 \in 1..(Len(L) - 1) /\ ~(j - 1 < i) /\ j - 1 + 1 = j
        BY <2>0, <2>6, <3>2
      <4>2. C[j - 1] = L[j]
        BY <2>c, <4>1
      <4> QED
        BY <2>c, <4>1, <4>2 DEF DeskPart!Range
    <3> QED
      BY <3>1, <3>2
  <2>7. DeskPart!Spliced(L, i) = C
    BY <2>3 DEF C
  <2> QED
    BY <2>7, <2>c, <2>5, <2>6
<1> QED
  BY <1>1, <1>2

\* The dialogs under the one on top.
LEMMA BelowTop ==
    ASSUME NEW S, NEW s \in Seq(S), s # <<>>
    PROVE  /\ DeskPart!Below(s) \in Seq(S) /\ Len(DeskPart!Below(s)) = Len(s) - 1
           /\ DOMAIN DeskPart!Below(s) = 1..(Len(s) - 1)
           /\ \A k \in 1..(Len(s) - 1) : DeskPart!Below(s)[k] = s[k]
           /\ Len(s) \in DOMAIN s /\ DeskPart!Top(s) = s[Len(s)] /\ DeskPart!Top(s) \in S
<1>1. Len(s) \in Nat \ {0} /\ DOMAIN s = 1..Len(s)
  BY EmptySeq, LenProperties
<1>2. /\ DeskPart!Below(s) \in Seq(S) /\ Len(DeskPart!Below(s)) = Len(s) - 1
      /\ \A k \in 1..(Len(s) - 1) : DeskPart!Below(s)[k] = s[k]
  <2>1. \A k \in 1..(Len(s) - 1) : s[k] \in S
    BY <1>1, ElementOfSeq
  <2>2. /\ SubSeq(s, 1, Len(s) - 1) \in Seq(S)
        /\ Len(SubSeq(s, 1, Len(s) - 1)) = IF 1 <= Len(s) - 1 THEN Len(s) - 1 - 1 + 1 ELSE 0
        /\ \A k \in 1..(Len(s) - 1 - 1 + 1) : SubSeq(s, 1, Len(s) - 1)[k] = s[1 + k - 1]
    BY <1>1, <2>1, SubSeqProperties
  <2> QED
    BY <1>1, <2>2 DEF DeskPart!Below
<1> QED
  BY <1>1, <1>2, LenProperties DEF DeskPart!Top

\* The rows that are made, and a list of them.
LEMMA RowsMade ==
    ASSUME DeskPart!Typed, DeskPart!Numbered, NEW n \in Nat,
           v6' = v6 \o [i \in 1..n |-> i], v4' = Append(v4, DeskPart!NewRows(n))
    PROVE  /\ v6' \in Seq(Nat) /\ Len(v6) \in Nat /\ DOMAIN v6 = 1..Len(v6) /\ DOMAIN v6' = 1..(Len(v6) + n)
           /\ \A r \in DOMAIN v6 : r \in DOMAIN v6' /\ v6'[r] = v6[r]
           /\ v4' \in Seq(Seq(Nat)) /\ Len(v4) \in Nat /\ DOMAIN v4 = 1..Len(v4) /\ DOMAIN v4' = 1..(Len(v4) + 1)
           /\ Len(v4') = Len(v4) + 1
           /\ \A l \in DOMAIN v4 : v4'[l] = v4[l]
           /\ v4'[Len(v4) + 1] = [i \in 1..n |-> Len(v6) + i]
           /\ DeskPart!Numbered'
<1> DEFINE I == [i \in 1..n |-> i]
           R == [i \in 1..n |-> Len(v6) + i]
<1>1. v6 \in Seq(Nat) /\ v4 \in Seq(Seq(Nat))
  BY DEF DeskPart!Typed
<1>2. Len(v6) \in Nat /\ DOMAIN v6 = 1..Len(v6) /\ Len(v4) \in Nat /\ DOMAIN v4 = 1..Len(v4)
  BY <1>1, LenProperties
<1>3. I \in Seq(Nat) /\ Len(I) = n /\ R \in Seq(Nat) /\ DeskPart!NewRows(n) = R
  BY <1>2 DEF DeskPart!NewRows
<1>4. /\ v6' \in Seq(Nat) /\ Len(v6') = Len(v6) + n
      /\ \A i \in 1..(Len(v6) + n) : v6'[i] = IF i <= Len(v6) THEN v6[i] ELSE I[i - Len(v6)]
  <2> HIDE DEF I, R
  <2>1. v6' = v6 \o I
    BY DEF I
  <2> QED
    BY <1>1, <1>3, <2>1, ConcatProperties
<1>5. DOMAIN v6' = 1..(Len(v6) + n)
  BY <1>4, LenProperties
<1>6. ASSUME NEW i \in 1..n PROVE Len(v6) + i \in DOMAIN v6' /\ v6'[Len(v6) + i] = i
  BY <1>2, <1>4, <1>5
<1>7. /\ v4' \in Seq(Seq(Nat)) /\ Len(v4') = Len(v4) + 1
      /\ \A l \in 1..Len(v4) : v4'[l] = v4[l]
      /\ v4'[Len(v4) + 1] = R
  BY <1>1, <1>3, AppendProperties
<1>8. DOMAIN v4' = 1..(Len(v4) + 1)
  BY <1>7, LenProperties
<1>9. ASSUME NEW r \in DOMAIN v6 PROVE r \in DOMAIN v6' /\ v6'[r] = v6[r]
  BY <1>2, <1>4, <1>5
<1>10. DeskPart!Numbered'
  <2> SUFFICES ASSUME NEW l \in DOMAIN v4', NEW i \in DOMAIN (v4'[l])
               PROVE  v4'[l][i] \in DOMAIN v6' /\ v6'[v4'[l][i]] = i
    BY DEF DeskPart!Numbered
  <2>1. CASE l \in DOMAIN v4
    <3>1. v4'[l] = v4[l]
      BY <1>2, <1>7, <2>1
    <3>2. v4[l][i] \in DOMAIN v6 /\ v6[v4[l][i]] = i
      BY <2>1, <3>1 DEF DeskPart!Numbered
    <3> QED
      BY <3>1, <3>2, <1>9
  <2>2. CASE l = Len(v4) + 1
    <3>1. v4'[l] = R
      BY <1>7, <2>2
    <3>2. i \in 1..n /\ R[i] = Len(v6) + i
      BY <3>1
    <3> QED
      BY <1>6, <3>1, <3>2
  <2> QED
    BY <1>2, <1>8, <2>1, <2>2
<1> QED
  BY <1>2, <1>3, <1>4, <1>5, <1>7, <1>8, <1>9, <1>10

\* A row that can take the focus is at its index in the list of the keys.
LEMMA RowInFront ==
    ASSUME DeskPart!Typed', DeskPart!Numbered', DeskPart!Placed', DeskPart!OpenOnce',
           NEW r \in DOMAIN v6', v7'[r] = DeskPart!View', ~(v11' /\ v2' = v10'.list)
    PROVE  v6'[r] \in DOMAIN DeskPart!Rows' /\ DeskPart!Rows'[v6'[r]] = r
<1>1. r \in DeskPart!Range(v4'[v2'])
  <2>1. CASE v9' = <<>>
    <3>1. v7'[r] = v1' /\ ~DeskPart!PostsOpen'
      BY <2>1 DEF DeskPart!View, DeskPart!InFront, DeskPart!PostsOpen, DeskPart!Has
    <3>2. DeskPart!Under' = v2'
      BY <3>1 DEF DeskPart!Under, DeskPart!OpenOnce, DeskPart!Over
    <3> QED
      BY <3>1, <3>2 DEF DeskPart!Placed, DeskPart!Holds
  <2>2. CASE v9' # <<>> /\ DeskPart!Top(v9').kind = "posts"
    <3>1. v7'[r] = "m"
      BY <2>2 DEF DeskPart!View, DeskPart!InFront
    <3>2. DeskPart!Over'
      <4>1. v9' \in Seq(DeskPart!Dialogs)
        BY DEF DeskPart!Typed
      <4>2. Len(v9') \in DOMAIN v9'
        BY <2>2, <4>1, EmptySeq, LenProperties
      <4>3. DeskPart!PostsOpen'
        BY <2>2, <4>2 DEF DeskPart!PostsOpen, DeskPart!Has, DeskPart!Top
      <4> QED
        BY <4>3 DEF DeskPart!OpenOnce
    <3>3. r \in DeskPart!Range(v4'[v10'.list])
      BY <3>1, <3>2 DEF DeskPart!Over, DeskPart!Holds
    <3>4. v4'[v10'.list] # <<>>
      BY <3>3 DEF DeskPart!Range
    <3> QED
      BY <3>2, <3>3, <3>4 DEF DeskPart!Over
  <2>3. CASE v9' # <<>> /\ DeskPart!Top(v9').kind # "posts"
    <3>1. v7'[r] = "none"
      BY <2>3 DEF DeskPart!View, DeskPart!InFront
    <3>2. v7'[r] \in {"a", "b", "m", "gone"}
      BY DEF DeskPart!Typed
    <3> QED
      BY <3>1, <3>2
  <2> QED
    BY <2>1, <2>2, <2>3
<1>2. PICK i \in DOMAIN (v4'[v2']) : v4'[v2'][i] = r
  BY <1>1 DEF DeskPart!Range
<1>3. v6'[r] = i
  BY <1>2 DEF DeskPart!Numbered, DeskPart!Typed
<1> QED
  BY <1>2, <1>3 DEF DeskPart!Rows

\* If the row that has the focus is one of its place, all the rows of the keys are.
LEMMA AllInFront ==
    ASSUME DeskPart!Typed, DeskPart!Numbered, DeskPart!Placed, DeskPart!OpenOnce, DeskPart!HeldIsFocused,
           v8 # 0, ~v11, NEW i \in DOMAIN DeskPart!Rows
    PROVE  v7[DeskPart!Rows[i]] = DeskPart!View
<1>1. v8 \in DOMAIN v6 /\ v7[v8] = DeskPart!View
  BY DEF DeskPart!HeldIsFocused
<1>2. DeskPart!Rows[i] \in DOMAIN v6 /\ DeskPart!Rows[i] \in DeskPart!Range(v4[v2])
  BY DEF DeskPart!Numbered, DeskPart!Typed, DeskPart!Rows, DeskPart!Range
<1>3. CASE v9 = <<>>
  <2>1. DeskPart!View = v1 /\ DeskPart!Under = v2
    BY <1>3 DEF DeskPart!View, DeskPart!InFront, DeskPart!PostsOpen, DeskPart!Has, DeskPart!Under
  <2> QED
    BY <1>2, <2>1 DEF DeskPart!Placed, DeskPart!Holds
<1>4. CASE v9 # <<>> /\ DeskPart!Top(v9).kind = "posts"
  <2>1. DeskPart!View = "m"
    BY <1>4 DEF DeskPart!View, DeskPart!InFront
  <2>2. DeskPart!Over
    <3>1. v9 \in Seq(DeskPart!Dialogs)
      BY DEF DeskPart!Typed
    <3>2. Len(v9) \in DOMAIN v9
      BY <1>4, <3>1, EmptySeq, LenProperties
    <3>3. DeskPart!PostsOpen
      BY <1>4, <3>2 DEF DeskPart!PostsOpen, DeskPart!Has, DeskPart!Top
    <3> QED
      BY <3>3 DEF DeskPart!OpenOnce
  <2>3. v8 \in DeskPart!Range(v4[v10.list])
    BY <1>1, <2>1, <2>2 DEF DeskPart!Over, DeskPart!Holds
  <2>4. v4[v10.list] # <<>>
    BY <2>3 DEF DeskPart!Range
  <2>5. v2 = v10.list
    BY <2>2, <2>4 DEF DeskPart!Over
  <2> QED
    BY <1>2, <2>1, <2>2, <2>5 DEF DeskPart!Over, DeskPart!Holds
<1>5. CASE v9 # <<>> /\ DeskPart!Top(v9).kind # "posts"
  <2>1. DeskPart!View = "none"
    BY <1>5 DEF DeskPart!View, DeskPart!InFront
  <2>2. v7[v8] \in {"a", "b", "m", "gone"}
    BY <1>1 DEF DeskPart!Typed
  <2> QED
    BY <1>1, <2>1, <2>2
<1> QED
  BY <1>3, <1>4, <1>5

\* A call of focus leaves the focus where focusedPostIndex is.
LEMMA FocusFits ==
    ASSUME DeskPart!Typed', DeskPart!Numbered', DeskPart!Placed', DeskPart!OpenOnce',
           NEW r \in DOMAIN v6' \cup {0}, NEW i, NEW old, DeskPart!Focus(r, i, v7', DeskPart!View', old),
           0 \notin DOMAIN v6', r \in DOMAIN v6 => v6'[r] = v6[r],
           r # 0 /\ (old = r \/ r \notin DOMAIN v6) => i = v6'[r],
           r = 0 \/ v7'[r] # DeskPart!View' =>
               \/ old = 0
               \/ old \in DOMAIN v6' /\ v7'[old] = DeskPart!View' /\ i \notin DOMAIN DeskPart!Rows'
    PROVE  DeskPart!HeldIsFocused'
<1>1. CASE r # 0 /\ v7'[r] = DeskPart!View'
  <2>1. v8' = r /\ v3' = v6'[r] /\ r \in DOMAIN v6'
    BY <1>1 DEF DeskPart!Focus
  <2>2. ~(v11' /\ v2' = v10'.list) => DeskPart!Rows'[v6'[r]] = r
    BY <1>1, <2>1, RowInFront
  <2> QED
    BY <1>1, <2>1, <2>2 DEF DeskPart!HeldIsFocused, DeskPart!Row
<1>2. CASE ~(r # 0 /\ v7'[r] = DeskPart!View')
  <2>1. v8' = old /\ v3' = i
    BY <1>2 DEF DeskPart!Focus
  <2> QED
    BY <1>2, <2>1 DEF DeskPart!HeldIsFocused, DeskPart!HasFocus
<1> QED
  BY <1>1, <1>2

\* Rows are numbered from 1.
LEMMA NoRowZero == ASSUME DeskPart!Typed' PROVE 0 \notin DOMAIN v6'
<1>1. v6' \in Seq(Nat)
  BY DEF DeskPart!Typed
<1>2. DOMAIN v6' = 1..Len(v6') /\ Len(v6') \in Nat
  BY <1>1, LenProperties
<1> QED
  BY <1>2

LEMMA FocusIsNat ==
    ASSUME DeskPart!Typed, NEW r, NEW i \in Nat, NEW h, NEW front, NEW old,
           DeskPart!Focus(r, i, h, front, old)
    PROVE  v3' \in Nat
<1>1. \A k \in DOMAIN v6 : v6[k] \in Nat
  BY LenProperties DEF DeskPart!Typed
<1> QED
  BY <1>1 DEF DeskPart!Focus

\* A dialog is opened on top of the others.
LEMMA DialogOnTop ==
    ASSUME DeskPart!Typed, NEW d \in DeskPart!Dialogs, d.prev \in DOMAIN v6 \cup {0}, v9' = Append(v9, d)
    PROVE  /\ v9' \in Seq(DeskPart!Dialogs) /\ Len(v9) \in Nat
           /\ DOMAIN v9 = 1..Len(v9) /\ DOMAIN v9' = 1..(Len(v9) + 1)
           /\ \A i \in DOMAIN v9 : i \in DOMAIN v9' /\ v9'[i] = v9[i]
           /\ Len(v9) + 1 \in DOMAIN v9' /\ v9'[Len(v9) + 1] = d
           /\ \A i \in DOMAIN v9' : v9'[i].prev \in DOMAIN v6 \cup {0}
           /\ DeskPart!PostsOpen' <=> DeskPart!PostsOpen \/ d.kind = "posts"
<1>1. v9 \in Seq(DeskPart!Dialogs) /\ \A i \in DOMAIN v9 : v9[i].prev \in DOMAIN v6 \cup {0}
  BY DEF DeskPart!Typed
<1>2. /\ v9' \in Seq(DeskPart!Dialogs) /\ Len(v9') = Len(v9) + 1
      /\ \A i \in 1..Len(v9) : v9'[i] = v9[i]
      /\ v9'[Len(v9) + 1] = d
  BY <1>1, AppendProperties
<1>3. Len(v9) \in Nat /\ DOMAIN v9 = 1..Len(v9) /\ DOMAIN v9' = 1..(Len(v9) + 1)
  BY <1>1, <1>2, LenProperties
<1>4. ASSUME NEW i \in DOMAIN v9 PROVE i \in DOMAIN v9' /\ v9'[i] = v9[i]
  BY <1>2, <1>3
<1>5. ASSUME NEW i \in DOMAIN v9' PROVE i \in DOMAIN v9 \/ v9'[i] = d
  BY <1>2, <1>3
<1>6. Len(v9) + 1 \in DOMAIN v9'
  BY <1>3
<1>7. \A i \in DOMAIN v9' : v9'[i].prev \in DOMAIN v6 \cup {0}
  BY <1>1, <1>4, <1>5
<1>8. DeskPart!PostsOpen' <=> DeskPart!PostsOpen \/ d.kind = "posts"
  BY <1>2, <1>4, <1>5, <1>6 DEF DeskPart!PostsOpen, DeskPart!Has
<1> QED
  BY <1>2, <1>3, <1>4, <1>6, <1>7, <1>8

\* The dialog on top is closed.
LEMMA DialogOff ==
    ASSUME DeskPart!Typed, v9 # <<>>, v9' = DeskPart!Below(v9)
    PROVE  /\ v9' \in Seq(DeskPart!Dialogs) /\ Len(v9) \in Nat /\ Len(v9') = Len(v9) - 1
           /\ DOMAIN v9 = 1..Len(v9) /\ DOMAIN v9' = 1..(Len(v9) - 1)
           /\ \A i \in DOMAIN v9' : i \in DOMAIN v9 /\ v9'[i] = v9[i]
           /\ Len(v9) \in DOMAIN v9 /\ v9[Len(v9)] = DeskPart!Top(v9)
           /\ DeskPart!Top(v9) \in DeskPart!Dialogs /\ DeskPart!Top(v9).prev \in DOMAIN v6 \cup {0}
           /\ \A i \in DOMAIN v9' : v9'[i].prev \in DOMAIN v6 \cup {0}
<1>1. v9 \in Seq(DeskPart!Dialogs) /\ \A i \in DOMAIN v9 : v9[i].prev \in DOMAIN v6 \cup {0}
  BY DEF DeskPart!Typed
<1>2. /\ v9' \in Seq(DeskPart!Dialogs) /\ DOMAIN v9' = 1..(Len(v9) - 1) /\ Len(v9') = Len(v9) - 1
      /\ \A k \in 1..(Len(v9) - 1) : v9'[k] = v9[k]
      /\ Len(v9) \in DOMAIN v9 /\ DeskPart!Top(v9) = v9[Len(v9)] /\ DeskPart!Top(v9) \in DeskPart!Dialogs
  BY <1>1, BelowTop
<1>3. Len(v9) \in Nat /\ DOMAIN v9 = 1..Len(v9)
  BY <1>1, LenProperties
<1>4. ASSUME NEW i \in DOMAIN v9' PROVE i \in DOMAIN v9 /\ v9'[i] = v9[i]
  BY <1>2, <1>3
<1> QED
  BY <1>1, <1>2, <1>3, <1>4

\* As long as nothing moved while there was a deletion, and none was asked for, there is none.
LEMMA NothingDeleted ==
    ASSUME DeskPart!Note("moved", DeskPart!Deleting) \subseteq v16', "moved" \notin v16', v15' = v15,
           \A i \in DOMAIN v9' : v9'[i].kind \in {"x", "button"} => \E j \in DOMAIN v9 : v9[j] = v9'[i]
    PROVE  DeskPart!OneDeletion'
<1>1. ~DeskPart!Deleting
  BY DEF DeskPart!Note
<1> QED
  BY <1>1 DEF DeskPart!Deleting, DeskPart!OneDeletion

\* No row moves and no list changes.
LEMMA PlacesStay ==
    ASSUME DeskPart!Numbered, DeskPart!Placed, UNCHANGED <<v1, v4, v5, v6, v7>>, DeskPart!Under' = DeskPart!Under
    PROVE  DeskPart!Numbered' /\ DeskPart!Placed'
BY DEF DeskPart!Numbered, DeskPart!Placed, DeskPart!Holds, DeskPart!Tabs

LEMMA OverKeeps ==
    ASSUME DeskPart!OpenOnce, UNCHANGED <<v2, v4, v6, v7, v10>>, v9' = v9, v11' = v11
    PROVE  DeskPart!OpenOnce' /\ DeskPart!Under' = DeskPart!Under
BY DEF DeskPart!OpenOnce, DeskPart!Over, DeskPart!Holds, DeskPart!PostsOpen, DeskPart!Has, DeskPart!Under

\* Nothing of the lists, the rows and the dialogs changes.
LEMMA NothingMoves ==
    ASSUME DeskPart!Settled, UNCHANGED <<v1, v2, v3, v4, v5, v6, v7, v8, v9, v10, v11>>,
           v15' = v15 \/ (v15' \subseteq v15 /\ \E c \in v15 : c \notin v15'), v16' = v16
    PROVE  DeskPart!Settled'
<1>0. /\ DeskPart!Typed /\ DeskPart!Numbered /\ DeskPart!Placed /\ DeskPart!OpenOnce /\ DeskPart!HeldIsFocused
      /\ ("moved" \notin v16 => DeskPart!OneDeletion)
  BY DEF DeskPart!Settled
<1>1. DeskPart!OpenOnce' /\ DeskPart!Numbered' /\ DeskPart!Placed'
  BY <1>0, PlacesStay, OverKeeps
<1>2. DeskPart!Typed'
  BY <1>0 DEF DeskPart!Typed, DeskPart!Dialogs, DeskPart!Tabs
<1>3. DeskPart!HeldIsFocused'
  BY <1>0 DEF DeskPart!HeldIsFocused, DeskPart!View, DeskPart!HasFocus, DeskPart!Row, DeskPart!Rows
<1>4. DeskPart!OneDeletion => DeskPart!OneDeletion'
  <2>1. DeskPart!Row' = DeskPart!Row /\ DeskPart!HasFocus' = DeskPart!HasFocus
    BY DEF DeskPart!Row, DeskPart!HasFocus, DeskPart!Rows
  <2>2. DeskPart!OneDeletion => (v15' = v15 \/ v15' = {})
    BY DEF DeskPart!OneDeletion
  <2> QED
    BY <2>1, <2>2 DEF DeskPart!OneDeletion
<1> QED
  BY <1>0, <1>1, <1>2, <1>3, <1>4 DEF DeskPart!Settled

LEMMA StepOfMoves ==
    ASSUME DeskPart!Settled, ~v11, v11' = v11, DeskPart!Clean',
           \/ \E i \in DOMAIN DeskPart!Rows : DeskPart!MoveTo(i)
           \/ \E r \in DOMAIN v7 : DeskPart!RowFocus(r)
    PROVE  DeskPart!Settled'
<1>0. DeskPart!Typed /\ DeskPart!Numbered /\ DeskPart!Placed /\ DeskPart!OpenOnce /\ DeskPart!HeldIsFocused
  BY DEF DeskPart!Settled
<1>1. /\ UNCHANGED <<v1, v2, v4, v5, v6, v7, v9, v10, v11, v15>>
      /\ v16' = v16 \cup DeskPart!Note("moved", DeskPart!Deleting)
  BY DEF DeskPart!MoveTo, DeskPart!RowFocus, DeskPart!over, DeskPart!work
<1>2. DeskPart!OpenOnce' /\ DeskPart!Numbered' /\ DeskPart!Placed'
  BY <1>0, <1>1, PlacesStay, OverKeeps
<1>3. DeskPart!View' = DeskPart!View /\ DeskPart!Rows' = DeskPart!Rows
  BY <1>1 DEF DeskPart!View, DeskPart!Rows
<1>4. v3' \in Nat => DeskPart!Typed'
  BY <1>0, <1>1 DEF DeskPart!Typed, DeskPart!Dialogs, DeskPart!Tabs
<1>5. DOMAIN DeskPart!Rows = 1..Len(DeskPart!Rows) /\ Len(DeskPart!Rows) \in Nat
  <2>1. DeskPart!Rows \in Seq(Nat)
    BY <1>0, ElementOfSeq, LenProperties DEF DeskPart!Typed, DeskPart!Rows
  <2> QED
    BY <2>1, LenProperties
<1>6. DeskPart!OneDeletion' \/ "moved" \in v16'
  BY <1>1, NothingDeleted
<1>7. ASSUME NEW i \in DOMAIN DeskPart!Rows, DeskPart!MoveTo(i) PROVE DeskPart!Typed' /\ DeskPart!HeldIsFocused'
  <2>1. DeskPart!Focus(DeskPart!Rows[i], i, v7, DeskPart!View, v8)
    BY <1>7 DEF DeskPart!MoveTo
  <2>2. DeskPart!Typed'
    BY <1>0, <1>4, <1>5, <2>1, FocusIsNat
  <2>3. DeskPart!Rows[i] \in DOMAIN v6 /\ v6[DeskPart!Rows[i]] = i
    BY <1>0 DEF DeskPart!Rows, DeskPart!Numbered, DeskPart!Typed
  <2>4. v7[DeskPart!Rows[i]] # DeskPart!View => v8 = 0
    BY <1>0, AllInFront
  <2>5. 0 \notin DOMAIN v6'
    BY <2>2, NoRowZero
  <2>6. DeskPart!Focus(DeskPart!Rows[i], i, v7', DeskPart!View', v8)
    BY <1>1, <1>3, <2>1 DEF DeskPart!Focus
  <2>7. DeskPart!Rows[i] # 0
    BY <1>1, <2>3, <2>5
  <2> HIDE DEF DeskPart!Rows
  <2> QED
    BY <1>1, <1>2, <1>3, <2>2, <2>3, <2>4, <2>5, <2>6, <2>7, FocusFits
<1>8. ASSUME NEW r \in DOMAIN v7, DeskPart!RowFocus(r) PROVE DeskPart!Typed' /\ DeskPart!HeldIsFocused'
  <2>1. DeskPart!Focus(r, v3, v7, DeskPart!View, v8) /\ v7[r] = DeskPart!View /\ v8 # r
    BY <1>8 DEF DeskPart!RowFocus
  <2>2. DeskPart!Typed'
    BY <1>0, <1>4, <2>1, FocusIsNat DEF DeskPart!Typed
  <2>3. r \in DOMAIN v6' /\ r \in DOMAIN v6
    BY <1>0, <1>1 DEF DeskPart!Typed
  <2>5. 0 \notin DOMAIN v6'
    BY <2>2, NoRowZero
  <2>6. DeskPart!Focus(r, v3, v7', DeskPart!View', v8)
    BY <1>1, <1>3, <2>1 DEF DeskPart!Focus
  <2>7. r # 0 /\ v7'[r] = DeskPart!View'
    BY <1>1, <1>3, <2>1, <2>3, <2>5
  <2> QED
    BY <1>1, <1>2, <2>1, <2>2, <2>3, <2>5, <2>6, <2>7, FocusFits
<1> QED
  BY <1>2, <1>6, <1>7, <1>8 DEF DeskPart!Settled

\* The row the keys act on.
LEMMA RowIsOne ==
    ASSUME DeskPart!Settled, DeskPart!HasFocus
    PROVE  /\ DeskPart!Row \in DOMAIN v6 /\ DeskPart!Row \in Nat \ {0} /\ v6[DeskPart!Row] = v3
           /\ ~v11 => v8 \in {0, DeskPart!Row}
<1>1. DeskPart!Row \in DOMAIN v6 /\ v6[DeskPart!Row] = v3
  BY DEF DeskPart!Settled, DeskPart!Typed, DeskPart!Numbered, DeskPart!HasFocus, DeskPart!Row, DeskPart!Rows
<1>2. DOMAIN v6 = 1..Len(v6) /\ Len(v6) \in Nat
  BY LenProperties DEF DeskPart!Settled, DeskPart!Typed
<1>3. ~v11 => v8 \in {0, DeskPart!Row}
  BY DEF DeskPart!Settled, DeskPart!HeldIsFocused
<1> QED
  BY <1>1, <1>2, <1>3

\* A question is opened over the rest.
LEMMA QuestionKeeps ==
    ASSUME DeskPart!Settled, NEW d \in DeskPart!Dialogs, d.kind # "posts", d.prev \in DOMAIN v6 \cup {0},
           UNCHANGED <<v1, v2, v3, v4, v5, v6, v7, v10, v11>>, v9' = Append(v9, d), v8' = 0,
           "moved" \notin v16' => DeskPart!OneDeletion'
    PROVE  DeskPart!Settled'
<1>0. DeskPart!Typed /\ DeskPart!Numbered /\ DeskPart!Placed /\ DeskPart!OpenOnce
  BY DEF DeskPart!Settled
<1>1. /\ v9' \in Seq(DeskPart!Dialogs) /\ Len(v9) \in Nat
      /\ DOMAIN v9 = 1..Len(v9) /\ DOMAIN v9' = 1..(Len(v9) + 1)
      /\ \A i \in DOMAIN v9 : i \in DOMAIN v9' /\ v9'[i] = v9[i]
      /\ v9'[Len(v9) + 1] = d
      /\ \A i \in DOMAIN v9' : v9'[i].prev \in DOMAIN v6 \cup {0}
      /\ DeskPart!PostsOpen' <=> DeskPart!PostsOpen
  BY <1>0, DialogOnTop
<1>2. \A i \in DOMAIN v9' : v9'[i].kind = "posts" => i \in DOMAIN v9
  BY <1>1
<1>3. DeskPart!Typed'
  BY <1>0, <1>1 DEF DeskPart!Typed, DeskPart!Dialogs, DeskPart!Tabs
<1>4. DeskPart!Under' = DeskPart!Under
  BY <1>1 DEF DeskPart!Under
<1>5. DeskPart!Numbered' /\ DeskPart!Placed'
  BY <1>0, <1>4, PlacesStay
<1>6. DeskPart!Over => DeskPart!Over'
  BY DEF DeskPart!Over, DeskPart!Holds
<1>7. DeskPart!OpenOnce'
  BY <1>0, <1>1, <1>2, <1>6 DEF DeskPart!OpenOnce
<1>8. DeskPart!HeldIsFocused'
  BY DEF DeskPart!HeldIsFocused
<1> QED
  BY <1>3, <1>5, <1>7, <1>8 DEF DeskPart!Settled

\* A question that is not about a deletion leaves the one there is.
LEMMA OtherQuestion ==
    ASSUME DeskPart!Settled, "moved" \notin v16, UNCHANGED <<v2, v3, v4, v15>>,
           NEW d \in DeskPart!Dialogs, d.kind \in {"ask", "menu"}, d.prev \in DOMAIN v6 \cup {0},
           v9' = Append(v9, d)
    PROVE  DeskPart!OneDeletion'
<1>0. DeskPart!Typed /\ DeskPart!OneDeletion
  BY DEF DeskPart!Settled
<1>1. /\ Len(v9) \in Nat /\ DOMAIN v9 = 1..Len(v9) /\ DOMAIN v9' = 1..(Len(v9) + 1)
      /\ \A i \in DOMAIN v9 : v9'[i] = v9[i]
      /\ v9'[Len(v9) + 1] = d
  BY <1>0, DialogOnTop
<1>2. \A i \in DOMAIN v9' : (i \in DOMAIN v9 /\ v9'[i] = v9[i]) \/ v9'[i].kind \in {"ask", "menu"}
  BY <1>1
<1>3. DeskPart!Row' = DeskPart!Row /\ DeskPart!HasFocus' = DeskPart!HasFocus
  BY DEF DeskPart!Row, DeskPart!HasFocus, DeskPart!Rows
<1>4. ASSUME NEW i \in DOMAIN v9', v9'[i].kind \in {"x", "button"}
      PROVE  /\ v15' = {}
             /\ \A j \in DOMAIN v9' : /\ v9'[j].kind \in {"x", "button"} => j = i
                                      /\ v9'[j].kind = "posts" => j < i
             /\ v9'[i].kind = "x" =>
                    DeskPart!HasFocus' /\ v9'[i].row = DeskPart!Row' /\ v9'[i].prev \in {0, DeskPart!Row'}
             /\ v9'[i].kind = "button" => v9'[i].prev = 0
  <2>1. i \in DOMAIN v9 /\ v9'[i] = v9[i]
    BY <1>2, <1>4
  <2>2. /\ v15 = {}
        /\ \A j \in DOMAIN v9 : /\ v9[j].kind \in {"x", "button"} => j = i
                                /\ v9[j].kind = "posts" => j < i
        /\ v9[i].kind = "x" =>
               DeskPart!HasFocus /\ v9[i].row = DeskPart!Row /\ v9[i].prev \in {0, DeskPart!Row}
        /\ v9[i].kind = "button" => v9[i].prev = 0
    BY <1>0, <1>4, <2>1 DEF DeskPart!OneDeletion
  <2>3. \A j \in DOMAIN v9' : /\ v9'[j].kind \in {"x", "button"} => j = i
                              /\ v9'[j].kind = "posts" => j < i
    BY <1>2, <2>2
  <2> QED
    BY <1>3, <2>1, <2>2, <2>3
<1>5. \A c \in v15' : v15' = {c} /\ (c.by = "x" => DeskPart!HasFocus' /\ c.row = DeskPart!Row')
  BY <1>0, <1>3 DEF DeskPart!OneDeletion
<1> QED
  BY <1>4, <1>5 DEF DeskPart!OneDeletion

\* x asks about the row at focusedPostIndex, and it is the only deletion.
LEMMA FirstDeletion ==
    ASSUME DeskPart!Settled, DeskPart!Note("moved", DeskPart!Deleting) \subseteq v16', "moved" \notin v16',
           UNCHANGED <<v2, v3, v4, v15>>, NEW d \in DeskPart!Dialogs, d.kind \in {"x", "button"},
           d.prev \in DOMAIN v6 \cup {0}, v9' = Append(v9, d),
           d.kind = "x" => DeskPart!HasFocus /\ d.row = DeskPart!Row /\ d.prev \in {0, DeskPart!Row},
           d.kind = "button" => d.prev = 0
    PROVE  DeskPart!OneDeletion'
<1>0. DeskPart!Typed
  BY DEF DeskPart!Settled
<1>1. /\ Len(v9) \in Nat /\ DOMAIN v9 = 1..Len(v9) /\ DOMAIN v9' = 1..(Len(v9) + 1)
      /\ \A i \in DOMAIN v9 : v9'[i] = v9[i]
      /\ v9'[Len(v9) + 1] = d
  BY <1>0, DialogOnTop
<1>2. v15 = {} /\ \A i \in DOMAIN v9 : v9[i].kind \notin {"x", "button"}
  BY DEF DeskPart!Note, DeskPart!Deleting
<1>3. DeskPart!Row' = DeskPart!Row /\ DeskPart!HasFocus' = DeskPart!HasFocus
  BY DEF DeskPart!Row, DeskPart!HasFocus, DeskPart!Rows
<1>4. \A i \in DOMAIN v9' : i = Len(v9) + 1 \/ (v9'[i].kind \notin {"x", "button"} /\ i < Len(v9) + 1)
  <2> SUFFICES ASSUME NEW i \in DOMAIN v9', i # Len(v9) + 1
               PROVE  v9'[i].kind \notin {"x", "button"} /\ i < Len(v9) + 1
    OBVIOUS
  <2>1. i \in 1..Len(v9) /\ i < Len(v9) + 1
    BY <1>1, UpToOne
  <2>2. i \in DOMAIN v9 /\ v9'[i] = v9[i]
    BY <1>1, <2>1
  <2> QED
    BY <1>2, <2>1, <2>2
<1>5. v9'[Len(v9) + 1].kind # "posts"
  BY <1>1
<1>6. ASSUME NEW i \in DOMAIN v9', v9'[i].kind \in {"x", "button"}
      PROVE  /\ v15' = {} /\ v9'[i] = d
             /\ \A j \in DOMAIN v9' : /\ v9'[j].kind \in {"x", "button"} => j = i
                                      /\ v9'[j].kind = "posts" => j < i
  <2>1. i = Len(v9) + 1
    BY <1>4, <1>6
  <2> QED
    BY <1>1, <1>2, <1>4, <1>5, <2>1
<1> QED
  BY <1>2, <1>3, <1>6 DEF DeskPart!OneDeletion

LEMMA StepOfKeys ==
    ASSUME DeskPart!Settled, ~v11, DeskPart!Clean',
           \/ DeskPart!KeyX \/ DeskPart!AltD \/ DeskPart!KeyM \/ DeskPart!KeyB
           \/ DeskPart!Order \/ DeskPart!AltH
    PROVE  DeskPart!Settled' /\ ("wrong" \in v16' => "wrong" \in v16)
<1>1. /\ UNCHANGED <<v1, v2, v3, v4, v5, v6, v7, v10, v11, v15>>
      /\ DeskPart!HasFocus
  BY DEF DeskPart!KeyX, DeskPart!AltD, DeskPart!KeyM, DeskPart!KeyB, DeskPart!Order, DeskPart!AltH,
         DeskPart!Acts, DeskPart!lists
<1>2. /\ DeskPart!Row \in DOMAIN v6 /\ DeskPart!Row \in Nat \ {0} /\ v8 \in {0, DeskPart!Row}
      /\ v8 \in Nat
  BY <1>1, RowIsOne
<1>3. DeskPart!Wrong = {}
  BY <1>2 DEF DeskPart!Wrong, DeskPart!Note
<1>4. v8 \in DOMAIN v6 \cup {0}
  BY <1>2
<1>5. CASE DeskPart!KeyX
  <2> DEFINE d == [kind |-> "x", row |-> DeskPart!Row, prev |-> v8]
  <2>1. /\ v9' = Append(v9, d) /\ v8' = 0
        /\ v16' = v16 \cup DeskPart!Wrong \cup DeskPart!Note("moved", DeskPart!Deleting)
                      \cup DeskPart!Note("wrong deletion", DeskPart!Wrong # {})
    BY <1>5 DEF DeskPart!KeyX, DeskPart!Ask
  <2>2. d \in DeskPart!Dialogs /\ d.kind = "x" /\ d.row = DeskPart!Row /\ d.prev = v8
    BY <1>2 DEF DeskPart!Dialogs
  <2> HIDE DEF d
  <2>3. "moved" \notin v16' => DeskPart!OneDeletion'
    <3> SUFFICES ASSUME "moved" \notin v16' PROVE DeskPart!OneDeletion'
      OBVIOUS
    <3>1. DeskPart!Note("moved", DeskPart!Deleting) \subseteq v16'
      BY <2>1
    <3> QED
      BY <1>1, <1>2, <1>4, <2>1, <2>2, <3>1, FirstDeletion
  <2>4. DeskPart!Settled'
    BY <1>1, <1>4, <2>1, <2>2, <2>3, QuestionKeeps
  <2>5. "wrong" \in v16' => "wrong" \in v16
    BY <1>3, <2>1 DEF DeskPart!Note
  <2> QED
    BY <2>4, <2>5
<1>6. CASE DeskPart!AltD \/ DeskPart!KeyM \/ DeskPart!KeyB
  <2> DEFINE d == [kind |-> "ask", row |-> DeskPart!Row, prev |-> v8]
  <2>1. v9' = Append(v9, d) /\ v8' = 0 /\ v16' = v16
    BY <1>3, <1>6 DEF DeskPart!AltD, DeskPart!KeyM, DeskPart!KeyB, DeskPart!Ask
  <2>2. d \in DeskPart!Dialogs /\ d.kind = "ask" /\ d.prev = v8
    BY <1>2 DEF DeskPart!Dialogs
  <2> HIDE DEF d
  <2>3. "moved" \notin v16' => DeskPart!OneDeletion'
    BY <1>1, <1>4, <2>1, <2>2, OtherQuestion
  <2> QED
    BY <1>1, <1>4, <2>1, <2>2, <2>3, QuestionKeeps
<1>7. CASE DeskPart!Order \/ DeskPart!AltH
  <2>1. v9' = v9 /\ v8' = v8 /\ v16' = v16
    BY <1>3, <1>7 DEF DeskPart!Order, DeskPart!AltH
  <2> QED
    BY <1>1, <2>1, NothingMoves
<1> QED
  BY <1>5, <1>6, <1>7

LEMMA StepOfButton ==
    ASSUME DeskPart!Settled, NEW r \in DOMAIN v7, DeskPart!ButtonDelete(r), v11' = v11
    PROVE  DeskPart!Settled' /\ ("wrong" \in v16' => "wrong" \in v16)
<1> DEFINE d == [kind |-> "button", row |-> r, prev |-> 0]
<1>1. /\ UNCHANGED <<v1, v2, v3, v4, v5, v6, v7, v10, v11, v15>>
      /\ v9' = Append(v9, d) /\ v8' = 0
      /\ v16' = v16 \cup DeskPart!Note("moved", DeskPart!Deleting)
  BY DEF DeskPart!ButtonDelete, DeskPart!lists
<1>2. d \in DeskPart!Dialogs /\ d.kind = "button" /\ d.prev = 0
  <2>1. r \in DOMAIN v6
    BY DEF DeskPart!Settled, DeskPart!Typed
  <2>2. DOMAIN v6 = 1..Len(v6) /\ Len(v6) \in Nat
    BY LenProperties DEF DeskPart!Settled, DeskPart!Typed
  <2> QED
    BY <2>1, <2>2 DEF DeskPart!Dialogs
<1> HIDE DEF d
<1>3. "moved" \notin v16' => DeskPart!OneDeletion'
  <2> SUFFICES ASSUME "moved" \notin v16' PROVE DeskPart!OneDeletion'
    OBVIOUS
  <2>1. DeskPart!Note("moved", DeskPart!Deleting) \subseteq v16'
    BY <1>1
  <2> QED
    BY <1>1, <1>2, <2>1, FirstDeletion
<1>4. DeskPart!Settled'
  BY <1>1, <1>2, <1>3, QuestionKeeps
<1>5. "wrong" \in v16' => "wrong" \in v16
  BY <1>1 DEF DeskPart!Note
<1> QED
  BY <1>4, <1>5

LEMMA StepOfMenu ==
    ASSUME DeskPart!Settled, DeskPart!showMuteMenu
    PROVE  DeskPart!Settled'
<1> DEFINE d == [kind |-> "menu", row |-> 0, prev |-> v8]
<1>1. /\ UNCHANGED <<v1, v2, v3, v4, v5, v6, v7, v10, v11, v15>> /\ v16' = v16
      /\ \/ v9' = v9 /\ v8' = v8
         \/ v9' = Append(v9, d) /\ v8' = 0
  BY DEF DeskPart!showMuteMenu, DeskPart!Ask, DeskPart!lists, DeskPart!work
<1>2. d.prev \in DOMAIN v6 \cup {0} /\ d \in DeskPart!Dialogs /\ d.kind = "menu"
  <2>1. v8 \in DOMAIN v6 \cup {0}
    BY DEF DeskPart!Settled, DeskPart!HeldIsFocused
  <2>2. DOMAIN v6 = 1..Len(v6) /\ Len(v6) \in Nat
    BY LenProperties DEF DeskPart!Settled, DeskPart!Typed
  <2> QED
    BY <2>1, <2>2 DEF DeskPart!Dialogs
<1> HIDE DEF d
<1>3. CASE v9' = v9 /\ v8' = v8
  BY <1>1, <1>3, NothingMoves
<1>4. CASE v9' = Append(v9, d) /\ v8' = 0
  <2>1. "moved" \notin v16' => DeskPart!OneDeletion'
    BY <1>1, <1>2, <1>4, OtherQuestion
  <2> QED
    BY <1>1, <1>2, <1>4, <2>1, QuestionKeeps
<1> QED
  BY <1>1, <1>3, <1>4

\* A dialog is closed and the focus given back, the rows being where they were.
LEMMA FocusBack ==
    ASSUME DeskPart!Settled, v9 # <<>>, DeskPart!GiveBack, UNCHANGED <<v1, v2, v4, v5, v6, v7, v10>>,
           DeskPart!OpenOnce', DeskPart!Under' = DeskPart!Under
    PROVE  DeskPart!Typed' /\ DeskPart!Numbered' /\ DeskPart!Placed' /\ DeskPart!HeldIsFocused'
<1>0. DeskPart!Typed /\ DeskPart!Numbered /\ DeskPart!Placed
  BY DEF DeskPart!Settled
<1>1. /\ v9' = DeskPart!Below(v9)
      /\ DeskPart!Focus(DeskPart!Top(v9).prev, v3, v7, DeskPart!View', 0)
  BY DEF DeskPart!GiveBack, DeskPart!View
<1>2. /\ v9' \in Seq(DeskPart!Dialogs) /\ DeskPart!Top(v9).prev \in DOMAIN v6 \cup {0}
      /\ \A i \in DOMAIN v9' : v9'[i].prev \in DOMAIN v6 \cup {0}
  BY <1>0, <1>1, DialogOff
<1>3. DeskPart!Numbered' /\ DeskPart!Placed'
  BY <1>0, PlacesStay
<1>4. v3' \in Nat
  <2>1. v3 \in Nat
    BY <1>0 DEF DeskPart!Typed
  <2> QED
    BY <1>0, <1>1, <2>1, FocusIsNat
<1>5. DeskPart!Typed'
  BY <1>0, <1>2, <1>4 DEF DeskPart!Typed, DeskPart!Dialogs, DeskPart!Tabs
<1>6. DeskPart!HeldIsFocused'
  <2> DEFINE r == DeskPart!Top(v9).prev
  <2> HIDE DEF r
  <2>1. r \in DOMAIN v6 \cup {0} /\ DeskPart!Focus(r, v3, v7', DeskPart!View', 0)
    BY <1>1, <1>2 DEF r, DeskPart!Focus
  <2>2. 0 \notin DOMAIN v6'
    BY <1>5, NoRowZero
  <2> QED
    BY <1>3, <1>5, <2>1, <2>2, FocusFits
<1> QED
  BY <1>3, <1>5, <1>6

LEMMA StepOfClose ==
    ASSUME DeskPart!Settled, ~v11, DeskPart!Clean', DeskPart!CloseModal
    PROVE  DeskPart!Settled' /\ v16' = v16 \cup DeskPart!Note("moved", DeskPart!Deleting)
<1>0. DeskPart!Typed /\ DeskPart!OpenOnce
  BY DEF DeskPart!Settled
<1>1. /\ UNCHANGED <<v1, v2, v4, v5, v6, v7, v10, v15>> /\ v11' = TRUE
      /\ v9 # <<>> /\ DeskPart!Top(v9).kind = "posts" /\ DeskPart!GiveBack /\ v9' = DeskPart!Below(v9)
      /\ v16' = v16 \cup DeskPart!Note("moved", DeskPart!Deleting)
  BY DEF DeskPart!CloseModal, DeskPart!GiveBack, DeskPart!work
<1>2. /\ Len(v9) \in Nat /\ DOMAIN v9 = 1..Len(v9) /\ DOMAIN v9' = 1..(Len(v9) - 1)
      /\ \A i \in DOMAIN v9' : i \in DOMAIN v9 /\ v9'[i] = v9[i]
      /\ Len(v9) \in DOMAIN v9 /\ v9[Len(v9)].kind = "posts"
  BY <1>0, <1>1, DialogOff
<1>3. DeskPart!PostsOpen
  BY <1>2 DEF DeskPart!PostsOpen, DeskPart!Has
<1>4. ~DeskPart!PostsOpen'
  <2> SUFFICES ASSUME NEW i \in DOMAIN v9', v9'[i].kind = "posts" PROVE FALSE
    BY DEF DeskPart!PostsOpen, DeskPart!Has
  <2>1. i \in DOMAIN v9 /\ v9[i].kind = "posts" /\ i # Len(v9)
    BY <1>2
  <2> QED
    BY <1>0, <1>2, <2>1 DEF DeskPart!OpenOnce
<1>5. DeskPart!Over'
  BY <1>0, <1>1, <1>3 DEF DeskPart!OpenOnce, DeskPart!Over, DeskPart!Holds
<1>6. DeskPart!OpenOnce'
  BY <1>4, <1>5 DEF DeskPart!OpenOnce, DeskPart!PostsOpen, DeskPart!Has
<1>7. DeskPart!Under' = DeskPart!Under
  BY <1>1, <1>3 DEF DeskPart!Under
<1>8. DeskPart!Typed' /\ DeskPart!Numbered' /\ DeskPart!Placed' /\ DeskPart!HeldIsFocused'
  BY <1>1, <1>6, <1>7, FocusBack
<1>9. "moved" \notin v16' => DeskPart!OneDeletion'
  <2>1. DeskPart!Note("moved", DeskPart!Deleting) \subseteq v16'
    BY <1>1
  <2> QED
    BY <1>1, <1>2, <2>1, NothingDeleted
<1> QED
  BY <1>1, <1>6, <1>8, <1>9 DEF DeskPart!Settled

\* With a deletion asked for below, or sent, closing a dialog leaves focusedPostIndex.
LEMMA StepOfAnswer ==
    ASSUME DeskPart!Settled, ~v11, v11' = v11, NEW yes \in BOOLEAN, DeskPart!Answer(yes)
    PROVE  DeskPart!Settled' /\ v16' = v16 \cup DeskPart!Note("moved", v15 # {})
<1>0. DeskPart!Typed /\ DeskPart!OpenOnce /\ ("moved" \notin v16 => DeskPart!OneDeletion)
  BY DEF DeskPart!Settled
<1> DEFINE top == DeskPart!Top(v9)
<1>1. /\ UNCHANGED <<v1, v2, v4, v5, v6, v7, v10>>
      /\ v9 # <<>> /\ top.kind # "posts" /\ DeskPart!GiveBack /\ v9' = DeskPart!Below(v9)
      /\ DeskPart!Focus(top.prev, v3, v7, DeskPart!View', 0)
      /\ v16' = v16 \cup DeskPart!Note("moved", v15 # {})
      /\ v15' = IF yes /\ top.kind \in {"x", "button"}
                THEN v15 \cup {[by |-> top.kind, row |-> top.row]} ELSE v15
  BY DEF DeskPart!Answer, DeskPart!GiveBack, DeskPart!View
<1>2. /\ Len(v9) \in Nat /\ DOMAIN v9 = 1..Len(v9) /\ DOMAIN v9' = 1..(Len(v9) - 1)
      /\ \A i \in DOMAIN v9' : i \in DOMAIN v9 /\ v9'[i] = v9[i]
      /\ Len(v9) \in DOMAIN v9 /\ v9[Len(v9)] = top
      /\ top.prev \in DOMAIN v6 \cup {0} /\ Len(v9') = Len(v9) - 1
  BY <1>0, <1>1, DialogOff
<1> HIDE DEF top
<1>3. \A i \in DOMAIN v9 : i = Len(v9) \/ (i \in DOMAIN v9' /\ i < Len(v9))
  <2> SUFFICES ASSUME NEW i \in DOMAIN v9, i # Len(v9) PROVE i \in DOMAIN v9' /\ i < Len(v9)
    OBVIOUS
  <2>1. i \in 1..Len(v9) /\ i \in 1..((Len(v9) - 1) + 1) /\ i # (Len(v9) - 1) + 1 /\ Len(v9) - 1 \in Nat
    BY <1>2
  <2>2. i \in 1..(Len(v9) - 1) /\ i < (Len(v9) - 1) + 1
    BY <2>1, UpToOne
  <2> QED
    BY <1>2, <2>2
<1>4. DeskPart!PostsOpen' <=> DeskPart!PostsOpen
  BY <1>1, <1>2, <1>3 DEF DeskPart!PostsOpen, DeskPart!Has
<1>5. DeskPart!OpenOnce'
  <2>1. DeskPart!Over => DeskPart!Over'
    BY <1>1 DEF DeskPart!Over, DeskPart!Holds
  <2> QED
    BY <1>0, <1>2, <1>4, <2>1 DEF DeskPart!OpenOnce
<1>6. DeskPart!Under' = DeskPart!Under
  BY <1>1, <1>4 DEF DeskPart!Under
<1>7. DeskPart!Typed' /\ DeskPart!Numbered' /\ DeskPart!Placed' /\ DeskPart!HeldIsFocused'
  BY <1>1, <1>5, <1>6, FocusBack
<1>8. ASSUME "moved" \notin v16' PROVE DeskPart!OneDeletion'
  <2>1. v15 = {} /\ DeskPart!OneDeletion
    BY <1>0, <1>1, <1>8 DEF DeskPart!Note
  <2>2. CASE \E i \in DOMAIN v9' : v9'[i].kind \in {"x", "button"}
    <3>1. PICK i \in DOMAIN v9' : v9'[i].kind \in {"x", "button"}
      BY <2>2
    <3>2. /\ i \in DOMAIN v9 /\ v9[i] = v9'[i] /\ i # Len(v9)
          /\ \A j \in DOMAIN v9 : /\ v9[j].kind \in {"x", "button"} => j = i
                                  /\ v9[j].kind = "posts" => j < i
      BY <1>2, <2>1, <3>1 DEF DeskPart!OneDeletion
    <3>3. top.kind \notin {"x", "button"}
      BY <1>2, <3>2
    <3>4. v15' = {}
      BY <1>1, <2>1, <3>3
    <3>5. v9' # <<>> /\ DeskPart!Top(v9').kind # "posts"
      <4>1. i \in 1..(Len(v9) - 1)
        BY <1>2, <3>1
      <4>2. Len(v9') \in DOMAIN v9' /\ ~(Len(v9') < i)
        BY <1>2, <4>1
      <4> QED
        BY <1>2, <3>1, <3>2, <4>2 DEF DeskPart!Top
    <3>6. DeskPart!View' = "none"
      BY <3>5 DEF DeskPart!View, DeskPart!InFront
    <3>7. \A r \in DOMAIN v6 : v7[r] # "none"
      BY <1>0 DEF DeskPart!Typed
    <3>8. v3' = v3
      BY <1>1, <1>2, <3>6, <3>7 DEF DeskPart!Focus
    <3>9. DeskPart!Row' = DeskPart!Row /\ DeskPart!HasFocus' = DeskPart!HasFocus
      BY <1>1, <3>8 DEF DeskPart!Row, DeskPart!HasFocus, DeskPart!Rows
    <3> QED
      BY <1>2, <2>1, <3>4, <3>9 DEF DeskPart!OneDeletion
  <2>3. CASE (\A i \in DOMAIN v9' : v9'[i].kind \notin {"x", "button"}) /\ v15' = {}
    BY <2>3 DEF DeskPart!OneDeletion
  <2>4. CASE (\A i \in DOMAIN v9' : v9'[i].kind \notin {"x", "button"}) /\ v15' # {}
    <3>1. top.kind \in {"x", "button"} /\ v15' = {[by |-> top.kind, row |-> top.row]}
      BY <1>1, <2>1, <2>4
    <3>2. CASE top.kind = "button"
      BY <2>4, <3>1, <3>2 DEF DeskPart!OneDeletion
    <3>3. CASE top.kind = "x"
      <4>1. DeskPart!HasFocus /\ top.row = DeskPart!Row /\ top.prev \in {0, DeskPart!Row}
        BY <1>2, <2>1, <3>3 DEF DeskPart!OneDeletion
      <4>2. DeskPart!Row \in DOMAIN v6 /\ v6[DeskPart!Row] = v3
        BY <4>1, RowIsOne
      <4>3. v3' = v3
        BY <1>1, <4>1, <4>2 DEF DeskPart!Focus
      <4>4. DeskPart!Row' = DeskPart!Row /\ DeskPart!HasFocus' = DeskPart!HasFocus
        BY <1>1, <4>3 DEF DeskPart!Row, DeskPart!HasFocus, DeskPart!Rows
      <4> QED
        BY <2>4, <3>1, <4>1, <4>4 DEF DeskPart!OneDeletion
    <3> QED
      BY <3>1, <3>2, <3>3
  <2> QED
    BY <2>2, <2>3, <2>4
<1> QED
  BY <1>1, <1>5, <1>7, <1>8 DEF DeskPart!Settled

\* The close event puts back the list and the place it was opened from.
LEMMA StepOfCloseEvent ==
    ASSUME DeskPart!Settled, DeskPart!Clean', DeskPart!CloseEvent
    PROVE  DeskPart!Settled' /\ v16' = v16 \cup DeskPart!Note("moved", DeskPart!Deleting)
<1>0. /\ DeskPart!Typed /\ DeskPart!Numbered /\ DeskPart!Placed /\ DeskPart!OpenOnce /\ DeskPart!HeldIsFocused
  BY DEF DeskPart!Settled
<1>1. /\ v11 /\ ~v11' /\ UNCHANGED <<v1, v4, v5, v6, v7, v9, v10, v15>>
      /\ IF v2 = v10.list THEN DeskPart!onclose ELSE UNCHANGED <<v2, v3, v8>>
      /\ v16' = v16 \cup DeskPart!Note("moved", DeskPart!Deleting)
                    \cup DeskPart!Note("lost", /\ "nested" \notin v16
                                               /\ \/ v2' # v10.was[1]
                                                  \/ v2 = v10.list /\ v3' # v10.was[2])
  BY DEF DeskPart!CloseEvent, DeskPart!work
<1>2. ~DeskPart!PostsOpen /\ DeskPart!Over /\ DeskPart!Under = v10.prev
  BY <1>0, <1>1 DEF DeskPart!OpenOnce, DeskPart!Under
<1>3. v10.was[1] = v10.prev /\ v10.was[2] = v10.idx /\ v10.idx \in Nat
  BY <1>2 DEF DeskPart!Over
<1>4. v2' = v10.prev
  BY <1>1, <1>2 DEF DeskPart!onclose, DeskPart!Over
<1>5. ~DeskPart!PostsOpen' /\ DeskPart!Under' = DeskPart!Under /\ DeskPart!View' = DeskPart!View
  BY <1>1, <1>2, <1>4 DEF DeskPart!PostsOpen, DeskPart!Has, DeskPart!Under, DeskPart!View
<1>6. DeskPart!Numbered' /\ DeskPart!Placed'
  BY <1>0, <1>1, <1>5, PlacesStay
<1>7. DeskPart!OpenOnce'
  BY <1>0, <1>1, <1>5 DEF DeskPart!OpenOnce
<1>8. DeskPart!OneDeletion' \/ "moved" \in v16'
  BY <1>1, NothingDeleted
<1>9. v3' \in Nat => DeskPart!Typed'
  BY <1>0, <1>1, <1>2, <1>4 DEF DeskPart!Typed, DeskPart!Over
<1>10. CASE v2 = v10.list
  <2> DEFINE r == DeskPart!RowAt(v4, v10.prev, v10.idx)
  <2>1. DeskPart!Focus(r, v10.idx, v7, DeskPart!View, v8)
    BY <1>1, <1>10 DEF DeskPart!onclose
  <2>2. DeskPart!Typed'
    BY <1>0, <1>3, <1>9, <2>1, FocusIsNat
  <2>3. 0 \notin DOMAIN v6'
    BY <2>2, NoRowZero
  <2>4. r \in DOMAIN v6 \cup {0} /\ (r # 0 => v6[r] = v10.idx)
    BY <1>0, <1>2 DEF DeskPart!Numbered, DeskPart!RowAt, DeskPart!Over
  <2>5. v10.idx \in DOMAIN DeskPart!Rows' => r = DeskPart!Rows'[v10.idx] /\ r \in DeskPart!Range(v4[v10.prev])
    BY <1>1, <1>4 DEF DeskPart!RowAt, DeskPart!Rows, DeskPart!Range
  <2>6. r \in DeskPart!Range(v4[v10.prev]) /\ v8 # 0 => v7[r] = DeskPart!View
    <3> SUFFICES ASSUME r \in DeskPart!Range(v4[v10.prev]), v8 # 0 PROVE v7[r] = DeskPart!View
      OBVIOUS
    <3>1. r \in DOMAIN v6
      BY <1>0, <1>2 DEF DeskPart!Numbered, DeskPart!Range, DeskPart!Over
    <3>2. v7[r] = v1
      BY <1>0, <1>2, <3>1 DEF DeskPart!Placed, DeskPart!Holds
    <3>3. v8 \in DOMAIN v6 /\ v7[v8] = DeskPart!View
      BY <1>0 DEF DeskPart!HeldIsFocused
    <3>4. CASE v9 = <<>>
      BY <3>2, <3>4 DEF DeskPart!View, DeskPart!InFront
    <3>5. CASE v9 # <<>>
      <4>1. v9 \in Seq(DeskPart!Dialogs)
        BY <1>0 DEF DeskPart!Typed
      <4>2. Len(v9) \in DOMAIN v9
        BY <3>5, <4>1, EmptySeq, LenProperties
      <4>3. DeskPart!Top(v9).kind # "posts"
        BY <1>2, <4>2 DEF DeskPart!PostsOpen, DeskPart!Has, DeskPart!Top
      <4>4. DeskPart!View = "none"
        BY <3>5, <4>3 DEF DeskPart!View, DeskPart!InFront
      <4>5. v7[v8] \in {"a", "b", "m", "gone"}
        BY <1>0, <3>3 DEF DeskPart!Typed
      <4> QED
        BY <3>3, <4>4, <4>5
    <3> QED
      BY <3>4, <3>5
  <2> HIDE DEF r
  <2>7. r = 0 \/ v7'[r] # DeskPart!View' =>
            \/ v8 = 0
            \/ v8 \in DOMAIN v6' /\ v7'[v8] = DeskPart!View' /\ v10.idx \notin DOMAIN DeskPart!Rows'
    <3> SUFFICES ASSUME r = 0 \/ v7'[r] # DeskPart!View', v8 # 0
                 PROVE  v8 \in DOMAIN v6' /\ v7'[v8] = DeskPart!View' /\ v10.idx \notin DOMAIN DeskPart!Rows'
      OBVIOUS
    <3>1. v8 \in DOMAIN v6' /\ v7'[v8] = DeskPart!View'
      BY <1>0, <1>1, <1>5 DEF DeskPart!HeldIsFocused
    <3>2. r = 0 => v10.idx \notin DOMAIN DeskPart!Rows'
      <4> SUFFICES ASSUME v10.idx \in DOMAIN DeskPart!Rows', r = 0 PROVE FALSE
        OBVIOUS
      <4>1. 0 \in DeskPart!Range(v4[v10.prev])
        BY <2>5
      <4>2. 0 \in DOMAIN v6
        BY <1>0, <1>2, <4>1 DEF DeskPart!Numbered, DeskPart!Range, DeskPart!Over
      <4> QED
        BY <1>1, <2>3, <4>2
    <3>3. r # 0 => v10.idx \notin DOMAIN DeskPart!Rows'
      BY <1>1, <1>5, <2>5, <2>6
    <3> QED
      BY <3>1, <3>2, <3>3
  <2>8. DeskPart!Focus(r, v10.idx, v7', DeskPart!View', v8)
    BY <1>1, <1>5, <2>1 DEF DeskPart!Focus
  <2>9. DeskPart!HeldIsFocused'
    BY <1>1, <1>6, <1>7, <2>2, <2>3, <2>4, <2>7, <2>8, FocusFits
  <2>10. v3' = v10.idx
    BY <2>1, <2>4 DEF DeskPart!Focus
  <2>11. v16' = v16 \cup DeskPart!Note("moved", DeskPart!Deleting)
    BY <1>1, <1>3, <1>4, <2>10 DEF DeskPart!Note
  <2> QED
    BY <1>6, <1>7, <1>8, <2>2, <2>9, <2>11 DEF DeskPart!Settled
<1>11. CASE v2 # v10.list
  <2>1. v2' = v2 /\ v3' = v3 /\ v8' = v8
    BY <1>1, <1>11
  <2>2. DeskPart!Typed'
    BY <1>0, <1>9, <2>1 DEF DeskPart!Typed
  <2>3. DeskPart!HeldIsFocused'
    BY <1>0, <1>1, <1>5, <1>11, <2>1 DEF DeskPart!HeldIsFocused, DeskPart!HasFocus, DeskPart!Row, DeskPart!Rows
  <2>4. v16' = v16 \cup DeskPart!Note("moved", DeskPart!Deleting)
    BY <1>1, <1>3, <1>4, <1>11 DEF DeskPart!Note
  <2> QED
    BY <1>6, <1>7, <1>8, <2>2, <2>3, <2>4 DEF DeskPart!Settled
<1> QED
  BY <1>10, <1>11

\* The rows that are made are those of the new list, and of no list before.
LEMMA NewRowsAreNew ==
    ASSUME DeskPart!Typed, DeskPart!Numbered, NEW n \in Nat,
           v6' = v6 \o [i \in 1..n |-> i], v4' = Append(v4, DeskPart!NewRows(n))
    PROVE  /\ \A r \in DOMAIN v6' : /\ r > Len(v6) <=> r \notin DOMAIN v6
                                    /\ r > Len(v6) <=> r \in DeskPart!Range(v4'[Len(v4) + 1])
           /\ \A l \in DOMAIN v4 : \A r \in DeskPart!Range(v4[l]) : r \in DOMAIN v6
           /\ \A l \in DOMAIN v4 : l \in DOMAIN v4' /\ l # Len(v4) + 1
           /\ Len(v4) + 1 \in DOMAIN v4'
           /\ n > 0 => /\ DeskPart!NewRows(n)[1] = Len(v6) + 1 /\ Len(v6) + 1 \in DOMAIN v6'
                       /\ v6'[Len(v6) + 1] = 1 /\ Len(v6) + 1 \notin DOMAIN v6
           /\ n = 0 <=> v4'[Len(v4) + 1] = <<>>
<1>1. /\ Len(v6) \in Nat /\ DOMAIN v6 = 1..Len(v6) /\ DOMAIN v6' = 1..(Len(v6) + n)
      /\ Len(v4) \in Nat /\ DOMAIN v4 = 1..Len(v4) /\ DOMAIN v4' = 1..(Len(v4) + 1)
      /\ v4'[Len(v4) + 1] = [i \in 1..n |-> Len(v6) + i] /\ DeskPart!Numbered'
  BY RowsMade
<1> DEFINE R == [i \in 1..n |-> Len(v6) + i]
<1>2. ASSUME NEW r \in DOMAIN v6'
      PROVE  /\ r > Len(v6) <=> r \notin DOMAIN v6
             /\ r > Len(v6) <=> r \in DeskPart!Range(R)
  <2>1. r > Len(v6) <=> r \notin DOMAIN v6
    BY <1>1
  <2>2. ASSUME r > Len(v6) PROVE r \in DeskPart!Range(R)
    <3>1. r - Len(v6) \in 1..n /\ Len(v6) + (r - Len(v6)) = r
      BY <1>1, <2>2
    <3>2. R[r - Len(v6)] = r /\ r - Len(v6) \in DOMAIN R
      BY <3>1
    <3> QED
      BY <3>2 DEF DeskPart!Range
  <2>3. ASSUME r \in DeskPart!Range(R) PROVE r > Len(v6)
    <3>1. PICK i \in 1..n : r = Len(v6) + i
      BY <2>3 DEF DeskPart!Range
    <3> QED
      BY <1>1, <3>1
  <2> QED
    BY <2>1, <2>2, <2>3
<1>3. \A l \in DOMAIN v4 : \A r \in DeskPart!Range(v4[l]) : r \in DOMAIN v6
  BY DEF DeskPart!Numbered, DeskPart!Range
<1>4. \A l \in DOMAIN v4 : l \in DOMAIN v4' /\ l # Len(v4) + 1
  BY <1>1
<1>5. Len(v4) + 1 \in DOMAIN v4'
  BY <1>1
<1>6. ASSUME n > 0
      PROVE  /\ DeskPart!NewRows(n)[1] = Len(v6) + 1 /\ Len(v6) + 1 \in DOMAIN v6'
             /\ v6'[Len(v6) + 1] = 1 /\ Len(v6) + 1 \notin DOMAIN v6
  <2>1. 1 \in 1..n /\ DeskPart!NewRows(n)[1] = Len(v6) + 1
    BY <1>6 DEF DeskPart!NewRows
  <2>2. Len(v6) + 1 \in DOMAIN v6' /\ Len(v6) + 1 \notin DOMAIN v6
    BY <1>1, <1>6
  <2>3. v4'[Len(v4) + 1][1] = Len(v6) + 1 /\ 1 \in DOMAIN (v4'[Len(v4) + 1])
    BY <1>1, <2>1
  <2>4. v6'[Len(v6) + 1] = 1
    BY <1>1, <1>5, <2>3 DEF DeskPart!Numbered
  <2> QED
    BY <2>1, <2>2, <2>4
<1>7. n = 0 <=> R = <<>>
  <2>1. R \in Seq(Nat) /\ Len(R) = n
    BY <1>1
  <2> HIDE DEF R
  <2> QED
    BY <2>1, EmptySeq
<1> HIDE DEF R
<1>8. v4'[Len(v4) + 1] = R
  BY <1>1 DEF R
<1> QED
  BY <1>2, <1>3, <1>4, <1>5, <1>6, <1>7, <1>8

LEMMA StepOfReload ==
    ASSUME DeskPart!Settled, ~v11, DeskPart!Clean', DeskPart!Reload
    PROVE  DeskPart!Settled' /\ ("wrong" \in v16' => "wrong" \in v16)
<1>0. /\ DeskPart!Typed /\ DeskPart!Numbered /\ DeskPart!Placed /\ DeskPart!OpenOnce /\ DeskPart!HeldIsFocused
  BY DEF DeskPart!Settled
<1> DEFINE old == IF v8 # 0 /\ v7[v8] = v1 THEN 0 ELSE v8
<1>1. /\ UNCHANGED <<v1, v5, v9, v10, v11, v15>>
      /\ v6' = v6 \o [i \in 1..DeskSize |-> i] /\ v4' = Append(v4, DeskPart!NewRows(DeskSize))
      /\ v2' = Len(v4')
      /\ v7' = [i \in DOMAIN v6' |-> IF i > Len(v6) THEN v1 ELSE IF v7[i] = v1 THEN "gone" ELSE v7[i]]
      /\ \/ DeskPart!Focus(DeskPart!NewRows(DeskSize)[1], 1, v7', DeskPart!View, old)
         \/ v8' = old /\ v3' = v3
      /\ v16' = v16 \cup DeskPart!Note("moved", DeskPart!Deleting)
                    \cup DeskPart!Note("nested", DeskPart!PostsOpen \/ v11)
  BY DEF DeskPart!Reload, DeskPart!MakeRows, DeskPart!over, DeskPart!work
<1>2. DeskSize \in Nat /\ DeskSize > 0
  BY SizeIsOne
<1>3. /\ v6' \in Seq(Nat) /\ Len(v6) \in Nat /\ DOMAIN v6 = 1..Len(v6)
      /\ \A r \in DOMAIN v6 : r \in DOMAIN v6' /\ v6'[r] = v6[r]
      /\ v4' \in Seq(Seq(Nat)) /\ Len(v4') = Len(v4) + 1
      /\ \A l \in DOMAIN v4 : v4'[l] = v4[l]
      /\ DeskPart!Numbered'
  BY <1>0, <1>1, <1>2, RowsMade
<1>4. /\ \A r \in DOMAIN v6' : /\ r > Len(v6) <=> r \notin DOMAIN v6
                               /\ r > Len(v6) <=> r \in DeskPart!Range(v4'[Len(v4) + 1])
      /\ \A l \in DOMAIN v4 : \A r \in DeskPart!Range(v4[l]) : r \in DOMAIN v6
      /\ \A l \in DOMAIN v4 : l \in DOMAIN v4'
      /\ Len(v4) + 1 \in DOMAIN v4'
      /\ DeskPart!NewRows(DeskSize)[1] = Len(v6) + 1 /\ Len(v6) + 1 \in DOMAIN v6'
      /\ v6'[Len(v6) + 1] = 1 /\ Len(v6) + 1 \notin DOMAIN v6
  BY <1>0, <1>1, <1>2, NewRowsAreNew
<1>5. ~DeskPart!PostsOpen
  BY <1>1 DEF DeskPart!Clean, DeskPart!Note
<1>6. old = 0
  <2> SUFFICES ASSUME v8 # 0 PROVE v7[v8] = v1
    OBVIOUS
  <2>1. v8 \in DOMAIN v6 /\ v7[v8] = DeskPart!View
    BY <1>0 DEF DeskPart!HeldIsFocused
  <2>2. CASE v9 = <<>>
    BY <2>1, <2>2 DEF DeskPart!View, DeskPart!InFront
  <2>3. CASE v9 # <<>>
    <3>1. v9 \in Seq(DeskPart!Dialogs)
      BY <1>0 DEF DeskPart!Typed
    <3>2. Len(v9) \in DOMAIN v9
      BY <2>3, <3>1, EmptySeq, LenProperties
    <3>3. DeskPart!Top(v9).kind # "posts"
      BY <1>5, <3>2 DEF DeskPart!PostsOpen, DeskPart!Has, DeskPart!Top
    <3>4. DeskPart!View = "none"
      BY <2>3, <3>3 DEF DeskPart!View, DeskPart!InFront
    <3>5. v7[v8] \in {"a", "b", "m", "gone"}
      BY <1>0, <2>1 DEF DeskPart!Typed
    <3> QED
      BY <2>1, <3>4, <3>5
  <2> QED
    BY <2>2, <2>3
<1> HIDE DEF old
<1>7. /\ v1 \in {"a", "b"} /\ v7 \in [DOMAIN v6 -> {"a", "b", "m", "gone"}]
      /\ v5 \in [DeskPart!Tabs -> (DOMAIN v4) \X Nat]
      /\ v9 \in Seq(DeskPart!Dialogs) /\ \A i \in DOMAIN v9 : v9[i].prev \in DOMAIN v6 \cup {0}
      /\ v3 \in Nat
  BY <1>0 DEF DeskPart!Typed, DeskPart!Tabs
<1>8. \A r \in DOMAIN v6' : v7'[r] = IF r \notin DOMAIN v6 THEN v1 ELSE IF v7[r] = v1 THEN "gone" ELSE v7[r]
  BY <1>1, <1>4
<1>9. v7' \in [DOMAIN v6' -> {"a", "b", "m", "gone"}]
  <2>1. \A r \in DOMAIN v6' : v7'[r] \in {"a", "b", "m", "gone"}
    BY <1>7, <1>8
  <2> QED
    BY <1>1, <2>1
<1>10. v3' \in Nat
  <2>1. 1 \in Nat
    OBVIOUS
  <2> QED
    BY <1>0, <1>1, <1>7, <2>1, FocusIsNat
<1>11. v5' \in [DeskPart!Tabs -> (DOMAIN v4') \X Nat]
  BY <1>1, <1>4, <1>7
<1>12. DeskPart!Typed'
  <2>1. \A i \in DOMAIN v9' : v9'[i].prev \in DOMAIN v6' \cup {0}
    BY <1>1, <1>3, <1>7
  <2> QED
    BY <1>1, <1>3, <1>4, <1>7, <1>9, <1>10, <1>11, <2>1 DEF DeskPart!Typed, DeskPart!Tabs, DeskPart!Dialogs
<1>13. ~DeskPart!PostsOpen' /\ DeskPart!Under' = v2' /\ DeskPart!View' = DeskPart!View
  BY <1>1, <1>5 DEF DeskPart!PostsOpen, DeskPart!Has, DeskPart!Under, DeskPart!View
<1>14. DeskPart!OpenOnce'
  BY <1>0, <1>1, <1>13 DEF DeskPart!OpenOnce
<1>15. DeskPart!Placed'
  <2>1. ASSUME NEW r \in DOMAIN v6' PROVE v7'[r] = v1' <=> r \in DeskPart!Range(v4'[v2'])
    BY <1>1, <1>3, <1>4, <1>7, <1>8
  <2>2. ASSUME NEW t \in {"a", "b"} \ {v1}, NEW r \in DOMAIN v6'
        PROVE  v7'[r] = t <=> r \in DeskPart!Range(v4'[v5[t][1]])
    <3>1. v5[t][1] \in DOMAIN v4
      BY <1>7 DEF DeskPart!Tabs
    <3>2. CASE r \in DOMAIN v6
      <4>1. v7[r] = t <=> r \in DeskPart!Range(v4[v5[t][1]])
        BY <1>0, <3>2 DEF DeskPart!Placed, DeskPart!Holds, DeskPart!Tabs
      <4>2. v7'[r] = t <=> v7[r] = t
        BY <1>8, <3>2
      <4> QED
        BY <1>3, <3>1, <4>1, <4>2
    <3>3. CASE r \notin DOMAIN v6
      BY <1>3, <1>4, <1>8, <3>1, <3>3
    <3> QED
      BY <3>2, <3>3
  <2> QED
    BY <1>1, <1>13, <2>1, <2>2 DEF DeskPart!Placed, DeskPart!Holds, DeskPart!Tabs
<1>16. DeskPart!HeldIsFocused'
  <2>1. CASE v8' = 0
    BY <2>1 DEF DeskPart!HeldIsFocused
  <2>2. CASE DeskPart!Focus(DeskPart!NewRows(DeskSize)[1], 1, v7', DeskPart!View, old)
    <3> DEFINE r == DeskPart!NewRows(DeskSize)[1]
    <3> HIDE DEF r
    <3>1. DeskPart!Focus(r, 1, v7', DeskPart!View', old)
      BY <1>13, <2>2 DEF DeskPart!Focus, r
    <3>2. r \in DOMAIN v6' /\ r \notin DOMAIN v6 /\ v6'[r] = 1
      BY <1>4 DEF r
    <3>3. 0 \notin DOMAIN v6'
      BY <1>12, NoRowZero
    <3> QED
      BY <1>3, <1>6, <1>12, <1>14, <1>15, <3>1, <3>2, <3>3, FocusFits
  <2> QED
    BY <1>1, <1>6, <2>1, <2>2
<1>17. DeskPart!OneDeletion' \/ "moved" \in v16'
  <2>1. DeskPart!Note("moved", DeskPart!Deleting) \subseteq v16'
    BY <1>1
  <2> QED
    BY <1>1, <2>1, NothingDeleted
<1>18. "wrong" \in v16' => "wrong" \in v16
  BY <1>1 DEF DeskPart!Note
<1> QED
  BY <1>3, <1>12, <1>14, <1>15, <1>16, <1>17, <1>18 DEF DeskPart!Settled

\* A list of posts is opened over the page, which keeps its place.
LEMMA StepOfPosts ==
    ASSUME DeskPart!Settled, DeskPart!Clean', NEW n \in Nat, DeskPart!showPostsModal(n)
    PROVE  DeskPart!Settled' /\ ("wrong" \in v16' => "wrong" \in v16)
<1>0. /\ DeskPart!Typed /\ DeskPart!Numbered /\ DeskPart!Placed /\ DeskPart!OpenOnce /\ DeskPart!HeldIsFocused
  BY DEF DeskPart!Settled
<1> DEFINE d == [kind |-> "posts", row |-> 0, prev |-> v8]
<1>1. /\ UNCHANGED <<v1, v5, v11, v15>>
      /\ v6' = v6 \o [i \in 1..n |-> i] /\ v4' = Append(v4, DeskPart!NewRows(n))
      /\ v10' = DeskPart!Captured
      /\ v9' = IF DeskPart!PostsOpen THEN v9 ELSE Append(v9, d)
      /\ v7' = [i \in DOMAIN v6' |-> IF i > Len(v6) THEN "m" ELSE IF v7[i] = "m" THEN "gone" ELSE v7[i]]
      /\ IF n > 0 THEN v2' = Len(v4') /\ DeskPart!Focus(DeskPart!NewRows(n)[1], 1, v7', DeskPart!View', 0)
                  ELSE v8' = 0 /\ UNCHANGED <<v2, v3>>
      /\ v16' = v16 \cup DeskPart!Note("moved", DeskPart!Deleting)
                    \cup DeskPart!Note("nested", DeskPart!PostsOpen \/ v11)
  BY DEF DeskPart!showPostsModal, DeskPart!MakeRows, DeskPart!work, DeskPart!View
<1>2. ~DeskPart!PostsOpen /\ ~v11 /\ v9' = Append(v9, d)
  BY <1>1 DEF DeskPart!Clean, DeskPart!Note
<1>3. /\ v6' \in Seq(Nat) /\ Len(v6) \in Nat /\ DOMAIN v6 = 1..Len(v6)
      /\ \A r \in DOMAIN v6 : r \in DOMAIN v6' /\ v6'[r] = v6[r]
      /\ v4' \in Seq(Seq(Nat)) /\ Len(v4') = Len(v4) + 1
      /\ \A l \in DOMAIN v4 : v4'[l] = v4[l]
      /\ DeskPart!Numbered'
  BY <1>0, <1>1, RowsMade
<1>4. /\ \A r \in DOMAIN v6' : /\ r > Len(v6) <=> r \notin DOMAIN v6
                               /\ r > Len(v6) <=> r \in DeskPart!Range(v4'[Len(v4) + 1])
      /\ \A l \in DOMAIN v4 : \A r \in DeskPart!Range(v4[l]) : r \in DOMAIN v6
      /\ \A l \in DOMAIN v4 : l \in DOMAIN v4' /\ l # Len(v4) + 1
      /\ Len(v4) + 1 \in DOMAIN v4'
      /\ n > 0 => /\ DeskPart!NewRows(n)[1] = Len(v6) + 1 /\ Len(v6) + 1 \in DOMAIN v6'
                  /\ v6'[Len(v6) + 1] = 1 /\ Len(v6) + 1 \notin DOMAIN v6
      /\ n = 0 <=> v4'[Len(v4) + 1] = <<>>
  BY <1>0, <1>1, NewRowsAreNew
<1>5. d \in DeskPart!Dialogs /\ d.kind = "posts" /\ d.prev \in DOMAIN v6 \cup {0}
  <2>1. v8 \in DOMAIN v6 \cup {0}
    BY <1>0 DEF DeskPart!HeldIsFocused
  <2>2. v8 \in Nat
    BY <1>3, <2>1
  <2> QED
    BY <2>1, <2>2 DEF DeskPart!Dialogs
<1> HIDE DEF d
<1>6. /\ v9' \in Seq(DeskPart!Dialogs) /\ Len(v9) \in Nat
      /\ DOMAIN v9 = 1..Len(v9) /\ DOMAIN v9' = 1..(Len(v9) + 1)
      /\ \A i \in DOMAIN v9 : i \in DOMAIN v9' /\ v9'[i] = v9[i]
      /\ Len(v9) + 1 \in DOMAIN v9' /\ v9'[Len(v9) + 1] = d
      /\ \A i \in DOMAIN v9' : v9'[i].prev \in DOMAIN v6 \cup {0}
      /\ DeskPart!PostsOpen'
  BY <1>0, <1>2, <1>5, DialogOnTop
<1>7. \A i \in DOMAIN v9' : i = Len(v9) + 1 \/ i \in DOMAIN v9
  BY <1>6
<1>8. \A i \in DOMAIN v9 : v9[i].kind # "posts"
  BY <1>2 DEF DeskPart!PostsOpen, DeskPart!Has
<1>9. /\ v1 \in {"a", "b"} /\ v7 \in [DOMAIN v6 -> {"a", "b", "m", "gone"}]
      /\ v5 \in [DeskPart!Tabs -> (DOMAIN v4) \X Nat]
      /\ v3 \in Nat /\ v2 \in DOMAIN v4
  BY <1>0 DEF DeskPart!Typed, DeskPart!Tabs
<1>10. \A r \in DOMAIN v6' : v7'[r] = IF r \notin DOMAIN v6 THEN "m" ELSE IF v7[r] = "m" THEN "gone" ELSE v7[r]
  BY <1>1, <1>4
<1>11. v7' \in [DOMAIN v6' -> {"a", "b", "m", "gone"}]
  <2>1. \A r \in DOMAIN v6' : v7'[r] \in {"a", "b", "m", "gone"}
    BY <1>9, <1>10
  <2> QED
    BY <1>1, <2>1
<1>12. v3' \in Nat
  <2>1. 1 \in Nat
    OBVIOUS
  <2> QED
    BY <1>0, <1>1, <1>9, <2>1, FocusIsNat
<1>13. v5' \in [DeskPart!Tabs -> (DOMAIN v4') \X Nat]
  BY <1>1, <1>4, <1>9
<1>14. v2' \in DOMAIN v4' /\ v2' = IF n > 0 THEN Len(v4) + 1 ELSE v2
  BY <1>1, <1>3, <1>4, <1>9
<1>15. DeskPart!Typed'
  <2>1. \A i \in DOMAIN v9' : v9'[i].prev \in DOMAIN v6' \cup {0}
    BY <1>3, <1>6
  <2> QED
    BY <1>1, <1>3, <1>6, <1>9, <1>11, <1>12, <1>13, <1>14, <2>1 DEF DeskPart!Typed, DeskPart!Tabs, DeskPart!Dialogs
<1>16. /\ v10'.list = Len(v4) + 1 /\ v10'.prev = v2 /\ v10'.idx = v3 /\ v10'.was = <<v2, v3>>
  BY <1>1 DEF DeskPart!Captured
<1>17. DeskPart!OpenOnce'
  <2>1. \A r \in DOMAIN v6' : v7'[r] = "m" <=> r \in DeskPart!Range(v4'[Len(v4) + 1])
    BY <1>4, <1>10
  <2>2. DeskPart!Over'
    BY <1>4, <1>9, <1>14, <1>16, <2>1 DEF DeskPart!Over, DeskPart!Holds
  <2>3. \A i, j \in DOMAIN v9' : v9'[i].kind = "posts" /\ v9'[j].kind = "posts" => i = j
    BY <1>6, <1>7, <1>8
  <2> QED
    BY <1>1, <1>2, <2>2, <2>3 DEF DeskPart!OpenOnce
<1>18. DeskPart!Under' = DeskPart!Under /\ DeskPart!Under = v2
  BY <1>2, <1>6, <1>16 DEF DeskPart!Under
<1>19. ASSUME NEW l \in DOMAIN v4, NEW t \in {"a", "b"}, DeskPart!Holds(l, t), NEW r \in DOMAIN v6'
       PROVE  v7'[r] = t <=> r \in DeskPart!Range(v4'[l])
  <2>1. CASE r \in DOMAIN v6
    <3>1. v7[r] = t <=> r \in DeskPart!Range(v4[l])
      BY <1>19, <2>1 DEF DeskPart!Holds
    <3>2. v7'[r] = t <=> v7[r] = t
      BY <1>10, <2>1
    <3> QED
      BY <1>3, <3>1, <3>2
  <2>2. CASE r \notin DOMAIN v6
    BY <1>3, <1>4, <1>10, <2>2
  <2> QED
    BY <2>1, <2>2
<1>20. DeskPart!Placed'
  <2>1. DeskPart!Holds(v2, v1) /\ \A t \in {"a", "b"} \ {v1} : v5[t][1] \in DOMAIN v4 /\ DeskPart!Holds(v5[t][1], t)
    BY <1>0, <1>9, <1>18 DEF DeskPart!Placed, DeskPart!Tabs
  <2>2. \A r \in DOMAIN v6' : v7'[r] = v1 <=> r \in DeskPart!Range(v4'[v2])
    BY <1>9, <1>19, <2>1
  <2>3. \A t \in {"a", "b"} \ {v1} : \A r \in DOMAIN v6' : v7'[r] = t <=> r \in DeskPart!Range(v4'[v5[t][1]])
    BY <1>19, <2>1
  <2>4. v1' = v1 /\ v5' = v5 /\ DeskPart!Under' = v2
    BY <1>1, <1>18
  <2> QED
    BY <2>2, <2>3, <2>4 DEF DeskPart!Placed, DeskPart!Holds, DeskPart!Tabs
<1>21. DeskPart!HeldIsFocused'
  <2>1. CASE n = 0
    BY <1>1, <2>1 DEF DeskPart!HeldIsFocused
  <2>2. CASE n > 0
    <3> DEFINE r == DeskPart!NewRows(n)[1]
    <3> HIDE DEF r
    <3>1. DeskPart!Focus(r, 1, v7', DeskPart!View', 0)
      BY <1>1, <2>2 DEF r
    <3>2. r \in DOMAIN v6' /\ r \notin DOMAIN v6 /\ v6'[r] = 1
      BY <1>4, <2>2 DEF r
    <3>3. 0 \notin DOMAIN v6'
      BY <1>15, NoRowZero
    <3> QED
      BY <1>3, <1>15, <1>17, <1>20, <3>1, <3>2, <3>3, FocusFits
  <2> QED
    BY <2>1, <2>2
<1>22. DeskPart!OneDeletion' \/ "moved" \in v16'
  <2>1. DeskPart!Note("moved", DeskPart!Deleting) \subseteq v16'
    BY <1>1
  <2>2. \A i \in DOMAIN v9' : v9'[i].kind \in {"x", "button"} => \E j \in DOMAIN v9 : v9[j] = v9'[i]
    BY <1>5, <1>6, <1>7
  <2> QED
    BY <1>1, <2>1, <2>2, NothingDeleted
<1>23. "wrong" \in v16' => "wrong" \in v16
  BY <1>1 DEF DeskPart!Note
<1> QED
  BY <1>3, <1>15, <1>17, <1>20, <1>21, <1>22, <1>23 DEF DeskPart!Settled

\* The dialogs that are left when one of them is closed.
LEMMA WithoutOne ==
    ASSUME NEW s \in Seq(DeskPart!Dialogs), NEW kind
    PROVE  /\ DeskPart!Without(s, kind) \in Seq(DeskPart!Dialogs)
           /\ \A i \in DOMAIN DeskPart!Without(s, kind) : \E j \in DOMAIN s : DeskPart!Without(s, kind)[i] = s[j]
           /\ ~DeskPart!Has(s, kind) => DeskPart!Without(s, kind) = s
<1>1. CASE DeskPart!Has(s, kind)
  <2> DEFINE i == DeskPart!At(s, kind)
  <2> HIDE DEF i
  <2>1. DeskPart!Without(s, kind) = DeskPart!Spliced(s, i)
    BY <1>1 DEF DeskPart!Without, i
  <2>2. /\ DeskPart!Spliced(s, i) \in Seq(DeskPart!Dialogs)
        /\ \A k \in DOMAIN DeskPart!Spliced(s, i) :
              \E j \in DOMAIN s : j # i /\ DeskPart!Spliced(s, i)[k] = s[j]
    BY SplicedAway
  <2> QED
    BY <1>1, <2>1, <2>2
<1>2. CASE ~DeskPart!Has(s, kind)
  BY <1>2 DEF DeskPart!Without
<1> QED
  BY <1>1, <1>2

\* To the other tab, whose place is its own list again.
LEMMA StepOfSwitchTab ==
    ASSUME DeskPart!Settled, ~v11, DeskPart!Clean', NEW t \in DeskPart!Tabs, DeskPart!switchTab(t)
    PROVE  DeskPart!Settled' /\ ("wrong" \in v16' => "wrong" \in v16)
<1>0. /\ DeskPart!Typed /\ DeskPart!Numbered /\ DeskPart!Placed /\ DeskPart!OpenOnce
  BY DEF DeskPart!Settled
<1> DEFINE rest == DeskPart!Without(DeskPart!Without(v9, "posts"), "menu")
           at   == DeskPart!Back(DeskPart!Without(v9, "posts"), "menu", DeskPart!Back(v9, "posts", v3))
           r    == IF t = "a" THEN DeskPart!RowAt(v4, v2', v5[t][2]) ELSE 0
<1>1. /\ UNCHANGED <<v4, v6, v7, v10, v15>>
      /\ t # v1 /\ v1' = t /\ v9' = rest /\ v11' = (v11 \/ DeskPart!PostsOpen)
      /\ v5' = [v5 EXCEPT ![v1] = <<v2, at>>]
      /\ v2' = v5[t][1]
      /\ DeskPart!Focus(r, v5[t][2], v7, DeskPart!InFront(rest, t), 0)
      /\ v16' = v16 \cup DeskPart!Note("moved", DeskPart!Deleting)
                    \cup DeskPart!Note("nested", DeskPart!PostsOpen \/ v11)
  BY DEF DeskPart!switchTab, DeskPart!work
<1>2. ~DeskPart!PostsOpen /\ ~DeskPart!Has(v9, "posts")
  BY <1>1 DEF DeskPart!Clean, DeskPart!Note, DeskPart!PostsOpen
<1>3. /\ v1 \in {"a", "b"} /\ v2 \in DOMAIN v4 /\ v3 \in Nat
      /\ v7 \in [DOMAIN v6 -> {"a", "b", "m", "gone"}]
      /\ v5 \in [DeskPart!Tabs -> (DOMAIN v4) \X Nat] /\ v6 \in Seq(Nat)
      /\ v9 \in Seq(DeskPart!Dialogs) /\ \A i \in DOMAIN v9 : v9[i].prev \in DOMAIN v6 \cup {0}
  BY <1>0 DEF DeskPart!Typed, DeskPart!Tabs
<1>4. rest = DeskPart!Without(v9, "menu") /\ at = DeskPart!Back(v9, "menu", v3)
  <2>1. DeskPart!Without(v9, "posts") = v9
    BY <1>2, <1>3, WithoutOne
  <2>2. DeskPart!Back(v9, "posts", v3) = v3
    BY <1>2 DEF DeskPart!Back
  <2> QED
    BY <2>1, <2>2
<1>5. rest \in Seq(DeskPart!Dialogs) /\ \A i \in DOMAIN rest : \E j \in DOMAIN v9 : rest[i] = v9[j]
  BY <1>3, <1>4, WithoutOne
<1>6. at \in Nat
  <2> DEFINE prev == v9[DeskPart!At(v9, "menu")].prev
  <2>1. at = v3 \/ (DeskPart!Has(v9, "menu") /\ prev # 0 /\ at = v6[prev])
    BY <1>4 DEF DeskPart!Back
  <2>2. ASSUME DeskPart!Has(v9, "menu"), prev # 0 PROVE v6[prev] \in Nat
    <3>1. DeskPart!At(v9, "menu") \in DOMAIN v9
      BY <2>2 DEF DeskPart!Has, DeskPart!At
    <3>2. prev \in DOMAIN v6
      BY <1>3, <2>2, <3>1
    <3>3. \A k \in DOMAIN v6 : v6[k] \in Nat
      BY <1>3, LenProperties
    <3> QED
      BY <3>2, <3>3
  <2> QED
    BY <1>3, <2>1, <2>2
<1> HIDE DEF rest, at
<1>7. v5[t] \in (DOMAIN v4) \X Nat
  BY <1>3
<1>8. r \in DOMAIN v6 \cup {0} /\ (r # 0 => v6[r] = v5[t][2])
  BY <1>0, <1>1, <1>7 DEF DeskPart!RowAt, DeskPart!Numbered
<1> HIDE DEF r
<1>9. v3' \in Nat
  <2>1. v5[t][2] \in Nat
    BY <1>7
  <2> QED
    BY <1>0, <1>1, <2>1, FocusIsNat
<1>10. v5' \in [DeskPart!Tabs -> (DOMAIN v4) \X Nat]
  BY <1>1, <1>3, <1>6
<1>11. DeskPart!Typed'
  <2>1. \A i \in DOMAIN v9' : v9'[i].prev \in DOMAIN v6' \cup {0}
    BY <1>1, <1>3, <1>5
  <2>2. t \in {"a", "b"}
    BY DEF DeskPart!Tabs
  <2>3. v9' \in Seq(DeskPart!Dialogs)
    BY <1>1, <1>5
  <2>4. v2' \in DOMAIN v4'
    BY <1>1, <1>7
  <2>5. v4' \in Seq(Seq(Nat))
    BY <1>0, <1>1 DEF DeskPart!Typed
  <2> QED
    BY <1>1, <1>3, <1>9, <1>10, <2>1, <2>2, <2>3, <2>4, <2>5 DEF DeskPart!Typed, DeskPart!Tabs, DeskPart!Dialogs
<1>12. ~DeskPart!PostsOpen' /\ ~v11' /\ DeskPart!Under' = v2' /\ DeskPart!View' = DeskPart!InFront(rest, t)
  <2>1. ~DeskPart!PostsOpen'
    BY <1>1, <1>2, <1>5 DEF DeskPart!PostsOpen, DeskPart!Has
  <2> QED
    BY <1>1, <1>2, <2>1 DEF DeskPart!Under, DeskPart!View
<1>13. DeskPart!OpenOnce'
  BY <1>12 DEF DeskPart!OpenOnce, DeskPart!PostsOpen, DeskPart!Has
<1>14. DeskPart!Numbered'
  BY <1>0, <1>1 DEF DeskPart!Numbered
<1>15. DeskPart!Placed'
  <2>1. DeskPart!Under = v2
    BY <1>2 DEF DeskPart!Under
  <2>2. DeskPart!Holds(v2, v1) /\ DeskPart!Holds(v5[t][1], t)
    BY <1>0, <1>1, <2>1 DEF DeskPart!Placed
  <2>3. \A u \in DeskPart!Tabs \ {t} : u = v1 /\ v5'[u] = <<v2, at>>
    BY <1>1, <1>3 DEF DeskPart!Tabs
  <2>4. \A r1 \in DOMAIN v6' : v7'[r1] = v1' <=> r1 \in DeskPart!Range(v4'[v2'])
    BY <1>1, <2>2 DEF DeskPart!Holds
  <2>5. \A u \in DeskPart!Tabs \ {t} : \A r1 \in DOMAIN v6' : v7'[r1] = u <=> r1 \in DeskPart!Range(v4'[v5'[u][1]])
    BY <1>1, <2>2, <2>3 DEF DeskPart!Holds
  <2>6. v1' = t /\ DeskPart!Under' = v2'
    BY <1>1, <1>12
  <2> QED
    BY <2>4, <2>5, <2>6 DEF DeskPart!Placed, DeskPart!Holds, DeskPart!Tabs
<1>16. DeskPart!HeldIsFocused'
  <2>1. DeskPart!Focus(r, v5[t][2], v7', DeskPart!View', 0)
    BY <1>1, <1>12 DEF DeskPart!Focus
  <2>2. 0 \notin DOMAIN v6'
    BY <1>11, NoRowZero
  <2>3. r \in DOMAIN v6' \cup {0} /\ (r \in DOMAIN v6 => v6'[r] = v6[r])
    BY <1>1, <1>8
  <2>4. r # 0 /\ (0 = r \/ r \notin DOMAIN v6) => v5[t][2] = v6'[r]
    BY <1>8
  <2> QED
    BY <1>11, <1>13, <1>14, <1>15, <2>1, <2>2, <2>3, <2>4, FocusFits
<1>17. DeskPart!OneDeletion' \/ "moved" \in v16'
  <2>1. DeskPart!Note("moved", DeskPart!Deleting) \subseteq v16'
    BY <1>1
  <2>2. \A i \in DOMAIN v9' : v9'[i].kind \in {"x", "button"} => \E j \in DOMAIN v9 : v9[j] = v9'[i]
    BY <1>1, <1>5
  <2> QED
    BY <1>1, <2>1, <2>2, NothingDeleted
<1>18. "wrong" \in v16' => "wrong" \in v16
  BY <1>1 DEF DeskPart!Note
<1> QED
  BY <1>11, <1>13, <1>14, <1>15, <1>16, <1>17, <1>18 DEF DeskPart!Settled

\* What leaves the list is the row that was at that position, and no other.
LEMMA OnlyThatLeaves ==
    ASSUME NEW S, NEW L \in Seq(S), NEW i \in DOMAIN L, \A j, k \in DOMAIN L : L[j] = L[k] => j = k
    PROVE  DeskPart!Range(L) \ DeskPart!Range(DeskPart!Spliced(L, i)) = {L[i]}
<1> DEFINE C == DeskPart!Spliced(L, i)
<1>1. C = DeskPart!Spliced(L, i)
  OBVIOUS
<1> HIDE DEF C
<1>2. /\ \A k \in DOMAIN C : \E j \in DOMAIN L : j # i /\ C[k] = L[j]
      /\ \A j \in DOMAIN L : j # i => L[j] \in DeskPart!Range(C)
  BY <1>1, SplicedAway
<1>3. DeskPart!Range(L) \ DeskPart!Range(C) = {L[i]}
  BY <1>2 DEF DeskPart!Range
<1> QED
  BY <1>1, <1>3

LEMMA OneRowLeaves ==
    ASSUME DeskPart!Typed, DeskPart!Numbered, NEW i \in DOMAIN DeskPart!Rows
    PROVE  DeskPart!Range(DeskPart!Rows) \ DeskPart!Range(DeskPart!Spliced(DeskPart!Rows, i)) = {DeskPart!Rows[i]}
<1>1. DeskPart!Rows \in Seq(Nat)
  <2>1. v4 \in Seq(Seq(Nat)) /\ v2 \in DOMAIN v4
    BY DEF DeskPart!Typed
  <2> QED
    BY <2>1, ElementOfSeq, LenProperties DEF DeskPart!Rows
<1>2. \A j \in DOMAIN DeskPart!Rows : v6[DeskPart!Rows[j]] = j
  BY DEF DeskPart!Rows, DeskPart!Typed, DeskPart!Numbered
<1>3. \A j, k \in DOMAIN DeskPart!Rows : DeskPart!Rows[j] = DeskPart!Rows[k] => j = k
  BY <1>2
<1> QED
  BY <1>1, <1>3, OnlyThatLeaves

LEMMA StepOfDeleted ==
    ASSUME DeskPart!DeskInv, NEW c \in v15, DeskPart!Deleted(c)
    PROVE  DeskPart!DeskInv'
<1>1. \/ /\ c.by = "x"
         /\ DeskPart!Leaves(c, IF v3 = 0 THEN Len(DeskPart!Rows) ELSE v3)
      \/ /\ c.row \in DeskPart!Range(DeskPart!Rows)
         /\ DeskPart!Leaves(c, CHOOSE i \in DOMAIN DeskPart!Rows : DeskPart!Rows[i] = c.row)
      \/ v16' = v16 \cup {"deleted"}
  BY DEF DeskPart!Deleted
<1>2. "deleted" \in v16' /\ v16 \subseteq v16'
  BY <1>1 DEF DeskPart!Leaves
<1>3. ASSUME "moved" \notin v16', "nested" \notin v16', "strayed" \in v16' PROVE FALSE
  <2>1. "moved" \notin v16 /\ "nested" \notin v16 /\ "strayed" \notin v16
    BY <1>2, <1>3 DEF DeskPart!DeskInv, DeskPart!OnlyDeletedLeave
  <2>2. PICK i : DeskPart!Leaves(c, i) /\ \/ c.by = "x" /\ i = IF v3 = 0 THEN Len(DeskPart!Rows) ELSE v3
                                          \/ /\ c.row \in DeskPart!Range(DeskPart!Rows)
                                             /\ i = CHOOSE j \in DOMAIN DeskPart!Rows : DeskPart!Rows[j] = c.row
    BY <1>1, <1>3, <2>1
  <2>3. /\ "deleted" \notin v16
        /\ DeskPart!Range(DeskPart!Rows) \ DeskPart!Range(DeskPart!Spliced(DeskPart!Rows, i)) # {c.row}
    BY <1>3, <2>1, <2>2 DEF DeskPart!Leaves, DeskPart!Note
  <2>4. DeskPart!Typed /\ DeskPart!Numbered /\ DeskPart!OneDeletion
    BY <2>1, <2>3 DEF DeskPart!DeskInv, DeskPart!Clean, DeskPart!Settled
  <2>5. i \in DOMAIN DeskPart!Rows /\ DeskPart!Rows[i] = c.row
    <3>1. CASE c.by = "x" /\ i = IF v3 = 0 THEN Len(DeskPart!Rows) ELSE v3
      <4>1. v3 \in DOMAIN DeskPart!Rows /\ c.row = DeskPart!Rows[v3]
        BY <2>4, <3>1 DEF DeskPart!OneDeletion, DeskPart!HasFocus, DeskPart!Row
      <4>2. DeskPart!Rows \in Seq(Nat)
        BY <2>4, ElementOfSeq, LenProperties DEF DeskPart!Typed, DeskPart!Rows
      <4>3. v3 # 0
        BY <4>1, <4>2, LenProperties
      <4> QED
        BY <3>1, <4>1, <4>3
    <3>2. CASE /\ c.row \in DeskPart!Range(DeskPart!Rows)
               /\ i = CHOOSE j \in DOMAIN DeskPart!Rows : DeskPart!Rows[j] = c.row
      BY <3>2 DEF DeskPart!Range
    <3> QED
      BY <2>2, <3>1, <3>2
  <2> QED
    BY <2>3, <2>4, <2>5, OneRowLeaves
<1> QED
  BY <1>2, <1>3 DEF DeskPart!DeskInv, DeskPart!Clean, DeskPart!ActsOnFocused, DeskPart!OnlyDeletedLeave,
     DeskPart!ModalRestores

\* What a step owes that deletes nothing.
LEMMA HistoryKeeps ==
    ASSUME DeskPart!DeskInv, v16 \subseteq v16', "strayed" \in v16' => "strayed" \in v16,
           "lost" \in v16' /\ "deleted" \notin v16' => "lost" \in v16,
           DeskPart!Clean' => DeskPart!Settled' /\ ("wrong" \in v16' => "wrong" \in v16)
    PROVE  DeskPart!DeskInv'
BY DEF DeskPart!DeskInv, DeskPart!Clean, DeskPart!ActsOnFocused, DeskPart!OnlyDeletedLeave,
       DeskPart!ModalRestores

\* What the steps of the reader write of what has happened.
LEMMA ReaderNotes ==
    ASSUME DeskPart!Reader
    PROVE  /\ v16 \subseteq v16' /\ v16' \subseteq v16 \cup {"moved", "nested", "wrong", "wrong deletion"}
<1>1. \A what, if : DeskPart!Note(what, if) \subseteq {what}
  BY DEF DeskPart!Note
<1>2. DeskPart!Wrong \subseteq {"wrong"}
  BY <1>1 DEF DeskPart!Wrong
<1>3. CASE \/ DeskPart!KeyJ \/ DeskPart!KeyK \/ DeskPart!KeyDot \/ DeskPart!Reload \/ DeskPart!CloseModal
           \/ DeskPart!KeyShiftQ \/ DeskPart!KeyShiftO \/ DeskPart!KeyShiftR \/ DeskPart!KeyE
  BY <1>1, <1>3 DEF DeskPart!KeyJ, DeskPart!KeyK, DeskPart!KeyDot, DeskPart!MoveTo, DeskPart!Reload,
     DeskPart!CloseModal, DeskPart!KeyShiftQ, DeskPart!KeyShiftO, DeskPart!KeyShiftR, DeskPart!KeyE, DeskPart!Fetch
<1>4. CASE \/ DeskPart!KeyX \/ DeskPart!AltD \/ DeskPart!KeyM \/ DeskPart!KeyB
           \/ DeskPart!AltO \/ DeskPart!ShiftM \/ DeskPart!ShiftF \/ DeskPart!AltH
  BY <1>1, <1>2, <1>4 DEF DeskPart!KeyX, DeskPart!AltD, DeskPart!KeyM, DeskPart!KeyB, DeskPart!AltO,
     DeskPart!ShiftM, DeskPart!ShiftF, DeskPart!AltH, DeskPart!Order
<1>5. CASE \/ \E t \in DeskPart!Tabs : DeskPart!switchTab(t)
           \/ \E r \in DOMAIN v7 : DeskPart!RowFocus(r) \/ DeskPart!ButtonDelete(r)
           \/ \E yes \in BOOLEAN : DeskPart!Answer(yes)
  BY <1>1, <1>5 DEF DeskPart!switchTab, DeskPart!RowFocus, DeskPart!ButtonDelete, DeskPart!Answer
<1> QED
  BY <1>3, <1>4, <1>5 DEF DeskPart!Reader

LEMMA StepOfReader ==
    ASSUME DeskPart!Settled, ~v11, DeskPart!Clean', DeskPart!Reader
    PROVE  DeskPart!Settled' /\ ("wrong" \in v16' => "wrong" \in v16)
<1>0. DeskPart!Typed
  BY DEF DeskPart!Settled
<1>1. CASE DeskPart!KeyJ \/ DeskPart!KeyK \/ DeskPart!KeyDot
  <2>1. DeskPart!Rows \in Seq(Nat) /\ v3 \in Nat
    <3>1. v4 \in Seq(Seq(Nat)) /\ v2 \in DOMAIN v4
      BY <1>0 DEF DeskPart!Typed
    <3> QED
      BY <1>0, <3>1, ElementOfSeq, LenProperties DEF DeskPart!Rows, DeskPart!Typed
  <2>2. DOMAIN DeskPart!Rows = 1..Len(DeskPart!Rows) /\ Len(DeskPart!Rows) \in Nat
    BY <2>1, LenProperties
  <2>3. DeskPart!Rows # <<>> => 1 \in DOMAIN DeskPart!Rows
    BY <2>1, <2>2, EmptySeq
  <2>4. \E i \in DOMAIN DeskPart!Rows : DeskPart!MoveTo(i)
    <3>1. CASE DeskPart!KeyJ
      <4>1. v3 + 1 \in DOMAIN DeskPart!Rows
        BY <2>1, <2>2, <3>1 DEF DeskPart!KeyJ
      <4> QED
        BY <3>1, <4>1 DEF DeskPart!KeyJ
    <3>2. CASE DeskPart!KeyK
      <4>1. v3 - 1 \in DOMAIN DeskPart!Rows
        BY <2>1, <2>2, <3>2 DEF DeskPart!KeyK
      <4> QED
        BY <3>2, <4>1 DEF DeskPart!KeyK
    <3>3. CASE DeskPart!KeyDot
      BY <2>3, <3>3 DEF DeskPart!KeyDot
    <3> QED
      BY <1>1, <3>1, <3>2, <3>3
  <2>5. v11' = v11 /\ v16' = v16 \cup DeskPart!Note("moved", DeskPart!Deleting)
    BY <2>4 DEF DeskPart!MoveTo, DeskPart!over
  <2>6. "wrong" \in v16' => "wrong" \in v16
    BY <2>5 DEF DeskPart!Note
  <2> QED
    BY <2>4, <2>5, <2>6, StepOfMoves
<1>2. CASE \E r \in DOMAIN v7 : DeskPart!RowFocus(r)
  <2>1. v11' = v11 /\ v16' = v16 \cup DeskPart!Note("moved", DeskPart!Deleting)
    BY <1>2 DEF DeskPart!RowFocus, DeskPart!over
  <2>2. "wrong" \in v16' => "wrong" \in v16
    BY <2>1 DEF DeskPart!Note
  <2> QED
    BY <1>2, <2>1, <2>2, StepOfMoves
<1>3. CASE DeskPart!Reload
  BY <1>3, StepOfReload
<1>4. CASE DeskPart!CloseModal
  BY <1>4, StepOfClose DEF DeskPart!Note
<1>5. CASE DeskPart!KeyShiftQ \/ DeskPart!KeyShiftO \/ DeskPart!KeyShiftR \/ DeskPart!KeyE
  <2>1. UNCHANGED <<v1, v2, v3, v4, v5, v6, v7, v8, v9, v10, v11, v15, v16>>
    BY <1>5 DEF DeskPart!KeyShiftQ, DeskPart!KeyShiftO, DeskPart!KeyShiftR, DeskPart!KeyE, DeskPart!Fetch,
       DeskPart!lists, DeskPart!rows
  <2> QED
    BY <2>1, NothingMoves
<1>6. CASE \/ DeskPart!KeyX \/ DeskPart!AltD \/ DeskPart!KeyM \/ DeskPart!KeyB
           \/ DeskPart!AltO \/ DeskPart!ShiftM \/ DeskPart!ShiftF \/ DeskPart!AltH
  BY <1>6, StepOfKeys DEF DeskPart!AltO, DeskPart!ShiftM, DeskPart!ShiftF
<1>7. CASE \E t \in DeskPart!Tabs : DeskPart!switchTab(t)
  BY <1>7, StepOfSwitchTab
<1>8. CASE \E r \in DOMAIN v7 : DeskPart!ButtonDelete(r)
  <2>1. v11' = v11
    BY <1>8 DEF DeskPart!ButtonDelete
  <2> QED
    BY <1>8, <2>1, StepOfButton
<1>9. CASE \E yes \in BOOLEAN : DeskPart!Answer(yes)
  <2>1. v11' = v11
    BY <1>9 DEF DeskPart!Answer
  <2> QED
    BY <1>9, <2>1, StepOfAnswer DEF DeskPart!Note
<1> QED
  BY <1>1, <1>2, <1>3, <1>4, <1>5, <1>6, <1>7, <1>8, <1>9 DEF DeskPart!Reader

LEMMA StepDesk == ASSUME DeskPart!DeskInv, [DeskPart!Next]_DeskPart!vars PROVE DeskPart!DeskInv'
<1>0. DeskPart!Clean' /\ v16 \subseteq v16' => DeskPart!Settled
  BY DEF DeskPart!DeskInv, DeskPart!Clean
<1>1. CASE ~v11 /\ DeskPart!Reader
  BY <1>0, <1>1, ReaderNotes, StepOfReader, HistoryKeeps
<1>2. CASE DeskPart!CloseEvent
  <2>1. /\ v16 \subseteq v16'
        /\ v16' \subseteq v16 \cup {"moved"} \cup DeskPart!Note("lost", "nested" \notin v16)
    BY <1>2 DEF DeskPart!CloseEvent, DeskPart!Note
  <2>2. "nested" \notin v16 => "nested" \notin v16'
    BY <2>1 DEF DeskPart!Note
  <2>3. "strayed" \in v16' => "strayed" \in v16
    BY <2>1 DEF DeskPart!Note
  <2>4. "wrong" \in v16' => "wrong" \in v16
    BY <2>1 DEF DeskPart!Note
  <2>5. DeskPart!Clean' => DeskPart!Settled' /\ ("lost" \in v16' => "lost" \in v16)
    <3> SUFFICES ASSUME DeskPart!Clean' PROVE DeskPart!Settled' /\ ("lost" \in v16' => "lost" \in v16)
      OBVIOUS
    <3>1. DeskPart!Settled' /\ v16' = v16 \cup DeskPart!Note("moved", DeskPart!Deleting)
      BY <1>0, <1>2, <2>1, StepOfCloseEvent
    <3> QED
      BY <3>1 DEF DeskPart!Note
  <2>6. "lost" \in v16' /\ "deleted" \notin v16' => "lost" \in v16
    <3> SUFFICES ASSUME "lost" \in v16', "deleted" \notin v16', "lost" \notin v16 PROVE FALSE
      OBVIOUS
    <3>1. "nested" \notin v16
      BY <2>1 DEF DeskPart!Note
    <3>2. DeskPart!Clean'
      BY <2>2, <3>1 DEF DeskPart!Clean
    <3> QED
      BY <2>5, <3>2
  <2> QED
    BY <2>1, <2>3, <2>4, <2>5, <2>6, HistoryKeeps
<1>3. CASE DeskPart!showMuteMenu
  <2>1. v16' = v16
    BY <1>3 DEF DeskPart!showMuteMenu
  <2> QED
    BY <1>0, <1>3, <2>1, StepOfMenu, HistoryKeeps
<1>4. CASE DeskPart!NoAnswer \/ \E c \in v15 : DeskPart!NotDeleted(c)
  <2>1. /\ UNCHANGED <<v1, v2, v3, v4, v5, v6, v7, v8, v9, v10, v11>> /\ v16' = v16
        /\ v15' = v15 \/ (v15' \subseteq v15 /\ \E c \in v15 : c \notin v15')
    BY <1>4 DEF DeskPart!NoAnswer, DeskPart!NotDeleted, DeskPart!lists, DeskPart!rows, DeskPart!over, DeskPart!work
  <2> QED
    BY <1>0, <2>1, NothingMoves, HistoryKeeps
<1>5. CASE \E n \in 0..2 : DeskPart!showPostsModal(n)
  <2>1. PICK n \in 0..2 : DeskPart!showPostsModal(n)
    BY <1>5
  <2>2. v16 \subseteq v16' /\ v16' \subseteq v16 \cup {"moved", "nested"}
    BY <2>1 DEF DeskPart!showPostsModal, DeskPart!Note
  <2>3. n \in Nat
    OBVIOUS
  <2> QED
    BY <1>0, <2>1, <2>2, <2>3, StepOfPosts, HistoryKeeps
<1>6. CASE \E c \in v15 : DeskPart!Deleted(c)
  BY <1>6, StepOfDeleted
<1>7. CASE UNCHANGED DeskPart!vars
  <2>1. /\ UNCHANGED <<v1, v2, v3, v4, v5, v6, v7, v8, v9, v10, v11>> /\ v16' = v16 /\ v15' = v15
    BY <1>7 DEF DeskPart!vars, DeskPart!lists, DeskPart!rows, DeskPart!over, DeskPart!work
  <2> QED
    BY <1>0, <2>1, NothingMoves, HistoryKeeps
<1> QED
  BY <1>1, <1>2, <1>3, <1>4, <1>5, <1>6, <1>7 DEF DeskPart!Next

LEMMA InitDesk == ASSUME DeskPart!Init PROVE DeskPart!DeskInv
<1> DEFINE L == [i \in 1..DeskSize |-> i]
<1>1. L \in Seq(Nat) /\ DOMAIN L = 1..DeskSize /\ \A i \in 1..DeskSize : L[i] = i
  BY SizeIsOne
<1>2. <<>> \in Seq(Nat) /\ DOMAIN <<>> = {}
  BY EmptySeq
<1> HIDE DEF L
<1>3. /\ v1 = "a" /\ v2 = 1 /\ v3 = 1 /\ v8 = 1 /\ v4 = <<L, <<>>>>
      /\ v5 = [t \in DeskPart!Tabs |-> IF t = "a" THEN <<1, 1>> ELSE <<2, 0>>]
      /\ v6 = L /\ v7 = [i \in 1..DeskSize |-> "a"] /\ v9 = <<>> /\ v11 = FALSE
      /\ v15 = {} /\ v16 = {}
  BY DEF DeskPart!Init, L
<1>4. v4 \in Seq(Seq(Nat)) /\ DOMAIN v4 = {1, 2} /\ v4[1] = L /\ v4[2] = <<>>
  BY <1>1, <1>2, <1>3
<1>5. DeskPart!Typed
  <2>1. v5 \in [DeskPart!Tabs -> (DOMAIN v4) \X Nat]
    BY <1>3, <1>4
  <2>2. v7 \in [DOMAIN v6 -> {"a", "b", "m", "gone"}]
    BY <1>1, <1>3
  <2>3. v9 \in Seq(DeskPart!Dialogs) /\ DOMAIN v9 = {}
    BY <1>3, EmptySeq
  <2> QED
    BY <1>1, <1>3, <1>4, <2>1, <2>2, <2>3 DEF DeskPart!Typed, DeskPart!Tabs
<1>6. DeskPart!Numbered
  <2>1. DOMAIN (v4[2]) = {}
    BY <1>2, <1>4
  <2>2. \A i \in DOMAIN (v4[1]) : v4[1][i] \in DOMAIN v6 /\ v6[v4[1][i]] = i
    BY <1>1, <1>3, <1>4
  <2> QED
    BY <1>4, <2>1, <2>2 DEF DeskPart!Numbered
<1>7. ~DeskPart!PostsOpen /\ DOMAIN v9 = {}
  BY <1>3 DEF DeskPart!PostsOpen, DeskPart!Has
<1>8. DeskPart!Placed
  <2>1. DeskPart!Under = 1
    BY <1>3, <1>7 DEF DeskPart!Under
  <2>2. \A r \in DOMAIN v6 : v7[r] = "a" /\ r \in DeskPart!Range(v4[1])
    BY <1>1, <1>3, <1>4 DEF DeskPart!Range
  <2>3. \A r \in DOMAIN v6 : r \notin DeskPart!Range(v4[2])
    BY <1>2, <1>4 DEF DeskPart!Range
  <2>4. v5["b"][1] = 2
    BY <1>3 DEF DeskPart!Tabs
  <2> QED
    BY <1>3, <2>1, <2>2, <2>3, <2>4 DEF DeskPart!Placed, DeskPart!Holds, DeskPart!Tabs
<1>9. DeskPart!OpenOnce
  BY <1>3, <1>7 DEF DeskPart!OpenOnce
<1>10. DeskPart!HeldIsFocused
  <2>1. 1 \in DOMAIN v6 /\ v7[1] = "a" /\ DeskPart!Row = 1
    BY <1>1, <1>3, <1>4, SizeIsOne DEF DeskPart!Row, DeskPart!Rows
  <2> QED
    BY <1>3, <2>1 DEF DeskPart!HeldIsFocused, DeskPart!View, DeskPart!InFront
<1>11. DeskPart!OneDeletion
  BY <1>3, <1>7 DEF DeskPart!OneDeletion
<1> QED
  BY <1>3, <1>5, <1>6, <1>8, <1>9, <1>10, <1>11 DEF DeskPart!DeskInv, DeskPart!Settled, DeskPart!Clean,
     DeskPart!ActsOnFocused, DeskPart!OnlyDeletedLeave, DeskPart!ModalRestores

\* What the invariant says of the keys.
LEMMA DeskTells ==
    ASSUME DeskPart!DeskInv
    PROVE  DeskPart!ActsOnFocused /\ DeskPart!OnlyDeletedLeave /\ DeskPart!ModalRestores
BY DEF DeskPart!DeskInv
================================================================================
