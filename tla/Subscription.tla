------------------------------ MODULE Subscription -----------------------------
(***************************************************************************)
(* The dialog of activity subscriptions, controllers/profile.ts:327-398.   *)
(* It is one element for everybody: each opening adds handlers of its own  *)
(* to it, and every way of closing it has to take them off again.          *)
(***************************************************************************)
EXTENDS Naturals

CONSTANTS People,       \* those whose activity can be subscribed to
          MaxSteps      \* bound: clicks on the box, submissions and failures

VARIABLES
    sub,        \* who is subscribed to
    shown,      \* whose subscription the dialog shows, 0 when it is closed
    tick,       \* its box
    handlers,   \* whose submit handlers it has
    puts,       \* calls that are not answered: of whom, and who was shown
    n           \* how many of what MaxSteps bounds

vars == <<sub, shown, tick, handlers, puts, n>>

Init == sub = {} /\ shown = 0 /\ tick = FALSE /\ handlers = {} /\ puts = {} /\ n = 0
Step == n < MaxSteps /\ n' = n + 1

OpenSub(p) == /\ shown = 0 /\ shown' = p /\ tick' = (p \in sub) /\ handlers' = handlers \cup {p}
              /\ UNCHANGED <<sub, puts, n>>
Tick == /\ shown # 0 /\ Step /\ tick' = ~tick /\ UNCHANGED <<sub, shown, handlers, puts>>

\* Mutant: only the buttons take the handlers off.
CloseSub_Escape == /\ shown # 0 /\ shown' = 0 /\ UNCHANGED <<sub, tick, handlers, puts, n>>

\* Its buttons, and Escape.
CloseSub == /\ shown # 0 /\ shown' = 0 /\ handlers' = handlers \ {shown}
            /\ UNCHANGED <<sub, tick, puts, n>>

\* Every handler there is sends the box for its own profile.
SubmitSub == /\ shown # 0 /\ Step
             /\ puts' = puts \cup {[of |-> p, on |-> tick, shown |-> shown] : p \in handlers}
             /\ UNCHANGED <<sub, shown, tick, handlers>>

\* The answer closes the dialog, whoever it shows by then.
PutDone(c) == /\ puts' = puts \ {c} /\ sub' = IF c.on THEN sub \cup {c.of} ELSE sub \ {c.of}
              /\ shown' = 0 /\ handlers' = handlers \ {c.of, shown}
              /\ UNCHANGED <<tick, n>>
PutFailed(c) == /\ Step /\ puts' = puts \ {c} /\ UNCHANGED <<sub, shown, tick, handlers>>

Next == \/ Tick \/ CloseSub \/ SubmitSub
        \/ \E p \in People : OpenSub(p)
        \/ \E c \in puts : PutDone(c) \/ PutFailed(c)

Spec == Init /\ [][Next]_vars

\* A subscription goes to the one whose dialog it was made in, and to nobody else, though
\* the answer of another closed the dialog, or it was closed by Escape.
SubOfShown == \A c \in puts : c.of = c.shown

\* What it rests on: the dialog has the handlers of the one it shows.
SubInv == SubOfShown /\ handlers = IF shown = 0 THEN {} ELSE {shown}
=============================================================================
