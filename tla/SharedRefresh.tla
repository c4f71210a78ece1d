---------------------------- MODULE SharedRefresh ----------------------------
(***************************************************************************)
(* What ATClient.RefreshSession promises its callers, with the exchange    *)
(* itself, the locks and the database left out:                            *)
(*                                                                         *)
(*    "Concurrent callers share a single refresh and all observe its       *)
(*     result."                              (services/at_client.go:191)   *)
(*                                                                         *)
(* A refresh is named by the caller that leads it.  While it is open every *)
(* newcomer joins it; once it is closed to newcomers it is announced, with *)
(* one verdict for the leader and for all who joined.                      *)
(***************************************************************************)

CONSTANTS Callers,     \* the goroutines that may need a refresh
          NoCaller     \* a value that is not a caller

VARIABLES open,        \* the leader of the refresh that newcomers join
          party,       \* party[c]: the leader of the refresh c takes part in
          verdict      \* verdict[c]: what c, having joined, has been told

vars == <<open, party, verdict>>

Verdicts == {"ok", "err"}

Init == /\ open = NoCaller
        /\ party = [c \in Callers |-> NoCaller]
        /\ verdict = [c \in Callers |-> "none"]

\* c finds no open refresh and leads one.
Lead(c) == /\ open = NoCaller
           /\ party[c] = NoCaller
           /\ open' = c
           /\ party' = [party EXCEPT ![c] = c]
           /\ UNCHANGED verdict

\* c finds a refresh open and takes part in it.
Join(c) == /\ open # NoCaller
           /\ party[c] = NoCaller
           /\ party' = [party EXCEPT ![c] = open]
           /\ UNCHANGED <<open, verdict>>

\* The leader has an outcome; from here on newcomers lead a refresh of their own.
Shut(c) == /\ open = c
           /\ open' = NoCaller
           /\ UNCHANGED <<party, verdict>>

\* All who joined the refresh of c learn the one verdict v, and c returns.
Announce(c, v) ==
    /\ open # c
    /\ party[c] = c
    /\ party' = [party EXCEPT ![c] = NoCaller]
    /\ verdict' = [d \in Callers |->
                     IF d # c /\ party[d] = c /\ verdict[d] = "none"
                     THEN v ELSE verdict[d]]
    /\ UNCHANGED open

\* c, who joined, returns: with its verdict, or without one when its own
\* context ends first.
Leave(c) == /\ party[c] \notin {c, NoCaller}
            /\ party' = [party EXCEPT ![c] = NoCaller]
            /\ verdict' = [verdict EXCEPT ![c] = "none"]
            /\ UNCHANGED open

Next == \E c \in Callers : \/ Lead(c)
                           \/ Join(c)
                           \/ Shut(c)
                           \/ \E v \in Verdicts : Announce(c, v)
                           \/ Leave(c)

Spec == Init /\ [][Next]_vars
=============================================================================
