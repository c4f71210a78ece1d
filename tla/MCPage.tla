-------------------------------- MODULE MCPage --------------------------------
(***************************************************************************)
(* Page for TLC: the posts of three items, of which the second is a reply   *)
(* to the first, and a view that forgets what nobody refers to.            *)
(***************************************************************************)
EXTENDS Page, TLC

ThreeItems == <<<<1>>, <<1, 2>>, <<3>>>>

Symmetric == Permutations(Loads)

\* What matters of the names of lists is which places refer to the same one, and
\* what it holds; the entry of tabStates for the tab on the screen is never read.
Places  == {"cur"} \cup (Tabs \ {tab}) \cup {l \in Loads : load[l].prev # 0}
Name(p) == IF p \in Loads THEN load[p].prev ELSE IF p = "cur" THEN cur ELSE kept[p]
Living  == <<tab, {<<list[n], {p \in Places : Name(p) = n}>> : n \in {Name(p) : p \in Places}},
             marks, hide, shown, [l \in Loads |-> [load[l] EXCEPT !.prev = 0]], top, troubles, history>>
=============================================================================
