---------------------------- MODULE AdrTimeline ----------------------------
(***************************************************************************)
(* What adr.Repository and docs/adrs/0003 promise of the decisions of a    *)
(* project: an append-only timeline.  The n-th decision recorded is number *)
(* n, for good.                                                            *)
(***************************************************************************)
EXTENDS Naturals, Sequences

CONSTANTS Projects, Entries  \* Entries: what a decision record can say

VARIABLE timeline            \* per project, its decisions in order

Init == timeline = [p \in Projects |-> <<>>]

Record(p, e) == timeline' = [timeline EXCEPT ![p] = Append(@, e)]

Next == \E p \in Projects, e \in Entries : Record(p, e)

Spec == Init /\ [][Next]_timeline
=============================================================================
