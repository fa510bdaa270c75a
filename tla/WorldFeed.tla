------------------------------ MODULE WorldFeed ------------------------------
(***************************************************************************)
(* What the network-to-render handoff promises, without its mailbox.       *)
(*                                                                         *)
(* The network task owns the truth about a set of keys (chunk coordinates  *)
(* or entity ids), publishes some of it from time to time, and the         *)
(* renderer is handed everything published so far in one step.  The        *)
(* renderer therefore only ever shows a state that was published as a      *)
(* whole: never a mixture of two, and never a key the network withdrew.    *)
(***************************************************************************)
CONSTANTS Keys,      \* chunk coordinates, or remote entity ids
          Values,    \* what a key can hold
          Absent     \* the key holds nothing

VARIABLES truth,     \* the network task's own store
          published, \* what it has told the renderer
          shown      \* what the renderer has

feedVars == <<truth, published, shown>>

Store == [Keys -> Values \cup {Absent}]
Empty == [k \in Keys |-> Absent]

FeedInit == truth = Empty /\ published = Empty /\ shown = Empty

Change == /\ truth' \in Store
          /\ UNCHANGED <<published, shown>>

\* Only the current truth can be published: an old value never comes back.
Publish == /\ \E S \in SUBSET Keys :
                published' = [k \in Keys |-> IF k \in S THEN truth[k] ELSE published[k]]
           /\ UNCHANGED <<truth, shown>>

Deliver == /\ shown' = published
           /\ UNCHANGED <<truth, published>>

\* The receiving end is destroyed: it shows nothing, and what was published
\* before is lost unless it is still on the way.
Lose == /\ shown' = Empty
        /\ \E S \in SUBSET Keys :
             published' = [k \in Keys |-> IF k \in S THEN Absent ELSE published[k]]
        /\ UNCHANGED truth

FeedNext == Change \/ Publish \/ Deliver \/ Lose

FeedSpec == FeedInit /\ [][FeedNext]_feedVars
=============================================================================
