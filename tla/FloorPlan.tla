------------------------------ MODULE FloorPlan ------------------------------
(***************************************************************************)
(* What seating promises to the staff: a table has at most one party, a    *)
(* party sits at one table at most, and a party that has left does not     *)
(* come back. There are no requests, checks or labels here; TableSeating   *)
(* is shown to implement this module.                                      *)
(***************************************************************************)
CONSTANTS Order,   \* parties, each with one order
          Table    \* tables and other places of the outlet

VARIABLES seated,  \* pairs <<o, t>>: order o is being served at table t
          gone     \* orders that were settled or cancelled

floorVars == <<seated, gone>>

FloorInit ==
  /\ seated = {}
  /\ gone = {}

SeatsOf(o) == {s \in seated : s[1] = o}

Taken(t) == \E s \in seated : s[2] = t

\* A party sits down, or moves to another table.
Place(o, t) ==
  /\ o \notin gone
  /\ ~ Taken(t)
  /\ seated' = (seated \ SeatsOf(o)) \cup {<<o, t>>}
  /\ UNCHANGED gone

\* Tables are taken away, and the parties that sat there wait for a new one.
Remove(tables) ==
  /\ seated' = {s \in seated : s[2] \notin tables}
  /\ UNCHANGED gone

\* A party pays or walks out.
Leave(o) ==
  /\ o \notin gone
  /\ seated' = seated \ SeatsOf(o)
  /\ gone' = gone \cup {o}

FloorNext ==
  \/ \E o \in Order : Leave(o) \/ \E t \in Table : Place(o, t)
  \/ \E tables \in SUBSET Table : Remove(tables)

FloorSpec == FloorInit /\ [][FloorNext]_floorVars
=============================================================================
