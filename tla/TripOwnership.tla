--------------------------- MODULE TripOwnership ---------------------------
(***************************************************************************)
(* What the trip service promises about who is on a trip, one operation at *)
(* a time: the trip has one owner, who is always on it; people are let in, *)
(* and anybody but the owner may leave; the trip changes hands only to     *)
(* somebody on it, the former owner staying on, as a guide if he asks so.  *)
(***************************************************************************)
CONSTANTS Users, Nobody

VARIABLES
    owner,   \* Nobody before the trip is founded and after it is dissolved
    crew,    \* everybody on the trip, its owner included
    guides   \* those of the crew who stepped down as guides

vars == <<owner, crew, guides>>

Init == owner = Nobody /\ crew = {} /\ guides = {}

Found(u) ==
    /\ owner = Nobody /\ crew = {}
    /\ owner' = u
    /\ crew' = {u}
    /\ UNCHANGED guides

LetIn(u) ==
    /\ owner \in Users
    /\ u \notin crew
    /\ crew' = crew \union {u}
    /\ UNCHANGED <<owner, guides>>

Leave(u) ==
    /\ owner \in Users \ {u}
    /\ u \in crew
    /\ crew' = crew \ {u}
    /\ guides' = guides \ {u}
    /\ UNCHANGED owner

PassOn(u, asGuide) ==
    /\ owner \in Users \ {u}
    /\ u \in crew
    /\ owner' = u
    /\ guides' = (guides \ {u}) \union (IF asGuide THEN {owner} ELSE {})
    /\ UNCHANGED crew

Dissolve ==
    /\ owner \in Users
    /\ owner' = Nobody
    /\ crew' = {}
    /\ guides' = {}

Next ==
    \/ Dissolve
    \/ \E u \in Users :
          \/ Found(u)
          \/ LetIn(u)
          \/ Leave(u)
          \/ \E asGuide \in BOOLEAN : PassOn(u, asGuide)
=============================================================================
