------------------------------- MODULE IdSet -------------------------------
(***************************************************************************)
(* What osm_id_set promises its users: a set that is filled first and      *)
(* queried afterwards.  The first query freezes it; a query is answered    *)
(* with the truth.                                                         *)
(***************************************************************************)
CONSTANTS Ids, NoAnswer

VARIABLES
    contents,  \* the ids added so far
    frozen,    \* has() was called; add() is refused from now on
    asked,     \* the pending queries: at most one id
    answer     \* what the last query returned

vars == <<contents, frozen, asked, answer>>

Init ==
    /\ contents = {}
    /\ frozen = FALSE
    /\ asked = {}
    /\ answer = NoAnswer

Add(id) ==
    /\ ~frozen
    /\ contents' = contents \cup {id}
    /\ UNCHANGED <<frozen, asked, answer>>

Ask(id) ==
    /\ asked = {}
    /\ asked' = {id}
    /\ frozen' = TRUE
    /\ answer' = NoAnswer
    /\ UNCHANGED contents

Answer(id) ==
    /\ asked = {id}
    /\ asked' = {}
    /\ answer' = (id \in contents)
    /\ UNCHANGED <<contents, frozen>>

Next == \E id \in Ids : Add(id) \/ Ask(id) \/ Answer(id)

\* No query is answered with anything but the truth
SafetySpec == Init /\ [][Next]_vars

\* ... and every query is answered
Spec == SafetySpec /\ \A id \in Ids : WF_vars(Answer(id))
=============================================================================
