---------------------------- MODULE ImportContract ----------------------------
(***************************************************************************)
(* What an import promises its caller, whatever threads it uses: rows of   *)
(* the archive become visible one INSERT after the other, none of them     *)
(* twice and none that is not in the archive; it returns; and a successful *)
(* return means that every row is there and that nobody writes any more.   *)
(* A failed import promises neither: some rows are there, and others may   *)
(* still arrive after it has returned.                                     *)
(***************************************************************************)
EXTENDS Naturals

CONSTANT Rows  \* rows that archives may give

VARIABLES
    expected,  \* the rows that this archive gives
    status,    \* "running", "ok" or "failed"
    landed     \* landed[r]: how many times row r is in its table

vars == <<expected, status, landed>>

Init ==
    /\ expected \in SUBSET Rows
    /\ status = "running"
    /\ landed = [r \in Rows |-> 0]

Insert ==
    /\ status # "ok"
    /\ LET old == landed
           new == landed'
       IN  /\ new \in [Rows -> {0, 1}]
           /\ {r \in Rows : new[r] # old[r]} \subseteq {r \in expected : old[r] = 0}
    /\ UNCHANGED <<expected, status>>

Succeed ==
    /\ status = "running"
    /\ \A r \in expected : landed[r] = 1
    /\ status' = "ok"
    /\ UNCHANGED <<expected, landed>>

Fail == status = "running" /\ status' = "failed" /\ UNCHANGED <<expected, landed>>

Next == Insert \/ Succeed \/ Fail

Returns == <>(status # "running")

Safety == Init /\ [][Next]_vars

Spec == Safety /\ Returns
=============================================================================
