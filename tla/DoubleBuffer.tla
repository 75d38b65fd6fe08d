----------------------------- MODULE DoubleBuffer -----------------------------
(***************************************************************************)
(* What the watcher promises to whoever queries the names without suffix   *)
(* ("dual-buffered generations"): there is a generation in service and at  *)
(* most one in preparation, each the rows of one full archive with all     *)
(* changes up to a slot.  The one in service only gains changes, until it  *)
(* is replaced, in one step, by one of a newer full archive that has taken *)
(* an incremental of its own.  Once in service the tables stay in service, *)
(* and a generation that is prepared is not thrown away.  How far the two  *)
(* have come need not agree when they change places.                       *)
(***************************************************************************)
EXTENDS Naturals

CONSTANTS
    Generations,  \* slots of full archives
    None          \* nothing; of a generation: that of tables older than the journal

VARIABLES
    served,    \* the generation in service, None before there is one
    prepared   \* the one that will replace it, None as long as it is not whole

vars == <<served, prepared>>

Tables == [gen : Generations \cup {None}, upto : Nat]

Newer(g, h) == h = None \/ g > h

(* The changes of more slots arrive in a generation. *)
Gains(old, new) == new \in Tables /\ new.gen = old.gen /\ new.upto > old.upto

Init == served \in Tables \cup {None} /\ prepared = None

Open ==
    /\ served = None
    /\ served' \in Tables
    /\ UNCHANGED prepared

Advance ==
    /\ served # None
    /\ Gains(served, served')
    /\ UNCHANGED prepared

Prepare ==
    /\ served # None /\ prepared = None
    /\ \E full \in Generations :
          Newer(full, served.gen) /\ prepared' = [gen |-> full, upto |-> full]
    /\ UNCHANGED served

Extend ==
    /\ prepared # None
    /\ Gains(prepared, prepared')
    /\ UNCHANGED served

Switch ==
    /\ prepared # None /\ prepared.upto > prepared.gen
    /\ served' = prepared
    /\ prepared' = None

Next == Open \/ Advance \/ Prepare \/ Extend \/ Switch

Spec == Init /\ [][Next]_vars
=============================================================================
