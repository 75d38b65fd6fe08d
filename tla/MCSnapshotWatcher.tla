------------------------- MODULE MCSnapshotWatcher -------------------------
(***************************************************************************)
(* Instances of SnapshotWatcher for TLC: the catalogues of archives that   *)
(* the validator may publish and that a scan may find, whole or in part.   *)
(***************************************************************************)
EXTENDS SnapshotWatcher, TLC

Full(slot) == [kind |-> "full", base |-> 0, slot |-> slot]
Incremental(base, slot) == [kind |-> "incremental", base |-> base, slot |-> slot]

(* Two generations.  The incremental of the first ends after the full       *)
(* archive of the second, so that the lanes can overtake each other.        *)
MCArchives == {Full(1), Incremental(1, 4), Full(3), Incremental(3, 5)}

(* Two generations with one incremental each, for the runs with operator faults. *)
SmallArchives == {Full(1), Full(2), Incremental(2, 3)}

(* Each generation has an incremental that continues it: a condition of GenerationServed. *)
ContinuedArchives == {Full(1), Incremental(1, 2), Full(2), Incremental(2, 3)}

(* Values no definition tells apart; sound for the runs without liveness. *)
Symmetry == Permutations(MintSets) \cup Permutations(FileIds)
=============================================================================
