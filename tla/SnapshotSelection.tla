------------------------- MODULE SnapshotSelection -------------------------
(***************************************************************************)
(* Which snapshot archive the watcher picks (src/src/incremental.rs and    *)
(* newest_full_generation of the watcher).  An archive is known by what    *)
(* its file name says: its kind, the slot an incremental starts from       *)
(* (base) and the slot it ends at.  The directory belongs to the           *)
(* validator, which adds and rolls away archives at any time; a scan of it *)
(* is a subset `dir' of Archives.                                          *)
(***************************************************************************)
EXTENDS Integers

CONSTANTS Archives,  \* every archive the validator may publish
          None       \* Option::None

(* Archive names carry non-zero ending slots; an incremental ends after its base. *)
ASSUME ArchivesAssumption ==
    /\ Archives \subseteq [kind : {"full", "incremental"}, base : Nat, slot : Nat \ {0}]
    /\ \A a \in Archives : a.kind = "incremental" => a.base < a.slot

ASSUME NoneAssumption == None \notin Nat /\ None \notin Archives

FullSlots == {a.slot : a \in {b \in Archives : b.kind = "full"}}

(***************************************************************************)
(* The archives ending at the highest slot: what the sort by descending    *)
(* slot puts first.  The path order that decides a tie is left open.       *)
(***************************************************************************)
Furthest(dir) == {a \in dir : \A b \in dir : b.slot <= a.slot}

\* Mutant of EligibleIncrementals: the base slot is not checked.
EligibleAnyBase(dir, last) ==
    {a \in dir : a.kind = "incremental" /\ a.slot > last}

EligibleIncrementals(dir, last) ==
    {a \in dir : a.kind = "incremental" /\ a.base <= last /\ a.slot > last}

EligibleFulls(dir, last) == {a \in dir : a.kind = "full" /\ a.slot > last}

(* The full archives of a generation newer than the one `full' names. *)
NewerFulls(dir, full) ==
    {a \in dir : a.kind = "full" /\ (full = None \/ a.slot > full)}

(* The archive a checkpoint recorded, if the directory still holds it. *)
Recorded(dir, full) == {a \in dir : a.kind = "full" /\ a.slot = full}
=============================================================================
