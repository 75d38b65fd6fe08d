---------------------------- MODULE ArchiveStream ----------------------------
(***************************************************************************)
(* The append-vecs that the archive reader hands out: the files of a tar   *)
(* stream after its manifest, one after the other.  A file that is no      *)
(* append-vec, or one at or below the minimum slot, is passed over; one    *)
(* that the manifest does not list gives an error; and an error of the     *)
(* stream itself is the last thing it gives, since a tar reader ends after *)
(* its first error.                                                        *)
(***************************************************************************)
EXTENDS Naturals, Sequences

CONSTANT Entries  \* the files: are they append-vecs, of which slot, listed?

ASSUME EntriesAssumption ==
    Entries \in Seq([vec : BOOLEAN, slot : Nat, listed : BOOLEAN])

(* parse_append_vec_name, should_process_append_vec_slot *)
Wanted(f, minimum) == f.vec /\ f.slot > minimum

(* The next file, when the stream breaks at file number `broken'. *)
Outcome(k, minimum, broken) ==
    IF k > Len(Entries) \/ k > broken THEN "end"
    ELSE IF k = broken THEN "error"
    ELSE IF ~Wanted(Entries[k], minimum) THEN "pass"
    ELSE IF ~Entries[k].listed THEN "error"
    ELSE "vec"

Delivered(minimum, broken) ==
    {k \in 1 .. Len(Entries) : Outcome(k, minimum, broken) = "vec"}
=============================================================================
