--------------------------- MODULE GroupContents ---------------------------
(***************************************************************************)
(* What one ClickHouse table group (six tables) holds, as far as the       *)
(* watcher's journal makes claims about it:                                *)
(*   gen    slot of the full archive the baseline comes from (None: the    *)
(*          group predates the journal, or is empty)                       *)
(*   base   how far the full baseline got; "partial" also when some of the *)
(*          tables are truncated; "residue": a full import was started on  *)
(*          tables that were not empty                                     *)
(*   upto   every account change of slots 1..upto is in the tables and in  *)
(*          the derived indexes                                            *)
(*   raw    max(raw_account.updated_slot); rows carry the ending slot of   *)
(*          their archive, so an unfinished import shows here already      *)
(*   mints  the frozen hot-mint sets that filtered the imports             *)
(* Rows of an import become visible while it runs, so an import has a      *)
(* beginning and an end and a crash may leave it between the two.          *)
(***************************************************************************)
EXTENDS SnapshotSelection

CONSTANT MintSets  \* the values hot_token_enabled may have when it is frozen

Bases == {"none", "partial", "complete", "residue"}

Contents == [gen : FullSlots \cup {None}, base : Bases, upto : Nat, raw : Nat,
             mints : SUBSET MintSets]

MaxOf(a, b) == IF a >= b THEN a ELSE b

Truncated == [gen |-> None, base |-> "none", upto |-> 0, raw |-> 0, mints |-> {}]

\* Mutant of Reset: TRUNCATE forgotten.
ResetSkipped(t) == t

(* reset_table_group: TRUNCATE of the six tables. *)
Reset(t) == Truncated

(* It stops after some of the tables; raw_account is the first of them. *)
PartlyReset(t) ==
    IF t = Truncated THEN t
    ELSE [Truncated EXCEPT !.base = "partial", !.mints = t.mints]

(* A full import starts writing: the group must have no row. *)
BeginFull(t, slot, mints) ==
    [t EXCEPT !.gen = slot,
              !.base = IF t.base = "none" /\ t.raw = 0 THEN "partial" ELSE "residue",
              !.raw = MaxOf(t.raw, slot),
              !.mints = t.mints \cup {mints}]

\* Mutant of EndFull: a full import taken for the tail of the group it replaces.
EndFullAsTail(t, slot) == [t EXCEPT !.upto = MaxOf(t.upto, slot)]

(* Every row of the full import and its derived indexes are committed. *)
EndFull(t, slot) ==
    [t EXCEPT !.base = IF t.base = "partial" THEN "complete" ELSE t.base,
              !.upto = slot]

(* An import of the archive's tail (slots after a resume slot) starts writing. *)
BeginTail(t, a, mints) ==
    [t EXCEPT !.raw = MaxOf(t.raw, a.slot), !.mints = t.mints \cup {mints}]

(***************************************************************************)
(* The tail after `resume' is committed.  It extends upto when it starts   *)
(* within what is there: the archive must reach down to `resume' (a full   *)
(* archive does, an incremental from its base on) and `resume' must not be *)
(* beyond upto.                                                            *)
(***************************************************************************)
EndTail(t, a, resume) ==
    [t EXCEPT !.upto = IF resume <= t.upto /\ (a.kind = "full" \/ a.base <= resume)
                       THEN MaxOf(t.upto, a.slot)
                       ELSE t.upto]
=============================================================================
