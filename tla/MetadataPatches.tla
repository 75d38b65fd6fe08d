--------------------------- MODULE MetadataPatches ---------------------------
(***************************************************************************)
(* The patches an import collects for one mint: the newest metadata fields *)
(* and, apart from them, the newest Token-2022 extensions.  All workers    *)
(* record into one map behind a mutex; after the join the patch is merged  *)
(* with the row that is in raw_token_metadata already and becomes a new    *)
(* row.  The texts (name, symbol, uri, extensions as JSON) are a number,   *)
(* `doc', that also stands for the rest of the derived ordering: the       *)
(* account a candidate comes from and, last, the fields themselves.        *)
(***************************************************************************)
EXTENDS Naturals

CONSTANT None  \* Option::None

ASSUME NoneAssumption == None \notin Nat

(* MetadataSource, in the order in which it was declared. *)
Metaplex == 1
Token2022Standalone == 2
Token2022Embedded == 3

Fields == [slot : Nat, source : {Metaplex, Token2022Standalone, Token2022Embedded}, doc : Nat]
Extensions == [slot : Nat, doc : Nat]
Patches == [fields : Fields \cup {None}, extensions : Extensions \cup {None}]

(* Texts of raw_token_metadata; 0 is the empty default. *)
MetadataRows == [fields : Nat, extensions : Nat]

EmptyPatch == [fields |-> None, extensions |-> None]

(* candidate > *current: slot, then source, then account and fields. *)
NewerFields(c, d) ==
    \/ c.slot > d.slot
    \/ c.slot = d.slot /\ c.source > d.source
    \/ c.slot = d.slot /\ c.source = d.source /\ c.doc > d.doc

NewerExtensions(c, d) == c.slot > d.slot \/ (c.slot = d.slot /\ c.doc > d.doc)

\* Mutant of RecordFields: the worker that records last wins.
RecordFieldsLast(p, c) == IF c = None THEN p ELSE [p EXCEPT !.fields = c]

(* record_metadata_fields; None: the append-vec has no candidate. *)
RecordFields(p, c) ==
    IF c # None /\ (p.fields = None \/ NewerFields(c, p.fields))
    THEN [p EXCEPT !.fields = c]
    ELSE p

(* record_extensions *)
RecordExtensions(p, c) ==
    IF c # None /\ (p.extensions = None \/ NewerExtensions(c, p.extensions))
    THEN [p EXCEPT !.extensions = c]
    ELSE p

(* merge_metadata_patch; previous is None when nothing is to be preserved. *)
MergePatch(p, previous) ==
    LET old == IF previous = None THEN [fields |-> 0, extensions |-> 0] ELSE previous
    IN  [fields     |-> IF p.fields # None THEN p.fields.doc ELSE old.fields,
         extensions |-> IF p.extensions # None THEN p.extensions.doc ELSE old.extensions]

(* write_merged_metadata_patches: a mint without a patch keeps its row. *)
WriteMerged(p, previous, preserveExisting) ==
    IF p = EmptyPatch THEN previous
    ELSE MergePatch(p, IF preserveExisting THEN previous ELSE None)
=============================================================================
