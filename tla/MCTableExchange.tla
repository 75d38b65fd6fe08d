-------------------------- MODULE MCTableExchange --------------------------
(***************************************************************************)
(* TableExchange for the six tables of GROUP_MERGE_TABLES: raw accounts,   *)
(* mints, metadata, hot state, token info, wallet balances.                *)
(***************************************************************************)
EXTENDS TableExchange

(* Balances are rebuilt from the hot state, then token info from mints and metadata. *)
MCRebuild == <<[table |-> 6, from |-> {4}], [table |-> 5, from |-> {2, 3}]>>
=============================================================================
