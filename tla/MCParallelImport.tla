-------------------------- MODULE MCParallelImport --------------------------
(***************************************************************************)
(* Five files. Append-vecs 1, 4 and 5 fill the queue of two; 2 is not      *)
(* listed in the manifest, 3 is no append-vec, 4 is at the watermark, and  *)
(* the stream may break at 4.  1 and 5 hold fields of the same slot from   *)
(* different sources, 4 holds older fields and the only extensions.        *)
(***************************************************************************)
EXTENDS ParallelImport

File(s) == [vec |-> TRUE, slot |-> s, listed |-> TRUE]

MCEntries ==
    <<File(3), [File(3) EXCEPT !.listed = FALSE], [File(0) EXCEPT !.vec = FALSE],
      File(2), File(3)>>

MCFieldsOf ==
    [v \in 1 .. 5 |->
       CASE v = 1 -> [slot |-> 3, source |-> Token2022Embedded, doc |-> 1]
         [] v = 4 -> [slot |-> 2, source |-> Token2022Embedded, doc |-> 2]
         [] v = 5 -> [slot |-> 3, source |-> Metaplex, doc |-> 3]
         [] OTHER -> None]

MCExtensionsOf == [v \in 1 .. 5 |-> IF v = 4 THEN [slot |-> 2, doc |-> 4] ELSE None]

MCPrevious == [fields |-> 8, extensions |-> 9]
=============================================================================
