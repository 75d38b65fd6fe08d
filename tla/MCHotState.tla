------------------------------ MODULE MCHotState ------------------------------
(***************************************************************************)
(* Address a1 with every history in which it stays in one hot pair, is     *)
(* closed, is taken over by something that is not a hot token account, and *)
(* comes back, or in which its owner changes; a2 is another account of the *)
(* first pair.                                                             *)
(***************************************************************************)
EXTENDS HotState

CONSTANTS a1, a2, hot1, hot2, cold

Held(p, n) == [pair |-> p, amount |-> n]

Alone == [s \in 0 .. MaxSlot |-> None]

(* a2 is never opened, opened for good, or opened and closed at the end. *)
Others ==
    {Alone,
     [s \in 0 .. MaxSlot |-> IF s = 0 THEN None ELSE Held(hot1, 1)],
     [s \in 0 .. MaxSlot |-> IF s \in {0, MaxSlot} THEN None ELSE Held(hot1, 1)]}

Histories(pairs, ns) ==
    {h \in [0 .. MaxSlot -> {None, Held(cold, 0)} \cup {Held(p, n) : p \in pairs, n \in ns}] :
        h[0] = None}

LedgersOf(pairs, ns, others) ==
    {[s \in 0 .. MaxSlot |-> [a \in {a1, a2} |-> IF a = a1 THEN h[s] ELSE o[s]]] :
        h \in Histories(pairs, ns), o \in others}

(* a1 in any history of one hot pair, or moving between two. *)
MCLedgers == LedgersOf({hot1}, Amounts, Others) \cup LedgersOf({hot1, hot2}, {1}, {Alone})
=============================================================================
