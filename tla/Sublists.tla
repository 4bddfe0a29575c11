------------------------------ MODULE Sublists ------------------------------
(***************************************************************************)
(* The items of a list that pass a test, in their order: what a            *)
(* comprehension [x for x in s if ...] or a loop with append makes of s.   *)
(*                                                                         *)
(* The test is given as the set of the places it holds at, so that it may  *)
(* look at what came before.  SelectSeq would do for most uses; it has no  *)
(* definition the proofs could rest on.                                    *)
(***************************************************************************)
EXTENDS Integers, Sequences

Sublist(s, places) ==
    LET upto[n \in 0..Len(s)] ==
            IF n = 0 THEN <<>>
            ELSE IF n \in places THEN Append(upto[n - 1], s[n]) ELSE upto[n - 1]
    IN  upto[Len(s)]
=============================================================================
