----------------------------- MODULE KeptElements -----------------------------
(* What a filter keeps of a list. *)
EXTENDS Naturals, Sequences

(* The elements of a sequence that are among `some`, in their order. *)
Kept(list, some) ==
  LET kept[n \in 0..Len(list)] ==
        IF n = 0 THEN <<>> ELSE IF list[n] \in some THEN Append(kept[n - 1], list[n]) ELSE kept[n - 1]
  IN  kept[Len(list)]
=============================================================================
