-------------------------------- MODULE Sifting --------------------------------
(***************************************************************************)
(* The filter that the modules of this project prove about: the items of a *)
(* sequence that are in a set.  (Of SelectSeq the prover knows nothing.)   *)
(***************************************************************************)
EXTENDS Integers, Sequences

\* Array.prototype.filter: the items that are wanted, in their order.
Keeping(s, wanted) ==
  LET kept[i \in 0 .. Len(s)] ==
        IF i = 0 THEN <<>>
        ELSE IF s[i] \in wanted THEN Append(kept[i - 1], s[i]) ELSE kept[i - 1]
  IN kept[Len(s)]
=============================================================================
