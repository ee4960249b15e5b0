-------------------------------- MODULE Lists -------------------------------
(***************************************************************************)
(* Sums and products of lists of integers: what `.iter().map(..).sum()`    *)
(* and the loops over samples in src/time/fuse.rs, src/time/drift.rs and   *)
(* src/net/ntp.rs accumulate.  They are functions of the number of         *)
(* elements taken, which a proof can go through one by one.                *)
(***************************************************************************)
EXTENDS Integers, Sequences

SumOf(list) ==
    LET sum[i \in 0 .. Len(list)] == IF i = 0 THEN 0 ELSE sum[i - 1] + list[i]
    IN  sum[Len(list)]

ProductOf(list) ==
    LET product[i \in 0 .. Len(list)] ==
            IF i = 0 THEN 1 ELSE product[i - 1] * list[i]
    IN  product[Len(list)]
=============================================================================
