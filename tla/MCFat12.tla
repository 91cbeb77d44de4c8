------------------------------ MODULE MCFat12 ------------------------------
(***************************************************************************)
(* Digits of base 2: an entry is 3 bits, its values 0..7, of which 7 ends  *)
(* a chain; a sector of the table has 4 two-bit "bytes".  The entry of     *)
(* cluster 2 lies in two sectors, and half of its end mark reads as a      *)
(* link to cluster 3.  Two sizes, one below and one above a sector; three  *)
(* names, two of which are one 8.3 name; three directory slots.            *)
(***************************************************************************)
EXTENDS Fat12, TLC

CONSTANT x

MCDos == "a.txt" :> "A" @@ "A.TXT" :> "A" @@ "b.txt" :> "B"
MCNames == DOMAIN MCDos

EmptyDisk ==
  [fat  |-> [c \in Clusters |-> 0],
   root |-> [s \in Slots |-> End],
   data |-> [c \in Addresses |-> <<"image", c>>]]

\* What another system left: a deleted entry, then a file of two clusters
\* whose second cluster lies before its first.
UsedDisk ==
  [fat  |-> [c \in Clusters |-> IF c = 4 THEN 3 ELSE IF c = 3 THEN 7 ELSE 0],
   root |-> <<Deleted, [name |-> "A", first |-> 4, size |-> 3], End>>,
   data |-> [c \in Addresses |-> <<"image", c>>]]

MCImages == {EmptyDisk, UsedDisk}
=============================================================================
