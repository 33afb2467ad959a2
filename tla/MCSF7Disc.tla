------------------------------ MODULE MCSF7Disc ------------------------------
(* A small instance of SF7Disc for TLC: four clusters of two sectors, one of  *)
(* them reserved for the system.                                             *)
EXTENDS SF7Disc, TLC

MCZero == [k \in 1..Sectors |-> 0]

\* A formatted disc.
MCEmpty ==
  [dir |-> [i \in 1..Slots |-> EmptyEntry],
   fat |-> [c \in Clusters |-> IF c = 1 THEN FAT_RESERVED_CLUSTER ELSE FAT_FREE_CLUSTER],
   data |-> [c \in Clusters |-> MCZero]]

\* A file whose chain runs downwards, and one whose chain loops.
MCUsed(n, last) ==
  [dir |-> [MCEmpty.dir EXCEPT ![2] = [name |-> n, first |-> 3]],
   fat |-> [MCEmpty.fat EXCEPT ![3] = 0, ![0] = last],
   data |-> [MCEmpty.data EXCEPT ![3] = [k \in 1..Sectors |-> k]]]

MCHostFiles == {<< >>, <<1, 2, 3, 4>>}
MCImages ==
  {MCEmpty} \cup {MCUsed(n, last) : n \in Names, last \in {3, FAT_LAST_CLUSTER_CODE + 1}}

MCNames == Permutations(Names)

=============================================================================
