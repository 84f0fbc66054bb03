------------------------------- MODULE GidTable -------------------------------
(***************************************************************************)
(* ibv_find_sgid_type (csrc/utils/ibv_helper.cpp), as init calls it: the    *)
(* index of a RoCE v2 entry of a port's GID table for IPv4.  What matters   *)
(* of an entry is its type, "other" when it cannot be read, and whether its *)
(* first two bytes are zero: those of an IPv4 address or of an empty entry, *)
(* whose type reads as v1.                                                  *)
(***************************************************************************)
EXTENDS Integers, Sequences

GidEntry == [type : {"v1", "v2", "other"}, zero : BOOLEAN]

(* Mutant of FindSgidType: the family is not compared.                      *)
FindSgidTypeAny(table) ==
  LET hits == {i \in DOMAIN table : table[i].type = "v2"}
  IN  IF hits = {} THEN -1 ELSE (CHOOSE i \in hits : \A j \in hits : i <= j) - 1

(* The loop: sgid_family is set by an entry and never reset; an entry that  *)
(* cannot be read and the end of the table end the search with -1.          *)
FindSgidType(table) ==
  LET try[i \in 1 .. Len(table) + 1] ==
        [sgid_family \in {"none", "inet"} |->
          IF i > Len(table) \/ table[i].type = "other" THEN -1
          ELSE LET family == IF table[i].zero THEN "inet" ELSE sgid_family IN
               IF table[i].type = "v2" /\ family = "inet" THEN i - 1
               ELSE try[i + 1][family]]
  IN  try[1]["none"]

(* Entries of the kind that was asked for.                                  *)
Wanted(table) == {i \in DOMAIN table : table[i] = [type |-> "v2", zero |-> TRUE]}

(* The search passes over no entry of the kind asked for, and what it finds *)
(* is of another family only if an earlier entry of another type was IPv4   *)
(* or empty (ibv_helper.cpp:109-127).                                       *)
GidSearch(table) ==
  LET found == FindSgidType(table) + 1
      Readable(i) == \A j \in 1 .. i : table[j].type # "other"
  IN  /\ \A i \in Wanted(table) : Readable(i) => found \in 1 .. i
      /\ found # 0 =>
           /\ table[found].type = "v2" /\ Readable(found)
           /\ found \notin Wanted(table) =>
                \E j \in 1 .. found - 1 : table[j] = [type |-> "v1", zero |-> TRUE]
      /\ found = 0 =>
           \A i \in DOMAIN table : Readable(i) /\ table[i].type = "v2" =>
             \A j \in 1 .. i : ~table[j].zero
=============================================================================
