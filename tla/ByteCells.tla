----------------------------- MODULE ByteCells -----------------------------
(***************************************************************************)
(* Keys, records and the counting of stored bytes, as the relay's storage  *)
(* package (relay/internal/store) counts them: per owner and in total.     *)
(*                                                                         *)
(* Sizes are counted as byte cells: a record of n bytes under the key k is *)
(* the cells <<k, 1>> .. <<k, n>>, so that the bytes of disjoint sets of   *)
(* records add up as the cardinalities of disjoint sets do.                *)
(***************************************************************************)
EXTENDS Integers, FiniteSets

CONSTANTS
  Identity,      \* owners: one namespace of blobs each
  Bid,           \* blob ids within a namespace
  MaxSize        \* the largest record

Key == Identity \X Bid

\* A record is its size with the header, never 0, and its expiry.
Absent == [size |-> 0, exp |-> 0]
Record == [size : 1..MaxSize, exp : Nat]

Cells(f, ks) == {c \in ks \X (1..MaxSize) : c[2] <= f[c[1]].size}
KeysOf(i) == {i} \X Bid
Present(f, ks) == {k \in ks : f[k].size > 0}

\* The usage of one owner (Usage.Bytes, Usage.Count) and of all (TotalBytes).
Bytes(f, i) == Cardinality(Cells(f, KeysOf(i)))
Count(f, i) == Cardinality(Present(f, KeysOf(i)))
AllBytes(f) == Cardinality(Cells(f, Key))
=============================================================================
