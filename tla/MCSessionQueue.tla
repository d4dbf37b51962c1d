--------------------------- MODULE MCSessionQueue ---------------------------
(***************************************************************************)
(* Instances of SessionQueue for TLC.  The catalogs are in id order.       *)
(***************************************************************************)
EXTENDS SessionQueue, TLC

CONSTANTS t1, t2, t3, t4

Catalog3 == <<t1, t2, t3>>
Catalog4 == <<t1, t2, t3, t4>>
NoAlbum  == <<>>
Album3   == <<t2, t3>>

\* Callers only differ in name, and so do refill goroutines.
ProcSymmetry == Permutations(Callers) \cup Permutations(Fillers)

\* The positions-based filter is the library's SelectSeq.
ASSUME OnlyIsSelectSeq ==
  \A s \in UNION {[1..n -> {1, 2, 3}] : n \in 0..4}, S \in SUBSET {1, 2, 3} :
    Only(s, S) = SelectSeq(s, LAMBDA x : x \in S)

=============================================================================
