------------------------------ MODULE QueueOps ------------------------------
(***************************************************************************)
(* Pure operations on a play queue, as the session worker uses them: drop  *)
(* a track from the queue (filterOut), split it into the pinned and the    *)
(* automatic part (splitQueue), truncate it.  The order-preserving filter  *)
(* Only is written with positions instead of SelectSeq so that its range   *)
(* and its length are within reach of a proof (SessionQueue_proofs).       *)
(***************************************************************************)
EXTENDS Naturals, Sequences, FiniteSets, Functions

\* The k-th smallest member of a finite set of positions.
Nth(I, k) == CHOOSE i \in I : Cardinality({j \in I : j <= i}) = k

\* The positions of s that hold a member of S.
Positions(s, S) == {i \in 1..Len(s) : s[i] \in S}

\* The subsequence of s made of the members of S, in the order of s.
Only(s, S) ==
  LET I == Positions(s, S)
  IN  [k \in 1..Cardinality(I) |-> s[Nth(I, k)]]

\* filterOut: s without any occurrence of the track t.
Without(s, t) == Only(s, Range(s) \ {t})

\* s[:n], or s itself when it is shorter.
Take(s, n) == SubSeq(s, 1, IF Len(s) < n THEN Len(s) ELSE n)

\* Mutant: one entry more than the cap survives.
PushOneTooMany(s, e, n) ==
  LET t == Append(s, e)
  IN  IF Len(t) > n + 1 THEN SubSeq(t, Len(t) - n, Len(t)) ELSE t

\* Append e to s and keep only the n newest entries.
PushCapped(s, e, n) ==
  LET t == Append(s, e)
  IN  IF Len(t) > n THEN SubSeq(t, Len(t) - n + 1, Len(t)) ELSE t

IsDuplicateFree(s) == \A i, j \in 1..Len(s) : s[i] = s[j] => i = j

=============================================================================
