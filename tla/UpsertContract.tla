--------------------------- MODULE UpsertContract ---------------------------
(***************************************************************************)
(* What the embed job relies on when it stores vectors through the Lance   *)
(* writer: an upsert that reports success has stored its row, it reports   *)
(* once, and nothing is stored that nobody asked for.  An upsert that      *)
(* reports an error promises nothing: its row may have been stored, may be *)
(* stored later, or never.                                                 *)
(***************************************************************************)
CONSTANT Tracks

VARIABLES
  asked,   \* tracks some worker has asked to store
  stored,  \* tracks whose row is in the table
  answer   \* what the upsert of each track returned, "none" until it does

vars == <<asked, stored, answer>>

Init ==
  /\ asked = {} /\ stored = {}
  /\ answer = [t \in Tracks |-> "none"]

Ask(t) ==
  /\ t \notin asked
  /\ asked' = asked \cup {t}
  /\ UNCHANGED <<stored, answer>>

\* An upsert that is refused before its row is taken over.
Refuse(t) ==
  /\ t \notin asked
  /\ asked' = asked \cup {t}
  /\ answer' = [answer EXCEPT ![t] = "error"]
  /\ UNCHANGED stored

\* A batch reaches the table as a whole.
Store(S) ==
  /\ S # {} /\ S \subseteq asked \ stored
  /\ stored' = stored \cup S
  /\ UNCHANGED <<asked, answer>>

Answer(t, r) ==
  /\ t \in asked /\ answer[t] = "none"
  /\ r = "ok" => t \in stored
  /\ answer' = [answer EXCEPT ![t] = r]
  /\ UNCHANGED <<asked, stored>>

Next ==
  \/ \E t \in Tracks : Ask(t) \/ Refuse(t)
  \/ \E S \in SUBSET Tracks : Store(S)
  \/ \E t \in Tracks, r \in {"ok", "error"} : Answer(t, r)

Spec == Init /\ [][Next]_vars

=============================================================================
