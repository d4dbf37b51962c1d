---- MODULE MCPlayer ----
EXTENDS Player
====
