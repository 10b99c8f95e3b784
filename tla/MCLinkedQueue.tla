---------------------------- MODULE MCLinkedQueue ----------------------------
(* LinkedQueue with three pulls, two items and a queue of up to three: more *)
(* pulls than items, and more items than pulls.                             *)
EXTENDS LinkedQueue
=============================================================================
