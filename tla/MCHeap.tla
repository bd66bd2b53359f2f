------------------------------- MODULE MCHeap -------------------------------
(* The small instance of Heap that Heap.cfg checks: two objects, so every   *)
(* graph of references among two, the cycles of one and of two included.    *)
EXTENDS Heap
=============================================================================
