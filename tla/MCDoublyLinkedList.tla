-------------------------- MODULE MCDoublyLinkedList --------------------------
(* DoublyLinkedList on a small instance: see DoublyLinkedListEndRemoval.cfg  *)
(* and README.md.                                                            *)
EXTENDS DoublyLinkedList, TLC

Symmetry == Permutations(Element)
=============================================================================
