------------------------------ MODULE AltLlist ------------------------------
(***************************************************************************)
(* The doubly linked lists of the HAL (sys/alt_llist.h): alarms, devices,  *)
(* file systems and msgdma instances are kept in them.  A list is a record *)
(* of two pointer functions over the entries and a head element.           *)
(***************************************************************************)
EXTENDS Naturals

\* ALT_LLIST_HEAD: the head of an empty list points to itself.  An entry that
\* was never inserted is shown the same way.
EmptyList(E) == [next |-> [e \in E |-> e], previous |-> [e \in E |-> e]]

alt_llist_insert(L, list, entry) ==
  [next |-> [L.next EXCEPT ![entry] = L.next[list], ![list] = entry],
   previous |-> [[L.previous EXCEPT ![entry] = list]
                              EXCEPT ![L.next[list]] = entry]]

\* A removed entry points to itself, so that removing it again is harmless.
\* (DanglingBug: it keeps its old pointers.)
DanglingBug(L, entry) == L
SelfPointing(L, entry) ==
  [next |-> [L.next EXCEPT ![entry] = entry],
   previous |-> [L.previous EXCEPT ![entry] = entry]]
alt_llist_remove(L, entry) ==
  SelfPointing(
    [next |-> [L.next EXCEPT ![L.previous[entry]] = L.next[entry]],
     previous |-> [L.previous EXCEPT ![L.next[entry]] = L.previous[entry]]],
    entry)

\* One ring through the head and exactly the entries of S, both ways: what can
\* be reached from the head along next is all of them.
Ring(L, list, S) ==
  LET E == S \cup {list} IN
  /\ \A e \in E : /\ L.next[e] \in E /\ L.previous[L.next[e]] = e
                  /\ L.previous[e] \in E /\ L.next[L.previous[e]] = e
  /\ \A T \in SUBSET E : list \in T /\ (\A e \in T : L.next[e] \in T) => T = E
=============================================================================
