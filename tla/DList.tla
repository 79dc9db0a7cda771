------------------------------- MODULE DList -------------------------------
(***************************************************************************)
(* concurrencpp::details::dlist (src/include/concurrencpp/utils/dlist.h): *)
(* an intrusive doubly-linked list.  The list owns only m_head; each node  *)
(* carries its own next and prev pointers.  A list value here is a record  *)
(* [head, next, prev] where next and prev are functions from nodes to      *)
(* nodes or Nil, so that one record holds the head and every node's links. *)
(***************************************************************************)
EXTENDS Naturals, Sequences, FiniteSets

CONSTANTS Nodes, Nil

\* An empty list over Nodes with every node's links null.
EmptyList == [head |-> Nil, next |-> [n \in Nodes |-> Nil],
              prev |-> [n \in Nodes |-> Nil]]

\* A node object freshly constructed: next = prev = nullptr.
FreshNode(L, n) == [L EXCEPT !.next[n] = Nil, !.prev[n] = Nil]

\* push_front: link n before the current head, then make it the head.
PushFront(L, n) ==
    IF L.head # Nil
    THEN [L EXCEPT !.prev[L.head] = n, !.next[n] = L.head, !.head = n]
    ELSE [L EXCEPT !.head = n]

\* The first half of remove_node: unlink n from its predecessor, or move
\* the head past it.
UnlinkPrev(L, n) ==
    IF L.prev[n] # Nil
    THEN [L EXCEPT !.next[L.prev[n]] = L.next[n]]
    ELSE [L EXCEPT !.head = L.next[n]]

\* The second half: unlink n from its successor.
UnlinkNext(L, n) ==
    IF L.next[n] # Nil
    THEN [L EXCEPT !.prev[L.next[n]] = L.prev[n]]
    ELSE L

\* Mutant of RemoveNode: the successor's prev pointer is not updated.
RemoveNodeKeepPrev(L, n) == UnlinkPrev(L, n)

\* remove_node, whose two halves run in this order.  The removed node's own
\* links are left as they were.
RemoveNode(L, n) == UnlinkNext(UnlinkPrev(L, n), n)

\* The assertion at the top of remove_node: the list is not empty and the
\* node has a neighbour.
RemoveNodeAsserts(L, n) == L.head # Nil /\ (L.prev[n] # Nil \/ L.next[n] # Nil)

\* The nodes for_each visits, in order: follow next from the head.  The
\* walk stops after as many steps as there are nodes, so that a corrupted
\* (cyclic) list still yields a finite sequence, one longer than any
\* well-formed list can be.
RECURSIVE WalkFrom(_, _, _)
WalkFrom(L, c, k) ==
    IF c = Nil \/ k = 0 THEN <<>> ELSE <<c>> \o WalkFrom(L, L.next[c], k - 1)

Walk(L) == WalkFrom(L, L.head, Cardinality(Nodes) + 1)

\* L is a well-formed list of exactly the nodes in S: walking next from the
\* head visits each of them once, and every prev pointer is the inverse of
\* the next pointer that leads to it.
IsListOf(L, S) ==
    LET w == Walk(L) IN
    /\ Len(w) = Cardinality(S)
    /\ {w[i] : i \in DOMAIN w} = S
    /\ L.head # Nil => L.prev[L.head] = Nil
    /\ \A i \in 1..(Len(w) - 1) : L.prev[w[i + 1]] = w[i]

=============================================================================
