-------------------------------- MODULE List --------------------------------
(***************************************************************************)
(* list.c: a singly linked list whose List header and ListNode nodes live *)
(* on the kernel heap.  `list` is the caller's List* (NULL or the header's *)
(* fields), `next` and `data` are the fields of every node address, and   *)
(* `held` is the set of node addresses the list has allocated and not yet *)
(* freed.  heap_alloc is abstracted to its contract: it returns a node    *)
(* address nobody holds, or NULL at any time.  The heap allocator itself  *)
(* is modelled in Heap.tla.  Freeing a node leaves its fields as they     *)
(* were: heap_free does not touch the payload.  `call` is a history     *)
(* variable naming the call each step makes; it only serves the          *)
(* refinement check against ListSpec.                                    *)
(***************************************************************************)
EXTENDS Integers, SequencesExt

CONSTANTS Data,       \* the data pointers callers store
          Nodes,      \* the addresses heap_alloc can return for a ListNode
          NULL,
          FreeFuncs,  \* the free_func arguments callers pass
          MaxIndex    \* the largest index a caller passes

ASSUME NULL \notin Nodes /\ MaxIndex \in Nat

VARIABLES list, next, data, held, ret, call

vars == <<list, next, data, held, ret, call>>

NodeRef == Nodes \cup {NULL}

\* Every walk in list.c stops at NULL; a well-formed list has at most one
\* node per address, so this many steps reach the end.
MaxSteps == Cardinality(Nodes) + 1

\* The node reached from n by k `current = current->next` steps.
RECURSIVE Follow(_, _)
Follow(n, k) == IF k = 0 \/ n = NULL THEN n ELSE Follow(next[n], k - 1)

\* The nodes a `while (current)` loop from n visits, in order.
RECURSIVE Reach(_, _)
Reach(n, k) == IF n = NULL \/ k = 0 THEN << >> ELSE <<n>> \o Reach(next[n], k - 1)

Chain == IF list = NULL THEN << >> ELSE Reach(list.head, MaxSteps)

Contents == [i \in 1..Len(Chain) |-> data[Chain[i]]]

\* list_size: 0 for a NULL list.
Size == IF list = NULL THEN 0 ELSE list.size

EmptyList == [head |-> NULL, tail |-> NULL, size |-> 0]

\* An int-returning call that returns -1 and changes nothing.
Fail ==
  /\ ret' = -1
  /\ UNCHANGED <<list, next, data, held>>

Init ==
  /\ list = NULL
  /\ next = [n \in Nodes |-> NULL]
  /\ data = [n \in Nodes |-> CHOOSE d \in Data : TRUE]
  /\ held = {}
  /\ ret = 0
  /\ call = << >>

\* Mutant: the header's size field is left as heap_alloc found it.
ListCreateUninit ==
  /\ list = NULL
  /\ \E garbage \in 0..MaxSteps : list' = [EmptyList EXCEPT !.size = garbage]
  /\ UNCHANGED <<next, data, held, ret>>

\* list_create, when heap_alloc succeeds (on failure the caller's pointer
\* stays NULL: a stuttering step).
ListCreate ==
  /\ list = NULL
  /\ list' = EmptyList
  /\ UNCHANGED <<next, data, held, ret>>

\* Mutant: the header's size is not reset.
ListClearKeepsSize ==
  /\ list # NULL
  /\ held' = held \ ToSet(Chain)
  /\ list' = [list EXCEPT !.head = NULL, !.tail = NULL]
  /\ UNCHANGED <<next, data, ret>>

\* list_clear: free every node reachable from head, then reset the header.
ListClear ==
  /\ list # NULL
  /\ held' = held \ ToSet(Chain)
  /\ list' = EmptyList
  /\ UNCHANGED <<next, data, ret>>

\* list_clear_with_data returns early when free_func is NULL (a stuttering
\* step); otherwise it is list_clear plus free_func on each datum, which the
\* caller owns.
ListClearWithData(f) ==
  /\ f # NULL
  /\ ListClear

\* list_destroy: list_clear, then heap_free of the header.
ListDestroy ==
  /\ list # NULL
  /\ held' = held \ ToSet(Chain)
  /\ list' = NULL
  /\ UNCHANGED <<next, data, ret>>

\* list_destroy_with_data: list_clear_with_data, which does nothing when
\* free_func is NULL, then heap_free of the header regardless.
ListDestroyWithData(f) ==
  /\ list # NULL
  /\ held' = IF f = NULL THEN held ELSE held \ ToSet(Chain)
  /\ list' = NULL
  /\ UNCHANGED <<next, data, ret>>

\* list_add: on a NULL list or a failed heap_alloc return -1; otherwise
\* link a fresh node after tail.
ListAdd(d) ==
  \/ Fail
  \/ /\ list # NULL
     /\ \E n \in Nodes \ held :
          /\ held' = held \cup {n}
          /\ data' = [data EXCEPT ![n] = d]
          /\ next' = IF list.size = 0 THEN [next EXCEPT ![n] = NULL]
                     ELSE [next EXCEPT ![n] = NULL, ![list.tail] = n]
          /\ list' = [head |-> IF list.size = 0 THEN n ELSE list.head,
                      tail |-> n, size |-> list.size + 1]
          /\ ret' = 0

\* Mutant: tail is left pointing at the removed node.
UnlinkKeepsTail(c, i) ==
  LET cur  == c[i]
      prev == IF i = 1 THEN NULL ELSE c[i - 1]
  IN /\ next' = IF prev = NULL THEN next ELSE [next EXCEPT ![prev] = next[cur]]
     /\ list' = [list EXCEPT !.head = IF prev = NULL THEN next[cur] ELSE @,
                             !.size = @ - 1]
     /\ held' = held \ {cur}
     /\ ret' = 0
     /\ UNCHANGED data

\* Unlink the node at position i (1-based) of the chain c and free it.
Unlink(c, i) ==
  LET cur  == c[i]
      prev == IF i = 1 THEN NULL ELSE c[i - 1]
  IN /\ next' = IF prev = NULL THEN next ELSE [next EXCEPT ![prev] = next[cur]]
     /\ list' = [head |-> IF prev = NULL THEN next[cur] ELSE list.head,
                 tail |-> IF cur = list.tail THEN prev ELSE list.tail,
                 size |-> list.size - 1]
     /\ held' = held \ {cur}
     /\ ret' = 0
     /\ UNCHANGED data

\* The positions of the chain c whose node stores d.
Hits(c, d) == {i \in 1..Len(c) : data[c[i]] = d}

\* Mutant: the scan does not stop at the first match and unlinks the last.
ListRemoveLast(d) ==
  \/ /\ Size = 0 \/ Hits(Chain, d) = {}
     /\ Fail
  \/ /\ Size # 0 /\ Hits(Chain, d) # {}
     /\ Unlink(Chain, Max(Hits(Chain, d)))

\* list_remove: unlink the first node whose data is d.
ListRemove(d) ==
  \/ /\ Size = 0 \/ Hits(Chain, d) = {}
     /\ Fail
  \/ /\ Size # 0 /\ Hits(Chain, d) # {}
     /\ Unlink(Chain, Min(Hits(Chain, d)))

\* list_remove_at_index: index 0 moves head; any other index walks to the
\* node before it and bypasses its successor.
ListRemoveAtIndex(i) ==
  \/ /\ i >= Size
     /\ Fail
  \/ /\ i = 0 /\ i < Size
     /\ list' = [head |-> next[list.head],
                 tail |-> IF list.size = 1 THEN NULL ELSE list.tail,
                 size |-> list.size - 1]
     /\ held' = held \ {list.head}
     /\ ret' = 0
     /\ UNCHANGED <<next, data>>
  \/ /\ 0 < i /\ i < Size
     /\ LET cur == Follow(list.head, i - 1)
            rm  == next[cur]
        IN /\ next' = [next EXCEPT ![cur] = next[rm]]
           /\ list' = [list EXCEPT !.tail = IF rm = list.tail THEN cur ELSE @,
                                   !.size = @ - 1]
           /\ held' = held \ {rm}
           /\ ret' = 0
           /\ UNCHANGED data

\* list_set: walk index steps from head and overwrite the datum.
ListSet(i, d) ==
  \/ /\ i >= Size
     /\ Fail
  \/ /\ i < Size
     /\ data' = [data EXCEPT ![Follow(list.head, i)] = d]
     /\ ret' = 0
     /\ UNCHANGED <<list, next, held>>

Next ==
  \/ ListCreate /\ call' = <<"create">>
  \/ ListClear /\ call' = <<"clear">>
  \/ ListDestroy /\ call' = <<"destroy">>
  \/ \E f \in FreeFuncs :
       \/ ListClearWithData(f) /\ call' = <<"clear">>
       \/ ListDestroyWithData(f) /\ call' = <<"destroy">>
  \/ \E d \in Data :
       \/ ListAdd(d) /\ call' = <<"add", d>>
       \/ ListRemove(d) /\ call' = <<"remove", d>>
  \/ \E i \in 0..MaxIndex :
       \/ ListRemoveAtIndex(i) /\ call' = <<"remove_at", i>>
       \/ \E d \in Data : ListSet(i, d) /\ call' = <<"set", i, d>>

Spec == Init /\ [][Next]_vars

(***************************************************************************)
(* Properties.                                                             *)
(***************************************************************************)
TypeOK ==
  /\ list \in {NULL} \cup [head : NodeRef, tail : NodeRef, size : 0..Cardinality(Nodes)]
  /\ next \in [Nodes -> NodeRef]
  /\ data \in [Nodes -> Data]
  /\ held \subseteq Nodes
  /\ ret \in {0, -1}

\* The header agrees with the node chain and with the heap, whatever
\* sequence of adds, removes, sets and clears ran: the walk from head ends
\* in NULL after exactly size distinct nodes, tail is the last of them, and
\* the nodes the list has allocated and not freed are exactly those nodes
\* (none leaked, none freed while still linked).  With no list, no node is
\* still allocated.
ListWellFormed ==
  IF list = NULL THEN held = {}
  ELSE /\ Len(Chain) = list.size
       /\ Follow(list.head, list.size) = NULL
       /\ IsInjective(Chain)
       /\ ToSet(Chain) = held
       /\ list.tail = IF list.size = 0 THEN NULL ELSE Last(Chain)

\* list.c implements ListSpec: read through the node chain, every call
\* changes the sequence of data and returns 0 or -1 exactly as the abstract
\* list does (first occurrence removed, index counted from 0, failures
\* change nothing).
Abstract == INSTANCE ListSpec WITH exists <- list # NULL, seq <- Contents

ListRefinesSpec == Abstract!Spec

=============================================================================
