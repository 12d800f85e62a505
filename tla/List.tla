-------------------------------- MODULE List --------------------------------
(***************************************************************************)
(* The intrusive doubly linked list of macos_compat/linux/list.h.  Its     *)
(* callers hold a lock, so an operation is one step; what interleaves are  *)
(* the loops list_for_each and list_for_each_safe and the operations that  *)
(* their bodies perform on the lists, any number of them in each round.    *)
(*                                                                         *)
(* No file of the repository uses a list yet, so the callers are the API's:*)
(* they add only what is on no list, delete only what is linked, and never *)
(* delete the element from which the loop will go on.                      *)
(***************************************************************************)
EXTENDS Naturals, Sequences, FiniteSets, SequencesExt

CONSTANTS
  Heads,   \* list heads, set up by LIST_HEAD or INIT_LIST_HEAD
  Nodes,   \* the list_head members of the objects put on lists
  NULL

Elements == Heads \cup Nodes

ASSUME ListAssumption ==
  /\ Heads \cap Nodes = {}
  /\ NULL \notin Elements
  /\ IsFiniteSet(Nodes)

VARIABLES
  next, prev,   \* the two pointers of every element
  phase,        \* "none", "body" in a round of a loop, or "crashed" on a NULL
  safe,         \* the loop is list_for_each_safe
  head, pos, n, \* the loop's variables; n only if safe
  visited,      \* nodes for which the latest loop has run its body
  due           \* nodes on the list since the loop began and not yet visited

loopVars == <<phase, safe, head, pos, n, visited, due>>
vars == <<next, prev, loopVars>>

\* Unused pointers are NULL: list_del leaves them so, and what a node never
\* put on a list holds is not read.
PointersOK ==
  /\ next \in [Elements -> Elements \cup {NULL}]
  /\ prev \in [Elements -> Elements \cup {NULL}]

TypeOK ==
  /\ PointersOK
  /\ phase \in {"none", "body", "crashed"}
  /\ safe \in BOOLEAN
  /\ head \in Heads
  /\ pos \in Elements /\ n \in Elements
  /\ visited \subseteq Nodes /\ due \subseteq Nodes

Init ==
  /\ next = [e \in Elements |-> IF e \in Heads THEN e ELSE NULL]
  /\ prev = next
  /\ phase = "none" /\ safe = FALSE
  /\ head \in Heads
  /\ pos = head /\ n = head
  /\ visited = {} /\ due = {}

Linked(e) == next[e] # NULL
Free(e) == next[e] \in {e, NULL}

\* A head and the nodes of a sequence in a ring: the node at position i, or
\* the head in front of the first and behind the last.
Entry(h, s, i) == IF i \in DOMAIN s THEN s[i] ELSE h

\* The pointers next lead from h through the nodes of s and back to h.
Holds(h, s) == \A i \in 0..Len(s) : next[Entry(h, s, i)] = Entry(h, s, i + 1)

\* The list's contents, if its pointers come back to its head.
Contents(h) ==
  LET held == {s \in BoundedSeq(Nodes, Cardinality(Nodes)) : Holds(h, s)}
  IN IF held = {} THEN <<NULL>> ELSE CHOOSE s \in held : TRUE

Members(h) == Nodes \cap ToSet(Contents(h))

-----------------------------------------------------------------------------
(* The operations of list.h; EXCEPT makes the assignments in their order. *)

INIT_LIST_HEAD(list) ==
  /\ next' = [next EXCEPT ![list] = list]
  /\ prev' = [prev EXCEPT ![list] = list]

\* Mutation of __list_add: the neighbour behind is not told of the new node.
__list_add_OneWay(new_node, before, behind) ==
  /\ prev' = [prev EXCEPT ![new_node] = before]
  /\ next' = [next EXCEPT ![new_node] = behind, ![before] = new_node]

__list_add(new_node, before, behind) ==
  /\ prev' = [prev EXCEPT ![behind] = new_node, ![new_node] = before]
  /\ next' = [next EXCEPT ![new_node] = behind, ![before] = new_node]

list_add(new_node, at) == __list_add(new_node, at, next[at])

\* Mutation of list_add_tail: the new node goes to the front.
list_add_tail_Front(new_node, at) == __list_add(new_node, at, next[at])

list_add_tail(new_node, at) == __list_add(new_node, prev[at], at)

\* Mutation of list_del: the node in front keeps its pointer to the deleted one.
list_del_KeepsNext(entry) ==
  /\ prev' = [prev EXCEPT ![next[entry]] = prev[entry], ![entry] = NULL]
  /\ next' = [next EXCEPT ![entry] = NULL]

list_del(entry) ==
  /\ prev' = [prev EXCEPT ![next[entry]] = prev[entry], ![entry] = NULL]
  /\ next' = [next EXCEPT ![prev[entry]] = next[entry], ![entry] = NULL]

list_empty(h) == next[h] = h

\* list_first_entry, called when the list is not empty.
list_first_entry(h) == next[h]

-----------------------------------------------------------------------------
(* Callers *)

\* What a body must leave on the list: the element that the loop goes on from.
Keeps(entry) == phase = "body" => entry # IF safe THEN n ELSE pos

\* A body may move a visited node to another list, not back to its own.
NotRevisited(new_node, at) ==
  phase = "body" /\ new_node \in visited => at # head /\ at \notin Members(head)

InitNode(new_node) ==
  /\ phase # "crashed"
  /\ Free(new_node)
  /\ INIT_LIST_HEAD(new_node)
  /\ UNCHANGED loopVars

MayAdd(new_node, at) ==
  /\ phase # "crashed"
  /\ Free(new_node) /\ Linked(at) /\ new_node # at
  /\ NotRevisited(new_node, at)

Add(new_node, at) ==
  /\ MayAdd(new_node, at)
  /\ list_add(new_node, at)
  /\ UNCHANGED loopVars

AddTail(new_node, at) ==
  /\ MayAdd(new_node, at)
  /\ list_add_tail(new_node, at)
  /\ UNCHANGED loopVars

Delete(entry) ==
  /\ phase # "crashed"
  /\ Linked(entry) /\ Keeps(entry)
  /\ list_del(entry)
  /\ due' = due \ {entry}
  /\ UNCHANGED <<phase, safe, head, pos, n, visited>>

\* One round of: while (!list_empty(h)) list_del(list_first_entry(h)).
Drain(h) ==
  /\ phase = "none"
  /\ ~list_empty(h)
  /\ list_del(list_first_entry(h))
  /\ UNCHANGED loopVars

-----------------------------------------------------------------------------
(* list_for_each and list_for_each_safe *)

\* Mutation of Enter: the loop ends one element early.
Enter_StopsShort(h, e, isSafe) ==
  /\ pos' = e
  /\ n' = IF isSafe THEN next[e] ELSE h
  /\ phase' = IF next[e] = h \/ e = h THEN "none" ELSE "body"

\* Mutation of Enter: n is set up before the first round and not advanced.
Enter_StaleN(h, e, isSafe) ==
  /\ pos' = e
  /\ n' = IF isSafe /\ phase = "none" THEN next[e] ELSE n
  /\ phase' = IF e = h THEN "none" ELSE "body"

\* The loop's variables get their next values, and the condition is tested.
Enter(h, e, isSafe) ==
  /\ pos' = e
  /\ n' = IF isSafe THEN next[e] ELSE h
  /\ phase' = IF e = h THEN "none" ELSE "body"

\* The node for which the round that begins runs the body, if any.
Round == IF phase' = "body" THEN {pos'} \cap Nodes ELSE {}

list_for_each(h, isSafe) ==
  /\ phase = "none"
  /\ head' = h
  /\ safe' = isSafe
  /\ Enter(h, next[h], isSafe)
  /\ visited' = Round
  /\ due' = Members(h) \ Round
  /\ UNCHANGED <<next, prev>>

\* Mutation of Following: list_for_each_safe reads pos->next after the body.
Following_Rereads == next[pos]

Following == IF safe THEN n ELSE next[pos]

NextRound ==
  /\ phase = "body"
  /\ IF Following = NULL
     THEN /\ phase' = "crashed"
          /\ UNCHANGED <<pos, n, visited, due>>
     ELSE /\ Enter(head, Following, safe)
          /\ visited' = visited \cup Round
          /\ due' = due \ Round
  /\ UNCHANGED <<next, prev, head, safe>>

Next ==
  \/ \E e \in Nodes : InitNode(e) \/ Delete(e)
  \/ \E e \in Nodes, at \in Elements : Add(e, at) \/ AddTail(e, at)
  \/ \E h \in Heads : Drain(h)
  \/ \E h \in Heads, isSafe \in BOOLEAN : list_for_each(h, isSafe)
  \/ NextRound

Spec == Init /\ [][Next]_vars

\* A loop body comes to its end.
FairSpec == Spec /\ WF_vars(NextRound)

-----------------------------------------------------------------------------
(* Properties *)

\* The two directions agree: whatever is added and deleted, and wherever,
\* every linked element is the prev of its next and the next of its prev, and
\* a head stays linked.  So a deletion never writes through a stale pointer.
WellLinked ==
  /\ \A e \in Elements :
       /\ next[e] = NULL <=> prev[e] = NULL
       /\ next[e] # NULL => prev[next[e]] = e
       /\ prev[e] # NULL => next[prev[e]] = e
  /\ \A h \in Heads : Linked(h)

\* The node at position i of a list is deleted.
Removes(h, i) ==
  \/ i > 0 /\ Delete(Entry(h, Contents(h), i))
  \/ i = 1 /\ Drain(h)

Inserts(h, i, e) == Add(e, Entry(h, Contents(h), i)) \/ AddTail(e, Entry(h, Contents(h), i))

KeepsContents(h) ==
  LET list == Contents(h)
      behind(i) == IF i = 0 THEN Len(list) + 1 ELSE i
  IN /\ \A e \in Nodes, i \in 0..Len(list) :
          /\ Add(e, Entry(h, list, i)) => Contents(h)' = InsertAt(list, i + 1, e)
          /\ AddTail(e, Entry(h, list, i)) => Contents(h)' = InsertAt(list, behind(i), e)
          /\ Removes(h, i) => Contents(h)' = RemoveAt(list, i)
     /\ \/ \E e \in Nodes, i \in 0..Len(list) : Inserts(h, i, e) \/ Removes(h, i)
        \/ Contents(h)' = list

\* "Functionally equivalent" to the list of Linux: list_add puts a node behind
\* the element it is given and list_add_tail in front of it, which at a head
\* are the two ends of the list; list_del takes out the node it is given; and
\* nothing else changes the contents of any list.
OperationsKeepContents == [][\A h \in Heads : KeepsContents(h)]_vars

\* Neither loop follows a NULL, whatever its body does with the elements that
\* it may delete, the one it stands on included in list_for_each_safe.
NoNullWalk == phase # "crashed"

\* A loop that has ended has visited every node that was on the list when it
\* began and was not deleted meanwhile.
WalkComplete == phase = "none" => due = {}

\* A loop runs its body at most once for a node, also when the body deletes
\* nodes, moves them to other lists or adds new ones.
VisitsOnce == [][NextRound /\ phase' = "body" => pos' \notin visited]_vars

\* A loop ends, as what its body adds is finite.
WalkEnds == phase = "body" ~> phase = "none"
=============================================================================
