------------------------------- MODULE EventList -------------------------------
(***************************************************************************)
(* The list scheduler (event_scheduler.c) on the doubly linked list of     *)
(* sdk_dlist.c.  The main loop puts nodes and executes them; a handler may *)
(* put its own node again, and others.  The code keeps no interrupt out    *)
(* and does not know whether a node is in the list, so callers are assumed *)
(* to put from the main loop, and only nodes that are not queued.          *)
(***************************************************************************)
EXTENDS Naturals, Sequences, SequencesExt

CONSTANTS EventNodes, HEAD

ASSUME ElNodes == IsFiniteSet(EventNodes) /\ HEAD \notin EventNodes

VARIABLES
  dlist,     \* the prev and next pointers
  el_pos,    \* list_pos of event_sched_execute
  el_tmp,    \* list_tmp: the node after it, read before the handler runs
  el_pc,     \* whether the main loop is in event_sched_execute, in a handler
  el_due,    \* the nodes that were queued when the call began
  el_ran     \* the nodes it has executed

el_vars == <<dlist, el_pos, el_tmp, el_pc, el_due, el_ran>>

DNodes == EventNodes \cup {HEAD}

sdk_dlist_init(d, node) == [next |-> [d.next EXCEPT ![node] = node],
                            prev |-> [d.prev EXCEPT ![node] = node]]

sdk_dlist_insert(d, new, prev, next) ==
  [next |-> [d.next EXCEPT ![prev] = new, ![new] = next],
   prev |-> [d.prev EXCEPT ![next] = new, ![new] = prev]]

\* Mutant: the node comes at the end of the list.
InsertBefore(d, head, new) == sdk_dlist_insert(d, new, d.prev[head], head)

sdk_dlist_insert_after(d, head, new) == sdk_dlist_insert(d, new, head, d.next[head])

\* Mutant: the node after the removed one still points back to it.
RemoveOneWay(d, node) == sdk_dlist_init([d EXCEPT !.next[d.prev[node]] = d.next[node]], node)

sdk_dlist_remove(d, node) ==
  sdk_dlist_init([next |-> [d.next EXCEPT ![d.prev[node]] = d.next[node]],
                  prev |-> [d.prev EXCEPT ![d.next[node]] = d.prev[node]]], node)

sdk_dlist_is_empty(d, head) == d.next[head] = head

\* The nodes from head to head, by the next pointers.
Walk(d) ==
  LET N == Cardinality(EventNodes)
      node[k \in 1 .. N] ==
        IF k = 1 THEN d.next[HEAD]
        ELSE IF node[k - 1] = HEAD THEN HEAD ELSE d.next[node[k - 1]]
  IN  [k \in 1 .. Cardinality({j \in 1 .. N : node[j] # HEAD}) |-> node[k]]

EventListInit ==
  /\ dlist = [next |-> [n \in DNodes |-> n], prev |-> [n \in DNodes |-> n]]
  /\ el_pos = HEAD
  /\ el_tmp = HEAD
  /\ el_pc = "idle"
  /\ el_due = <<>>
  /\ el_ran = <<>>

\* From the main loop or from the handler that runs.
event_node_put(n) ==
  /\ el_pc \in {"idle", "handler"}
  /\ ~Contains(Walk(dlist), n)
  /\ dlist' = sdk_dlist_insert_after(sdk_dlist_init(dlist, n), HEAD, n)
  /\ UNCHANGED <<el_pos, el_tmp, el_pc, el_due, el_ran>>

CallSchedExecute ==
  /\ el_pc = "idle"
  /\ ~sdk_dlist_is_empty(dlist, HEAD)
  /\ el_pos' = dlist.next[HEAD]
  /\ el_tmp' = dlist.next[dlist.next[HEAD]]
  /\ el_pc' = "loop"
  /\ el_due' = Walk(dlist)
  /\ el_ran' = <<>>
  /\ UNCHANGED dlist

ExecuteNode ==
  /\ el_pc = "loop"
  /\ dlist' = sdk_dlist_remove(dlist, el_pos)
  /\ el_ran' = Append(el_ran, el_pos)
  /\ el_pc' = "handler"
  /\ UNCHANGED <<el_pos, el_tmp, el_due>>

\* pos = n, n = pos->next, and round the loop unless pos is the head.
HandlerReturns ==
  /\ el_pc = "handler"
  /\ el_pos' = el_tmp
  /\ el_tmp' = dlist.next[el_tmp]
  /\ el_pc' = IF el_tmp = HEAD THEN "idle" ELSE "loop"
  /\ UNCHANGED <<dlist, el_due, el_ran>>

event_sched_execute == CallSchedExecute \/ ExecuteNode \/ HandlerReturns

EventListNext == event_sched_execute \/ \E n \in EventNodes : event_node_put(n)

EventListSpec == EventListInit /\ [][EventListNext]_el_vars

--------------------------------------------------------------------------------
(* Properties                                                              *)

\* Whatever handlers put while the list is walked: each node's neighbours point
\* back to it, and those that are not queued are linked to themselves.
DlistWellFormed ==
  /\ \A n \in DNodes : dlist.next[dlist.prev[n]] = n /\ dlist.prev[dlist.next[n]] = n
  /\ \A n \in EventNodes : ~Contains(Walk(dlist), n) => dlist.next[n] = n

\* One call executes exactly the nodes that were queued when it began, the last
\* one put first: what handlers put, their own nodes too, waits for the next
\* call, so that a handler that puts itself again does not keep the call going.
ExecutesWhatWasQueued ==
  /\ IsPrefix(el_ran, el_due)
  /\ el_pc = "idle" => el_ran = el_due
================================================================================
