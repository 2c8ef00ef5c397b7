-------------------------------- MODULE ObjList --------------------------------
(***************************************************************************)
(* The lists of handlers that sdk_can.c and components/device/at_device.c  *)
(* keep: singly linked through the entries of the caller's tables, with a  *)
(* head that is an entry nobody registered.  Operators on next, a function *)
(* from entries and heads to entries or NONE.                              *)
(***************************************************************************)
EXTENDS Naturals, Sequences, SequencesExt

CONSTANT NONE

\* The nodes on the way from node to the end.  A list that ran into itself
\* would show as a chain as long as there are nodes.
Chain(next, node) ==
  LET N == Cardinality(DOMAIN next)
      at[k \in 0 .. N] ==
        IF k = 0 THEN node ELSE IF at[k - 1] = NONE THEN NONE ELSE next[at[k - 1]]
  IN  [k \in 1 .. Cardinality({j \in 0 .. N : at[j] # NONE}) |-> at[k - 1]]

\* Mutant: the node goes behind the head, whatever follows it.
LinkLosesRest(next, head, entry) == [next EXCEPT ![head] = entry]

\* `while (current->next != NULL)`: behind the last node.
Link(next, head, entry) == [next EXCEPT ![Last(Chain(next, head))] = entry]

\* One turn of the loop over a table: an entry that is in the list is skipped.
AddEntry(next, head, entry) ==
  IF Contains(Chain(next, head), entry) THEN next ELSE Link(next, head, entry)

\* sdk_can_register and at_obj_set_urc_table: a table is a sequence of entries.
Register(next, head, table) ==
  LET after[k \in 0 .. Len(table)] ==
        IF k = 0 THEN next ELSE AddEntry(after[k - 1], head, table[k])
  IN  after[Len(table)]

\* get_canid_table_obj, get_urc_obj: the first entry that is one of matching.
FirstMatch(next, head, matching) ==
  LET chain == Chain(next, head)
      found == {k \in 2 .. Len(chain) : chain[k] \in matching}
  IN  IF found = {} THEN NONE ELSE chain[Min(found)]
================================================================================
