------------------------------- MODULE CanDriver -------------------------------
(***************************************************************************)
(* The CAN driver (components/drivers/sdk_can.c): opening and closing,     *)
(* the queue of received messages, and the list of handlers by CAN id.     *)
(* The queue is the ring of RxRing with interrupts masked on both sides    *)
(* and counts as the queue that ring implements.                           *)
(***************************************************************************)
EXTENDS ObjList

CONSTANTS
  Cans,        \* the controllers
  CanTables,   \* table -> its entries, in order
  TableOf,     \* table -> the only controller it is registered with
  CanId,       \* entry -> its canid
  MqLen,       \* SDK_CAN_RX_MQ_LEN
  MaxMessages, \* bound: messages each controller receives
  MaxOpens     \* bound: how often a controller is opened

ASSUME CanTablesAreLists ==
  /\ IsFiniteSet(Cans) /\ IsFiniteSet(DOMAIN CanTables)
  /\ NONE \notin Cans
  /\ \A t \in DOMAIN CanTables :
       /\ CanTables[t] \in Seq(ToSet(CanTables[t]))
       /\ ToSet(CanTables[t]) \cap (Cans \cup {NONE}) = {}
  /\ MqLen \in Nat \ {0, 1}

\* No entry is in two tables, or twice in one: it has one next pointer.
ASSUME TablesAreSeparate ==
  \A t, u \in DOMAIN CanTables :
    \A i \in DOMAIN CanTables[t], j \in DOMAIN CanTables[u] :
      CanTables[t][i] = CanTables[u][j] => t = u /\ i = j

VARIABLES
  can_state,   \* can->state, and how often it was opened
  can_next,    \* the next pointers of entries and heads
  can_dev,     \* can->can_dev: the table it was registered with last
  registered,  \* per controller, the tables in the order they were registered
  rx_mq,       \* messages received and not read: [id, n]
  can_sent,    \* how many messages each controller received
  handled      \* what handlers were called with: [entry, dev, n]

can_vars == <<can_state, can_next, can_dev, registered, rx_mq, can_sent, handled>>

Entries == UNION {ToSet(CanTables[t]) : t \in DOMAIN CanTables}
CanIds == {CanId[e] : e \in Entries}

CanInit ==
  /\ can_state = [c \in Cans |-> [state |-> "CAN_UNINIT", opens |-> 0]]
  /\ can_next = [e \in Entries \cup Cans |-> NONE]
  /\ can_dev = [c \in Cans |-> NONE]
  /\ registered = [c \in Cans |-> <<>>]
  /\ rx_mq = [c \in Cans |-> <<>>]
  /\ can_sent = [c \in Cans |-> 0]
  /\ handled = [c \in Cans |-> <<>>]

\* ops.open and ops.close may fail; open leaves an opened controller alone.
sdk_can_open(c) ==
  /\ can_state[c].state = "CAN_UNINIT"
  /\ can_state[c].opens < MaxOpens
  /\ can_state' = [can_state EXCEPT ![c] = [state |-> "CAN_READY", opens |-> @.opens + 1]]
  /\ UNCHANGED <<can_next, can_dev, registered, rx_mq, can_sent, handled>>

sdk_can_close(c) ==
  /\ can_state' = [can_state EXCEPT ![c].state = "CAN_UNINIT"]
  /\ UNCHANGED <<can_next, can_dev, registered, rx_mq, can_sent, handled>>

\* The interrupt, which an open controller raises.
sdk_can_rx_isr(c) ==
  /\ can_state[c].state = "CAN_READY"
  /\ can_sent[c] < MaxMessages[c]
  /\ can_sent' = [can_sent EXCEPT ![c] = @ + 1]
  /\ \E id \in CanIds :
       rx_mq' = [rx_mq EXCEPT ![c] =
         Append(IF Len(@) < MqLen - 1 THEN @ ELSE Tail(@), [id |-> id, n |-> can_sent[c] + 1])]
  /\ UNCHANGED <<can_state, can_next, can_dev, registered, handled>>

\* Mutant: the first entry, whatever its id.
AnyTableObj(c, id) == FirstMatch(can_next, c, Entries)

get_canid_table_obj(c, id) == FirstMatch(can_next, c, {e \in Entries : CanId[e] = id})

sdk_can_msg_parse(c, msg) ==
  LET entry == get_canid_table_obj(c, msg.id) IN
  handled' = [handled EXCEPT ![c] =
    IF entry = NONE THEN @
    ELSE Append(@, [entry |-> entry, dev |-> can_dev[c], id |-> msg.id, n |-> msg.n])]

\* The oldest message; the state does not matter to it.
sdk_can_read(c) ==
  /\ rx_mq[c] # <<>>
  /\ rx_mq' = [rx_mq EXCEPT ![c] = Tail(@)]

sdk_can_recv_poll(c) ==
  /\ sdk_can_read(c)
  /\ sdk_can_msg_parse(c, Head(rx_mq[c]))
  /\ UNCHANGED <<can_state, can_next, can_dev, registered, can_sent>>

\* At any time, and again with the same table.
sdk_can_register(c, t) ==
  /\ TableOf[t] = c
  /\ can_next' = Register(can_next, c, CanTables[t])
  /\ can_dev' = [can_dev EXCEPT ![c] = t]
  /\ registered' = [registered EXCEPT ![c] = IF Contains(@, t) THEN @ ELSE Append(@, t)]
  /\ UNCHANGED <<can_state, rx_mq, can_sent, handled>>

CanNext ==
  \E c \in Cans :
    \/ sdk_can_open(c)
    \/ sdk_can_close(c)
    \/ sdk_can_rx_isr(c)
    \/ sdk_can_recv_poll(c)
    \/ \E t \in DOMAIN CanTables : sdk_can_register(c, t)

CanSpec == CanInit /\ [][CanNext]_can_vars

--------------------------------------------------------------------------------
(* Properties                                                              *)

\* However tables are registered, and however often: the list of a controller
\* is the tables that were registered with it, in that order, each entry once,
\* and nothing of another controller's.  (True of tables that are registered
\* with one controller only: a shared entry has one next pointer for two lists.)
ListIsWhatWasRegistered ==
  \A c \in Cans :
    Tail(Chain(can_next, c)) =
      FlattenSeq([i \in DOMAIN registered[c] |-> CanTables[registered[c][i]]])

\* Messages reach handlers in the order they were received in, each once and
\* only those whose id is registered; the ones an overrun costs are the oldest.
MessagesInOrder ==
  \A c \in Cans :
    /\ \A i \in DOMAIN handled[c] :
         /\ CanId[handled[c][i].entry] = handled[c][i].id
         /\ i > 1 => handled[c][i - 1].n < handled[c][i].n
    /\ \A i \in DOMAIN rx_mq[c] : rx_mq[c][i].n = can_sent[c] - Len(rx_mq[c]) + i
================================================================================
