------------------------------ MODULE LivePush ------------------------------
(***************************************************************************)
(* The live updates of network/http_bridge.py: a browser that opens /ws is  *)
(* sent a snapshot of the node's state, one event per category, and from    *)
(* then on the categories that a watcher finds changed. Sending awaits, so  *)
(* the node of module Admission moves on between any two sends.             *)
(*                                                                          *)
(* Three of the five categories are here; reputation is, like balances,     *)
(* derived from the chain, and peers is unrelated to the other four.        *)
(***************************************************************************)
EXTENDS Admission

CONSTANTS
  Visitor    \* sockets that browsers may open; one that reconnects opens another

ASSUME VisitorAssumption == \A s \in Settings : s.visitors \subseteq Visitor

VARIABLES
  clients,   \* app["ws_clients"]: the sockets open now
  closed,    \* the sockets that closed
  greeting,  \* greeting[c]: the events of the snapshot not sent to c yet
  shown,     \* shown[c]: the last event of each category sent to c
  last,      \* app["ws_fingerprints"]
  todo,      \* push_updates: the changed categories not broadcast yet,
  event,     \* the event that is being broadcast,
  to         \* and the clients it has yet to be sent to

push == <<clients, closed, greeting, shown, last, todo, event, to>>

\* In the order of _EVENT_BUILDERS.
Categories == <<"chain", "mempool", "balances">>

Category == {"chain", "mempool", "balances"}

-----------------------------------------------------------------------------
\* The state of the node, by category.
State == [chain |-> chain, mempool |-> mempool,
          balances |-> [p \in Person |-> free(chain, p)]]

Event(category) == [type |-> category, value |-> State[category]]

\* No broadcast is going on.
Nothing == [type |-> "chain", value |-> <<>>]

\* With a bug: blocks are counted, and not told apart.
FingerprintsOf_height(s) == [s EXCEPT !.chain = Len(@)]

\* The chain is told by its length and the hash of its tip.
FingerprintsOf(s) == [s EXCEPT !.chain = Hashed(@)]

\* The categories whose fingerprint moved, in their order.
Changed(s) ==
  LET moved(k) == IF FingerprintsOf(s)[k] # last[k] THEN <<k>> ELSE <<>>
  IN  moved("chain") \o moved("mempool") \o moved("balances")

\* What c shows once it received the event e: the event replaces its category.
Replace(c, e) ==
  [shown EXCEPT ![c] = [k \in DOMAIN @ \cup {e.type} |-> IF k = e.type THEN e.value ELSE @[k]]]

-----------------------------------------------------------------------------
PushInit ==
  /\ clients = {}
  /\ closed = {}
  /\ greeting = [c \in Visitor |-> <<>>]
  /\ shown = [c \in Visitor |-> <<>>]
  /\ last = FingerprintsOf(State)
  /\ todo = <<>>
  /\ event = Nothing
  /\ to = {}

\* _ws: the socket joins the clients, and the whole snapshot is built.
Connect(c) ==
  /\ c \notin clients \cup closed
  /\ clients' = clients \cup {c}
  /\ greeting' = [greeting EXCEPT ![c] = [i \in DOMAIN Categories |-> Event(Categories[i])]]
  /\ UNCHANGED <<node, closed, shown, last, todo, event, to>>

\* _ws: the next event of the snapshot is sent.
Greet(c) ==
  /\ greeting[c] # <<>>
  /\ shown' = Replace(c, Head(greeting[c]))
  /\ greeting' = [greeting EXCEPT ![c] = Tail(@)]
  /\ UNCHANGED <<node, clients, closed, last, todo, event, to>>

\* The event that is being broadcast has yet to be sent to the clients S.
StillTo(S) == to' = S /\ event' = IF S = {} THEN Nothing ELSE event

\* The socket of c closes: it is discarded, and skipped where it is listed.
Leave(c) ==
  /\ c \in clients
  /\ clients' = clients \ {c}
  /\ closed' = closed \cup {c}
  /\ greeting' = [greeting EXCEPT ![c] = <<>>]
  /\ shown' = [shown EXCEPT ![c] = <<>>]
  /\ StillTo(to \ {c})
  /\ UNCHANGED <<node, last, todo>>

\* The first of these categories is built, for all who are clients now.
Broadcast(categories) ==
  /\ todo' = Tail(categories)
  /\ event' = Event(Head(categories))
  /\ to' = clients

(***************************************************************************)
(* push_updates: the watcher's next turn, once its last broadcast is over.  *)
(* The fingerprints advance before anything is sent.                        *)
(***************************************************************************)
Tick ==
  /\ todo = <<>> /\ to = {}
  /\ last' = FingerprintsOf(State)
  /\ IF clients = {} \/ Changed(State) = <<>> THEN UNCHANGED <<todo, event, to>>
     ELSE Broadcast(Changed(State))
  /\ UNCHANGED <<node, clients, closed, greeting, shown>>

\* _broadcast: the event is sent to one more client.
SendTo(c) ==
  /\ c \in to
  /\ shown' = Replace(c, event)
  /\ StillTo(to \ {c})
  /\ UNCHANGED <<node, clients, closed, greeting, last, todo>>

\* push_updates: the next changed category, as it is by now.
NextEvent ==
  /\ to = {} /\ todo # <<>>
  /\ Broadcast(todo)
  /\ UNCHANGED <<node, clients, closed, greeting, shown, last>>

PushNext ==
  \/ \E c \in setting.visitors : Connect(c) \/ Greet(c) \/ Leave(c) \/ SendTo(c)
  \/ Tick \/ NextEvent
=============================================================================
