------------------------- MODULE DeviceSubscriptions -------------------------
(***************************************************************************)
(* The device tree (model/devices.py) and the subscriptions of the clients *)
(* to its nodes.  The tree has one object node for each registered object  *)
(* that has a device tree (a UAV), and the channels of the object under    *)
(* it; the device nodes in between are left out.  A client subscribes to a *)
(* path with DEV-SUB, lazily if the path may not exist yet, unsubscribes   *)
(* with DEV-UNSUB, and is sent DEV-INF messages when channels change.      *)
(*                                                                         *)
(* The nodes of an object belong to the object: they leave the tree with   *)
(* it, together with their subscribers, and come back with it.             *)
(***************************************************************************)
EXTENDS Integers, Sequences, FiniteSets

CONSTANTS
  Clients,    \* clients that may connect; a client that left does not return
  Objects,    \* identifiers of the objects
  Channels,   \* names of the channels under each object
  Lasting,    \* objects that are removed and registered again as one object
  Lazy,       \* clients that subscribe to paths that do not exist yet, too
  MaxHeld     \* bound: subscriptions a client may have at one time, and
              \* subscriptions to one path it may have asked for

ASSUME ConstantsAssumption ==
  /\ Lasting \subseteq Objects
  /\ Lazy \subseteq Clients
  /\ MaxHeld \in Nat

(* A path is the sequence of its parts; the root is the empty one. *)
Root == << >>
NodesOf(o) == {<<o>>} \cup {<<o, ch>> : ch \in Channels}
ChannelPaths == {<<o, ch>> : o \in Objects, ch \in Channels}

(* The paths that resolve if the objects in tree have a node.              *)
Nodes(tree) == {Root} \cup UNION {NodesOf(o) : o \in tree}
Paths == Nodes(Objects)

VARIABLES
  attached,   \* objects whose node is a child of the root
  subs,       \* _subscribers of each node: how often each client is counted
  pending,    \* _pending_subscriptions of each client, oldest first
  here,       \* clients in the client registry
  gone,       \* clients that were there before
  asked,      \* (history) DEV-SUBs of the path granted to the client and not
              \* yet taken back by a DEV-UNSUB that was granted as well
  told        \* (history) paths in the DEV-INF that the step sent to a client

vars == <<attached, subs, pending, here, gone, asked, told>>

Silent == [c \in Clients |-> {}]

(* DeviceTree.resolve() succeeds: the object is there, with its channels.  *)
Resolves(tree, p) == p # Root => p[1] \in tree

(* The subtree of a path, itself included, and the nodes above it. *)
Subtree(p) == {q \in Paths : Len(q) >= Len(p) /\ SubSeq(q, 1, Len(p)) = p}
Above(q) == {p \in Paths : Len(p) <= Len(q) /\ SubSeq(q, 1, Len(p)) = p}

PendingCount(c, p) == Cardinality({i \in DOMAIN pending[c] : pending[c][i] = p})

(* The subscriptions that are counted, each as its path and a number.      *)
Counted(counts) == UNION {{p} \X (1 .. counts[p]) : p \in Paths}

(* The number of subscriptions of a client, to any path.                   *)
Held(c) == Cardinality(Counted(subs[c])) + Len(pending[c])

TypeOK ==
  /\ attached \subseteq Objects
  /\ subs \in [Clients -> [Paths -> Nat]]
  /\ pending \in [Clients -> Seq(Paths)]
  /\ here \subseteq Clients
  /\ gone \subseteq Clients \ here
  /\ asked \in [Clients -> [Paths -> Nat]]
  /\ told \in [Clients -> SUBSET Paths]

Init ==
  /\ attached = {}
  /\ subs = [c \in Clients |-> [p \in Paths |-> 0]]
  /\ pending = [c \in Clients |-> << >>]
  /\ here = {} /\ gone = {}
  /\ asked = [c \in Clients |-> [p \in Paths |-> 0]]
  /\ told = Silent

(***************************************************************************)
(* Clients.                                                                *)
(***************************************************************************)
ClientAdded(c) ==
  /\ c \notin here \cup gone
  /\ here' = here \cup {c}
  /\ told' = Silent
  /\ UNCHANGED <<attached, subs, pending, gone, asked>>

\* Mutant: the paths the client waits for are not dropped.
ClientRemoved_KeepsPending(c) ==
  /\ c \in here
  /\ here' = here \ {c} /\ gone' = gone \cup {c}
  /\ subs' = [subs EXCEPT ![c] =
                [p \in Paths |-> IF Resolves(attached, p) THEN 0 ELSE @[p]]]
  /\ asked' = [asked EXCEPT ![c] = [p \in Paths |-> 0]]
  /\ told' = Silent
  /\ UNCHANGED <<attached, pending>>

(* _on_client_removed() walks the tree: it finds the nodes of the attached *)
(* objects only.                                                           *)
ClientRemoved(c) ==
  /\ c \in here
  /\ here' = here \ {c} /\ gone' = gone \cup {c}
  /\ subs' = [subs EXCEPT ![c] =
                [p \in Paths |-> IF Resolves(attached, p) THEN 0 ELSE @[p]]]
  /\ pending' = [pending EXCEPT ![c] = << >>]
  /\ asked' = [asked EXCEPT ![c] = [p \in Paths |-> 0]]
  /\ told' = Silent
  /\ UNCHANGED attached

(***************************************************************************)
(* Objects.  Both changes of the tree emit structure_changed.              *)
(***************************************************************************)
(* _on_device_tree_structure_changed(): every pending path that resolves   *)
(* is subscribed to, then found paths are removed from the list one by one *)
(* with list.remove().  DeviceTreePath is a dataclass without fields, so   *)
(* any two paths compare equal and remove() takes the first entry of the   *)
(* list, whatever path it holds.                                           *)
Found(tree, c) == {i \in DOMAIN pending[c] : Resolves(tree, pending[c][i])}

\* Mutant: the paths that were found stay in the list.
StructureChanged_KeepsFound(tree, held) ==
  /\ subs' = [c \in Clients |-> [p \in Paths |->
                held[c][p] + IF Resolves(tree, p) THEN PendingCount(c, p) ELSE 0]]
  /\ pending' = pending

StructureChanged(tree, held) ==
  /\ subs' = [c \in Clients |-> [p \in Paths |->
                held[c][p] + IF Resolves(tree, p) THEN PendingCount(c, p) ELSE 0]]
  /\ pending' = [c \in Clients |->
        SubSeq(pending[c], Cardinality(Found(tree, c)) + 1, Len(pending[c]))]

(* What is left of counts of subscriptions when the nodes of o are new. *)
Renew(counts, o) ==
  [c \in Clients |-> [p \in Paths |->
     IF p \in NodesOf(o) THEN 0 ELSE counts[c][p]]]

(* _on_object_added().  An object that does not last is a new one with the *)
(* same identifier and with nodes that have no subscribers.                *)
ObjectAdded(o) ==
  /\ o \notin attached
  /\ attached' = attached \cup {o}
  /\ LET fresh == o \notin Lasting
     IN /\ StructureChanged(attached', IF fresh THEN Renew(subs, o) ELSE subs)
        /\ asked' = [c \in Clients |-> [p \in Paths |->
             IF fresh /\ p \in NodesOf(o) THEN PendingCount(c, p)
             ELSE asked[c][p]]]
  /\ told' = Silent
  /\ UNCHANGED <<here, gone>>

ObjectRemoved(o) ==
  /\ o \in attached
  /\ attached' = attached \ {o}
  /\ StructureChanged(attached', subs)
  /\ told' = Silent
  /\ UNCHANGED <<here, gone, asked>>

(***************************************************************************)
(* Requests.                                                               *)
(***************************************************************************)
(* DEV-SUB: a path that does not resolve is an error unless the request is *)
(* lazy.                                                                   *)
Subscribe(c, p) ==
  /\ c \in here
  /\ Held(c) < MaxHeld /\ asked[c][p] < MaxHeld
  /\ IF Resolves(attached, p)
     THEN /\ subs' = [subs EXCEPT ![c][p] = @ + 1]
          /\ UNCHANGED pending
     ELSE /\ c \in Lazy
          /\ pending' = [pending EXCEPT ![c] = Append(@, p)]
          /\ UNCHANGED subs
  /\ asked' = [asked EXCEPT ![c][p] = @ + 1]
  /\ told' = Silent
  /\ UNCHANGED <<attached, here, gone>>

\* Mutant: a forced unsubscription takes off one subscription only.
Left_IgnoresForce(n, force) == IF n = 0 THEN 0 ELSE n - 1

(* What _unsubscribe() leaves of n subscriptions. *)
Left(n, force) == IF force \/ n = 0 THEN 0 ELSE n - 1

(* DEV-UNSUB of a path that resolves: it fails if the client is not        *)
(* subscribed, unless it is forced.                                        *)
Unsubscribe(c, p, force) ==
  /\ c \in here
  /\ Resolves(attached, p)
  /\ subs[c][p] > 0 \/ force
  /\ subs' = [subs EXCEPT ![c][p] = Left(@, force)]
  /\ asked' = [asked EXCEPT ![c][p] = IF force \/ @ = 0 THEN 0 ELSE @ - 1]
  /\ told' = Silent
  /\ UNCHANGED <<attached, pending, here, gone>>

(* DEV-UNSUB of a path that does not resolve: list.remove() takes the      *)
(* first path the client waits for, whichever it is, and removes one only  *)
(* even if it is forced; with an empty list the client is "not subscribed".*)
UnsubscribePending(c, p, force) ==
  /\ c \in here
  /\ ~Resolves(attached, p)
  /\ pending[c] # << >>
  /\ pending' = [pending EXCEPT ![c] = Tail(@)]
  /\ asked' = [asked EXCEPT ![c][p] = IF force \/ @ = 0 THEN 0 ELSE @ - 1]
  /\ told' = Silent
  /\ UNCHANGED <<attached, subs, here, gone>>

(* DEV-UNSUB with includeSubtrees: the subscriptions found under the path  *)
(* are listed, and each path of the list is unsubscribed from once.        *)
UnsubscribeSubtree(c, p, force) ==
  /\ c \in here
  /\ Resolves(attached, p)
  /\ LET under == {q \in Subtree(p) : subs[c][q] > 0 /\ Resolves(attached, q)}
     IN /\ subs' = [subs EXCEPT ![c] = [q \in Paths |->
              IF q \in under THEN Left(@[q], force) ELSE @[q]]]
        /\ asked' = [asked EXCEPT ![c] = [q \in Paths |->
              IF q \notin under THEN @[q]
              ELSE IF force \/ @[q] = 0 THEN 0 ELSE @[q] - 1]]
  /\ told' = Silent
  /\ UNCHANGED <<attached, pending, here, gone>>

(***************************************************************************)
(* Values.                                                                 *)
(***************************************************************************)
(* _on_channel_nodes_updated() walks up from every channel that changed. *)
Affected(nodes) == UNION {Above(q) : q \in nodes}

(* A mutator closes with a set of channels whose value changed; every      *)
(* subscriber of a node above one of them gets one DEV-INF, with the paths *)
(* of those nodes that it subscribes to.  The channels of an object change *)
(* while the object is registered.                                         *)
ChannelsUpdated(nodes) ==
  /\ nodes # {}
  /\ \A q \in nodes : Resolves(attached, q)
  /\ told' = [c \in Clients |-> {p \in Affected(nodes) : subs[c][p] > 0}]
  /\ UNCHANGED <<attached, subs, pending, here, gone, asked>>

Next ==
  \/ \E c \in Clients : ClientAdded(c) \/ ClientRemoved(c)
  \/ \E o \in Objects : ObjectAdded(o) \/ ObjectRemoved(o)
  \/ \E c \in Clients, p \in Paths : Subscribe(c, p)
  \/ \E c \in Clients, p \in Paths, force \in BOOLEAN :
        \/ Unsubscribe(c, p, force)
        \/ UnsubscribePending(c, p, force)
        \/ UnsubscribeSubtree(c, p, force)
  \/ \E nodes \in SUBSET ChannelPaths : ChannelsUpdated(nodes)

Spec == Init /\ [][Next]_vars

(***************************************************************************)
(* Properties.                                                             *)
(***************************************************************************)
(* A client that left the server is counted at no node that it could ever  *)
(* be notified from, and waits for no path: _on_client_removed() finds all *)
(* of its subscriptions.  Objects that leave and come back with the same   *)
(* nodes are the exception: the walk does not reach a node that is away.   *)
GoneAreForgotten ==
  \A c \in gone :
    /\ pending[c] = << >>
    /\ \A p \in Nodes(attached \ Lasting) : subs[c][p] = 0

(* A client whose subscriptions to missing paths do not wait is told about *)
(* the paths that it asked for and did not take back, and about no other   *)
(* one (_on_channel_nodes_updated()).                                      *)
OnlyAskedFor ==
  \A c \in here \ Lazy : \A p \in told[c] : asked[c][p] > 0

(* A change of the tree turns what a client waits for into subscriptions   *)
(* one by one: it neither makes nor loses any, although the entries it     *)
(* takes off the list may be the wrong ones.  New nodes, of an object that *)
(* does not last, are the exception.                                       *)
TreeChangesMove ==
  [][\A c \in Clients :
       (attached' # attached /\ attached' \ attached \subseteq Lasting)
         => Held(c)' = Held(c)]_vars
=============================================================================
