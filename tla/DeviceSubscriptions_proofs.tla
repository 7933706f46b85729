--------------------- MODULE DeviceSubscriptions_proofs ---------------------
(***************************************************************************)
(* Proofs about DeviceSubscriptions: its type invariant, that a client     *)
(* that left holds no subscription it could be notified through, that      *)
(* nobody is told of what it did not ask for, and that changes of the tree *)
(* neither make nor lose subscriptions, whatever the numbers of clients,   *)
(* objects and channels.                                                   *)
(***************************************************************************)
EXTENDS DeviceSubscriptions, FunctionTheorems, FiniteSetTheorems, TLAPS

(* The sets of nodes grow with the set of objects.                         *)
LEMMA NodesMonotone ==
  ASSUME NEW A \in SUBSET Objects, NEW B \in SUBSET A
  PROVE  Nodes(B) \subseteq Nodes(A)
BY DEF Nodes

LEMMA PathFacts ==
  /\ Root \in Paths
  /\ ChannelPaths \subseteq Paths
  /\ \A o \in Objects : NodesOf(o) \subseteq Paths
BY DEF Paths, Nodes, NodesOf, ChannelPaths, Root

LEMMA NodesResolve ==
  ASSUME NEW A \in SUBSET Objects, NEW p \in Nodes(A)
  PROVE  Resolves(A, p)
<1>1. CASE p = Root
  BY <1>1 DEF Resolves
<1>2. ASSUME NEW o \in A, p \in NodesOf(o) PROVE Resolves(A, p)
  <2>1. p = <<o>> \/ \E ch \in Channels : p = <<o, ch>>
    BY <1>2 DEF NodesOf
  <2>2. p[1] = o
    BY <2>1
  <2>3. QED
    BY <2>2 DEF Resolves
<1>3. QED
  BY <1>1, <1>2 DEF Nodes

(* The entries of a list that satisfy a condition are finitely many, and   *)
(* there is none in the empty list.                                        *)
LEMMA CountIsNat ==
  ASSUME NEW s \in Seq(Paths), NEW I \in SUBSET DOMAIN s
  PROVE  /\ Cardinality(I) \in Nat
         /\ s = << >> => Cardinality(I) = 0
<1>1. DOMAIN s = 1 .. Len(s) /\ Len(s) \in Nat
  OBVIOUS
<1>2. IsFiniteSet(1 .. Len(s))
  BY <1>1, FS_Interval
<1>3. IsFiniteSet(I)
  BY <1>1, <1>2, FS_Subset
<1>4. Cardinality(I) \in Nat
  BY <1>3, FS_CardinalityType
<1>5. s = << >> => I = {}
  BY <1>1
<1>6. QED
  BY <1>4, <1>5, FS_EmptySet

LEMMA PendingCountIsNat ==
  ASSUME pending \in [Clients -> Seq(Paths)], NEW c \in Clients, NEW p
  PROVE  /\ PendingCount(c, p) \in Nat
         /\ pending[c] = << >> => PendingCount(c, p) = 0
<1>1. pending[c] \in Seq(Paths)
  OBVIOUS
<1>2. {i \in DOMAIN pending[c] : pending[c][i] = p} \in SUBSET DOMAIN pending[c]
  OBVIOUS
<1>3. QED
  BY <1>1, <1>2, CountIsNat DEF PendingCount

LEMMA FoundIsNat ==
  ASSUME pending \in [Clients -> Seq(Paths)], NEW c \in Clients, NEW tree
  PROVE  /\ Cardinality(Found(tree, c)) \in Nat
         /\ pending[c] = << >> => Cardinality(Found(tree, c)) = 0
<1>1. pending[c] \in Seq(Paths)
  OBVIOUS
<1>2. Found(tree, c) \in SUBSET DOMAIN pending[c]
  BY DEF Found
<1>3. QED
  BY <1>1, <1>2, CountIsNat

(* What a change of the tree does to the subscriptions and to the list: it *)
(* keeps their types, and it does nothing to a client that waits for       *)
(* nothing.                                                                *)
LEMMA StructureChangedFacts ==
  ASSUME pending \in [Clients -> Seq(Paths)],
         NEW tree, NEW held \in [Clients -> [Paths -> Nat]],
         StructureChanged(tree, held)
  PROVE  /\ subs' \in [Clients -> [Paths -> Nat]]
         /\ pending' \in [Clients -> Seq(Paths)]
         /\ \A c \in Clients : pending[c] = << >> =>
               /\ pending'[c] = << >>
               /\ \A p \in Paths : subs'[c][p] = held[c][p]
<1>1. ASSUME NEW c \in Clients, NEW p \in Paths
      PROVE  /\ held[c][p] + (IF Resolves(tree, p) THEN PendingCount(c, p) ELSE 0) \in Nat
             /\ pending[c] = << >> =>
                  held[c][p] + (IF Resolves(tree, p) THEN PendingCount(c, p) ELSE 0)
                    = held[c][p]
  <2>1. PendingCount(c, p) \in Nat /\ (pending[c] = << >> => PendingCount(c, p) = 0)
    BY PendingCountIsNat
  <2>2. held[c][p] \in Nat
    OBVIOUS
  <2>3. QED
    BY <2>1, <2>2
<1>2. subs' = [c \in Clients |-> [p \in Paths |->
         held[c][p] + (IF Resolves(tree, p) THEN PendingCount(c, p) ELSE 0)]]
  BY DEF StructureChanged
<1>3. subs' \in [Clients -> [Paths -> Nat]]
  BY <1>1, <1>2
<1>4. ASSUME NEW c \in Clients
      PROVE  LET k == Cardinality(Found(tree, c))
             IN  /\ SubSeq(pending[c], k + 1, Len(pending[c])) \in Seq(Paths)
                 /\ pending[c] = << >> =>
                      SubSeq(pending[c], k + 1, Len(pending[c])) = << >>
  <2> DEFINE k == Cardinality(Found(tree, c))
             s == pending[c]
             t == SubSeq(s, k + 1, Len(s))
  <2>1. k \in Nat /\ (s = << >> => k = 0)
    BY FoundIsNat
  <2>2. s \in Seq(Paths)
    OBVIOUS
  <2> HIDE DEF k, s
  <2>3. t \in Seq(Paths)
    BY <2>1, <2>2
  <2>4. s = << >> => t = << >>
    BY <2>1, <2>2
  <2>5. QED
    BY <2>3, <2>4 DEF k, s
<1>5. pending' = [c \in Clients |->
        SubSeq(pending[c], Cardinality(Found(tree, c)) + 1, Len(pending[c]))]
  BY DEF StructureChanged
<1>6. pending' \in [Clients -> Seq(Paths)]
  BY <1>4, <1>5
<1>7. ASSUME NEW c \in Clients, pending[c] = << >>
      PROVE  pending'[c] = << >> /\ \A p \in Paths : subs'[c][p] = held[c][p]
  <2>1. pending'[c] = << >>
    BY <1>4, <1>5, <1>7
  <2>2. \A p \in Paths : subs'[c][p] = held[c][p]
    BY <1>1, <1>2, <1>7
  <2>3. QED
    BY <2>1, <2>2
<1>8. QED
  BY <1>3, <1>6, <1>7

LEMMA RenewType ==
  ASSUME NEW counts \in [Clients -> [Paths -> Nat]], NEW o
  PROVE  Renew(counts, o) \in [Clients -> [Paths -> Nat]]
BY DEF Renew

(* What is left of a count is a count.                                     *)
LEMMA LeftIsNat ==
  ASSUME NEW n \in Nat, NEW force \in BOOLEAN
  PROVE  Left(n, force) \in Nat /\ (n = 0 => Left(n, force) = 0)
BY DEF Left

(***************************************************************************)
(* TypeOK.                                                                 *)
(***************************************************************************)
LEMMA InitType == Init => TypeOK
<1> SUFFICES ASSUME Init PROVE TypeOK
  OBVIOUS
<1>1. << >> \in Seq(Paths)
  OBVIOUS
<1>2. QED
  BY <1>1 DEF Init, TypeOK, Silent

(* Every step keeps the types.                                             *)
LEMMA StepType == TypeOK /\ [Next]_vars => TypeOK'
<1> SUFFICES ASSUME TypeOK, [Next]_vars PROVE TypeOK'
  OBVIOUS
<1>s. Silent \in [Clients -> SUBSET Paths]
  BY DEF Silent
<1>1. ASSUME NEW c \in Clients, ClientAdded(c) PROVE TypeOK'
  BY <1>1, <1>s DEF ClientAdded, TypeOK
<1>2. ASSUME NEW c \in Clients, ClientRemoved(c) PROVE TypeOK'
  <2>1. subs' \in [Clients -> [Paths -> Nat]]
    BY <1>2 DEF ClientRemoved, TypeOK
  <2>2. pending' \in [Clients -> Seq(Paths)]
    <3>1. << >> \in Seq(Paths)
      OBVIOUS
    <3>2. QED
      BY <1>2, <3>1 DEF ClientRemoved, TypeOK
  <2>3. asked' \in [Clients -> [Paths -> Nat]]
    BY <1>2 DEF ClientRemoved, TypeOK
  <2>4. QED
    BY <1>2, <1>s, <2>1, <2>2, <2>3 DEF ClientRemoved, TypeOK
<1>3. ASSUME NEW o \in Objects, ObjectAdded(o) PROVE TypeOK'
  <2> DEFINE held == IF o \notin Lasting THEN Renew(subs, o) ELSE subs
  <2>1. held \in [Clients -> [Paths -> Nat]]
    BY RenewType DEF TypeOK
  <2>2. StructureChanged(attached', held)
    BY <1>3 DEF ObjectAdded
  <2>3. subs' \in [Clients -> [Paths -> Nat]] /\ pending' \in [Clients -> Seq(Paths)]
    <3> HIDE DEF held
    <3>1. pending \in [Clients -> Seq(Paths)]
      BY DEF TypeOK
    <3>2. QED
      BY <2>1, <2>2, <3>1, StructureChangedFacts
  <2>4. \A c \in Clients, p \in Paths : PendingCount(c, p) \in Nat
    BY PendingCountIsNat DEF TypeOK
  <2>5. asked' \in [Clients -> [Paths -> Nat]]
    BY <1>3, <2>4 DEF ObjectAdded, TypeOK
  <2>6. QED
    BY <1>3, <1>s, <2>3, <2>5 DEF ObjectAdded, TypeOK
<1>4. ASSUME NEW o \in Objects, ObjectRemoved(o) PROVE TypeOK'
  <2>1. subs' \in [Clients -> [Paths -> Nat]] /\ pending' \in [Clients -> Seq(Paths)]
    BY <1>4, StructureChangedFacts DEF ObjectRemoved, TypeOK
  <2>2. QED
    BY <1>4, <1>s, <2>1 DEF ObjectRemoved, TypeOK
<1>5. ASSUME NEW c \in Clients, NEW p \in Paths, Subscribe(c, p) PROVE TypeOK'
  <2>1. subs' \in [Clients -> [Paths -> Nat]]
    <3>1. subs[c][p] + 1 \in Nat
      BY DEF TypeOK
    <3>2. [subs EXCEPT ![c][p] = @ + 1] \in [Clients -> [Paths -> Nat]]
      BY <3>1 DEF TypeOK
    <3>3. subs' = subs \/ subs' = [subs EXCEPT ![c][p] = @ + 1]
      BY <1>5 DEF Subscribe
    <3>4. QED
      BY <3>2, <3>3 DEF TypeOK
  <2>2. pending' \in [Clients -> Seq(Paths)]
    <3>1. pending[c] \in Seq(Paths)
      BY DEF TypeOK
    <3>2. Append(pending[c], p) \in Seq(Paths)
      BY <3>1
    <3>3. QED
      BY <1>5, <3>2 DEF Subscribe, TypeOK
  <2>3. asked' \in [Clients -> [Paths -> Nat]]
    BY <1>5 DEF Subscribe, TypeOK
  <2>4. QED
    BY <1>5, <1>s, <2>1, <2>2, <2>3 DEF Subscribe, TypeOK
<1>6. ASSUME NEW c \in Clients, NEW p \in Paths, NEW force \in BOOLEAN,
             Unsubscribe(c, p, force)
      PROVE  TypeOK'
  <2>1. Left(subs[c][p], force) \in Nat
    BY LeftIsNat DEF TypeOK
  <2>2. subs' \in [Clients -> [Paths -> Nat]]
    BY <1>6, <2>1 DEF Unsubscribe, TypeOK
  <2>3. asked' \in [Clients -> [Paths -> Nat]]
    BY <1>6 DEF Unsubscribe, TypeOK
  <2>4. QED
    BY <1>6, <1>s, <2>2, <2>3 DEF Unsubscribe, TypeOK
<1>7. ASSUME NEW c \in Clients, NEW p \in Paths, NEW force \in BOOLEAN,
             UnsubscribePending(c, p, force)
      PROVE  TypeOK'
  <2>1. pending' \in [Clients -> Seq(Paths)]
    <3>1. pending[c] \in Seq(Paths) /\ pending[c] # << >>
      BY <1>7 DEF UnsubscribePending, TypeOK
    <3>2. Tail(pending[c]) \in Seq(Paths)
      BY <3>1
    <3>3. QED
      BY <1>7, <3>2 DEF UnsubscribePending, TypeOK
  <2>2. asked' \in [Clients -> [Paths -> Nat]]
    BY <1>7 DEF UnsubscribePending, TypeOK
  <2>3. QED
    BY <1>7, <1>s, <2>1, <2>2 DEF UnsubscribePending, TypeOK
<1>8. ASSUME NEW c \in Clients, NEW p \in Paths, NEW force \in BOOLEAN,
             UnsubscribeSubtree(c, p, force)
      PROVE  TypeOK'
  <2>1. \A q \in Paths : Left(subs[c][q], force) \in Nat
    BY LeftIsNat DEF TypeOK
  <2>2. subs' \in [Clients -> [Paths -> Nat]]
    BY <1>8, <2>1 DEF UnsubscribeSubtree, TypeOK
  <2>3. asked' \in [Clients -> [Paths -> Nat]]
    BY <1>8 DEF UnsubscribeSubtree, TypeOK
  <2>4. QED
    BY <1>8, <1>s, <2>2, <2>3 DEF UnsubscribeSubtree, TypeOK
<1>9. ASSUME NEW nodes \in SUBSET ChannelPaths, ChannelsUpdated(nodes) PROVE TypeOK'
  <2>1. Affected(nodes) \subseteq Paths
    BY DEF Affected, Above
  <2>2. told' \in [Clients -> SUBSET Paths]
    BY <1>9, <2>1 DEF ChannelsUpdated
  <2>3. QED
    BY <1>9, <2>2 DEF ChannelsUpdated, TypeOK
<1>10. CASE UNCHANGED vars
  BY <1>10 DEF vars, TypeOK
<1>11. QED
  BY <1>1, <1>2, <1>3, <1>4, <1>5, <1>6, <1>7, <1>8, <1>9, <1>10 DEF Next

(* The state of the device tree and of the subscriptions is always well    *)
(* formed; in particular no counter of subscriptions goes below zero.      *)
THEOREM TypeCorrect == Spec => []TypeOK
<1>1. QED
  BY InitType, StepType, PTL DEF Spec

(***************************************************************************)
(* GoneAreForgotten.  It is inductive with the types: no request is served *)
(* for a client that left, a change of the tree moves nothing for it as it *)
(* waits for nothing, and nodes that are new have no subscribers.          *)
(***************************************************************************)
IInv == TypeOK /\ GoneAreForgotten

(* A step that keeps the tree and the clients, and that changes what is    *)
(* kept of a registered client only, forgets no one less.                  *)
LEMMA OthersForgotten ==
  ASSUME IInv, NEW c \in here, UNCHANGED <<attached, gone>>,
         \A d \in Clients \ {c} : subs'[d] = subs[d] /\ pending'[d] = pending[d]
  PROVE  GoneAreForgotten'
<1> SUFFICES ASSUME NEW d \in gone'
             PROVE  /\ pending'[d] = << >>
                    /\ \A p \in Nodes(attached' \ Lasting) : subs'[d][p] = 0
  BY DEF GoneAreForgotten
<1>1. d \in gone /\ d \in Clients \ {c}
  BY DEF IInv, TypeOK
<1>2. QED
  BY <1>1 DEF IInv, GoneAreForgotten

(* A change of the tree keeps the clients that left forgotten if the nodes *)
(* in it that do not last had no subscription of theirs before.            *)
LEMMA TreeForgotten ==
  ASSUME IInv, NEW held \in [Clients -> [Paths -> Nat]],
         attached' \subseteq Objects, gone' = gone,
         StructureChanged(attached', held),
         \A d \in gone : \A p \in Nodes(attached' \ Lasting) : held[d][p] = 0
  PROVE  GoneAreForgotten'
<1> SUFFICES ASSUME NEW d \in gone
             PROVE  /\ pending'[d] = << >>
                    /\ \A p \in Nodes(attached' \ Lasting) : subs'[d][p] = 0
  BY DEF GoneAreForgotten
<1>1. d \in Clients /\ pending[d] = << >>
  BY DEF IInv, TypeOK, GoneAreForgotten
<1>2. pending \in [Clients -> Seq(Paths)]
  BY DEF IInv, TypeOK
<1>3. pending'[d] = << >> /\ \A p \in Paths : subs'[d][p] = held[d][p]
  BY <1>1, <1>2, StructureChangedFacts
<1>4. Nodes(attached' \ Lasting) \subseteq Paths
  BY NodesMonotone DEF Paths
<1>5. QED
  BY <1>3, <1>4

LEMMA StepForgotten == IInv /\ [Next]_vars => GoneAreForgotten'
<1> SUFFICES ASSUME IInv, [Next]_vars PROVE GoneAreForgotten'
  OBVIOUS
<1>t. TypeOK /\ GoneAreForgotten
  BY DEF IInv
<1>1. ASSUME NEW c \in Clients, ClientAdded(c) PROVE GoneAreForgotten'
  BY <1>1, <1>t DEF ClientAdded, GoneAreForgotten
<1>2. ASSUME NEW c \in Clients, ClientRemoved(c) PROVE GoneAreForgotten'
  <2> SUFFICES ASSUME NEW d \in gone'
               PROVE  /\ pending'[d] = << >>
                      /\ \A p \in Nodes(attached' \ Lasting) : subs'[d][p] = 0
    BY DEF GoneAreForgotten
  <2>1. CASE d = c
    <3>1. pending'[d] = << >>
      BY <1>2, <1>t, <2>1 DEF ClientRemoved, TypeOK
    <3>2. attached' = attached /\ attached \subseteq Objects
      BY <1>2, <1>t DEF ClientRemoved, TypeOK
    <3>3. Nodes(attached \ Lasting) \subseteq Nodes(attached)
      BY <3>2, NodesMonotone
    <3>4. Nodes(attached) \subseteq Paths
      BY <3>2, NodesMonotone DEF Paths
    <3>5. subs'[c] = [p \in Paths |-> IF Resolves(attached, p) THEN 0 ELSE subs[c][p]]
      BY <1>2, <1>t DEF ClientRemoved, TypeOK
    <3>6. \A p \in Nodes(attached) : subs'[c][p] = 0
      BY <3>2, <3>4, <3>5, NodesResolve
    <3>7. QED
      BY <2>1, <3>1, <3>2, <3>3, <3>6
  <2>2. CASE d # c
    <3>1. d \in gone /\ d \in Clients
      BY <1>2, <1>t, <2>2 DEF ClientRemoved, TypeOK
    <3>2. subs'[d] = subs[d] /\ pending'[d] = pending[d] /\ attached' = attached
      BY <1>2, <1>t, <2>2, <3>1 DEF ClientRemoved, TypeOK
    <3>3. QED
      BY <1>t, <3>1, <3>2 DEF GoneAreForgotten
  <2>3. QED
    BY <2>1, <2>2
<1>3. ASSUME NEW o \in Objects, ObjectAdded(o) PROVE GoneAreForgotten'
  <2> DEFINE held == IF o \notin Lasting THEN Renew(subs, o) ELSE subs
  <2>1. held \in [Clients -> [Paths -> Nat]]
    BY <1>t, RenewType DEF TypeOK
  <2>2. StructureChanged(attached', held) /\ gone' = gone
    BY <1>3 DEF ObjectAdded
  <2>3. attached' = attached \cup {o} /\ attached' \subseteq Objects
    BY <1>3, <1>t DEF ObjectAdded, TypeOK
  <2>4. ASSUME NEW d \in gone, NEW p \in Nodes(attached' \ Lasting)
        PROVE  held[d][p] = 0
    <3>1. d \in Clients /\ p \in Paths
      BY <1>t, <2>3, NodesMonotone DEF TypeOK, Paths
    <3>2. CASE o \in Lasting
      <4>1. attached' \ Lasting = attached \ Lasting
        BY <2>3, <3>2
      <4>2. QED
        BY <1>t, <3>2, <4>1 DEF GoneAreForgotten
    <3>3. CASE o \notin Lasting
      <4>1. held[d][p] = IF p \in NodesOf(o) THEN 0 ELSE subs[d][p]
        BY <3>1, <3>3 DEF Renew
      <4>2. p \in NodesOf(o) \/ p \in Nodes(attached \ Lasting)
        BY <2>3 DEF Nodes
      <4>3. QED
        BY <1>t, <4>1, <4>2 DEF GoneAreForgotten
    <3>4. QED
      BY <3>2, <3>3
  <2>5. QED
    <3> HIDE DEF held
    <3>1. QED
      BY <2>1, <2>2, <2>3, <2>4, TreeForgotten
<1>4. ASSUME NEW o \in Objects, ObjectRemoved(o) PROVE GoneAreForgotten'
  <2>1. StructureChanged(attached', subs) /\ gone' = gone
    BY <1>4 DEF ObjectRemoved
  <2>2. attached' = attached \ {o} /\ attached' \subseteq Objects
    BY <1>4, <1>t DEF ObjectRemoved, TypeOK
  <2>3. Nodes(attached' \ Lasting) \subseteq Nodes(attached \ Lasting)
    <3>1. attached' \ Lasting \subseteq attached \ Lasting
      BY <2>2
    <3>2. attached \ Lasting \subseteq Objects
      BY <1>t DEF TypeOK
    <3>3. QED
      BY <3>1, <3>2, NodesMonotone
  <2>4. subs \in [Clients -> [Paths -> Nat]]
    BY <1>t DEF TypeOK
  <2>5. \A d \in gone : \A p \in Nodes(attached' \ Lasting) : subs[d][p] = 0
    BY <1>t, <2>3 DEF GoneAreForgotten
  <2>6. QED
    BY <2>1, <2>2, <2>4, <2>5, TreeForgotten
<1>5. ASSUME NEW c \in Clients, NEW p \in Paths, Subscribe(c, p) PROVE GoneAreForgotten'
  <2>1. c \in here /\ UNCHANGED <<attached, gone>>
    BY <1>5 DEF Subscribe
  <2>2. /\ subs' = subs \/ subs' = [subs EXCEPT ![c][p] = @ + 1]
        /\ pending' = pending \/ pending' = [pending EXCEPT ![c] = Append(@, p)]
    BY <1>5 DEF Subscribe
  <2>3. \A d \in Clients \ {c} : subs'[d] = subs[d] /\ pending'[d] = pending[d]
    BY <1>t, <2>2 DEF TypeOK
  <2>4. QED
    BY <2>1, <2>3, OthersForgotten
<1>6. ASSUME NEW c \in Clients, NEW p \in Paths, NEW force \in BOOLEAN,
             Unsubscribe(c, p, force)
      PROVE  GoneAreForgotten'
  <2>1. c \in here /\ UNCHANGED <<attached, gone>>
    BY <1>6 DEF Unsubscribe
  <2>2. \A d \in Clients \ {c} : subs'[d] = subs[d] /\ pending'[d] = pending[d]
    BY <1>6, <1>t DEF Unsubscribe, TypeOK
  <2>3. QED
    BY <2>1, <2>2, OthersForgotten
<1>7. ASSUME NEW c \in Clients, NEW p \in Paths, NEW force \in BOOLEAN,
             UnsubscribePending(c, p, force)
      PROVE  GoneAreForgotten'
  <2>1. c \in here /\ UNCHANGED <<attached, gone>>
    BY <1>7 DEF UnsubscribePending
  <2>2. \A d \in Clients \ {c} : subs'[d] = subs[d] /\ pending'[d] = pending[d]
    BY <1>7, <1>t DEF UnsubscribePending, TypeOK
  <2>3. QED
    BY <2>1, <2>2, OthersForgotten
<1>8. ASSUME NEW c \in Clients, NEW p \in Paths, NEW force \in BOOLEAN,
             UnsubscribeSubtree(c, p, force)
      PROVE  GoneAreForgotten'
  <2>1. c \in here /\ UNCHANGED <<attached, gone>>
    BY <1>8 DEF UnsubscribeSubtree
  <2>2. \A d \in Clients \ {c} : subs'[d] = subs[d] /\ pending'[d] = pending[d]
    BY <1>8, <1>t DEF UnsubscribeSubtree, TypeOK
  <2>3. QED
    BY <2>1, <2>2, OthersForgotten
<1>9. ASSUME NEW nodes \in SUBSET ChannelPaths, ChannelsUpdated(nodes)
      PROVE  GoneAreForgotten'
  BY <1>9, <1>t DEF ChannelsUpdated, GoneAreForgotten
<1>10. CASE UNCHANGED vars
  BY <1>10, <1>t DEF vars, GoneAreForgotten
<1>11. QED
  BY <1>1, <1>2, <1>3, <1>4, <1>5, <1>6, <1>7, <1>8, <1>9, <1>10 DEF Next

(* A client that left the server is counted at no node that it could be    *)
(* notified from and waits for no path, unless the node left with an       *)
(* object and came back with it.                                           *)
THEOREM Forgotten == Spec => []GoneAreForgotten
<1>1. Init => IInv
  <2>1. Init => GoneAreForgotten
    BY DEF Init, GoneAreForgotten
  <2>2. QED
    BY <2>1, InitType DEF IInv
<1>2. IInv /\ [Next]_vars => IInv'
  BY StepType, StepForgotten DEF IInv
<1>3. IInv => GoneAreForgotten
  BY DEF IInv
<1>4. QED
  BY <1>1, <1>2, <1>3, PTL DEF Spec

(***************************************************************************)
(* OnlyAskedFor.  The counters of a client that waits for nothing never    *)
(* exceed what it has asked for: a request changes both alike, and nodes   *)
(* that are new have no subscribers.                                       *)
(***************************************************************************)
Plain == Clients \ (Lazy \cup gone)

Accounted ==
  \A c \in Plain : pending[c] = << >> /\ \A p \in Paths : subs[c][p] <= asked[c][p]

(* A step that nobody is told of tells nobody anything wrong.              *)
LEMMA SilentStep ==
  ASSUME told' = Silent, here' \subseteq Clients
  PROVE  OnlyAskedFor'
BY DEF OnlyAskedFor, Silent

(* Every step keeps the accounts in order.                                 *)
LEMMA StepAccounted == TypeOK /\ Accounted /\ [Next]_vars => Accounted'
<1> SUFFICES ASSUME TypeOK, Accounted, [Next]_vars,
                    NEW d \in Plain'
             PROVE  pending'[d] = << >> /\ \A q \in Paths : subs'[d][q] <= asked'[d][q]
  BY DEF Accounted
<1>d. d \in Clients /\ d \notin Lazy /\ d \notin gone'
  BY DEF Plain
<1>g. gone' = gone => pending[d] = << >> /\ \A q \in Paths : subs[d][q] <= asked[d][q]
  BY <1>d DEF Accounted, Plain
<1>n. \A q \in Paths : subs[d][q] \in Nat /\ asked[d][q] \in Nat
  BY <1>d DEF TypeOK
<1>1. ASSUME NEW c \in Clients, ClientAdded(c)
      PROVE  pending'[d] = << >> /\ \A q \in Paths : subs'[d][q] <= asked'[d][q]
  BY <1>1, <1>g DEF ClientAdded
<1>2. ASSUME NEW c \in Clients, ClientRemoved(c)
      PROVE  pending'[d] = << >> /\ \A q \in Paths : subs'[d][q] <= asked'[d][q]
  <2>1. d # c /\ d \in Plain
    BY <1>2, <1>d DEF ClientRemoved, Plain
  <2>2. subs'[d] = subs[d] /\ pending'[d] = pending[d] /\ asked'[d] = asked[d]
    BY <1>2, <1>d, <2>1 DEF ClientRemoved, TypeOK
  <2>3. QED
    BY <2>1, <2>2 DEF Accounted
<1>3. ASSUME NEW o \in Objects, ObjectAdded(o)
      PROVE  pending'[d] = << >> /\ \A q \in Paths : subs'[d][q] <= asked'[d][q]
  <2> DEFINE held == IF o \notin Lasting THEN Renew(subs, o) ELSE subs
  <2>1. held \in [Clients -> [Paths -> Nat]]
    BY RenewType DEF TypeOK
  <2>2. StructureChanged(attached', held) /\ gone' = gone
    BY <1>3 DEF ObjectAdded
  <2>3. pending[d] = << >> /\ \A q \in Paths : subs[d][q] <= asked[d][q]
    BY <1>g, <2>2
  <2>4. pending'[d] = << >> /\ \A q \in Paths : subs'[d][q] = held[d][q]
    <3> HIDE DEF held
    <3>1. pending \in [Clients -> Seq(Paths)]
      BY DEF TypeOK
    <3>2. QED
      BY <1>d, <2>1, <2>2, <2>3, <3>1, StructureChangedFacts
  <2>5. ASSUME NEW q \in Paths PROVE held[d][q] <= asked'[d][q]
    <3>1. PendingCount(d, q) = 0
      BY <1>d, <2>3, PendingCountIsNat DEF TypeOK
    <3>2. CASE o \notin Lasting /\ q \in NodesOf(o)
      <4>1. held[d][q] = 0
        BY <1>d, <3>2 DEF Renew
      <4>2. asked'[d][q] = PendingCount(d, q)
        BY <1>3, <1>d, <3>2 DEF ObjectAdded
      <4>3. QED
        BY <3>1, <4>1, <4>2
    <3>3. CASE ~(o \notin Lasting /\ q \in NodesOf(o))
      <4>1. held[d][q] = subs[d][q]
        BY <1>d, <3>3 DEF Renew
      <4>2. asked'[d][q] = asked[d][q]
        BY <1>3, <1>d, <3>3 DEF ObjectAdded
      <4>3. QED
        BY <2>3, <4>1, <4>2
    <3>4. QED
      BY <3>2, <3>3
  <2>6. QED
    BY <2>4, <2>5
<1>4. ASSUME NEW o \in Objects, ObjectRemoved(o)
      PROVE  pending'[d] = << >> /\ \A q \in Paths : subs'[d][q] <= asked'[d][q]
  <2>1. StructureChanged(attached', subs) /\ gone' = gone /\ asked' = asked
    BY <1>4 DEF ObjectRemoved
  <2>2. pending[d] = << >> /\ \A q \in Paths : subs[d][q] <= asked[d][q]
    BY <1>g, <2>1
  <2>3. pending'[d] = << >> /\ \A q \in Paths : subs'[d][q] = subs[d][q]
    BY <1>d, <2>1, <2>2, StructureChangedFacts DEF TypeOK
  <2>4. QED
    BY <2>1, <2>2, <2>3
<1>5. ASSUME NEW c \in Clients, NEW p \in Paths, Subscribe(c, p)
      PROVE  pending'[d] = << >> /\ \A q \in Paths : subs'[d][q] <= asked'[d][q]
  <2>1. /\ gone' = gone /\ asked' = [asked EXCEPT ![c][p] = @ + 1]
        /\ subs' = subs \/ subs' = [subs EXCEPT ![c][p] = @ + 1]
        /\ c \notin Lazy => pending' = pending
        /\ pending' = pending \/ pending' = [pending EXCEPT ![c] = Append(@, p)]
    BY <1>5 DEF Subscribe
  <2>2. pending'[d] = << >>
    BY <1>d, <1>g, <2>1 DEF TypeOK
  <2>3. ASSUME NEW q \in Paths PROVE subs'[d][q] <= asked'[d][q]
    <3>1. CASE d = c /\ q = p
      <4>1. asked'[d][q] = asked[d][q] + 1
        BY <1>d, <2>1, <3>1 DEF TypeOK
      <4>2. subs'[d][q] = subs[d][q] \/ subs'[d][q] = subs[d][q] + 1
        BY <1>d, <2>1, <3>1 DEF TypeOK
      <4>3. QED
        BY <1>g, <1>n, <2>1, <4>1, <4>2
    <3>2. CASE ~(d = c /\ q = p)
      <4>1. asked'[d][q] = asked[d][q]
        BY <1>d, <2>1, <3>2 DEF TypeOK
      <4>2. subs'[d][q] = subs[d][q]
        BY <1>d, <2>1, <3>2 DEF TypeOK
      <4>3. QED
        BY <1>g, <2>1, <4>1, <4>2
    <3>3. QED
      BY <3>1, <3>2
  <2>4. QED
    BY <2>2, <2>3
<1>6. ASSUME NEW c \in Clients, NEW p \in Paths, NEW force \in BOOLEAN,
             Unsubscribe(c, p, force)
      PROVE  pending'[d] = << >> /\ \A q \in Paths : subs'[d][q] <= asked'[d][q]
  <2>1. /\ gone' = gone /\ pending' = pending
        /\ subs' = [subs EXCEPT ![c][p] = Left(@, force)]
        /\ asked' = [asked EXCEPT ![c][p] = IF force \/ @ = 0 THEN 0 ELSE @ - 1]
    BY <1>6 DEF Unsubscribe
  <2>2. ASSUME NEW q \in Paths PROVE subs'[d][q] <= asked'[d][q]
    <3>1. CASE d = c /\ q = p
      <4>1. subs'[d][q] = Left(subs[d][q], force)
        BY <1>d, <2>1, <3>1 DEF TypeOK
      <4>2. asked'[d][q] = IF force \/ asked[d][q] = 0 THEN 0 ELSE asked[d][q] - 1
        BY <1>d, <2>1, <3>1 DEF TypeOK
      <4>3. QED
        BY <1>g, <1>n, <2>1, <4>1, <4>2 DEF Left
    <3>2. CASE ~(d = c /\ q = p)
      <4>1. subs'[d][q] = subs[d][q] /\ asked'[d][q] = asked[d][q]
        BY <1>d, <2>1, <3>2 DEF TypeOK
      <4>2. QED
        BY <1>g, <2>1, <4>1
    <3>3. QED
      BY <3>1, <3>2
  <2>3. QED
    BY <1>g, <2>1, <2>2
<1>7. ASSUME NEW c \in Clients, NEW p \in Paths, NEW force \in BOOLEAN,
             UnsubscribePending(c, p, force)
      PROVE  pending'[d] = << >> /\ \A q \in Paths : subs'[d][q] <= asked'[d][q]
  <2>1. gone' = gone /\ pending[c] # << >>
    BY <1>7 DEF UnsubscribePending
  <2>2. d # c
    BY <1>g, <2>1
  <2>3. subs'[d] = subs[d] /\ pending'[d] = pending[d] /\ asked'[d] = asked[d]
    BY <1>7, <1>d, <2>2 DEF UnsubscribePending, TypeOK
  <2>4. QED
    BY <1>g, <2>1, <2>3
<1>8. ASSUME NEW c \in Clients, NEW p \in Paths, NEW force \in BOOLEAN,
             UnsubscribeSubtree(c, p, force)
      PROVE  pending'[d] = << >> /\ \A q \in Paths : subs'[d][q] <= asked'[d][q]
  <2> DEFINE under == {q \in Subtree(p) : subs[c][q] > 0 /\ Resolves(attached, q)}
  <2>1. /\ gone' = gone /\ pending' = pending
        /\ subs' = [subs EXCEPT ![c] = [q \in Paths |->
              IF q \in under THEN Left(@[q], force) ELSE @[q]]]
        /\ asked' = [asked EXCEPT ![c] = [q \in Paths |->
              IF q \notin under THEN @[q]
              ELSE IF force \/ @[q] = 0 THEN 0 ELSE @[q] - 1]]
    BY <1>8 DEF UnsubscribeSubtree
  <2> HIDE DEF under
  <2>2. ASSUME NEW q \in Paths PROVE subs'[d][q] <= asked'[d][q]
    <3>1. CASE d = c /\ q \in under
      <4>1. subs'[d][q] = Left(subs[d][q], force)
        BY <1>d, <2>1, <3>1 DEF TypeOK
      <4>2. asked'[d][q] = IF force \/ asked[d][q] = 0 THEN 0 ELSE asked[d][q] - 1
        BY <1>d, <2>1, <3>1 DEF TypeOK
      <4>3. QED
        BY <1>g, <1>n, <2>1, <4>1, <4>2 DEF Left
    <3>2. CASE ~(d = c /\ q \in under)
      <4>1. subs'[d][q] = subs[d][q] /\ asked'[d][q] = asked[d][q]
        BY <1>d, <2>1, <3>2 DEF TypeOK
      <4>2. QED
        BY <1>g, <2>1, <4>1
    <3>3. QED
      BY <3>1, <3>2
  <2>3. QED
    BY <1>g, <2>1, <2>2
<1>9. ASSUME NEW nodes \in SUBSET ChannelPaths, ChannelsUpdated(nodes)
      PROVE  pending'[d] = << >> /\ \A q \in Paths : subs'[d][q] <= asked'[d][q]
  BY <1>9, <1>g DEF ChannelsUpdated
<1>10. CASE UNCHANGED vars
  BY <1>10, <1>g DEF vars
<1>11. QED
  BY <1>1, <1>2, <1>3, <1>4, <1>5, <1>6, <1>7, <1>8, <1>9, <1>10 DEF Next

(* What a step tells was asked for; only changes of values tell anything.  *)
LEMMA StepTold ==
  TypeOK /\ TypeOK' /\ Accounted /\ OnlyAskedFor /\ [Next]_vars => OnlyAskedFor'
<1> SUFFICES ASSUME TypeOK, TypeOK', Accounted, OnlyAskedFor, [Next]_vars
             PROVE  OnlyAskedFor'
  OBVIOUS
<1>1. here' \subseteq Clients
  BY DEF TypeOK
<1>2. ASSUME NEW nodes \in SUBSET ChannelPaths, ChannelsUpdated(nodes)
      PROVE  OnlyAskedFor'
  <2> SUFFICES ASSUME NEW c \in here' \ Lazy, NEW p \in told'[c]
               PROVE  asked'[c][p] > 0
    BY DEF OnlyAskedFor
  <2>1. c \in Plain
    BY <1>2 DEF ChannelsUpdated, Plain, TypeOK
  <2>2. Affected(nodes) \subseteq Paths
    BY DEF Affected, Above
  <2>3. p \in Paths /\ subs[c][p] > 0
    BY <1>2, <2>1, <2>2 DEF ChannelsUpdated, Plain
  <2>4. subs[c][p] <= asked[c][p] /\ subs[c][p] \in Nat /\ asked[c][p] \in Nat
    BY <2>1, <2>3 DEF Accounted, TypeOK, Plain
  <2>5. QED
    BY <1>2, <2>3, <2>4 DEF ChannelsUpdated
<1>3. CASE UNCHANGED vars
  BY <1>3 DEF vars, OnlyAskedFor
<1>4. CASE told' = Silent
  BY <1>1, <1>4, SilentStep
<1>5. Next => told' = Silent \/ \E nodes \in SUBSET ChannelPaths : ChannelsUpdated(nodes)
  BY DEF Next, ClientAdded, ClientRemoved, ObjectAdded, ObjectRemoved, Subscribe,
         Unsubscribe, UnsubscribePending, UnsubscribeSubtree
<1>6. QED
  BY <1>2, <1>3, <1>4, <1>5

(* A client whose subscriptions to missing paths do not wait is told about *)
(* nothing but what it asked for and did not take back.                    *)
THEOREM ToldWhatWasAsked == Spec => []OnlyAskedFor
<1> DEFINE Inv == TypeOK /\ Accounted /\ OnlyAskedFor
<1>1. Init => Inv
  <2>1. Init => Accounted
    BY DEF Init, Accounted, Plain
  <2>2. Init => OnlyAskedFor
    BY DEF Init, OnlyAskedFor
  <2>3. QED
    BY <2>1, <2>2, InitType
<1>2. Inv /\ [Next]_vars => Inv'
  BY StepType, StepAccounted, StepTold
<1>3. Inv => OnlyAskedFor
  OBVIOUS
<1>4. QED
  BY <1>1, <1>2, <1>3, PTL DEF Spec

(***************************************************************************)
(* TreeChangesMove.  The entries of the list that resolve are as many as   *)
(* the subscriptions that are made of them, and as many as are dropped,    *)
(* whichever these are.                                                    *)
(***************************************************************************)
LEMMA CountedMember ==
  ASSUME NEW f, NEW t
  PROVE  t \in Counted(f) <=> \E p \in Paths : \E k \in 1 .. f[p] : t = <<p, k>>
BY DEF Counted

(* Counters that are lower count fewer subscriptions.                      *)
LEMMA FewerCounted ==
  ASSUME NEW f \in [Paths -> Nat], NEW g \in [Paths -> Nat],
         \A p \in Paths : g[p] <= f[p], IsFiniteSet(Counted(f))
  PROVE  IsFiniteSet(Counted(g))
<1>1. Counted(g) \subseteq Counted(f)
  <2> SUFFICES ASSUME NEW t \in Counted(g) PROVE t \in Counted(f)
    OBVIOUS
  <2>1. PICK p \in Paths : \E k \in 1 .. g[p] : t = <<p, k>>
    BY CountedMember
  <2>2. PICK k \in 1 .. g[p] : t = <<p, k>>
    BY <2>1
  <2>3. k \in 1 .. f[p]
    <3>1. g[p] \in Nat /\ f[p] \in Nat /\ g[p] <= f[p]
      OBVIOUS
    <3>2. QED
      BY <3>1
  <2>4. QED
    BY <2>2, <2>3, CountedMember
<1>2. QED
  BY <1>1, FS_Subset

(* The entries of a list that hold a path, and those that hold one of R.   *)
EntriesAt(s, p) == {i \in DOMAIN s : s[i] = p}
EntriesIn(s, R) == {i \in DOMAIN s : s[i] \in R}

(* If every counter of a path in R grows by the number of its entries in   *)
(* s, then all of them together grow by the number of entries in R: the    *)
(* entries are matched with the new subscriptions one to one.              *)
LEMMA EntriesCounted ==
  ASSUME NEW s \in Seq(Paths), NEW R,
         NEW f \in [Paths -> Nat], NEW g \in [Paths -> Nat],
         IsFiniteSet(Counted(f)),
         \A p \in Paths :
           g[p] = f[p] + IF p \in R THEN Cardinality(EntriesAt(s, p)) ELSE 0
  PROVE  /\ IsFiniteSet(Counted(g))
         /\ Cardinality(Counted(g)) =
              Cardinality(Counted(f)) + Cardinality(EntriesIn(s, R))
<1> DEFINE F(p) == {i \in DOMAIN s : s[i] = p}
           N(p) == Cardinality(F(p))
           E == {i \in DOMAIN s : s[i] \in R}
           D == Counted(g) \ Counted(f)
           b == [p \in Paths |-> CHOOSE h : h \in Bijection(1 .. N(p), F(p))]
           m == [t \in D |-> b[t[1]][t[2] - f[t[1]]]]
<1>0. /\ \A p \in Paths : EntriesAt(s, p) = F(p)
      /\ EntriesIn(s, R) = E
  BY DEF EntriesAt, EntriesIn
<1>1. IsFiniteSet(DOMAIN s)
  <2>1. DOMAIN s = 1 .. Len(s) /\ Len(s) \in Nat
    OBVIOUS
  <2>2. QED
    BY <2>1, FS_Interval
<1>2. IsFiniteSet(E) /\ Cardinality(E) \in Nat
  BY <1>1, FS_Subset, FS_CardinalityType
<1>3. ASSUME NEW p \in Paths
      PROVE  N(p) \in Nat /\ b[p] \in Bijection(1 .. N(p), F(p))
  <2>1. IsFiniteSet(F(p))
    BY <1>1, FS_Subset
  <2>2. N(p) \in Nat /\ ExistsBijection(1 .. N(p), F(p))
    BY <2>1, FS_CardinalityType
  <2>3. b[p] = CHOOSE h : h \in Bijection(1 .. N(p), F(p))
    OBVIOUS
  <2>4. \E h : h \in Bijection(1 .. N(p), F(p))
    BY <2>2 DEF ExistsBijection
  <2>5. QED
    BY <2>2, <2>3, <2>4
<1>4. ASSUME NEW p \in Paths
      PROVE  /\ \A k \in 1 .. N(p) : b[p][k] \in F(p)
             /\ \A k, l \in 1 .. N(p) : b[p][k] = b[p][l] => k = l
             /\ \A i \in F(p) : \E k \in 1 .. N(p) : b[p][k] = i
  <2> DEFINE I == 1 .. N(p)
             B == b[p]
             G == F(p)
  <2>1. B \in Bijection(I, G)
    BY <1>3
  <2> HIDE DEF I, B, G
  <2>2. B \in Injection(I, G) /\ B \in Surjection(I, G)
    BY <2>1 DEF Bijection
  <2>3. B \in [I -> G] /\ \A k, l \in I : B[k] = B[l] => k = l
    BY <2>2 DEF Injection, IsInjective
  <2>4. \A i \in G : \E k \in I : B[k] = i
    BY <2>2 DEF Surjection
  <2>5. QED
    BY <2>3, <2>4 DEF I, B, G
<1>5. ASSUME NEW t
      PROVE  t \in D <=> \E p \in Paths : p \in R /\
                \E k \in 1 .. N(p) : t = <<p, f[p] + k>>
  <2>1. ASSUME t \in D
        PROVE  \E p \in Paths : p \in R /\ \E k \in 1 .. N(p) : t = <<p, f[p] + k>>
    <3>1. PICK p \in Paths : \E j \in 1 .. g[p] : t = <<p, j>>
      BY <2>1, CountedMember
    <3>2. PICK j \in 1 .. g[p] : t = <<p, j>>
      BY <3>1
    <3>3. j \notin 1 .. f[p]
      BY <2>1, <3>2, CountedMember
    <3>4. f[p] \in Nat /\ g[p] \in Nat /\ N(p) \in Nat
      BY <1>3
    <3>5. g[p] = f[p] + IF p \in R THEN N(p) ELSE 0
      BY <1>0
    <3> HIDE DEF N
    <3>6. p \in R /\ j - f[p] \in 1 .. N(p) /\ j = f[p] + (j - f[p])
      BY <3>3, <3>4, <3>5
    <3>7. QED
      BY <3>2, <3>6
  <2>2. ASSUME NEW p \in Paths, p \in R, NEW k \in 1 .. N(p), t = <<p, f[p] + k>>
        PROVE  t \in D
    <3>1. f[p] \in Nat /\ g[p] \in Nat /\ N(p) \in Nat
      BY <1>3
    <3>2. g[p] = f[p] + N(p)
      BY <1>0, <2>2
    <3> HIDE DEF N
    <3>3. f[p] + k \in 1 .. g[p] /\ f[p] + k \notin 1 .. f[p]
      BY <3>1, <3>2
    <3>4. t \in Counted(g)
      BY <2>2, <3>3, CountedMember
    <3>5. t \notin Counted(f)
      <4>1. SUFFICES ASSUME t \in Counted(f) PROVE FALSE
        OBVIOUS
      <4>2. PICK q \in Paths : \E j \in 1 .. f[q] : t = <<q, j>>
        BY <4>1, CountedMember
      <4>3. PICK j \in 1 .. f[q] : t = <<q, j>>
        BY <4>2
      <4>4. q = p /\ j = f[p] + k
        BY <2>2, <4>3
      <4>5. QED
        BY <3>3, <4>4
    <3>6. QED
      BY <3>4, <3>5
  <2>3. QED
    BY <2>1, <2>2
<1> HIDE DEF D, b, N
<1>6. ASSUME NEW t \in D, NEW p \in Paths, NEW k \in 1 .. N(p), t = <<p, f[p] + k>>
      PROVE  m[t] = b[p][k]
  <2>1. t[1] = p /\ t[2] = f[p] + k
    BY <1>6
  <2>2. f[p] \in Nat /\ k \in Int
    BY <1>3
  <2>3. t[2] - f[t[1]] = k
    BY <2>1, <2>2
  <2>4. QED
    BY <2>1, <2>3
<1> HIDE DEF m
<1>7. m \in [D -> E]
  <2>1. ASSUME NEW t \in D PROVE m[t] \in E
    <3>1. PICK p \in Paths : p \in R /\ \E k \in 1 .. N(p) : t = <<p, f[p] + k>>
      BY <1>5
    <3>2. PICK k \in 1 .. N(p) : t = <<p, f[p] + k>>
      BY <3>1
    <3>3. m[t] = b[p][k] /\ b[p][k] \in F(p)
      BY <1>4, <1>6, <3>2
    <3>4. QED
      BY <3>1, <3>3
  <2>2. QED
    BY <2>1 DEF m
<1>8. ASSUME NEW t \in D, NEW u \in D, m[t] = m[u] PROVE t = u
  <2>1. PICK p \in Paths : p \in R /\ \E k \in 1 .. N(p) : t = <<p, f[p] + k>>
    BY <1>5
  <2>2. PICK k \in 1 .. N(p) : t = <<p, f[p] + k>>
    BY <2>1
  <2>3. PICK q \in Paths : q \in R /\ \E l \in 1 .. N(q) : u = <<q, f[q] + l>>
    BY <1>5
  <2>4. PICK l \in 1 .. N(q) : u = <<q, f[q] + l>>
    BY <2>3
  <2>5. b[p][k] = b[q][l] /\ b[p][k] \in F(p) /\ b[q][l] \in F(q)
    BY <1>4, <1>6, <1>8, <2>2, <2>4
  <2>6. p = q
    BY <2>5
  <2>7. k = l
    BY <1>4, <2>5, <2>6
  <2>8. QED
    BY <2>2, <2>4, <2>6, <2>7
<1>9. ASSUME NEW i \in E PROVE \E t \in D : m[t] = i
  <2>1. s[i] \in Paths /\ s[i] \in R /\ i \in F(s[i])
    OBVIOUS
  <2>2. PICK k \in 1 .. N(s[i]) : b[s[i]][k] = i
    BY <1>4, <2>1
  <2>3. <<s[i], f[s[i]] + k>> \in D
    BY <1>5, <2>1
  <2>4. m[<<s[i], f[s[i]] + k>>] = i
    BY <1>6, <2>1, <2>2, <2>3
  <2>5. QED
    BY <2>3, <2>4
<1>10. IsFiniteSet(D) /\ Cardinality(D) = Cardinality(E)
  <2> HIDE DEF E
  <2>1. m \in Bijection(D, E)
    BY <1>7, <1>8, <1>9 DEF Bijection, Injection, Surjection, IsInjective
  <2>2. ExistsBijection(D, E)
    BY <2>1 DEF ExistsBijection
  <2>3. ExistsBijection(E, D)
    BY <2>2, Fun_ExistsBijSymmetric
  <2>4. QED
    BY <1>2, <2>3, FS_Bijection
<1>11. Counted(g) = Counted(f) \cup D /\ Counted(f) \cap D = {}
  <2>1. Counted(f) \subseteq Counted(g)
    <3> SUFFICES ASSUME NEW t \in Counted(f) PROVE t \in Counted(g)
      OBVIOUS
    <3>1. PICK p \in Paths : \E k \in 1 .. f[p] : t = <<p, k>>
      BY CountedMember
    <3>2. PICK k \in 1 .. f[p] : t = <<p, k>>
      BY <3>1
    <3>3. f[p] \in Nat /\ N(p) \in Nat /\ g[p] \in Nat
      BY <1>3
    <3>4. g[p] = f[p] + IF p \in R THEN N(p) ELSE 0
      BY <1>0 DEF N
    <3>5. k \in 1 .. g[p]
      BY <3>3, <3>4
    <3>6. QED
      BY <3>2, <3>5, CountedMember
  <2>2. QED
    BY <2>1 DEF D
<1>12. Cardinality(Counted(f) \cap D) = 0
  BY <1>11, FS_EmptySet
<1>13. Cardinality(Counted(f)) \in Nat
  BY FS_CardinalityType
<1>14. /\ IsFiniteSet(Counted(f) \cup D)
       /\ Cardinality(Counted(f) \cup D) =
            Cardinality(Counted(f)) + Cardinality(D) - Cardinality(Counted(f) \cap D)
  BY <1>10, FS_Union
<1>15. QED
  BY <1>0, <1>2, <1>10, <1>11, <1>12, <1>13, <1>14

(* A change of the tree moves entries of the list to the counters: what a  *)
(* client has in both stays the same.                                      *)
LEMMA StructureChangedMoves ==
  ASSUME pending \in [Clients -> Seq(Paths)],
         NEW tree, NEW held \in [Clients -> [Paths -> Nat]],
         StructureChanged(tree, held), NEW c \in Clients,
         IsFiniteSet(Counted(held[c]))
  PROVE  /\ IsFiniteSet(Counted(subs'[c]))
         /\ Cardinality(Counted(subs'[c])) + Len(pending'[c]) =
              Cardinality(Counted(held[c])) + Len(pending[c])
<1> DEFINE s == pending[c]
           R == {p \in Paths : Resolves(tree, p)}
           E == EntriesIn(s, R)
           f == held[c]
           g == subs'[c]
<1>1. s \in Seq(Paths) /\ f \in [Paths -> Nat] /\ IsFiniteSet(Counted(f))
  OBVIOUS
<1>2. g \in [Paths -> Nat]
  BY StructureChangedFacts
<1>3. \A p \in Paths :
        g[p] = f[p] + IF p \in R THEN Cardinality(EntriesAt(s, p)) ELSE 0
  BY DEF StructureChanged, PendingCount, EntriesAt
<1>4. E = Found(tree, c)
  <2>1. \A i \in DOMAIN s : s[i] \in Paths
    BY <1>1
  <2>2. QED
    BY <2>1 DEF Found, EntriesIn
<1>5. pending'[c] = SubSeq(s, Cardinality(E) + 1, Len(s))
  BY <1>4 DEF StructureChanged
<1> HIDE DEF s, R, f, g
<1>6. /\ IsFiniteSet(Counted(g))
      /\ Cardinality(Counted(g)) = Cardinality(Counted(f)) + Cardinality(E)
  BY <1>1, <1>2, <1>3, EntriesCounted
<1>7. Cardinality(E) \in Nat /\ Cardinality(E) <= Len(s)
  <2>1. DOMAIN s = 1 .. Len(s) /\ Len(s) \in Nat
    BY <1>1
  <2>2. IsFiniteSet(DOMAIN s) /\ Cardinality(DOMAIN s) = Len(s)
    <3> DEFINE n == Len(s)
    <3>1. 1 \in Int /\ n \in Int /\ n >= 0 /\ n - 1 + 1 = n
      BY <2>1
    <3> HIDE DEF n
    <3>2. IsFiniteSet(1 .. n) /\ Cardinality(1 .. n) = IF 1 > n THEN 0 ELSE n - 1 + 1
      BY <3>1, FS_Interval
    <3>3. Cardinality(1 .. n) = n
      BY <3>1, <3>2
    <3>4. QED
      BY <2>1, <3>2, <3>3 DEF n
  <2>3. E \in SUBSET DOMAIN s
    BY DEF EntriesIn
  <2> HIDE DEF E
  <2>4. QED
    BY <2>2, <2>3, FS_Subset, FS_CardinalityType
<1>8. Len(pending'[c]) = Len(s) - Cardinality(E)
  <2> DEFINE k == Cardinality(E)
  <2>1. k \in Nat /\ k <= Len(s) /\ Len(s) \in Nat
    BY <1>1, <1>7
  <2>2. pending'[c] = SubSeq(s, k + 1, Len(s))
    BY <1>5
  <2> HIDE DEF k
  <2>3. Len(SubSeq(s, k + 1, Len(s))) = Len(s) - k
    BY <1>1, <2>1
  <2>4. QED
    BY <2>2, <2>3 DEF k
<1>9. Cardinality(Counted(f)) \in Nat /\ Len(s) \in Nat
  BY <1>1, FS_CardinalityType
<1>10. QED
  BY <1>6, <1>7, <1>8, <1>9 DEF s, f, g

(* At any time a client has finitely many subscriptions, so that they can  *)
(* be counted: every step adds one, moves entries of a list, or lowers     *)
(* counters.                                                               *)
FinitelyMany == \A c \in Clients : IsFiniteSet(Counted(subs[c]))

LEMMA StepFinite == TypeOK /\ FinitelyMany /\ [Next]_vars => FinitelyMany'
<1> SUFFICES ASSUME TypeOK, FinitelyMany, [Next]_vars, NEW d \in Clients
             PROVE  IsFiniteSet(Counted(subs'[d]))
  BY DEF FinitelyMany
<1>t. TypeOK' /\ subs' \in [Clients -> [Paths -> Nat]]
  <2>1. TypeOK'
    BY StepType
  <2>2. QED
    BY <2>1 DEF TypeOK
<1>d. IsFiniteSet(Counted(subs[d])) /\ subs[d] \in [Paths -> Nat] /\ subs'[d] \in [Paths -> Nat]
  BY <1>t DEF FinitelyMany, TypeOK
<1>n. \A q \in Paths : subs[d][q] \in Nat /\ subs[d][q] <= subs[d][q]
  BY <1>d
<1>f. (\A q \in Paths : subs'[d][q] <= subs[d][q]) => IsFiniteSet(Counted(subs'[d]))
  BY <1>d, FewerCounted
<1>1. ASSUME NEW c \in Clients, ClientAdded(c) PROVE IsFiniteSet(Counted(subs'[d]))
  BY <1>1, <1>d DEF ClientAdded
<1>2. ASSUME NEW c \in Clients, ClientRemoved(c) PROVE IsFiniteSet(Counted(subs'[d]))
  <2>1. \A q \in Paths : subs'[d][q] = subs[d][q] \/ subs'[d][q] = 0
    BY <1>2 DEF ClientRemoved, TypeOK
  <2>2. QED
    BY <2>1, <1>f, <1>n
<1>3. ASSUME NEW o \in Objects, ObjectAdded(o) PROVE IsFiniteSet(Counted(subs'[d]))
  <2> DEFINE held == IF o \notin Lasting THEN Renew(subs, o) ELSE subs
  <2>1. held \in [Clients -> [Paths -> Nat]]
    BY RenewType DEF TypeOK
  <2>2. StructureChanged(attached', held)
    BY <1>3 DEF ObjectAdded
  <2>3. \A q \in Paths : held[d][q] = subs[d][q] \/ held[d][q] = 0
    BY DEF Renew
  <2>4. pending \in [Clients -> Seq(Paths)]
    BY DEF TypeOK
  <2> HIDE DEF held
  <2>5. \A q \in Paths : held[d][q] <= subs[d][q]
    BY <2>3, <1>n
  <2>6. IsFiniteSet(Counted(held[d]))
    BY <1>d, <2>1, <2>5, FewerCounted
  <2>7. QED
    BY <2>1, <2>2, <2>4, <2>6, StructureChangedMoves
<1>4. ASSUME NEW o \in Objects, ObjectRemoved(o) PROVE IsFiniteSet(Counted(subs'[d]))
  BY <1>4, <1>d, StructureChangedMoves DEF ObjectRemoved, TypeOK
<1>5. ASSUME NEW c \in Clients, NEW p \in Paths, Subscribe(c, p)
      PROVE  IsFiniteSet(Counted(subs'[d]))
  <2>1. CASE d = c /\ Resolves(attached, p)
    <3> DEFINE n == subs[d][p] + 1
    <3>1. \A q \in Paths : subs'[d][q] = IF q = p THEN n ELSE subs[d][q]
      BY <1>5, <2>1 DEF Subscribe, TypeOK
    <3>2. Counted(subs'[d]) \subseteq Counted(subs[d]) \cup {<<p, n>>}
      <4> SUFFICES ASSUME NEW t \in Counted(subs'[d])
                   PROVE  t \in Counted(subs[d]) \/ t = <<p, n>>
        OBVIOUS
      <4>1. PICK q \in Paths : \E k \in 1 .. subs'[d][q] : t = <<q, k>>
        BY CountedMember
      <4>2. PICK k \in 1 .. subs'[d][q] : t = <<q, k>>
        BY <4>1
      <4>3. k \in 1 .. subs[d][q] \/ (q = p /\ k = n)
        <5>1. subs'[d][q] = subs[d][q] \/ (q = p /\ subs'[d][q] = subs[d][q] + 1)
          BY <3>1
        <5>2. subs[d][q] \in Nat
          BY <1>n
        <5>3. k \in 1 .. subs[d][q] \/ (q = p /\ k = subs[d][q] + 1)
          BY <5>1, <5>2
        <5>4. QED
          BY <5>3
      <4>4. QED
        BY <4>2, <4>3, CountedMember
    <3>3. IsFiniteSet({<<p, n>>})
      BY FS_Singleton
    <3>4. QED
      BY <1>d, <3>2, <3>3, FS_Union, FS_Subset
  <2>2. CASE ~(d = c /\ Resolves(attached, p))
    <3>1. subs'[d] = subs[d]
      BY <1>5, <2>2 DEF Subscribe, TypeOK
    <3>2. QED
      BY <3>1, <1>d
  <2>3. QED
    BY <2>1, <2>2
<1>6. ASSUME NEW c \in Clients, NEW p \in Paths, NEW force \in BOOLEAN,
             Unsubscribe(c, p, force)
      PROVE  IsFiniteSet(Counted(subs'[d]))
  <2>1. \A q \in Paths : subs'[d][q] = subs[d][q] \/ subs'[d][q] = Left(subs[d][q], force)
    BY <1>6 DEF Unsubscribe, TypeOK
  <2>2. \A q \in Paths : subs'[d][q] <= subs[d][q]
    BY <2>1, <1>n DEF Left
  <2>3. QED
    BY <2>2, <1>f
<1>7. ASSUME NEW c \in Clients, NEW p \in Paths, NEW force \in BOOLEAN,
             UnsubscribePending(c, p, force)
      PROVE  IsFiniteSet(Counted(subs'[d]))
  BY <1>7, <1>d DEF UnsubscribePending
<1>8. ASSUME NEW c \in Clients, NEW p \in Paths, NEW force \in BOOLEAN,
             UnsubscribeSubtree(c, p, force)
      PROVE  IsFiniteSet(Counted(subs'[d]))
  <2>1. \A q \in Paths : subs'[d][q] = subs[d][q] \/ subs'[d][q] = Left(subs[d][q], force)
    BY <1>8 DEF UnsubscribeSubtree, TypeOK
  <2>2. \A q \in Paths : subs'[d][q] <= subs[d][q]
    BY <2>1, <1>n DEF Left
  <2>3. QED
    BY <2>2, <1>f
<1>9. ASSUME NEW nodes \in SUBSET ChannelPaths, ChannelsUpdated(nodes)
      PROVE  IsFiniteSet(Counted(subs'[d]))
  BY <1>9, <1>d DEF ChannelsUpdated
<1>10. CASE UNCHANGED vars
  BY <1>10, <1>d DEF vars
<1>11. QED
  BY <1>1, <1>2, <1>3, <1>4, <1>5, <1>6, <1>7, <1>8, <1>9, <1>10 DEF Next

(* A step that changes the tree and brings no new nodes keeps the number   *)
(* of subscriptions of every client.                                       *)
LEMMA StepMoves ==
  ASSUME TypeOK, FinitelyMany, [Next]_vars,
         attached' # attached, attached' \ attached \subseteq Lasting,
         NEW c \in Clients
  PROVE  Held(c)' = Held(c)
<1>t. /\ pending \in [Clients -> Seq(Paths)] /\ subs \in [Clients -> [Paths -> Nat]]
      /\ IsFiniteSet(Counted(subs[c]))
  BY DEF TypeOK, FinitelyMany
<1>1. StructureChanged(attached', subs)
  <2>1. \E o \in Objects : ObjectAdded(o) \/ ObjectRemoved(o)
    BY DEF Next, vars, ClientAdded, ClientRemoved, Subscribe, Unsubscribe,
           UnsubscribePending, UnsubscribeSubtree, ChannelsUpdated
  <2>2. ASSUME NEW o \in Objects, ObjectAdded(o) PROVE StructureChanged(attached', subs)
    <3>1. o \in Lasting
      BY <2>2 DEF ObjectAdded
    <3>2. QED
      BY <2>2, <3>1 DEF ObjectAdded
  <2>3. ASSUME NEW o \in Objects, ObjectRemoved(o) PROVE StructureChanged(attached', subs)
    BY <2>3 DEF ObjectRemoved
  <2>4. QED
    BY <2>1, <2>2, <2>3
<1>2. Cardinality(Counted(subs'[c])) + Len(pending'[c]) =
        Cardinality(Counted(subs[c])) + Len(pending[c])
  BY <1>t, <1>1, StructureChangedMoves
<1>3. QED
  BY <1>2 DEF Held, Counted

(* A change of the tree moves subscriptions between the waiting lists and  *)
(* the nodes one by one (_on_device_tree_structure_changed()), for any     *)
(* tree and any lists, although the entries taken off may be wrong ones.   *)
THEOREM ChangesMove == Spec => TreeChangesMove
<1> DEFINE Moves == \A c \in Clients :
              (attached' # attached /\ attached' \ attached \subseteq Lasting)
                => Held(c)' = Held(c)
<1>1. Init => FinitelyMany
  <2> SUFFICES ASSUME Init, NEW c \in Clients PROVE IsFiniteSet(Counted(subs[c]))
    BY DEF FinitelyMany
  <2>1. \A p \in Paths : subs[c][p] = 0
    BY DEF Init
  <2>2. Counted(subs[c]) = {}
    <3>1. ASSUME NEW t \in Counted(subs[c]) PROVE FALSE
      <4>1. PICK p \in Paths : \E k \in 1 .. subs[c][p] : t = <<p, k>>
        BY CountedMember
      <4>2. QED
        BY <2>1, <4>1
    <3>2. QED
      BY <3>1
  <2>3. QED
    BY <2>2, FS_EmptySet
<1>2. TypeOK /\ FinitelyMany /\ [Next]_vars => Moves
  BY StepMoves
<1>3. TypeOK /\ FinitelyMany /\ [Next]_vars => [Moves]_vars
  BY <1>2
<1>4. Spec => [][Moves]_vars
  BY <1>1, <1>3, InitType, StepType, StepFinite, PTL DEF Spec
<1>5. QED
  BY <1>4 DEF TreeChangesMove
=============================================================================
