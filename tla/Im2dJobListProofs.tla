-------------------------- MODULE Im2dJobListProofs --------------------------
(***************************************************************************)
(* The doubly linked list of the C build is the job map, for any number of *)
(* threads, handles and jobs.                                              *)
(***************************************************************************)
EXTENDS Im2dJobList, Im2dJobProofs

Allocated == {h \in Handles : node[h] # Null}

ListType ==
  /\ head \in Handles \cup {Null} /\ tail \in Handles \cup {Null}
  /\ node \in [Handles -> Nodes \cup {Null}]

\* The pointers of the nodes name nodes and agree with each other and with the
\* two ends.
LinkInv ==
  /\ head = Null <=> tail = Null
  /\ head # Null => head \in Allocated
  /\ tail # Null => tail \in Allocated
  /\ \A h \in Allocated :
       /\ node[h].prev = Null <=> h = head
       /\ node[h].next = Null <=> h = tail
       /\ node[h].next # Null => node[h].next \in Allocated /\ node[node[h].next].prev = h
       /\ node[h].prev # Null => node[h].prev \in Allocated /\ node[node[h].prev].next = h

\* The walk from head comes to every node, so pointers that agree do not run in
\* a ring beside the list.
WalkInv == \A S \in SUBSET Handles : GoesOn(S) => Allocated \subseteq S

\* The nodes are the entries of the map.
ValueInv == \A h \in Handles : /\ node[h] = Null <=> job_map[h] = Null
                               /\ node[h] # Null => node[h].value = job_map[h]

ListInv == ListType /\ LinkInv /\ WalkInv /\ ValueInv

-----------------------------------------------------------------------------
\* The fields of a node.
LEMMA NodeFields ==
  ASSUME NEW p \in Handles \cup {Null}, NEW q \in Handles \cup {Null}, NEW v \in Jobs
  PROVE  /\ Node(p, q, v) \in Nodes /\ Node(p, q, v) # Null
         /\ Node(p, q, v).prev = p /\ Node(p, q, v).next = q /\ Node(p, q, v).value = v
  BY NodeAssumption DEF Node, Nodes

LEMMA SetPointer ==
  ASSUME NEW r \in Nodes, NEW p \in Handles \cup {Null}
  PROVE  /\ [r EXCEPT !.next = p] \in Nodes /\ [r EXCEPT !.next = p] # Null
         /\ [r EXCEPT !.next = p].next = p /\ [r EXCEPT !.next = p].prev = r.prev
         /\ [r EXCEPT !.next = p].value = r.value
         /\ [r EXCEPT !.prev = p] \in Nodes /\ [r EXCEPT !.prev = p] # Null
         /\ [r EXCEPT !.prev = p].prev = p /\ [r EXCEPT !.prev = p].next = r.next
         /\ [r EXCEPT !.prev = p].value = r.value
  BY NodeAssumption DEF Nodes

LEMMA AllocatedNode ==
  ASSUME ListType, NEW h \in Allocated
  PROVE  /\ h \in Handles /\ h # Null /\ node[h] \in Nodes /\ node[h].prev \in Handles \cup {Null}
         /\ node[h].next \in Handles \cup {Null} /\ node[h].value \in Jobs
  BY NullAssumption DEF ListType, Allocated, Nodes

\* The walk finds the allocated nodes and no others.
LEMMA FindsAllocated ==
  ASSUME ListInv, NEW h \in Handles
  PROVE  rga_map_find(h) = IF node[h] = Null THEN Null ELSE h
  <1>1. h \in Allocated => h \in Walk
    BY DEF ListInv, WalkInv, Walk
  <1>2. GoesOn(Allocated)
    BY DEF GoesOn, ListInv, LinkInv, Allocated
  <1>3. h \in Walk => h \in Allocated
    BY <1>2 DEF Walk, Allocated
  <1> QED
    BY <1>1, <1>3 DEF rga_map_find, Allocated

\* A node's neighbours are other nodes, and different ones.
LEMMA NoRing ==
  ASSUME ListInv, NEW n \in Allocated
  PROVE  /\ node[n].prev # n /\ node[n].next # n
         /\ node[n].prev = node[n].next => node[n].prev = Null
  <1> USE DEF ListInv, LinkInv
  <1>0. n \in Handles /\ n # Null
    BY AllocatedNode
  <1>1. node[n].next # n
    <2> SUFFICES ASSUME node[n].next = n PROVE FALSE
      OBVIOUS
    <2>1. node[n].prev = n
      BY <1>0
    <2>2. \A h \in Handles \ {n} : node[h] # Null => node[h].next # n
      BY <1>0, <2>1 DEF Allocated
    <2>3. GoesOn(Handles \ {n})
      BY <1>0, <2>1, <2>2, AllocatedNode DEF GoesOn, Allocated
    <2> QED
      BY <2>3 DEF WalkInv
  <1>2. node[n].prev # n
    BY <1>0, <1>1
  <1>3. ASSUME node[n].prev = node[n].next, node[n].prev # Null PROVE FALSE
    <2> DEFINE m == node[n].next
    <2>1. m \in Allocated /\ node[m].prev = n /\ node[m].next = n /\ node[n].prev = m /\ m # Null
      BY <1>3
    <2>2. n # head /\ m # head
      BY <1>0, <2>1
    <2> HIDE DEF m
    <2>3. \A h \in Handles \ {n, m} : node[h] # Null => node[h].next # n /\ node[h].next # m
      BY <1>0, <2>1 DEF Allocated
    <2>4. GoesOn(Handles \ {n, m})
      BY <2>2, <2>3, AllocatedNode DEF GoesOn, Allocated
    <2> QED
      BY <1>0, <2>4 DEF WalkInv
  <1> QED
    BY <1>1, <1>2, <1>3

-----------------------------------------------------------------------------
(* rga_map_insert_tail                                                     *)

LEMMA InsertKeepsListInv ==
  ASSUME ListInv, NEW key \in Handles, node[key] = Null, NEW v \in Jobs,
         rga_map_insert_tail(key, v), job_map \in [Handles -> Jobs \cup {Null}],
         job_map' = [job_map EXCEPT ![key] = v]
  PROVE  ListInv'
  <1>0. key # Null /\ key \notin Allocated /\ key # tail
    BY NullAssumption DEF ListInv, LinkInv, Allocated
  <1>1. /\ node'[key] = Node(tail, Null, v)
        /\ \A h \in Handles \ {key, tail} : node'[h] = node[h]
        /\ tail # Null => node'[tail] = [node[tail] EXCEPT !.next = key]
        /\ head' = (IF tail = Null THEN key ELSE head) /\ tail' = key
    BY <1>0 DEF rga_map_insert_tail, ListInv, ListType
  <1>2. /\ node'[key] \in Nodes /\ node'[key] # Null
        /\ node'[key].prev = tail /\ node'[key].next = Null /\ node'[key].value = v
    <2>1. tail \in Handles \cup {Null} /\ Null \in Handles \cup {Null}
      BY DEF ListInv, ListType
    <2>2. /\ Node(tail, Null, v) \in Nodes /\ Node(tail, Null, v) # Null
          /\ Node(tail, Null, v).prev = tail /\ Node(tail, Null, v).next = Null
          /\ Node(tail, Null, v).value = v
      BY ONLY <2>1, v \in Jobs, NodeFields
    <2> QED
      BY <1>1, <2>2
  <1>3. ASSUME tail # Null
        PROVE  /\ node'[tail] \in Nodes /\ node'[tail] # Null /\ node'[tail].next = key
               /\ node'[tail].prev = node[tail].prev /\ node'[tail].value = node[tail].value
    <2>1. node[tail] \in Nodes /\ key \in Handles \cup {Null}
      BY <1>3, AllocatedNode DEF ListInv, LinkInv
    <2> DEFINE r == [node[tail] EXCEPT !.next = key]
    <2>2. r \in Nodes /\ r # Null /\ r.next = key /\ r.prev = node[tail].prev /\ r.value = node[tail].value
      BY ONLY <2>1, SetPointer
    <2> QED
      BY <1>1, <1>3, <2>2
  <1>4. ListType'
    <2>1. node' = [h \in Handles |-> node'[h]]
      BY DEF rga_map_insert_tail
    <2>2. \A h \in Handles : node'[h] \in Nodes \cup {Null}
      <3> SUFFICES ASSUME NEW h \in Handles PROVE node'[h] \in Nodes \cup {Null}
        OBVIOUS
      <3>1. CASE h = key \/ h = tail
        BY <1>2, <1>3, <3>1, NullAssumption
      <3>2. CASE h \notin {key, tail}
        BY <1>1, <3>2 DEF ListInv, ListType
      <3> QED
        BY <3>1, <3>2
    <2> QED
      BY <1>1, <2>1, <2>2 DEF ListInv, ListType
  <1>5. Allocated' = Allocated \cup {key}
    <2>1. \A h \in Handles : node'[h] # Null <=> node[h] # Null \/ h = key
      <3> SUFFICES ASSUME NEW h \in Handles PROVE node'[h] # Null <=> node[h] # Null \/ h = key
        OBVIOUS
      <3>1. CASE h = key
        BY <1>2, <3>1
      <3>2. CASE h # key /\ h = tail
        BY <1>3, <3>2, NullAssumption DEF ListInv, LinkInv, Allocated
      <3>3. CASE h \notin {key, tail}
        BY <1>1, <3>3
      <3> QED
        BY <3>1, <3>2, <3>3
    <2> QED
      BY <2>1 DEF Allocated
  <1>6. tail = Null => Allocated = {}
    <2>1. tail = Null => GoesOn({})
      BY DEF GoesOn, ListInv, LinkInv
    <2> QED
      BY <2>1 DEF ListInv, WalkInv
  <1>7. LinkInv'
    <2>1. CASE tail = Null
      BY <1>0, <1>1, <1>2, <1>5, <1>6, <2>1 DEF LinkInv
    <2>2. CASE tail # Null
      <3>1. tail \in Allocated /\ head \in Allocated /\ head' = head /\ node[tail].next = Null
        BY <1>1, <2>2 DEF ListInv, LinkInv
      <3>2. \A h \in Allocated : /\ h \in Handles /\ h # key /\ h # Null
                                 /\ node'[h].prev = node[h].prev
                                 /\ node'[h].next = IF h = tail THEN key ELSE node[h].next
        BY <1>0, <1>1, <1>3, <2>2, AllocatedNode DEF ListInv
      <3>3. ASSUME NEW h \in Allocated
            PROVE  /\ node'[h].prev = Null <=> h = head'
                   /\ node'[h].next = Null <=> h = tail'
                   /\ node'[h].next # Null => node'[h].next \in Allocated' /\ node'[node'[h].next].prev = h
                   /\ node'[h].prev # Null => node'[h].prev \in Allocated' /\ node'[node'[h].prev].next = h
        BY <1>0, <1>1, <1>2, <1>5, <3>1, <3>2 DEF ListInv, LinkInv
      <3>4. /\ node'[key].prev = Null <=> key = head'
            /\ node'[key].next = Null <=> key = tail'
            /\ node'[key].next # Null => node'[key].next \in Allocated' /\ node'[node'[key].next].prev = key
            /\ node'[key].prev # Null => node'[key].prev \in Allocated' /\ node'[node'[key].prev].next = key
        BY <1>0, <1>1, <1>2, <1>5, <2>2, <3>1, <3>2
      <3> QED
        BY <1>0, <1>1, <1>5, <3>1, <3>2, <3>3, <3>4 DEF LinkInv
    <2> QED
      BY <2>1, <2>2
  <1>8. WalkInv'
    <2> SUFFICES ASSUME NEW S \in SUBSET Handles, GoesOn(S)' PROVE Allocated' \subseteq S
      BY DEF WalkInv
    <2>1. CASE tail = Null
      BY <1>0, <1>1, <1>5, <1>6, <2>1 DEF GoesOn
    <2>2. CASE tail # Null
      <3>1. \A h \in S : node[h] # Null /\ node[h].next # Null => node'[h] = node[h]
        BY <1>0, <1>1, <2>2 DEF ListInv, LinkInv, Allocated
      <3>2. GoesOn(S)
        BY <1>1, <2>2, <3>1 DEF GoesOn
      <3>3. Allocated \subseteq S /\ tail \in S
        BY <2>2, <3>2 DEF ListInv, WalkInv, LinkInv
      <3>4. key \in S
        BY <1>0, <1>3, <2>2, <3>3 DEF GoesOn
      <3> QED
        BY <1>5, <3>3, <3>4
    <2> QED
      BY <2>1, <2>2
  <1>9. ValueInv'
    <2>1. v # Null
      BY NullAssumption
    <2>2. ASSUME NEW h \in Handles
          PROVE  /\ node'[h] = Null <=> job_map'[h] = Null
                 /\ node'[h] # Null => node'[h].value = job_map'[h]
      <3>1. CASE h = key
        BY <1>2, <2>1, <3>1
      <3>2. CASE h # key /\ h = tail
        <4>1. node[tail] # Null
          BY <1>0, <3>2, NullAssumption DEF ListInv, LinkInv, Allocated
        <4> QED
          BY <1>3, <3>2, <4>1, NullAssumption DEF ListInv, ValueInv
      <3>3. CASE h # key /\ h # tail
        BY <1>1, <3>3 DEF ListInv, ValueInv
      <3> QED
        BY <3>1, <3>2, <3>3
    <2> QED
      BY <2>2 DEF ValueInv
  <1> QED
    BY <1>4, <1>7, <1>8, <1>9 DEF ListInv

-----------------------------------------------------------------------------
(* rga_map_delete                                                          *)

LEMMA DeleteKeepsListInv ==
  ASSUME ListInv, NEW n \in Allocated, rga_map_delete(n), job_map \in [Handles -> Jobs \cup {Null}],
         job_map' = [job_map EXCEPT ![n] = Null]
  PROVE  ListInv'
  <1> DEFINE p == node[n].prev
             q == node[n].next
  <1>0. /\ n \in Handles /\ n # Null /\ p \in Handles \cup {Null} /\ q \in Handles \cup {Null}
        /\ p # n /\ q # n /\ (p = q => p = Null)
        /\ p # Null => p \in Allocated /\ node[p].next = n
        /\ q # Null => q \in Allocated /\ node[q].prev = n
        /\ p = Null <=> n = head
        /\ q = Null <=> n = tail
    BY AllocatedNode, NoRing DEF ListInv, LinkInv
  <1>1. /\ node'[n] = Null
        /\ p # Null => node'[p] = [node[p] EXCEPT !.next = q]
        /\ q # Null => node'[q] = [node[q] EXCEPT !.prev = p]
        /\ \A h \in Handles \ {n, p, q} : node'[h] = node[h]
    BY <1>0 DEF rga_map_delete, Unlinked, Allocated
  <1>2. /\ head' = (IF p = Null THEN q ELSE head)
        /\ tail' = (IF q = Null THEN p ELSE tail)
    BY DEF rga_map_delete
  <1>3. node' = [h \in Handles |-> node'[h]]
    BY DEF rga_map_delete, Unlinked
  <1> HIDE DEF p, q
  \* The fields after the step, node by node.
  <1>4. ASSUME NEW h \in Allocated, h # n
        PROVE  /\ node'[h] \in Nodes /\ node'[h] # Null
               /\ node'[h].next = IF h = p THEN q ELSE node[h].next
               /\ node'[h].prev = IF h = q THEN p ELSE node[h].prev
               /\ node'[h].value = node[h].value
    <2>0. h \in Handles /\ h # Null /\ node[h] \in Nodes /\ node[h] # Null
      BY AllocatedNode DEF ListInv, Allocated
    <2>1. CASE h = p
      <3>1. node'[h] = [node[h] EXCEPT !.next = q] /\ h # q
        BY <1>0, <1>1, <2>0, <2>1
      <3>2. /\ [node[h] EXCEPT !.next = q] \in Nodes /\ [node[h] EXCEPT !.next = q] # Null
            /\ [node[h] EXCEPT !.next = q].next = q
            /\ [node[h] EXCEPT !.next = q].prev = node[h].prev
            /\ [node[h] EXCEPT !.next = q].value = node[h].value
        BY ONLY <1>0, <2>0, SetPointer
      <3> QED
        BY <2>1, <3>1, <3>2
    <2>2. CASE h = q
      <3>1. node'[h] = [node[h] EXCEPT !.prev = p] /\ h # p
        BY <1>0, <1>1, <2>0, <2>2
      <3>2. /\ [node[h] EXCEPT !.prev = p] \in Nodes /\ [node[h] EXCEPT !.prev = p] # Null
            /\ [node[h] EXCEPT !.prev = p].prev = p
            /\ [node[h] EXCEPT !.prev = p].next = node[h].next
            /\ [node[h] EXCEPT !.prev = p].value = node[h].value
        BY ONLY <1>0, <2>0, SetPointer
      <3> QED
        BY <2>2, <3>1, <3>2
    <2>3. CASE h # p /\ h # q
      BY <1>1, <1>4, <2>0, <2>3
    <2> QED
      BY <2>1, <2>2, <2>3
  <1>5. Allocated' = Allocated \ {n}
    <2>1. \A h \in Handles : node[h] = Null => h \notin {n, p, q} \/ h = Null
      BY <1>0 DEF Allocated
    <2>2. \A h \in Handles : node[h] = Null => node'[h] = Null
      BY <1>1, <2>1, NullAssumption
    <2> QED
      BY <1>1, <1>4, <2>2 DEF Allocated
  <1>6. ListType'
    <2>1. \A h \in Handles : node'[h] \in Nodes \cup {Null}
      BY <1>4, <1>5 DEF Allocated
    <2> QED
      BY <1>0, <1>2, <1>3, <2>1 DEF ListInv, ListType
  <1>7. LinkInv'
    <2>1. /\ head # Null => head \in Allocated
          /\ tail # Null => tail \in Allocated
          /\ head = Null <=> tail = Null
      BY DEF ListInv, LinkInv
    <2>2. head' # Null => head' \in Allocated'
      BY <1>0, <1>2, <1>5, <2>1
    <2>3. tail' # Null => tail' \in Allocated'
      BY <1>0, <1>2, <1>5, <2>1
    <2>4. head' = Null <=> tail' = Null
      BY <1>0, <1>2, <2>1
    <2>5. ASSUME NEW h \in Allocated'
          PROVE  /\ node'[h].prev = Null <=> h = head'
                 /\ node'[h].next = Null <=> h = tail'
                 /\ node'[h].next # Null => node'[h].next \in Allocated' /\ node'[node'[h].next].prev = h
                 /\ node'[h].prev # Null => node'[h].prev \in Allocated' /\ node'[node'[h].prev].next = h
      <3>0. /\ h \in Allocated /\ h # n
            /\ node'[h].next = IF h = p THEN q ELSE node[h].next
            /\ node'[h].prev = IF h = q THEN p ELSE node[h].prev
        BY <1>4, <1>5
      <3>1. /\ node[h].prev = Null <=> h = head
            /\ node[h].next = Null <=> h = tail
            /\ node[h].next # Null => node[h].next \in Allocated /\ node[node[h].next].prev = h
            /\ node[h].prev # Null => node[h].prev \in Allocated /\ node[node[h].prev].next = h
            /\ h # Null
        BY <3>0, AllocatedNode DEF ListInv, LinkInv
      <3>2. node[h].next = n <=> h = p
        BY <1>0, <3>0, <3>1 DEF p
      <3>3. node[h].prev = n <=> h = q
        BY <1>0, <3>0, <3>1 DEF q
      <3>4. node'[h].prev = Null <=> h = head'
        BY <1>0, <1>2, <3>0, <3>1
      <3>5. node'[h].next = Null <=> h = tail'
        BY <1>0, <1>2, <3>0, <3>1
      <3>6. ASSUME node'[h].next # Null
            PROVE  node'[h].next \in Allocated' /\ node'[node'[h].next].prev = h
        <4>1. CASE h = p
          <5>1. q \in Allocated /\ q # n /\ node'[q].prev = p
            BY <1>0, <1>4, <3>0, <3>6, <4>1
          <5> QED
            BY <1>5, <3>0, <4>1, <5>1
        <4>2. CASE h # p
          <5> DEFINE m == node[h].next
          <5>1. node'[h].next = m /\ m \in Allocated /\ node[m].prev = h /\ m # n
            BY <3>0, <3>1, <3>2, <3>6, <4>2
          <5> HIDE DEF m
          <5>2. m # q
            <6>1. m # Null
              BY <5>1, AllocatedNode DEF ListInv
            <6> QED
              BY <1>0, <3>0, <5>1, <6>1
          <5> QED
            BY <1>4, <1>5, <5>1, <5>2
        <4> QED
          BY <4>1, <4>2
      <3>7. ASSUME node'[h].prev # Null
            PROVE  node'[h].prev \in Allocated' /\ node'[node'[h].prev].next = h
        <4>1. CASE h = q
          <5>1. p \in Allocated /\ p # n /\ node'[p].next = q
            BY <1>0, <1>4, <3>0, <3>7, <4>1
          <5> QED
            BY <1>5, <3>0, <4>1, <5>1
        <4>2. CASE h # q
          <5> DEFINE m == node[h].prev
          <5>1. node'[h].prev = m /\ m \in Allocated /\ node[m].next = h /\ m # n
            BY <3>0, <3>1, <3>3, <3>7, <4>2
          <5> HIDE DEF m
          <5>2. m # p
            <6>1. m # Null
              BY <5>1, AllocatedNode DEF ListInv
            <6> QED
              BY <1>0, <3>0, <5>1, <6>1
          <5> QED
            BY <1>4, <1>5, <5>1, <5>2
        <4> QED
          BY <4>1, <4>2
      <3> QED
        BY <3>4, <3>5, <3>6, <3>7
    <2> QED
      BY <2>2, <2>3, <2>4, <2>5 DEF LinkInv
  <1>8. WalkInv'
    <2> SUFFICES ASSUME NEW S \in SUBSET Handles, GoesOn(S)' PROVE Allocated' \subseteq S
      BY DEF WalkInv
    \* What the walk has next after the step, for a node that is not the one
    \* before n.
    <2>1. \A h \in S : h # n /\ h # p /\ node[h] # Null /\ node[h].next # Null => node[h].next \in S
      BY <1>4 DEF GoesOn, Allocated
    <2>2. p # Null => p \in S
      <3> SUFFICES ASSUME p # Null, p \notin S PROVE FALSE
        OBVIOUS
      <3>1. \A h \in Allocated : node[h].next = n => h = p
        BY <1>0 DEF ListInv, LinkInv, p
      <3>2. head # n /\ (head # Null => head \in S)
        BY <1>0, <1>2 DEF GoesOn
      <3>3. GoesOn(S \ {n})
        BY <2>1, <3>1, <3>2 DEF GoesOn, Allocated
      <3> QED
        BY <1>0, <3>3 DEF ListInv, WalkInv
    <2>3. q # Null => q \in S
      <3>1. CASE p = Null
        BY <1>2, <3>1 DEF GoesOn
      <3>2. CASE p # Null
        <4>1. p \in S /\ p \in Allocated /\ p # n
          BY <1>0, <2>2, <3>2
        <4>2. node'[p] # Null /\ node'[p].next = q
          BY <1>4, <4>1
        <4> QED
          BY <4>1, <4>2 DEF GoesOn
      <3> QED
        BY <3>1, <3>2
    <2>4. GoesOn(S \cup {n})
      <3>1. head # Null => head \in S \cup {n}
        BY <1>0, <1>2 DEF GoesOn
      <3>2. ASSUME NEW h \in S \cup {n}, node[h] # Null, node[h].next # Null
            PROVE  node[h].next \in S \cup {n}
        <4>1. CASE h = n
          BY <2>3, <3>2, <4>1 DEF q
        <4>2. CASE h = p
          BY <1>0, <3>2, <4>2, NullAssumption
        <4>3. CASE h # n /\ h # p
          BY <2>1, <3>2, <4>3
        <4> QED
          BY <4>1, <4>2, <4>3
      <3> QED
        BY <3>1, <3>2 DEF GoesOn
    <2>5. Allocated \subseteq S \cup {n}
      BY <1>0, <2>4 DEF ListInv, WalkInv
    <2> QED
      BY <1>5, <2>5
  <1>9. ValueInv'
    <2> SUFFICES ASSUME NEW h \in Handles
                 PROVE  /\ node'[h] = Null <=> job_map'[h] = Null
                        /\ node'[h] # Null => node'[h].value = job_map'[h]
      BY DEF ValueInv
    <2>1. CASE h = n
      BY <1>1, <2>1
    <2>2. CASE h # n /\ h \in Allocated
      <3>1. job_map'[h] = job_map[h] /\ job_map[h] # Null /\ node[h].value = job_map[h]
        BY <2>2 DEF ListInv, ValueInv, Allocated
      <3> QED
        BY <1>4, <2>2, <3>1
    <2>3. CASE h # n /\ h \notin Allocated
      <3>1. node[h] = Null /\ node'[h] = Null
        BY <1>5, <2>3 DEF Allocated
      <3> QED
        BY <2>3, <3>1 DEF ListInv, ValueInv
    <2> QED
      BY <2>1, <2>2, <2>3
  <1> QED
    BY <1>6, <1>7, <1>8, <1>9 DEF ListInv

-----------------------------------------------------------------------------
LEMMA InitListInv == ListInit => ListInv
  <1> SUFFICES ASSUME ListInit PROVE ListInv
    OBVIOUS
  <1>1. Allocated = {}
    BY DEF ListInit, rga_map_list_init, Allocated
  <1> QED
    BY <1>1 DEF ListInit, Init, rga_map_list_init, ListInv, ListType, LinkInv, WalkInv, ValueInv

\* The list's steps are steps of the job manager.
LEMMA ListStepIsStep == [ListNext]_<<vars, listVars>> => [Next]_vars
  BY DEF ListNext, Enters, Removes, Leaves, Next, Step

LEMMA NextListInv ==
  ASSUME IInv, ListInv, [ListNext]_<<vars, listVars>>
  PROVE  ListInv'
  <1>0. job_map \in [Handles -> Jobs \cup {Null}]
    BY DEF IInv, TypeOK
  <1>1. ASSUME NEW t \in Threads, Enters(t) PROVE ListInv'
    <2>1. handle[t] \in Handles /\ job_map[handle[t]] = Null
      BY <1>1 DEF Enters, CreateJob, Locks, IInv, LocalInv, rga_map_find_job
    <2>2. PICK v \in Jobs : job_map' = [job_map EXCEPT ![handle[t]] = v]
      BY <1>1 DEF Enters, CreateJob
    <2>3. job_map'[handle[t]] = v
      BY <1>0, <2>1, <2>2
    <2>4. node[handle[t]] = Null
      BY <2>1 DEF ListInv, ValueInv
    <2>5. rga_map_insert_tail(handle[t], v)
      BY <1>1, <2>1, <2>3, <2>4, FindsAllocated DEF Enters, rga_map_insert_job
    <2> QED
      BY <1>0, <2>1, <2>2, <2>4, <2>5, InsertKeepsListInv
  <1>2. ASSUME NEW t \in Threads, Removes(t) PROVE ListInv'
    <2>1. handle[t] \in Handles
      BY <1>2 DEF Removes, CancelRemove, SubmitTake, Locks, IInv, LocalInv
    <2>2. CASE job_map[handle[t]] = Null
      <3>1. rga_map_find(handle[t]) = Null
        BY <2>1, <2>2, FindsAllocated DEF ListInv, ValueInv
      <3>2. UNCHANGED <<job_map, head, tail, node>>
        BY <1>2, <2>2, <3>1 DEF Removes, DeleteFromList, CancelRemove, SubmitTake, rga_map_find_job, listVars
      <3> QED
        BY <3>2 DEF ListInv, ListType, LinkInv, WalkInv, ValueInv, Allocated, GoesOn
    <2>3. CASE job_map[handle[t]] # Null
      <3>1. node[handle[t]] # Null
        BY <2>1, <2>3 DEF ListInv, ValueInv
      <3>2. rga_map_find(handle[t]) = handle[t] /\ handle[t] # Null /\ handle[t] \in Allocated
        BY <2>1, <3>1, FindsAllocated, NullAssumption DEF Allocated
      <3>3. rga_map_delete(handle[t])
        BY <1>2, <3>2 DEF Removes, DeleteFromList
      <3>4. job_map' = [job_map EXCEPT ![handle[t]] = Null]
        BY <1>2, <2>3 DEF Removes, CancelRemove, SubmitTake, rga_map_find_job, rga_map_delete_job
      <3> QED
        BY <1>0, <3>2, <3>3, <3>4, DeleteKeepsListInv
    <2> QED
      BY <2>2, <2>3
  <1>3. CASE \/ \E t \in Threads : Leaves(t)
             \/ UNCHANGED <<vars, listVars>>
    <2>1. UNCHANGED <<job_map, head, tail, node>>
      BY <1>3 DEF Leaves, Call, RequestCreate, CreateFails, CancelIoctl, SubmitIoctl, SubmitFree,
         ConfigFind, ConfigIoctl, AddTask, Rejected, vars, manager, listVars
    <2> QED
      BY <2>1 DEF ListInv, ListType, LinkInv, WalkInv, ValueInv, Allocated, GoesOn
  <1> QED
    BY <1>1, <1>2, <1>3 DEF ListNext

\* The job manager over the list behaves as the job manager over the map: every
\* theorem about Spec holds of the C build.
THEOREM ListImplementsMap == ListSpec => Spec
  <1>1. ListInit => Init
    BY DEF ListInit
  <1> QED
    BY <1>1, ListStepIsStep, PTL DEF ListSpec, Spec

\* In whatever order jobs are created, submitted and cancelled, from the front,
\* the middle or the end: rga_map_find_job on the list answers what the map has,
\* no node is lost, and the pointers and the two ends agree.
THEOREM ListIsTheMap == ListSpec => []ListIsMap
  <1>1. ListInv => ListIsMap
    <2> SUFFICES ASSUME ListInv PROVE ListIsMap
      OBVIOUS
    <2>1. ASSUME NEW h \in Handles
          PROVE  FindInList(h) = job_map[h] /\ (node[h] # Null <=> rga_map_find(h) = h)
      <3>1. rga_map_find(h) = (IF node[h] = Null THEN Null ELSE h) /\ h # Null
        BY FindsAllocated, NullAssumption
      <3> QED
        BY <3>1 DEF FindInList, ListInv, ValueInv
    <2>2. head = Null <=> tail = Null
      BY DEF ListInv, LinkInv
    <2>3. \A h \in Handles : node[h] # Null =>
            /\ node[h].prev = Null <=> h = head
            /\ node[h].next = Null <=> h = tail
            /\ node[h].next # Null => node[node[h].next].prev = h
      BY DEF ListInv, LinkInv, Allocated
    <2> QED
      BY <2>1, <2>2, <2>3 DEF ListIsMap
  <1>2. ListInit => IInv /\ ListInv
    BY InitIInv, InitListInv DEF ListInit
  <1>3. IInv /\ ListInv /\ [ListNext]_<<vars, listVars>> => (IInv /\ ListInv)'
    BY NextIInv, NextListInv, ListStepIsStep
  <1> QED
    BY <1>1, <1>2, <1>3, PTL DEF ListSpec
=============================================================================
