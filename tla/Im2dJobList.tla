----------------------------- MODULE Im2dJobList -----------------------------
(***************************************************************************)
(* The map of the job manager where the library is built as C              *)
(* (IM2D_JOB_USE_MAP false): im2d_job.cpp keeps the jobs in a doubly       *)
(* linked list and every operation of Im2dJob that enters a handle in the  *)
(* map or takes one out works on the list, under the same mutex.  A node   *)
(* has a key, and is named by it here; Null is NULL.                       *)
(***************************************************************************)
EXTENDS Im2dJob

VARIABLES head, tail,  \* of g_im2d_job_manager.job_map
          node         \* node[h]: the allocated node of key h, or Null
listVars == <<head, tail, node>>

rga_map_list_init == head = Null /\ tail = Null /\ node = [h \in Handles |-> Null]

\* The key of node[h] is h.
Node(prev, next, value) == [prev |-> prev, next |-> next, value |-> value]
Nodes == [prev : Handles \cup {Null}, next : Handles \cup {Null}, value : Jobs]
ASSUME NodeAssumption == Null \notin Nodes

\* while (node != NULL) ... node = node->next: the walk comes to the keys that are
\* in every set with the head and with whatever a node of the set has next.
GoesOn(S) ==
  /\ head # Null => head \in S
  /\ \A h \in S : node[h] # Null /\ node[h].next # Null => node[h].next \in S
Walk == {h \in Handles : \A S \in SUBSET Handles : GoesOn(S) => h \in S}
rga_map_find(key) == IF key \in Walk THEN key ELSE Null

rga_map_insert_tail(key, value) ==
  /\ node' = [h \in Handles |->
                CASE h = key  -> Node(tail, Null, value)
                  [] h = tail -> [node[h] EXCEPT !.next = key]
                  [] OTHER    -> node[h]]
  /\ head' = IF tail = Null THEN key ELSE head
  /\ tail' = key

rga_map_insert_job(key, value) ==
  IF rga_map_find(key) # Null THEN UNCHANGED listVars ELSE rga_map_insert_tail(key, value)

\* node->prev->next = node->next and the like, and free(node).
Unlinked(n) ==
  [h \in Handles |->
     CASE h = n            -> Null
       [] h = node[n].prev -> [node[h] EXCEPT !.next = node[n].next]
       [] h = node[n].next -> [node[h] EXCEPT !.prev = node[n].prev]
       [] OTHER            -> node[h]]

\* Defect: tail is left as it was when the last node goes.
rga_map_delete_KeepsTail(n) ==
  /\ node' = Unlinked(n)
  /\ head' = IF node[n].prev = Null THEN node[n].next ELSE head
  /\ UNCHANGED tail
rga_map_delete(n) ==
  /\ node' = Unlinked(n)
  /\ head' = IF node[n].prev = Null THEN node[n].next ELSE head
  /\ tail' = IF node[n].next = Null THEN node[n].prev ELSE tail

\* rga_map_delete_job of the list.
DeleteFromList(key) ==
  IF rga_map_find(key) = Null THEN UNCHANGED listVars ELSE rga_map_delete(rga_map_find(key))

\* rga_map_find_job of the list.
FindInList(key) == IF rga_map_find(key) = Null THEN Null ELSE node[key].value

-----------------------------------------------------------------------------
ListInit == Init /\ rga_map_list_init

\* rga_job_create, rga_job_cancel and rga_job_submit change the map; what the
\* other steps do leaves it alone.
Enters(t)  == /\ CreateJob(t)
              /\ rga_map_insert_job(handle[t], job_map'[handle[t]])
Removes(t) == /\ CancelRemove(t) \/ SubmitTake(t)
              /\ DeleteFromList(handle[t])
Leaves(t) == /\ \/ Call(t) \/ RequestCreate(t) \/ CreateFails(t) \/ CancelIoctl(t)
                \/ SubmitIoctl(t) \/ SubmitFree(t)
                \/ ConfigFind(t) \/ ConfigIoctl(t) \/ AddTask(t) \/ Rejected(t)
             /\ UNCHANGED listVars

ListNext == \E t \in Threads : Enters(t) \/ Removes(t) \/ Leaves(t)
ListSpec == ListInit /\ [][ListNext]_<<vars, listVars>>

-----------------------------------------------------------------------------
\* The list is the map: in whatever order jobs are created, submitted and
\* cancelled, from the front, the middle or the end of the list, a walk finds
\* under every handle the job the map has there, no node is left outside the
\* walk, and every node points back to the one the walk came from; the ends of
\* an empty list are NULL.
ListIsMap ==
  /\ \A h \in Handles : FindInList(h) = job_map[h]
  /\ \A h \in Handles : node[h] # Null <=> rga_map_find(h) = h
  /\ head = Null <=> tail = Null
  /\ \A h \in Handles : node[h] # Null =>
       /\ node[h].prev = Null <=> h = head
       /\ node[h].next = Null <=> h = tail
       /\ node[h].next # Null => node[node[h].next].prev = h
=============================================================================
