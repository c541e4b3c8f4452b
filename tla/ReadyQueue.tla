----------------------------- MODULE ReadyQueue -----------------------------
(***************************************************************************)
(* The scheduler's ready queue: a singly linked list of thread_t objects    *)
(* threaded through their own "next" field, between the globals ready_head  *)
(* and ready_tail.  The list is kept at the level of its pointers, because  *)
(* several functions write a thread's "next" while the thread is queued.    *)
(*                                                                         *)
(* A queue is a record [ready_head, ready_tail, next]; the operators are    *)
(* the bodies of the C functions between the acquisition and the release    *)
(* of schedule_lock.                                                        *)
(***************************************************************************)
EXTENDS Naturals

CONSTANTS
  Threads,  \* the thread_t objects, named by the tid each one is given
  NULL      \* the null pointer

ASSUME NullAssumption == NULL \notin Threads

ThreadOrNull == Threads \cup {NULL}

\* The set of values a queue can take.
Queues == [ready_head : ThreadOrNull, ready_tail : ThreadOrNull,
           next : [Threads -> ThreadOrNull]]

-----------------------------------------------------------------------------
\* The threads a traversal meets that starts at a and follows "next": the
\* least set that holds a and is closed under the pointers.
From(q, a) ==
  { t \in Threads :
      \A S \in SUBSET Threads :
        (a \in S /\ \A u \in S : q.next[u] \in S \cup {NULL}) => t \in S }

\* The threads that can be reached from ready_head.
Reach(q) == IF q.ready_head = NULL THEN {} ELSE From(q, q.ready_head)

\* A traversal from ready_head never meets a null pointer.
Cyclic(q) == q.ready_head # NULL /\ \A u \in Reach(q) : q.next[u] # NULL

\* The threads a search for t looks at, and the one it left just before t.
Visited(q, t) ==
  IF t \in Reach(q) THEN { u \in Reach(q) : t \in From(q, u) } ELSE Reach(q)

Prev(q, t) ==
  LET before == { u \in Reach(q) : q.next[u] = t }
      first  == { u \in before : u \notin From(q, t) }
  IN IF t = q.ready_head \/ before = {} THEN NULL
     ELSE CHOOSE u \in before : first = {} \/ u \in first

-----------------------------------------------------------------------------
\* Append t without resetting its "next", as thread_create and
\* thread_unblock do by hand.
link_ready_tail(q, t) ==
  IF q.ready_head = NULL
  THEN [q EXCEPT !.ready_head = t, !.ready_tail = t]
  ELSE [q EXCEPT !.next[q.ready_tail] = t, !.ready_tail = t]

\* Write t->next = NULL.
unlink_next(q, t) == [q EXCEPT !.next[t] = NULL]

enqueue_ready_tail(q, t) == link_ready_tail(unlink_next(q, t), t)

\* The queue without its head; only used when ready_head # NULL.
dequeue_ready_head(q) ==
  LET t == q.ready_head
      h == q.next[t]
  IN [ready_head |-> h,
      ready_tail |-> IF h = NULL THEN NULL ELSE q.ready_tail,
      next       |-> [q.next EXCEPT ![t] = NULL]]

\* The search-and-unlink loop of remove_from_ready_queue.  A thread that the
\* search does not meet leaves the queue, and its own "next", as they are.
remove_from_ready_queue(q, t) ==
  LET prev == Prev(q, t)
      nx   == q.next[t]
  IN IF t \notin Reach(q) THEN q
     ELSE [ready_head |-> IF prev = NULL THEN nx ELSE q.ready_head,
           ready_tail |-> IF t = q.ready_tail THEN prev ELSE q.ready_tail,
           next       |-> [u \in Threads |-> IF u = t THEN NULL
                                             ELSE IF u = prev THEN nx
                                             ELSE q.next[u]]]
=============================================================================
