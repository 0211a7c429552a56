---------------------------- MODULE ReorderQueue ----------------------------
(***************************************************************************)
(* The reorder queue of lib/src/reorderqueue.c: a ring of QUEUE_SIZE slots *)
(* that holds the window of `count' sequence numbers starting at `begin'.  *)
(* pull hands out the element of `begin'; push stores an element ahead of  *)
(* it, rejects duplicates and old numbers through the drop callback, and   *)
(* makes room (or rejects) by the drop strategy when the window is full.   *)
(*                                                                         *)
(* Elements are the user pointers.  The client allocates one, the queue    *)
(* owns it from push until pull returns it or the drop callback is called  *)
(* with it (takion_data_drop frees it), and a freed pointer may come back  *)
(* from malloc.  `number' remembers, for an element the queue owns, the    *)
(* number it was pushed with.  The queue is used by one thread.            *)
(*                                                                         *)
(* A definition whose name has a suffix after "__" is the one after it     *)
(* with a mistake one might make in the code, to see that a property       *)
(* notices.                                                                *)
(***************************************************************************)
EXTENDS SeqNum

CONSTANTS
  QUEUE_SIZE, \* 1 << size_exp
  Elems,      \* the pointers the client may push
  NoElem      \* content of a slot of the calloc'ed ring

ASSUME QueueAssumption ==
  /\ QUEUE_SIZE \in Nat
  /\ 2 <= QUEUE_SIZE
  /\ 2 * QUEUE_SIZE <= Half
  /\ SeqMod % QUEUE_SIZE = 0
  /\ NoElem \notin Elems

VARIABLES
  status,        \* "none", "live" between init and fini, "aborted"
  queue,         \* the ring: idx -> [set, user]
  begin,
  count,
  drop_strategy,
  number         \* history: the number an element the queue must free was
                 \* pushed with, NotOwned for an element it need not free

vars == <<status, queue, begin, count, drop_strategy, number>>

NotOwned == -1

Slots == 0 .. QUEUE_SIZE - 1
idx(seq_num) == seq_num % QUEUE_SIZE
End == add(begin, count)

EmptyRing == [i \in Slots |-> [set |-> FALSE, user |-> NoElem]]

\* The element of sequence number s is in the ring.
IsSet(s) == queue[idx(s)].set

\* Release the elements in S: each is freed by the drop callback or handed
\* back to the client.
Release(S) == [e \in Elems |-> IF e \in S THEN NotOwned ELSE number[e]]

SetIn__misses_last(n) == {queue[idx(add(begin, i))].user :
                            i \in {j \in 0 .. n - 2 : IsSet(add(begin, j))}}

\* The elements of the first n numbers of the window.
SetIn(n) == {queue[idx(add(begin, i))].user :
               i \in {j \in 0 .. n - 1 : IsSet(add(begin, j))}}
-----------------------------------------------------------------------------
TypeOK ==
  /\ status \in {"none", "live", "aborted"}
  /\ queue \in [Slots -> [set : BOOLEAN, user : Elems \cup {NoElem}]]
  /\ begin \in SeqNums
  /\ count \in 0 .. QUEUE_SIZE
  /\ drop_strategy \in {"BEGIN", "END"}
  /\ number \in [Elems -> SeqNums \cup {NotOwned}]

Init ==
  /\ status = "none"
  /\ queue = EmptyRing
  /\ begin = 0
  /\ count = 0
  /\ drop_strategy = "END"
  /\ number = [e \in Elems |-> NotOwned]

chiaki_reorder_queue_init(seq_num_start) ==
  /\ status = "none"
  /\ status' = "live"
  /\ queue' = EmptyRing
  /\ begin' = seq_num_start
  /\ count' = 0
  /\ drop_strategy' = "END"
  /\ UNCHANGED number

chiaki_reorder_queue_set_drop_strategy(s) ==
  /\ status = "live"
  /\ drop_strategy' = s
  /\ UNCHANGED <<status, queue, begin, count, number>>

\* The drop callback gets every element still in the window.
chiaki_reorder_queue_fini ==
  /\ status = "live"
  /\ status' = "none"
  /\ number' = Release(SetIn(count))
  /\ UNCHANGED <<queue, begin, count, drop_strategy>>
-----------------------------------------------------------------------------
InWindow__no_wrap(seq_num) == begin <= seq_num /\ seq_num < End
InWindow(seq_num) == ge(seq_num, begin) /\ lt(seq_num, End)

\* total_end before anything is dropped, and new_end.
TotalEnd == add(End, QUEUE_SIZE - count)
NewEnd(seq_num) == add(seq_num, 1)

TooFar__ring_never_full(seq_num) == lt(TotalEnd, add(NewEnd(seq_num), 1))

\* The number received is too far ahead for the ring.
TooFar(seq_num) == lt(TotalEnd, NewEnd(seq_num))

\* Inside the window: store it in the slot reserved for it.
PushInside(seq_num, user) ==
  /\ InWindow(seq_num)
  /\ ~IsSet(seq_num)
  /\ queue' = [queue EXCEPT ![idx(seq_num)] = [set |-> TRUE, user |-> user]]
  /\ number' = [number EXCEPT ![user] = seq_num]
  /\ UNCHANGED <<begin, count>>

\* Neither in the window nor before it: `assert(ge(seq_num, end))' fails for
\* the number opposite to begin when the window is empty.  No build file
\* defines NDEBUG, so the program aborts.
AssertFails(seq_num) ==
  ~InWindow(seq_num) /\ ~lt(seq_num, begin) /\ ~ge(seq_num, End)

PushAbort(seq_num) ==
  /\ AssertFails(seq_num)
  /\ status' = "aborted"
  /\ UNCHANGED <<queue, begin, count, number>>

\* drop_it: received twice, older than begin, or too far ahead with strategy
\* END.  The callback frees the new element.
PushDrop(seq_num) ==
  /\ \/ InWindow(seq_num) /\ IsSet(seq_num)
     \/ ~InWindow(seq_num) /\ lt(seq_num, begin)
     \/ /\ ~InWindow(seq_num)
        /\ ~lt(seq_num, begin)
        /\ ge(seq_num, End)
        /\ TooFar(seq_num)
        /\ drop_strategy = "END"
  /\ UNCHANGED <<queue, begin, count, number>>

\* The loops that drop from the front until there is room or nothing is
\* left: `need' numbers have to leave, but there are only `count'.
DropFront(seq_num) ==
  IF TooFar(seq_num)
  THEN LET need == Ahead(TotalEnd, NewEnd(seq_num))
       IN IF need < count
          THEN [dropped |-> need, begin |-> add(begin, need),
                count |-> count - need]
          ELSE [dropped |-> count, begin |-> seq_num, count |-> 0]
  ELSE [dropped |-> 0, begin |-> begin, count |-> count]

Cleared__none(end, n) == {}

\* The slots of the n numbers from end on.
Cleared(end, n) == {idx(add(end, i)) : i \in 0 .. n - 1}

\* Beyond the window: make room, move the end up to new_end (each slot the
\* end passes is unset) and store the element in the last slot.
PushBeyond(seq_num, user) ==
  /\ ~InWindow(seq_num)
  /\ ~lt(seq_num, begin)
  /\ ge(seq_num, End)
  /\ TooFar(seq_num) => drop_strategy = "BEGIN"
  /\ LET front == DropFront(seq_num)
         end == add(front.begin, front.count)
         passed == IF lt(end, NewEnd(seq_num))
                   THEN Ahead(end, NewEnd(seq_num)) ELSE 0
         cleared == Cleared(end, passed)
     IN /\ begin' = front.begin
        /\ count' = front.count + passed
        /\ queue' = [i \in Slots |->
                       IF i = idx(seq_num) THEN [set |-> TRUE, user |-> user]
                       ELSE IF i \in cleared THEN [set |-> FALSE, user |-> queue[i].user]
                       ELSE queue[i]]
        /\ number' = [Release(SetIn(front.dropped)) EXCEPT ![user] = seq_num]

chiaki_reorder_queue_push(seq_num, user) ==
  /\ status = "live"
  /\ number[user] = NotOwned
  /\ UNCHANGED drop_strategy
  /\ \/ PushInside(seq_num, user) /\ UNCHANGED status
     \/ PushDrop(seq_num) /\ UNCHANGED status
     \/ PushBeyond(seq_num, user) /\ UNCHANGED status
     \/ PushAbort(seq_num)
-----------------------------------------------------------------------------
chiaki_reorder_queue_pull__unset ==
  /\ status = "live"
  /\ count > 0
  /\ begin' = add(begin, 1)
  /\ count' = count - 1
  /\ number' = Release({queue[idx(begin)].user})
  /\ UNCHANGED <<status, queue, drop_strategy>>

\* The element handed out belongs to the client; its slot stays set but
\* leaves the window.
chiaki_reorder_queue_pull ==
  /\ status = "live"
  /\ count > 0
  /\ IsSet(begin)
  /\ begin' = add(begin, 1)
  /\ count' = count - 1
  /\ number' = Release({queue[idx(begin)].user})
  /\ UNCHANGED <<status, queue, drop_strategy>>
-----------------------------------------------------------------------------
\* chiaki_reorder_queue_drop is missing: its only call, in the re-check of
\* takion_packet_process_thread_func, comes after a peek that crashes.
Next ==
  \/ \E s \in SeqNums : chiaki_reorder_queue_init(s)
  \/ \E d \in {"BEGIN", "END"} : chiaki_reorder_queue_set_drop_strategy(d)
  \/ chiaki_reorder_queue_fini
  \/ \E s \in SeqNums, e \in Elems : chiaki_reorder_queue_push(s, e)
  \/ chiaki_reorder_queue_pull

Spec == Init /\ [][Next]_vars
-----------------------------------------------------------------------------
\* The numbers of the window whose elements the queue holds.
Held == {i \in 0 .. count - 1 : IsSet(add(begin, i))}

\* An element in the window is one the queue owns and sits under the number
\* it was pushed with: what pull returns for `begin' was received as `begin',
\* and no slot the window moves onto shows what an earlier round of the ring
\* left there, or an element that was freed.
HeldUnderOwnNumber ==
  status = "live" =>
    \A i \in Held : LET e == queue[idx(add(begin, i))].user
                    IN e \in Elems /\ number[e] = add(begin, i)

\* Every element the queue owns can still be found in the window, so that
\* pull or the drop callback will release it: nothing is leaked.
OwnedIsHeld ==
  status = "live" =>
    \A e \in Elems : number[e] # NotOwned =>
      \E i \in Held : queue[idx(add(begin, i))].user = e

\* A window that is not empty ends with a number that was received, so the
\* queue never reserves slots past the highest number it has stored.
LastIsHeld ==
  status = "live" /\ count > 0 => IsSet(add(begin, count - 1))

\* push never drops an element that fits into the ring and is not there yet:
\* it is in the window after the step, whatever the window's end was.
AcceptsWhatFits ==
  [][\A s \in SeqNums, e \in Elems :
       /\ chiaki_reorder_queue_push(s, e)
       /\ Ahead(begin, s) < QUEUE_SIZE
       /\ \A i \in Held : add(begin, i) # s
       => number'[e] = s /\ begin' = begin]_vars

\* Nothing is left to free when the queue is finalised.
NothingLeftAfterFini ==
  status = "none" => \A e \in Elems : number[e] = NotOwned
-----------------------------------------------------------------------------
\* The elements in the window, each with its number.
HeldPairs == {<<add(begin, i), queue[idx(add(begin, i))].user>> : i \in Held}

\* What the queue promises: see InOrderBuffer.
Buffer == INSTANCE InOrderBuffer WITH
  window <- QUEUE_SIZE,
  next <- begin,
  held <- HeldPairs

ImplementsBuffer == Buffer!Spec
=============================================================================
