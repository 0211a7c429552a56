--------------------------- MODULE InOrderBuffer ----------------------------
(***************************************************************************)
(* What a client of the reorder queue relies on, without ring, flags and   *)
(* window end: a set `held' of numbered elements ahead of the number       *)
(* `next' that is delivered next.                                          *)
(***************************************************************************)
EXTENDS SeqNum

CONSTANTS
  window, \* how far ahead of `next' an element can be kept
  Elems

VARIABLES next, held

vars == <<next, held>>

Numbers == {h[1] : h \in held}
Fits(s) == Ahead(next, s) < window
\* The lowest next for which s fits.
NextFor(s) == (s - (window - 1)) % SeqMod

Init == next = 0 /\ held = {}

Restart == \E s \in SeqNums : next' = s /\ held' = {}

\* An element that fits and is not a duplicate joins the held ones.
Store(s, e) ==
  /\ Fits(s)
  /\ s \notin Numbers
  /\ held' = held \cup {<<s, e>>}
  /\ UNCHANGED next

\* With strategy BEGIN a number too far ahead pushes the lowest ones out,
\* and skips the gap entirely when none of the held elements survives.  A
\* number more than half the serial space ahead counts as an old one.
Overtake(s, e) ==
  /\ ~Fits(s)
  /\ Ahead(next, s) <= Half
  /\ LET kept == {h \in held : Ahead(NextFor(s), h[1]) < window}
     IN /\ held' = kept \cup {<<s, e>>}
        /\ next' = IF kept = {} THEN s ELSE NextFor(s)

\* Delivery is strictly in order: the element of `next', never a later one.
Deliver ==
  /\ \E h \in held : h[1] = next /\ held' = held \ {h}
  /\ next' = add(next, 1)

Next ==
  \/ Restart
  \/ \E s \in SeqNums, e \in Elems : Store(s, e) \/ Overtake(s, e)
  \/ Deliver

Spec == Init /\ [][Next]_vars
=============================================================================
