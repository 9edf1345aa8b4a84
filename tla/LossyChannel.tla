---------------------------- MODULE LossyChannel ----------------------------
(***************************************************************************)
(* What pushLossy makes of a channel that one goroutine sends to and the    *)
(* user reads at will: an item that finds the channel full displaces the    *)
(* oldest one, as if at once.  Items are numbered as they are sent, so only *)
(* the last number is kept beside those in the buffer.                      *)
(***************************************************************************)
EXTENDS Naturals, Sequences

CONSTANT Size  \* of the buffer

VARIABLES
  buffer,  \* the items to be received, oldest first
  last,    \* the last item sent
  full     \* the item to be sent next has found the buffer full

vars == <<buffer, last, full>>

Init == buffer = <<>> /\ last = 0 /\ full = FALSE

\* the buffer with the next item in it
Sent(rest) == buffer' = Append(rest, last + 1) /\ last' = last + 1

Send == ~full /\ Len(buffer) < Size /\ Sent(buffer) /\ UNCHANGED full

FindFull == ~full /\ Len(buffer) = Size /\ full' = TRUE /\ UNCHANGED <<buffer, last>>

\* The oldest item makes room, also when the user has made some meanwhile: one item more
\* than it must be is lost then, but not if the user has taken all.
Displace ==
  /\ full /\ full' = FALSE
  /\ Sent(IF buffer = <<>> THEN buffer ELSE Tail(buffer))

Receive == buffer # <<>> /\ buffer' = Tail(buffer) /\ UNCHANGED <<last, full>>

Next == Send \/ FindFull \/ Displace \/ Receive

Spec == Init /\ [][Next]_vars
-----------------------------------------------------------------------------
\* What is left is what was sent last, in order and without holes: everything lost is
\* older than everything that can still be received.
NewestOnly == \A i \in 1..Len(buffer) : buffer[i] = (last - Len(buffer)) + i
=============================================================================
