----------------------------- MODULE Connection -----------------------------
(***************************************************************************)
(* What the goroutines of a stream may rely on about its connection, be it  *)
(* seen from run and Close (StreamLifecycle) or from the calls and the      *)
(* declarations (DeclareProtocol): connections follow one another, each is  *)
(* served by its own loops, and a new one is made only when the loops of    *)
(* the old one are gone, so that what they leave behind is dealt with by    *)
(* nobody but run.  The ping loop only ever ends a connection and is not    *)
(* listed.                                                                 *)
(***************************************************************************)
EXTENDS Naturals

Loops  == {"read", "declare"}
Phases == {"up", "down", "dialed", "over"}

VARIABLES
  phase,      \* a connection is served, run is without one, has a new one, is over
  number,     \* connections made so far
  loops,      \* the loops that have not returned
  cancelled,  \* the connection's context is done
  closed,     \* Close has been called
  redials     \* whether the stream reconnects by itself

vars == <<phase, number, loops, cancelled, closed, redials>>

Init ==
  /\ phase = "up" /\ number = 1 /\ loops = Loops /\ cancelled = FALSE
  /\ closed = FALSE /\ redials \in BOOLEAN

\* somebody cancels the context of the connection
Cancel ==
  /\ phase = "up" /\ cancelled' = TRUE
  /\ UNCHANGED <<phase, number, loops, closed, redials>>

\* a loop returns, and takes the others with it
LoopReturns(l) ==
  /\ phase = "up" /\ l \in loops
  /\ loops' = loops \ {l} /\ cancelled' = TRUE
  /\ UNCHANGED <<phase, number, closed, redials>>

\* the connection is over when every loop is
End ==
  /\ phase = "up" /\ loops = {}
  /\ phase' = "down"
  /\ UNCHANGED <<number, loops, cancelled, closed, redials>>

Dial ==
  /\ phase = "down" /\ redials
  /\ phase' = "dialed" /\ number' = number + 1
  /\ UNCHANGED <<loops, cancelled, closed, redials>>

\* the loops of the new connection start, under a context that Close may have cancelled
Resume ==
  /\ phase = "dialed"
  /\ phase' = "up" /\ loops' = Loops /\ cancelled' \in {FALSE, closed}
  /\ UNCHANGED <<number, closed, redials>>

\* the stream ends for a reason, and for good
Stop ==
  /\ phase = "down" /\ (closed \/ ~redials)
  /\ phase' = "over"
  /\ UNCHANGED <<number, loops, cancelled, closed, redials>>

\* the context may be cancelled in the same step or later
Close ==
  /\ closed' = TRUE /\ cancelled' \in {cancelled, TRUE}
  /\ UNCHANGED <<phase, number, loops, redials>>

Next ==
  \/ Cancel \/ End \/ Dial \/ Resume \/ Stop \/ Close
  \/ \E l \in Loops : LoopReturns(l)

Spec == Init /\ [][Next]_vars
=============================================================================
