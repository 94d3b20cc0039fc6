--------------------------- MODULE PlaybackDelivery ---------------------------
(***************************************************************************)
(* What the playback coordinator promises its producers and its sinks,     *)
(* with no queue, batch, lock or thread: the inputs it accepts form one    *)
(* sequence, the published snapshot is the state after a prefix of it, and *)
(* every sink hears the inputs it wants of that prefix in order, each once *)
(* and with none left out from the first one it hears.                     *)
(***************************************************************************)
EXTENDS Naturals, Sequences

CONSTANTS
  Inputs,          \* what producers post
  Sinks,           \* the callbacks events and actions go to
  Wanted(_, _)     \* Wanted(s, i): sink s is called for input i

VARIABLES
  sent,     \* the accepted inputs, in the order of acceptance
  shown,    \* how many of them the published snapshot reflects
  heard,    \* heard[s]: what sink s was called for, in order
  closed    \* no further input is accepted

vars == <<sent, shown, heard, closed>>

Init ==
  /\ sent = <<>>
  /\ shown = 0
  /\ heard = [s \in Sinks |-> <<>>]
  /\ closed = FALSE

Accept ==
  /\ ~closed
  /\ sent' \in Seq(Inputs) /\ Len(sent') = Len(sent) + 1
  /\ SubSeq(sent', 1, Len(sent)) = sent
  /\ UNCHANGED <<shown, heard, closed>>

Publish ==
  /\ shown' \in shown + 1 .. Len(sent)
  /\ UNCHANGED <<sent, heard, closed>>

(* Sink s was last called for the input at position `last` of `sent`. *)
IsLast(s, last) ==
  heard[s] # <<>> => last > 0 /\ sent[last] = heard[s][Len(heard[s])]

(* The next call of s skips no input that s wants, once it has been called. *)
Hear(s) ==
  /\ \E last \in 0 .. shown, next \in 1 .. shown :
       /\ last < next
       /\ IsLast(s, last)
       /\ Wanted(s, sent[next])
       /\ heard[s] # <<>> => \A skipped \in last + 1 .. next - 1 : ~Wanted(s, sent[skipped])
       /\ heard' = [heard EXCEPT ![s] = Append(@, sent[next])]
  /\ UNCHANGED <<sent, shown, closed>>

Close == closed' = TRUE /\ UNCHANGED <<sent, shown, heard>>

Next == Accept \/ Publish \/ (\E s \in Sinks : Hear(s)) \/ Close

Spec == Init /\ [][Next]_vars
=============================================================================
