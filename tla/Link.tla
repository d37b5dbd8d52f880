--------------------------------- MODULE Link ---------------------------------
(***************************************************************************)
(* What the rest of the system takes a connection for: one direction of it  *)
(* hands over the frames that were sent, whole, in order and once.  Either  *)
(* end may go at any time, and then a tail of what was sent is lost.        *)
(***************************************************************************)
EXTENDS Sequences, Naturals

CONSTANT Frames

VARIABLES
  sent,      \* what the sender handed to the connection
  received,  \* what the receiver was given
  listening  \* the receiving end is there

linkVars == <<sent, received, listening>>

Init == sent = <<>> /\ received = <<>> /\ listening = TRUE

Send(f) ==
  /\ sent' = Append(sent, f)
  /\ UNCHANGED <<received, listening>>

\* some of the frames that are on their way arrive
Receive ==
  /\ listening
  /\ \E n \in Len(received)..Len(sent) : received' = SubSeq(sent, 1, n)
  /\ UNCHANGED <<sent, listening>>

Leave ==
  /\ listening' = FALSE
  /\ UNCHANGED <<sent, received>>

Next == (\E f \in Frames : Send(f)) \/ Receive \/ Leave
Spec == Init /\ [][Next]_linkVars
=============================================================================
