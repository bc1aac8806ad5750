------------------------------- MODULE Channel -------------------------------
(***************************************************************************)
(* What the byte layer promises the message handlers: a FIFO of whole      *)
(* messages per connection.  Messages can be lost only at the end, when    *)
(* the connection breaks; a new connection starts empty.                   *)
(***************************************************************************)
EXTENDS Naturals, Sequences

VARIABLES
  queue,      \* messages under way, as numbers in the order of sending
  received,   \* messages handed to handle_message, oldest first
  open        \* the sender's end is up

vars == <<queue, received, open>>

Init == queue = <<>> /\ received = <<>> /\ open = TRUE

\* A send may be the one that breaks the connection.
Send ==
  /\ open /\ open' \in BOOLEAN
  /\ queue' = Append(queue, Len(received) + Len(queue) + 1)
  /\ UNCHANGED received

Receive ==
  /\ queue # <<>>
  /\ received' = Append(received, Head(queue))
  /\ queue' = Tail(queue)
  /\ UNCHANGED open

Close ==
  /\ open /\ open' = FALSE
  /\ UNCHANGED <<queue, received>>

Reopen == queue' = <<>> /\ received' = <<>> /\ open' = TRUE

Next == Send \/ Receive \/ Close \/ Reopen

Spec == Init /\ [][Next]_vars
=============================================================================
