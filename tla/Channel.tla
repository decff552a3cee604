------------------------------ MODULE Channel -------------------------------
(***************************************************************************)
(* What Forwarding and Clipboard take a connection to be: a queue that     *)
(* delivers whole messages in the order in which they were sent, until it  *)
(* breaks and loses what is still in it.  Framing implements it with       *)
(* length-prefixed envelopes on a TLS stream.                              *)
(***************************************************************************)
EXTENDS Sequences

CONSTANTS Msg,  \* messages
          None  \* nothing has been delivered

VARIABLES queue, \* sent and not delivered
          got,   \* the message delivered last
          open   \* the connection stands

Init == queue = <<>> /\ got = None /\ open = TRUE

Send(m) == open /\ queue' = Append(queue, m) /\ UNCHANGED <<got, open>>

Deliver ==
    /\ open /\ queue # <<>>
    /\ got' = Head(queue)
    /\ queue' = Tail(queue)
    /\ UNCHANGED open

Break == open /\ open' = FALSE /\ queue' = <<>> /\ UNCHANGED got

Next == (\E m \in Msg : Send(m)) \/ Deliver \/ Break

Spec == Init /\ [][Next]_<<queue, got, open>>
=============================================================================
