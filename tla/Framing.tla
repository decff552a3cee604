------------------------------ MODULE Framing -------------------------------
(***************************************************************************)
(* One connection, from the server's outbound channel to the loop of       *)
(* Session::run: the writer task (server.rs), length-prefixed envelopes    *)
(* (common/src/lib.rs) and the client's select! (client/src/session.rs)    *)
(* with its keepalive.                                                     *)
(*                                                                         *)
(* send_envelope hands a whole frame to TLS, which cuts it into records;   *)
(* the other side reads the bytes of a record at once.  Input, pings and   *)
(* toggles fit one record, clipboard text may take several.  read_envelope *)
(* is one arm of the select!, and when another arm is ready first it is    *)
(* dropped together with the records it has read: the next one takes the   *)
(* middle of a text for a length.  Four bytes of text that do not start    *)
(* with a NUL are a length beyond MAX_ENVELOPE_SIZE, so it fails.          *)
(*                                                                         *)
(* What the client writes is awaited inside the arm that writes it, with   *)
(* no deadline: while the socket has no room, no arm of the select! is     *)
(* polled, the tick and the cancellation included.  Pings are a few bytes  *)
(* every ten seconds and do not fill a socket; other frames do.            *)
(***************************************************************************)
EXTENDS Integers, Sequences, FiniteSets

CONSTANTS Msg,       \* envelopes, each sent at most once
          Pong,      \* the answer to a ping
          Asks,      \* those that are pings of the server
          Parts,     \* how many records each takes
          SendRoom,  \* frames that fit the socket before a write blocks
          DeadTicks, \* DEAD_AFTER in periods of ping_interval
          MaxPings,  \* bound on the pings and pongs on their way
          None       \* nothing

ASSUME PartsAssumption == /\ Pong \notin Msg /\ None \notin Msg \cup {Pong}
                          /\ Parts \in [Msg \cup {Pong} -> Nat \ {0}]
                          /\ Parts[Pong] = 1
ASSUME TickAssumption == DeadTicks \in Nat /\ MaxPings \in Nat
ASSUME RoomAssumption == Asks \subseteq Msg /\ SendRoom \in Nat \ {0}

VARIABLES sent,    \* envelopes sent so far
          outQ,    \* the connection's outbound channel
          writing, \* the frame the writer task is in, and the records done
          wire,    \* records on their way: <<envelope, number>>
          part,    \* records read by the read_envelope under way
          got,     \* the envelope delivered last
          quiet,   \* ping ticks since last_received
          pings,   \* pings the server has not answered
          unread,  \* other frames of the client the server has not read
          write,   \* the frame an arm of the select! waits to write
          silent,  \* the server has gone without closing the connection
          ended    \* the client's loop has ended

toClient == <<sent, outQ, writing, wire>>
vars == <<toClient, part, got, quiet, pings, unread, write, silent, ended>>

Envelope == Msg \cup {Pong}
Idle == [m |-> None, done |-> 0]

TypeOK ==
    /\ sent \subseteq Msg
    /\ outQ \in Seq(Envelope)
    /\ writing \in {Idle} \cup [m : Envelope, done : Nat]
    /\ wire \in Seq(Envelope \X Nat)
    /\ part \in Nat
    /\ got \in Envelope \cup {None}
    /\ quiet \in 0..DeadTicks
    /\ pings \in 0..MaxPings
    /\ unread \in 0..SendRoom
    /\ write \in {"none", "ping", "frame", "goodbye"}
    /\ silent \in BOOLEAN /\ ended \in BOOLEAN

Init ==
    /\ sent = {} /\ outQ = <<>> /\ writing = Idle /\ wire = <<>>
    /\ part = 0 /\ got = None /\ quiet = 0 /\ pings = 0
    /\ unread = 0 /\ write = "none"
    /\ silent = FALSE /\ ended = FALSE

-----------------------------------------------------------------------------
(* The server.                                                             *)

\* A broadcast, or a handler's own envelope.
Send(m) ==
    /\ ~silent /\ ~ended /\ m \notin sent
    /\ sent' = sent \cup {m}
    /\ outQ' = Append(outQ, m)
    /\ UNCHANGED <<writing, wire, part, got, quiet, pings, unread, write, silent, ended>>

\* The handler answers a ping through the same channel.
SendPong ==
    /\ ~silent /\ ~ended /\ pings > 0
    /\ pings' = pings - 1
    /\ outQ' = Append(outQ, Pong)
    /\ UNCHANGED <<sent, writing, wire, part, got, quiet, unread, write, silent, ended>>

\* It reads any other frame of the client.
ServerReads ==
    /\ ~silent /\ ~ended /\ unread > 0
    /\ unread' = unread - 1
    /\ UNCHANGED <<toClient, part, got, quiet, pings, write, silent, ended>>

\* The writer task takes the next envelope ...
WriterTakes ==
    /\ ~silent /\ ~ended /\ writing = Idle /\ outQ # <<>>
    /\ writing' = [m |-> Head(outQ), done |-> 0]
    /\ outQ' = Tail(outQ)
    /\ UNCHANGED <<sent, wire, part, got, quiet, pings, unread, write, silent, ended>>

\* ... and writes the records of its frame.
WriterWrites ==
    /\ ~silent /\ ~ended /\ writing # Idle
    /\ wire' = Append(wire, <<writing.m, writing.done + 1>>)
    /\ writing' = IF writing.done + 1 = Parts[writing.m] THEN Idle
                  ELSE [writing EXCEPT !.done = @ + 1]
    /\ UNCHANGED <<sent, outQ, part, got, quiet, pings, unread, write, silent, ended>>

\* The server hangs or the network is gone, and nobody says so.
FallSilent ==
    /\ ~silent /\ ~ended
    /\ silent' = TRUE
    /\ UNCHANGED <<toClient, part, got, quiet, pings, unread, write, ended>>

-----------------------------------------------------------------------------
(* The client's select!.  Only the arm of read_envelope keeps what it has  *)
(* read of a frame, and no arm is polled while another waits to write.     *)

Polled == ~ended /\ write = "none"

\* The pings that are not answered, and the answers that are not delivered.
OnTheWay ==
    pings + Cardinality({i \in DOMAIN outQ : outQ[i] = Pong})
          + Cardinality({i \in DOMAIN wire : wire[i][1] = Pong})
          + (IF writing.m = Pong THEN 1 ELSE 0)

Full == unread = SendRoom

\* The socket takes a ping (past the bound it is not counted) or another frame.
Put(kind) ==
    /\ pings' = IF kind = "ping" /\ OnTheWay < MaxPings THEN pings + 1 ELSE pings
    /\ unread' = IF kind = "frame" THEN unread + 1 ELSE unread

\* send_envelope, awaited in an arm: it returns once the socket has room.
SendEnvelope(kind) ==
    \/ ~Full /\ Put(kind) /\ write' = "none"
    \/ Full /\ write' = kind /\ UNCHANGED <<pings, unread>>

\* read_envelope reads a record that belongs to the frame it is in; a ping of
\* the server is answered in the same arm.
Read ==
    /\ Polled /\ wire # <<>>
    /\ LET m == Head(wire)[1]  i == Head(wire)[2] IN
         /\ i = part + 1
         /\ \/ i < Parts[m] /\ part' = i /\ UNCHANGED <<got, quiet>>
            \/ i = Parts[m] /\ part' = 0 /\ got' = m /\ quiet' = 0
         /\ IF i = Parts[m] /\ m \in Asks THEN SendEnvelope("frame")
                                          ELSE UNCHANGED <<pings, unread, write>>
    /\ wire' = Tail(wire)
    /\ UNCHANGED <<sent, outQ, writing, silent, ended>>

\* The loop ends; the connection is dropped with everything on it.
Close ==
    /\ ended' = TRUE
    /\ outQ' = <<>> /\ writing' = Idle /\ wire' = <<>> /\ part' = 0
    /\ pings' = 0 /\ unread' = 0 /\ write' = "none"
    /\ UNCHANGED <<sent, got, quiet, silent>>

\* Mutant: what does not belong to a frame is skipped.
ReadSkips ==
    /\ Polled /\ wire # <<>> /\ Head(wire)[2] # part + 1
    /\ wire' = Tail(wire)
    /\ UNCHANGED <<sent, outQ, writing, part, got, quiet, pings, unread, write, silent,
                   ended>>

\* A record in the middle of a frame is taken for the start of one, and
\* the size check refuses its length.
ReadOutOfStep ==
    /\ Polled /\ wire # <<>> /\ Head(wire)[2] # part + 1
    /\ Close

\* Mutant: any tick is taken for a sign of life.
TickForgives ==
    /\ Polled
    /\ part' = 0 /\ quiet' = 0
    /\ SendEnvelope("ping")
    /\ UNCHANGED <<toClient, got, silent, ended>>

\* ping_interval: a ping, as long as something came within DEAD_AFTER.
Tick ==
    /\ Polled /\ quiet < DeadTicks
    /\ part' = 0 /\ quiet' = quiet + 1
    /\ SendEnvelope("ping")
    /\ UNCHANGED <<toClient, got, silent, ended>>

TickDead == Polled /\ quiet = DeadTicks /\ Close

\* A command of the user or a text of the clipboard watcher is ready first,
\* perhaps in the middle of a frame.
OtherArm ==
    /\ Polled
    /\ part' = 0
    /\ SendEnvelope("frame")
    /\ UNCHANGED <<toClient, got, quiet, silent, ended>>

\* The user cancels: the loop ends once a Goodbye has been written.
CancelRun ==
    /\ Polled
    /\ \/ ~Full /\ Close
       \/ /\ Full /\ write' = "goodbye" /\ part' = 0
          /\ UNCHANGED <<toClient, got, quiet, pings, unread, silent, ended>>

\* The socket has room again for the frame an arm waits to write.
WriteGoesOn ==
    /\ ~ended /\ write # "none" /\ ~Full
    /\ IF write = "goodbye" THEN Close
       ELSE /\ Put(write) /\ write' = "none"
            /\ UNCHANGED <<toClient, part, got, quiet, silent, ended>>

\* Time passes for last_received while no arm is polled.
TimeWhileWriting ==
    /\ ~ended /\ write # "none" /\ quiet < DeadTicks
    /\ quiet' = quiet + 1
    /\ UNCHANGED <<toClient, part, got, pings, unread, write, silent, ended>>

\* The connection is closed, with or without a Goodbye, or fails.
Leave == ~ended /\ Close

-----------------------------------------------------------------------------
ServerStep == SendPong \/ ServerReads \/ WriterTakes \/ WriterWrites
ClientStep == Read \/ ReadOutOfStep \/ WriteGoesOn

Next ==
    \/ \E m \in Msg : Send(m)
    \/ ServerStep \/ FallSilent
    \/ ClientStep \/ Tick \/ TickDead \/ OtherArm \/ CancelRun
    \/ TimeWhileWriting \/ Leave

\* Tasks that can run do run, a timer that is polled fires, and the network
\* delivers what a server that is there has written.  A loop that waits to
\* write polls no timer: Tick and TickDead are not enabled then.
Fairness ==
    /\ WF_vars(ServerStep) /\ WF_vars(ClientStep) /\ WF_vars(Tick \/ TickDead)

Spec == Init /\ [][Next]_vars /\ Fairness

-----------------------------------------------------------------------------
(* Properties.                                                             *)

\* The n-th of a finite set of numbers, and the place of one of them.
Rank(S, k) == Cardinality({j \in S : j <= k})
Nth(S, n)  == CHOOSE k \in S : Rank(S, k) = n

\* The envelopes whose last record is still on the wire, in order.
LastRecords(w) == {k \in DOMAIN w : w[k][2] = Parts[w[k][1]]}
Complete(w)    == [n \in 1..Cardinality(LastRecords(w)) |-> w[Nth(LastRecords(w), n)][1]]

InWriter == IF writing = Idle THEN <<>> ELSE <<writing.m>>

Pending == Complete(wire) \o InWriter \o outQ

Abstract == INSTANCE Channel WITH Msg <- Envelope, queue <- Pending, open <- ~ended

\* The framing implements a channel: whatever the select! drops half way, the
\* client never acts on an envelope that was not sent, out of order, or after
\* one that was lost; a frame that is lost takes the session with it.
ImplementsChannel == Abstract!Spec

\* A server that falls silent without closing the connection is left: the
\* client's loop ends, and releases what it holds.  Unless it is stuck: frames
\* other than pings have filled the socket and an arm waits to write one more,
\* which no deadline ends.
SilentServerIsLeft == silent ~> ended \/ (write # "none" /\ Full)
=============================================================================
