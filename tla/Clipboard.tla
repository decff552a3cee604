----------------------------- MODULE Clipboard ------------------------------
(***************************************************************************)
(* Clipboard sync: a watcher thread on the server (server.rs               *)
(* spawn_clipboard_watcher) and one per session on each client             *)
(* (clipboard.rs spawn_with) poll their machine's clipboard, send what     *)
(* changed and apply what arrives.  The clipboard itself belongs to the    *)
(* machine: its user copies between any two steps of the watcher.          *)
(*                                                                         *)
(* Texts travel in order: a client's from its watcher through the session  *)
(* and the handler into the server watcher's one queue, the server's       *)
(* through each registered handler and session to that client's watcher.   *)
(* Both ends are taken to have clipboard sync on and a clipboard to open.  *)
(***************************************************************************)
EXTENDS Integers, Sequences, FiniteSets

CONSTANTS Client,
          Server,    \* the server's machine
          Text,      \* what a clipboard can hold
          Unsent,    \* the texts that are empty, over MAX_CLIPBOARD_BYTES or no text
          Unseen,    \* no last_seen yet
          MaxCopies, \* bound on the users' copies
          MaxJoins,  \* bound on the sessions
          MaxFails   \* bound on the failures of set_text

ASSUME ClipboardAssumption ==
    /\ IsFiniteSet(Client) /\ Server \notin Client
    /\ Unsent \subseteq Text /\ Unseen \notin Text
    /\ MaxCopies \in Nat /\ MaxJoins \in Nat /\ MaxFails \in Nat

Machine == Client \cup {Server}

VARIABLES clip,    \* each machine's clipboard
          seen,    \* last_seen of the machine's watcher
          session, \* whether the client's session is on
          up,      \* texts between a client's watcher and the server's queue
          cmd,     \* cmd_rx of the server's watcher
          down,    \* texts between the registry's broadcast and a client's watcher
          old,     \* texts that the watchers of ended sessions have yet to apply
          copies, joins, fails,
          latest,  \* history: who copied (or joined) last
          missed,  \* history: ... what its watcher cannot notice, or while
                   \* another machine's text was on its way
          by       \* history: who put the clipboard's text there

clipVars == <<clip, seen, session, up, cmd, down, old, copies, joins, fails, latest, missed, by>>
queues == <<up, cmd, down, old>>
history == <<latest, missed, by>>
bounds == <<copies, joins, fails>>

ClipTypeOK ==
    /\ clip \in [Machine -> Text]
    /\ seen \in [Machine -> Text \cup {Unseen}]
    /\ session \in [Client -> BOOLEAN]
    /\ up \in [Client -> Seq(Text \ Unsent)]
    /\ down \in [Client -> Seq(Text \ Unsent)]
    /\ old \in [Client -> Seq(Text \ Unsent)]
    /\ cmd \in Seq(Text \ Unsent)
    /\ copies \in 0..MaxCopies /\ joins \in 0..MaxJoins /\ fails \in 0..MaxFails
    /\ latest \in Machine /\ missed \in BOOLEAN
    /\ by \in [Machine -> {"user", "watcher", "old"}]

\* The server's watcher starts with what it finds; no client is connected.
ClipInit ==
    /\ clip \in [Machine -> Text]
    /\ seen = [m \in Machine |-> IF m = Server THEN clip[m] ELSE Unseen]
    /\ session = [c \in Client |-> FALSE]
    /\ up = [c \in Client |-> <<>>] /\ down = [c \in Client |-> <<>>]
    /\ old = [c \in Client |-> <<>>] /\ cmd = <<>>
    /\ copies = 0 /\ joins = 0 /\ fails = 0
    /\ latest = Server /\ missed = TRUE /\ by = [m \in Machine |-> "user"]

-----------------------------------------------------------------------------
\* The machine's watcher will send its clipboard at the next poll.
Changed(m) ==
    /\ m \in Client => session[m]
    /\ clip[m] \notin Unsent /\ clip[m] # seen[m]

\* A text of machine m is on its way, or about to be.
Outstanding(m) ==
    \/ Changed(m)
    \/ IF m = Server THEN \E c \in Client : down[c] # <<>>
       ELSE up[m] # <<>> \/ cmd # <<>> \/ (session[m] /\ old[m] # <<>>)

\* History of a copy on, or a session started by, machine m.
Disturbs(m) ==
    /\ latest' = m
    /\ missed' = \/ clip'[m] \in Unsent \cup {seen'[m]}
                 \/ \E n \in Machine \ {m} : Outstanding(n)
                 \/ missed /\ Outstanding(m)

\* The user of machine m copies something.
Copy(m, t) ==
    /\ copies < MaxCopies /\ t # clip[m]
    /\ copies' = copies + 1
    /\ clip' = [clip EXCEPT ![m] = t]
    /\ UNCHANGED <<seen, session, queues, joins, fails>>
    /\ Disturbs(m) /\ by' = [by EXCEPT ![m] = "user"]

\* A client is registered and its session's watcher starts with no last_seen.
\* The retry loop waits longer than a watcher's sleep, but a user of the UI
\* may connect again before the last session's watcher has returned.
Join(c) ==
    /\ ~session[c] /\ joins < MaxJoins
    /\ joins' = joins + 1
    /\ session' = [session EXCEPT ![c] = TRUE]
    /\ seen' = [seen EXCEPT ![c] = Unseen]
    /\ UNCHANGED <<clip, queues, copies, fails, by>>
    /\ Disturbs(c)

\* The connection breaks: what has not reached the server's queue is lost,
\* and so is what has not reached the client's watcher.  The watcher lives on
\* for the rest.
Break(c) ==
    /\ session[c]
    /\ session' = [session EXCEPT ![c] = FALSE]
    /\ up' = [up EXCEPT ![c] = <<>>]
    /\ \E n \in 0..Len(down[c]) : old' = [old EXCEPT ![c] = @ \o SubSeq(down[c], 1, n)]
    /\ down' = [down EXCEPT ![c] = <<>>]
    /\ UNCHANGED <<clip, seen, cmd, bounds, history>>

\* The old watcher applies what it was still given, and finds its queue
\* disconnected; what it remembers dies with it.
OldApplies(c) ==
    /\ old[c] # <<>>
    /\ clip' = [clip EXCEPT ![c] = Head(old[c])]
    /\ by' = [by EXCEPT ![c] = "old"]
    /\ old' = [old EXCEPT ![c] = Tail(@)]
    /\ UNCHANGED <<seen, session, up, cmd, down, bounds, latest, missed>>

-----------------------------------------------------------------------------
\* Mutant: what was sent is not remembered.
PollForgets(c) ==
    /\ Changed(c)
    /\ up' = [up EXCEPT ![c] = Append(@, clip[c])]
    /\ UNCHANGED <<clip, seen, session, cmd, down, old, bounds, history>>

\* The client's watcher finds its clipboard changed.
ClientPoll(c) ==
    /\ Changed(c)
    /\ seen' = [seen EXCEPT ![c] = clip[c]]
    /\ up' = [up EXCEPT ![c] = Append(@, clip[c])]
    /\ UNCHANGED <<clip, session, cmd, down, old, bounds, history>>

\* The handler hands a client's ClipboardSet to the server's watcher.
Deliver(c) ==
    /\ session[c] /\ up[c] # <<>>
    /\ cmd' = Append(cmd, Head(up[c]))
    /\ up' = [up EXCEPT ![c] = Tail(@)]
    /\ UNCHANGED <<clip, seen, session, down, old, bounds, history>>

\* Mutant: an applied text is not remembered.
ApplyForgets(c) ==
    /\ down[c] # <<>>
    /\ clip' = [clip EXCEPT ![c] = Head(down[c])]
    /\ by' = [by EXCEPT ![c] = "watcher"]
    /\ down' = [down EXCEPT ![c] = Tail(@)]
    /\ UNCHANGED <<seen, session, up, cmd, old, bounds, latest, missed>>

\* Mutant: drops a text it has seen, as the server's watcher does.
ApplyIfNew(c) ==
    /\ down[c] # <<>>
    /\ IF Head(down[c]) = seen[c]
         THEN UNCHANGED <<clip, seen, by>>
         ELSE /\ clip' = [clip EXCEPT ![c] = Head(down[c])]
              /\ seen' = [seen EXCEPT ![c] = Head(down[c])]
              /\ by' = [by EXCEPT ![c] = "watcher"]
    /\ down' = [down EXCEPT ![c] = Tail(@)]
    /\ UNCHANGED <<session, up, cmd, old, bounds, latest, missed>>

\* The client's watcher applies a text of the server's.
ClientApply(c) ==
    /\ down[c] # <<>>
    /\ clip' = [clip EXCEPT ![c] = Head(down[c])]
    /\ seen' = [seen EXCEPT ![c] = Head(down[c])]
    /\ by' = [by EXCEPT ![c] = "watcher"]
    /\ down' = [down EXCEPT ![c] = Tail(@)]
    /\ UNCHANGED <<session, up, cmd, old, bounds, latest, missed>>

\* ... or fails to, and then does not remember it either.
ClientApplyFails(c) ==
    /\ down[c] # <<>> /\ fails < MaxFails
    /\ fails' = fails + 1
    /\ down' = [down EXCEPT ![c] = Tail(@)]
    /\ UNCHANGED <<clip, seen, session, up, cmd, old, copies, joins, history>>

\* The server's watcher finds its clipboard changed and broadcasts it.
ServerPoll ==
    /\ Changed(Server)
    /\ seen' = [seen EXCEPT ![Server] = clip[Server]]
    /\ down' = [c \in Client |-> IF session[c] THEN Append(down[c], clip[Server]) ELSE down[c]]
    /\ UNCHANGED <<clip, session, up, cmd, old, bounds, history>>

\* The server's watcher takes a client's text: one it has seen is dropped, any
\* other is remembered and set, for the server's clipboard only.
ServerApply ==
    /\ cmd # <<>>
    /\ IF Head(cmd) = seen[Server]
         THEN UNCHANGED <<clip, seen, by>>
         ELSE /\ seen' = [seen EXCEPT ![Server] = Head(cmd)]
              /\ clip' = [clip EXCEPT ![Server] = Head(cmd)]
              /\ by' = [by EXCEPT ![Server] = "watcher"]
    /\ cmd' = Tail(cmd)
    /\ UNCHANGED <<session, up, down, old, bounds, latest, missed>>

\* set_text fails, which the server ignores: it remembers a text that its
\* clipboard does not hold.
ServerApplyFails ==
    /\ cmd # <<>> /\ Head(cmd) # seen[Server] /\ fails < MaxFails
    /\ fails' = fails + 1
    /\ seen' = [seen EXCEPT ![Server] = Head(cmd)]
    /\ cmd' = Tail(cmd)
    /\ UNCHANGED <<clip, session, up, down, old, copies, joins, history>>

ClientStep(c) ==
    OldApplies(c) \/ ClientPoll(c) \/ Deliver(c) \/ ClientApply(c)

ClipNext ==
    \/ \E m \in Machine, t \in Text : Copy(m, t)
    \/ \E c \in Client : Join(c) \/ Break(c) \/ ClientStep(c) \/ ClientApplyFails(c)
    \/ ServerPoll \/ ServerApply \/ ServerApplyFails

\* Every watcher keeps polling and every queue is drained.
ClipFairness ==
    /\ \A c \in Client : /\ WF_clipVars(OldApplies(c)) /\ WF_clipVars(ClientPoll(c))
                         /\ WF_clipVars(Deliver(c)) /\ WF_clipVars(ClientApply(c))
    /\ WF_clipVars(ServerPoll) /\ WF_clipVars(ServerApply)

ClipSpec == ClipInit /\ [][ClipNext]_clipVars /\ ClipFairness

-----------------------------------------------------------------------------
Quiet == \A m \in Machine : ~Outstanding(m)

\* Who has the last word is mirrored: once everything in flight has arrived,
\* the server holds what was copied last, and so does every connected client
\* when it was copied on the server.  It takes that no other text was on its
\* way at the time (two copies that cross are swapped, and stay so), that the
\* copy is one to send and not the text that machine exchanged last, that the
\* server does not hold what is not sent, and that no set_text failed.  A
\* session that starts counts as a copy on the client: it overwrites the
\* server's.
Mirrored ==
    (Quiet /\ ~missed /\ fails = 0 /\ clip[Server] \notin Unsent) =>
        IF latest = Server
          THEN \A c \in Client : session[c] => clip[c] = clip[Server]
          ELSE session[latest] => clip[Server] = clip[latest]

\* "A value we set never gets echoed straight back": a watcher sends only what
\* its own user copied.  The code has three exceptions: the first text of a
\* session, which may have come from the server in an earlier one; a text that
\* an ended session's watcher applies after the next has started; and the
\* server's clipboard after a set_text that failed.
NoEcho ==
    [][/\ \A c \in Client :
            Len(up'[c]) > Len(up[c]) => by[c] \in {"user", "old"} \/ seen[c] = Unseen
       /\ (\E c \in Client : Len(down'[c]) > Len(down[c]))
            => by[Server] = "user" \/ fails > 0]_clipVars

\* The two watchers do not answer each other for ever: when the users stop
\* copying and the sessions stay as they are, the texts in flight run out,
\* failures of set_text included.
Settles == <>[]Quiet
=============================================================================
