-------------------------- MODULE UiSessionProofs ---------------------------
(***************************************************************************)
(* What the generation counter buys the desktop UI, for any number of      *)
(* calls of its commands and any length of the event channel.  The         *)
(* argument is about the newest call: the generations of the calls that    *)
(* have begun are distinct, so at most one call finds the counter at its   *)
(* own generation, and once that call has taken the session nobody but     *)
(* itself can have put one back.                                           *)
(***************************************************************************)
EXTENDS UiSession, FiniteSetTheorems, TLAPS

Begun  == {c \in Call : pc[c] # "new"}
Taking == {"takeConnect", "takeDisconnect"}

\* fetch_add hands out each generation once.
GenerationsAreDistinct ==
    /\ generation = Cardinality(Begun)
    /\ \A c \in Begun : gen[c] \in 1..generation
    /\ \A c, d \in Begun : gen[c] = gen[d] => c = d

\* A session is spawned by a command that has returned.
DriversAreInstalled == \A c \in Call : driver[c] # "none" => pc[c] = "done"

\* SessionIsCurrent with the taker named: it is the newest call that has still
\* to take the session, and not an older one that was overtaken.
NewestOwnsSession ==
    session # None =>
        \E c \in Begun : Current(c) /\ (c = session \/ pc[c] \in Taking)

IndInv ==
    /\ TypeOK
    /\ GenerationsAreDistinct
    /\ DriversAreInstalled
    /\ NewestOwnsSession
    /\ OnlyCleanupOrphans
    /\ IdleShowsOff

-----------------------------------------------------------------------------
\* The event channel stays a sequence.
LEMMA Channels ==
  ASSUME NEW S
  PROVE  /\ <<>> \in Seq(S)
         /\ \A s \in Seq(S), e \in S : Append(s, e) \in Seq(S)
         /\ \A s \in Seq(S) : s # <<>> => Tail(s) \in Seq(S)
  OBVIOUS

LEMMA InitInv == Init => IndInv
  <1> SUFFICES ASSUME Init PROVE IndInv  OBVIOUS
  <1> USE DEF Init
  <1>1. Begun = {}  BY DEF Begun
  <1>2. Cardinality(Call) \in Nat  BY CallAssumption, FS_CardinalityType
  <1>3. TypeOK
    <2>1. <<>> \in Seq(BOOLEAN)  BY Channels, Zenon
    <2>2. events \in [Call -> Seq(BOOLEAN)]  BY <2>1
    <2>3. forwarding \in BOOLEAN /\ late \in BOOLEAN  OBVIOUS
    <2> QED  BY <1>2, <2>2, <2>3, BoundAssumption DEF TypeOK, Listening
  <1>4. GenerationsAreDistinct  BY <1>1, FS_EmptySet DEF GenerationsAreDistinct
  <1> QED
    BY <1>3, <1>4 DEF IndInv, DriversAreInstalled, NewestOwnsSession,
       OnlyCleanupOrphans, Driving, IdleShowsOff

\* A command that moves on, after it has begun, stays begun.
LEMMA BegunKeeps ==
  ASSUME TypeOK, NEW c \in Call, NEW p, p # "new", pc[c] # "new", Goto(c, p)
  PROVE  Begun' = Begun
  BY DEF TypeOK, Goto, Begun

\* reset_session's fetch_add: the new generation is nobody else's.
LEMMA BeginInv ==
  ASSUME IndInv, NEW c \in Call, BeginConnect(c) \/ BeginDisconnect(c)
  PROVE  IndInv'
  <1>1. PICK p \in Taking : Begin(c, p)
    BY DEF BeginConnect, BeginDisconnect, Taking
  <1> USE <1>1 DEF Begin, Goto, Taking
  <1>2. Begun' = Begun \cup {c} /\ c \notin Begun  BY DEF IndInv, TypeOK, Begun
  <1>3. /\ IsFiniteSet(Begun) /\ Cardinality(Begun) \in Nat
        /\ Cardinality(Begun') <= Cardinality(Call) /\ Cardinality(Call) \in Nat
    <2>1. Begun \in SUBSET Call /\ Begun' \in SUBSET Call  BY DEF Begun
    <2> QED  BY <2>1, CallAssumption, FS_Subset, FS_CardinalityType
  <1>4. Cardinality(Begun') = generation + 1 /\ generation \in Nat
    BY <1>2, <1>3, FS_AddElement DEF IndInv, GenerationsAreDistinct
  <1>5. GenerationsAreDistinct'
    <2>1. \A d \in Begun : gen'[d] = gen[d] /\ gen[d] \in 1..generation
      BY <1>2 DEF IndInv, TypeOK, GenerationsAreDistinct, Begun
    <2>2. gen'[c] = generation + 1  BY DEF IndInv, TypeOK
    <2>3. \A d, e \in Begun : gen[d] = gen[e] => d = e
      BY DEF IndInv, GenerationsAreDistinct
    <2> QED  BY <1>2, <1>4, <2>1, <2>2, <2>3 DEF GenerationsAreDistinct
  <1>6. TypeOK'
    <2>1. generation' \in 0..Cardinality(Call)  BY <1>3, <1>4
    <2> QED  BY <2>1 DEF IndInv, TypeOK
  <1>7. DriversAreInstalled'  BY DEF IndInv, TypeOK, DriversAreInstalled
  <1>8. NewestOwnsSession'
    BY <1>2 DEF IndInv, TypeOK, NewestOwnsSession, Current
  <1>9. OnlyCleanupOrphans'  BY DEF IndInv, OnlyCleanupOrphans
  <1>10. IdleShowsOff'
    <2>1. \A d \in Call : pc[d] \in {"flagConnect", "flagDisconnect"} => pc'[d] = pc[d]
      BY DEF IndInv, TypeOK
    <2> QED  BY <2>1 DEF IndInv, IdleShowsOff
  <1> QED  BY <1>5, <1>6, <1>7, <1>8, <1>9, <1>10 DEF IndInv

\* The newest call owns what AppState holds: no other session is there when
\* it installs its own.
LEMMA NewestInstallsAlone ==
  ASSUME IndInv, NEW c \in Call, Current(c), pc[c] \in {"lock", "done"}
  PROVE  session \in {None, c}
  BY DEF IndInv, NewestOwnsSession, GenerationsAreDistinct, Begun, Current, Taking

\* The steps of the commands, after they have begun.
LEMMA CommandInv ==
  ASSUME IndInv, NEW c \in Call,
         CommandStep(c) \/ ConnectFails(c) \/ Connected(c)
  PROVE  IndInv'
  <1> USE CallAssumption DEF IndInv
  <1> DEFINE Same == Begun' = Begun /\ UNCHANGED <<generation, gen>>
  <1>1. Same => GenerationsAreDistinct'  BY DEF GenerationsAreDistinct
  <1>2. CASE TakeSession(c)
    <2> USE <1>2 DEF TakeSession
    <2>1. Same  BY BegunKeeps
    <2>2. TypeOK' /\ DriversAreInstalled' /\ NewestOwnsSession'
      BY DEF TypeOK, Goto, DriversAreInstalled, NewestOwnsSession
    <2>3. OnlyCleanupOrphans'
      BY DEF TypeOK, OnlyCleanupOrphans
    <2>4. IdleShowsOff'  BY DEF TypeOK, Goto, IdleShowsOff
    <2> QED  BY <1>1, <2>1, <2>2, <2>3, <2>4
  <1>3. CASE ClearForwarding(c)
    <2> USE <1>3 DEF ClearForwarding
    <2>1. Same  BY BegunKeeps
    <2>2. TypeOK' /\ DriversAreInstalled' /\ IdleShowsOff'
      BY DEF TypeOK, Goto, DriversAreInstalled, IdleShowsOff
    <2>3. NewestOwnsSession'
      BY <2>1 DEF TypeOK, Goto, NewestOwnsSession, Current, Taking
    <2> QED  BY <1>1, <2>1, <2>2, <2>3 DEF OnlyCleanupOrphans
  <1>4. CASE ConnectFails(c) \/ Connected(c) \/ Superseded(c) \/ InstallCheck(c)
    <2> USE <1>4 DEF ConnectFails, Connected, Superseded, InstallCheck
    <2>1. Same  BY BegunKeeps
    <2>2. TypeOK' /\ DriversAreInstalled'
      BY DEF TypeOK, Goto, DriversAreInstalled
    <2>3. NewestOwnsSession'
      <3>1. \A d \in Call : pc[d] \in Taking => pc'[d] = pc[d]
        BY DEF TypeOK, Goto, Taking
      <3> QED  BY <2>1, <3>1 DEF NewestOwnsSession, Current, Begun
    <2>4. OnlyCleanupOrphans'  BY DEF OnlyCleanupOrphans
    <2>5. IdleShowsOff'  BY DEF TypeOK, Goto, IdleShowsOff
    <2> QED  BY <1>1, <2>1, <2>2, <2>3, <2>4, <2>5
  <1>5. CASE Install(c)
    <2> USE <1>5 DEF Install
    <2>1. Same  BY BegunKeeps
    <2>2. TypeOK' /\ DriversAreInstalled'
      BY DEF TypeOK, Goto, Drive, DriversAreInstalled, Driving, Listening
    <2>3. NewestOwnsSession'
      BY <2>1 DEF TypeOK, Goto, NewestOwnsSession, Current, Begun
    <2>4. OnlyCleanupOrphans'
      BY NewestInstallsAlone DEF TypeOK, Drive, OnlyCleanupOrphans
    <2>5. IdleShowsOff'  BY DEF IdleShowsOff
    <2> QED  BY <1>1, <2>1, <2>2, <2>3, <2>4, <2>5
  <1> QED  BY <1>2, <1>3, <1>4, <1>5 DEF CommandStep

\* The steps of a session's driver: its reconnects and its cleanup.
LEMMA DriverInv ==
  ASSUME IndInv, NEW c \in Call,
         \/ RunCancelled(c) \/ RunEnds(c) \/ SleepCancelled(c) \/ SleepOver(c)
         \/ Reconnected(c) \/ ReconnectFails(c) \/ ReconnectFatal(c)
         \/ ReinstallCheck(c) \/ Reinstall(c)
         \/ EndCheck(c) \/ EndClearSession(c) \/ EndClearFlag(c)
  PROVE  IndInv'
  <1> USE CallAssumption DEF IndInv
  <1>0. UNCHANGED <<generation, gen, pc>>
    BY DEF RunCancelled, RunEnds, SleepCancelled, SleepOver, Reconnected,
           ReconnectFails, ReconnectFatal, ReinstallCheck, Reinstall, EndCheck,
           EndClearSession, EndClearFlag
  <1>1. GenerationsAreDistinct' /\ Begun' = Begun
    BY <1>0 DEF GenerationsAreDistinct, Begun
  <1>2. CASE \/ RunCancelled(c) \/ RunEnds(c) \/ SleepCancelled(c) \/ SleepOver(c)
             \/ Reconnected(c) \/ ReconnectFails(c) \/ ReconnectFatal(c)
             \/ ReinstallCheck(c) \/ EndCheck(c)
    <2> USE <1>2 DEF RunCancelled, RunEnds, SleepCancelled, SleepOver, Reconnected,
              ReconnectFails, ReconnectFatal, ReinstallCheck, EndCheck
    <2>1. PICK p \in {"stopped", "clearSession"} \cup Driving \cup {"end"} :
            /\ Drive(c, p) /\ driver[c] \in Driving \cup {"end"}
            /\ p \in Driving => driver[c] \in Driving
      BY DEF Driving
    <2>2. UNCHANGED <<session, forwarding, cancelled, events, listener, serverOn,
                      presses, late, orphaned>>
      OBVIOUS
    <2>3. TypeOK' /\ DriversAreInstalled'
      BY <1>0, <2>1, <2>2 DEF TypeOK, Drive, DriversAreInstalled, Driving, Ending
    <2>4. NewestOwnsSession'
      BY <1>0, <1>1, <2>2 DEF NewestOwnsSession, Current
    <2>5. OnlyCleanupOrphans'
      BY <2>1, <2>2 DEF TypeOK, Drive, OnlyCleanupOrphans
    <2>6. IdleShowsOff'
      BY <1>0, <2>1, <2>2 DEF TypeOK, Drive, IdleShowsOff, Driving
    <2> QED  BY <1>1, <2>3, <2>4, <2>5, <2>6
  <1>3. CASE Reinstall(c)
    <2> USE <1>3 DEF Reinstall
    <2>1. pc[c] = "done"  BY DEF DriversAreInstalled
    <2>2. TypeOK' /\ DriversAreInstalled'
      BY <1>0, <2>1 DEF TypeOK, Drive, DriversAreInstalled, Driving, Ending
    <2>3. NewestOwnsSession'
      BY <1>0, <1>1, <2>1 DEF NewestOwnsSession, Current, Begun
    <2>4. OnlyCleanupOrphans'
      BY <2>1, NewestInstallsAlone DEF TypeOK, Drive, OnlyCleanupOrphans, Driving
    <2>5. IdleShowsOff'  BY <1>0 DEF TypeOK, Drive, IdleShowsOff
    <2> QED  BY <1>1, <2>2, <2>3, <2>4, <2>5
  <1>4. CASE EndClearSession(c)
    <2> USE <1>4 DEF EndClearSession
    <2>1. TypeOK' /\ DriversAreInstalled'
      BY <1>0 DEF TypeOK, Drive, DriversAreInstalled, Ending
    <2>2. OnlyCleanupOrphans'
      BY DEF TypeOK, Drive, OnlyCleanupOrphans, Driving
    <2>3. NewestOwnsSession' /\ IdleShowsOff'
      BY DEF TypeOK, Drive, NewestOwnsSession, IdleShowsOff
    <2> QED  BY <1>1, <2>1, <2>2, <2>3
  <1>5. CASE EndClearFlag(c)
    <2> USE <1>5 DEF EndClearFlag
    <2>1. TypeOK' /\ DriversAreInstalled'
      BY <1>0 DEF TypeOK, Drive, DriversAreInstalled, Ending
    <2>2. OnlyCleanupOrphans'
      BY DEF TypeOK, Drive, OnlyCleanupOrphans, Driving
    <2>3. NewestOwnsSession' /\ IdleShowsOff'
      BY <1>0, <1>1 DEF NewestOwnsSession, Current, IdleShowsOff
    <2> QED  BY <1>1, <2>1, <2>2, <2>3
  <1> QED  BY <1>2, <1>3, <1>4, <1>5

\* The steps of a session's listener, which touch the flag alone.
LEMMA ListenerInv ==
  ASSUME IndInv, NEW c \in Call, ListenerRecv(c) \/ ListenerStore(c)
  PROVE  IndInv'
  <1> USE CallAssumption DEF IndInv, ListenerRecv, ListenerStore
  <1>1. UNCHANGED <<generation, session, pc, gen, cancelled, driver, orphaned>>
    OBVIOUS
  <1>2. TypeOK'
    <2>1. events' \in [Call -> Seq(BOOLEAN)]
      <3> DEFINE S == Seq(BOOLEAN)
      <3>1. /\ <<>> \in S /\ events \in [Call -> S]
            /\ \A s \in S : s # <<>> => Tail(s) \in S
        BY Channels, Zenon DEF TypeOK
      <3> HIDE DEF S
      <3>2. events' \in [Call -> S]  BY <3>1
      <3> QED  BY <3>2 DEF S
    <2>2. listener' \in [Call -> Listening]  BY DEF TypeOK, Listening
    <2>3. forwarding' \in BOOLEAN /\ late' \in BOOLEAN /\ serverOn' \in BOOLEAN
      BY DEF TypeOK
    <2> QED  BY <1>1, <2>1, <2>2, <2>3 DEF TypeOK
  <1>3. GenerationsAreDistinct' /\ DriversAreInstalled' /\ NewestOwnsSession'
    BY <1>1 DEF GenerationsAreDistinct, Begun, DriversAreInstalled,
                NewestOwnsSession, Current
  <1>4. OnlyCleanupOrphans'  BY <1>1 DEF OnlyCleanupOrphans
  <1>5. IdleShowsOff'  BY <1>1 DEF IdleShowsOff
  <1> QED  BY <1>2, <1>3, <1>4, <1>5

\* The server's flag, and steps that change nothing.
LEMMA ServerInv ==
  ASSUME IndInv, HotkeyPressed \/ ToggleForwarding \/ UNCHANGED vars
  PROVE  IndInv'
  <1> USE DEF IndInv, HotkeyPressed, ToggleForwarding, vars
  <1>1. UNCHANGED <<generation, session, forwarding, pc, gen, cancelled, driver,
                    listener, late, orphaned>>
    OBVIOUS
  <1>2. TypeOK'
    <2>1. events' \in [Call -> Seq(BOOLEAN)] /\ serverOn' \in BOOLEAN
      <3>1. CASE UNCHANGED vars  BY <3>1 DEF TypeOK
      <3>2. ASSUME NEW b \in BOOLEAN, SwitchServer(b)
            PROVE  events' \in [Call -> Seq(BOOLEAN)] /\ serverOn' \in BOOLEAN
        <4> DEFINE S == Seq(BOOLEAN)
        <4>1. events \in [Call -> S] /\ \A s \in S : Append(s, b) \in S
          BY Channels, Zenon DEF TypeOK
        <4> HIDE DEF S
        <4>2. events' \in [Call -> S]  BY <3>2, <4>1 DEF SwitchServer
        <4> QED  BY <3>2, <4>2 DEF SwitchServer, S
      <3> QED  BY <3>1, <3>2 DEF TypeOK
    <2>2. presses' \in 0..MaxHotkey  BY BoundAssumption DEF TypeOK
    <2> QED  BY <1>1, <2>1, <2>2 DEF TypeOK
  <1>3. GenerationsAreDistinct' /\ DriversAreInstalled' /\ NewestOwnsSession'
    BY <1>1 DEF GenerationsAreDistinct, Begun, DriversAreInstalled,
                NewestOwnsSession, Current
  <1>4. OnlyCleanupOrphans' /\ IdleShowsOff'
    BY <1>1 DEF OnlyCleanupOrphans, IdleShowsOff
  <1> QED  BY <1>2, <1>3, <1>4

LEMMA NextInv == IndInv /\ [Next]_vars => IndInv'
  BY BeginInv, CommandInv, DriverInv, ListenerInv, ServerInv DEF Next

-----------------------------------------------------------------------------
(* The theorems.                                                           *)

\* The inductive invariant holds of every behaviour of the UI.
LEMMA Safety == Spec => []IndInv
  BY InitInv, NextInv, PTL DEF Spec

\* Every variable keeps its type, and the counter never passes the number of
\* calls.
THEOREM TypeCorrect == Spec => []TypeOK
  <1>1. IndInv => TypeOK  BY DEF IndInv
  <1> QED  BY <1>1, Safety, PTL

\* However connects, disconnects, reconnects and cleanups overlap, a session
\* that runs and was not cancelled is the one a disconnect finds, unless the
\* unlocked cleanup of another driver removed its entry.
THEOREM NoUnsupervisedSession == Spec => []OnlyCleanupOrphans
  <1>1. IndInv => OnlyCleanupOrphans  BY DEF IndInv
  <1> QED  BY <1>1, Safety, PTL

\* A superseded connect_to_server never leaves its session in AppState.
THEOREM SupersededNeverInstalls == Spec => []SessionIsCurrent
  <1>1. IndInv => SessionIsCurrent
    BY DEF IndInv, NewestOwnsSession, SessionIsCurrent, Begun, Taking
  <1> QED  BY <1>1, Safety, PTL

\* Without a session the flag shows off, once it was cleared, unless a
\* listener stored a late event.
THEOREM IdleFlagIsOff == Spec => []IdleShowsOff
  <1>1. IndInv => IdleShowsOff  BY DEF IndInv
  <1> QED  BY <1>1, Safety, PTL
=============================================================================
