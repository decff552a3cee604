------------------------------- MODULE Socks5 -------------------------------
(***************************************************************************)
(* The SOCKS5 proxy (server/src/socks5.rs): one task per connection runs   *)
(* negotiate and then relays.  The connections of one address share a      *)
(* RateLimiter entry of the proxy's own: negotiate looks the lockout up    *)
(* when the client has offered its methods, and records a failure when the *)
(* credentials it sent, any time later, are wrong.                         *)
(*                                                                         *)
(* What a client sends is a choice of the model; a client that hangs up    *)
(* makes the read fail, which ends the task with an error.  No read of     *)
(* negotiate has a deadline: a task may stay where it is for ever.         *)
(***************************************************************************)
EXTENDS RateLimiter

VARIABLES anonymous, \* Socks5Config.allow_anonymous, fixed when the proxy starts
          place      \* what the connection's task waits for

limiter == <<now, failures, blockedUntil, task>>
socksVars == <<now, failures, blockedUntil, task, anonymous, place>>

Waiting == {"methods", "credentials", "request", "connecting", "relaying"}

\* A credential is being waited for exactly between the lookup of the lockout
\* and the verdict, and a lockout never reaches past one window from now.
SocksTypeOK ==
    /\ TypeOK
    /\ blockedUntil <= now + Window
    /\ anonymous \in BOOLEAN
    /\ place \in [Task -> Waiting \cup {"closed"}]
    /\ \A c \in Task : task[c] = "proving" <=> place[c] = "credentials"

\* main.rs starts no proxy that requires credentials and has none, so the
\* proxy is open to anybody or has a user name and a password.
SocksInit ==
    /\ Init
    /\ anonymous \in BOOLEAN
    /\ place = [c \in Task |-> "closed"]

Goto(c, p) == place' = [place EXCEPT ![c] = p]

\* run: a connection is accepted and gets a task; nothing bounds their number.
Connect(c) ==
    /\ place[c] = "closed" /\ Goto(c, "methods")
    /\ UNCHANGED <<limiter, anonymous>>

\* Mutant: the lockout is left to the verdict on the credentials.
OffersFirst(c) ==
    /\ place[c] = "methods" /\ ~anonymous
    /\ task' = [task EXCEPT ![c] = "proving"]
    /\ Goto(c, "credentials")
    /\ UNCHANGED <<now, failures, blockedUntil, anonymous>>

\* Credentials are required, the address is not locked out and the client
\* offers user/password; a locked-out address can only be Refused.
OfferPassword(c) ==
    /\ place[c] = "methods" /\ ~anonymous
    /\ CheckPasses(c)
    /\ Goto(c, "credentials")
    /\ UNCHANGED anonymous

\* An open proxy never consults the lockout.
OfferNoAuth(c) ==
    /\ place[c] = "methods" /\ anonymous
    /\ Goto(c, "request")
    /\ UNCHANGED <<limiter, anonymous>>

CredentialsRight(c) ==
    /\ place[c] = "credentials"
    /\ ProofMatches(c)
    /\ Goto(c, "request")
    /\ UNCHANGED anonymous

CredentialsWrong(c) ==
    /\ place[c] = "credentials"
    /\ RecordFailure(c)
    /\ Goto(c, "closed")
    /\ UNCHANGED anonymous

\* The client hangs up or sends another subnegotiation version: no verdict,
\* and no failure on record.
CredentialsMissing(c) ==
    /\ place[c] = "credentials"
    /\ ProofMatches(c)
    /\ Goto(c, "closed")
    /\ UNCHANGED anonymous

\* A CONNECT request with an address of a known type.
Request(c) ==
    /\ place[c] = "request" /\ Goto(c, "connecting")
    /\ UNCHANGED <<limiter, anonymous>>

\* handle_client reaches the target and copies in both directions.
Relay(c) ==
    /\ place[c] = "connecting" /\ Goto(c, "relaying")
    /\ UNCHANGED <<limiter, anonymous>>

\* Every other way out: a lockout, a version, method, command or address the
\* proxy does not take, a client that hangs up, a target that cannot be
\* reached, a relay whose peers are done or whose idle_timeout is over.
Refused(c) ==
    /\ place[c] \in Waiting \ {"credentials"} /\ Goto(c, "closed")
    /\ UNCHANGED <<limiter, anonymous>>

SocksTick == Tick /\ UNCHANGED <<anonymous, place>>

SocksNext ==
    \/ SocksTick
    \/ \E c \in Task :
         \/ Connect(c) \/ OfferPassword(c) \/ OfferNoAuth(c)
         \/ CredentialsRight(c) \/ CredentialsWrong(c) \/ CredentialsMissing(c)
         \/ Request(c) \/ Relay(c) \/ Refused(c)

SocksSpec == SocksInit /\ [][SocksNext]_socksVars

-----------------------------------------------------------------------------
\* The proxy keeps to the lockout's protocol, the one pairing follows: each
\* of its steps looks the lockout up, gives one verdict on a connection that
\* passed, or leaves the entry alone.  What holds of RateLimiter's Spec holds
\* of the proxy.
KeepsLockoutProtocol == Spec
=============================================================================
