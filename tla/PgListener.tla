------------------------------ MODULE PgListener ------------------------------
(***************************************************************************)
(* One listener of packages/pg-listen/src/index.ts: the phases of its      *)
(* connection (socket, TLS, authentication, LISTEN), the health query,     *)
(* notifications, and the reconnection after every way to lose the socket. *)
(* Each action is one callback: of the socket, or of a timer.              *)
(*                                                                         *)
(* Abstracted: bytes and message framing; the contents of the              *)
(* authentication.  The gateway only listens, so the queue of queries      *)
(* holds at most the one that is sent at once, and a listener is never     *)
(* closed.  The server and the network are external: a reachable server    *)
(* answers, bytes that nobody acknowledges make TCP close the socket.      *)
(* MaxFaults bounds what goes wrong.                                       *)
(***************************************************************************)
EXTENDS Integers, Sequences

CONSTANTS
    Keys,           \* the payloads of notifications
    Tls,            \* opts.tls is set
    PlainFallback,  \* opts.tls.allowPlainFallback
    MaxFaults

ASSUME ListenerConstants ==
    /\ Tls \in BOOLEAN /\ PlainFallback \in BOOLEAN
    /\ MaxFaults \in Nat

VARIABLES
    link,        \* the socket: "closed", "dialing", "up"; "ending" and
                 \* "closing" when the server or the client ended it;
                 \* "gone" when the peer is out of reach
    awaiting,    \* the answer that is awaited
    unacked,     \* what was written has not reached the server
    connected,   \* status is "connected", and the health timer runs
    subscribed,  \* LISTEN is in force, and what it yields comes through
    notices,     \* notifications on their way
    faults

listener == <<link, awaiting, unacked, connected, subscribed, notices, faults>>

Links == {"closed", "dialing", "up", "ending", "closing", "gone"}
Answers == {"nothing", "ssl", "tls", "startup", "sasl", "login", "listen", "health"}

ListenerTypeOK ==
    /\ link \in Links
    /\ awaiting \in Answers
    /\ unacked \in BOOLEAN
    /\ connected \in BOOLEAN
    /\ subscribed \in BOOLEAN
    /\ notices \in Seq(Keys)
    /\ faults \in 0..MaxFaults

ListenerInit ==
    /\ link = "dialing"
    /\ awaiting = "nothing"
    /\ unacked = FALSE
    /\ connected = FALSE
    /\ subscribed = FALSE
    /\ notices = <<>>
    /\ faults = 0

Fault ==
    /\ faults < MaxFaults
    /\ faults' = faults + 1

-----------------------------------------------------------------------------
(* Connecting.                                                             *)

Connect ==
    /\ link = "closed"
    /\ link' = "dialing"
    /\ UNCHANGED <<awaiting, unacked, connected, subscribed, notices, faults>>

DialFails ==
    /\ Fault
    /\ link = "dialing"
    /\ link' = "closed"
    /\ UNCHANGED <<awaiting, unacked, connected, subscribed, notices>>

Open ==
    /\ link = "dialing"
    /\ link' = "up"
    /\ awaiting' = IF Tls THEN "ssl" ELSE "startup"
    /\ unacked' = TRUE
    /\ UNCHANGED <<connected, subscribed, notices, faults>>

\* The next message of the dialogue is written.
Write(kind) ==
    /\ awaiting' = kind
    /\ unacked' = TRUE
    /\ UNCHANGED <<link, connected, subscribed, notices, faults>>

\* The answer to what the server has received arrives.
Answered(kind) ==
    /\ link = "up" /\ ~unacked
    /\ awaiting = kind

SslAccepted == Answered("ssl") /\ Write("tls")

SslRefused ==
    /\ PlainFallback
    /\ Answered("ssl") /\ Write("startup")

Handshaken == Answered("tls") /\ Write("startup")

PasswordAsked == Answered("startup") /\ Write("login")

SaslStarted == Answered("startup") /\ Write("sasl")

SaslContinued == Answered("sasl") /\ Write("login")

\* The first ReadyForQuery: the channels are registered.
Ready ==
    /\ Answered("startup") \/ Answered("login")
    /\ Write("listen")

\* The server executes LISTEN when it receives it.
Reach ==
    /\ link = "up" /\ unacked
    /\ unacked' = FALSE
    /\ subscribed' = (subscribed \/ awaiting = "listen")
    /\ UNCHANGED <<link, awaiting, connected, notices, faults>>

Listening ==
    /\ Answered("listen")
    /\ awaiting' = "nothing"
    /\ connected' = TRUE
    /\ UNCHANGED <<link, unacked, subscribed, notices, faults>>

\* An unexpected byte, a failed handshake, an unknown method, a query's error:
\* the client ends the socket.
Refused ==
    /\ Fault
    /\ \E kind \in Answers \ {"nothing", "login"} : Answered(kind)
    /\ link' = "closing"
    /\ awaiting' = "nothing"
    /\ subscribed' = FALSE
    /\ notices' = <<>>
    /\ UNCHANGED <<unacked, connected>>

-----------------------------------------------------------------------------
(* The health query, and the ways to lose a socket.                        *)

HealthAmidQuery == awaiting = "health"

HealthDue == awaiting = "nothing"

HealthTick ==
    /\ connected /\ HealthDue
    /\ Write("health")

Healthy ==
    /\ Answered("health")
    /\ awaiting' = "nothing"
    /\ UNCHANGED <<link, unacked, connected, subscribed, notices, faults>>

ServerEnds ==
    /\ Fault
    /\ link = "up"
    /\ link' = "ending"
    /\ subscribed' = FALSE
    /\ UNCHANGED <<awaiting, unacked, connected, notices>>

\* A peer vanishes without a word.
GoesSilent ==
    /\ Fault
    /\ link \in {"up", "ending"}
    /\ link' = "gone"
    /\ subscribed' = FALSE
    /\ notices' = <<>>
    /\ UNCHANGED <<awaiting, unacked, connected>>

\* handleSocketClose, and the reconnection it schedules.
SocketClosed ==
    /\ link \in {"ending", "closing"} \/ (link = "gone" /\ unacked)
    /\ link' = "closed"
    /\ awaiting' = "nothing"
    /\ unacked' = FALSE
    /\ connected' = FALSE
    /\ subscribed' = FALSE
    /\ notices' = <<>>
    /\ UNCHANGED faults

\* The process dies and starts again.
Restart ==
    /\ Fault
    /\ link' = "dialing"
    /\ awaiting' = "nothing"
    /\ unacked' = FALSE
    /\ connected' = FALSE
    /\ subscribed' = FALSE
    /\ notices' = <<>>

-----------------------------------------------------------------------------
(* Notifications.                                                          *)

Publish(k) ==
    /\ notices' = IF subscribed THEN Append(notices, k) ELSE notices
    /\ UNCHANGED <<link, awaiting, unacked, connected, subscribed, faults>>

Receive(k) ==
    /\ notices # <<>> /\ k = Head(notices)
    /\ notices' = Tail(notices)
    /\ UNCHANGED <<link, awaiting, unacked, connected, subscribed, faults>>

-----------------------------------------------------------------------------
\* What goes on while nothing goes wrong.
Proceed ==
    \/ Connect \/ Open \/ Reach
    \/ SslAccepted \/ SslRefused \/ Handshaken
    \/ PasswordAsked \/ SaslStarted \/ SaslContinued
    \/ Ready \/ Listening \/ HealthTick \/ Healthy \/ SocketClosed

Mishap == DialFails \/ Refused \/ ServerEnds \/ GoesSilent

\* An answer is awaited that the server was asked for before it vanished.  The
\* connection has no timer for this, and the health query waits its turn.
Hung == link = "gone" /\ ~unacked /\ awaiting # "nothing"

Link == INSTANCE NotifyLink WITH
    Payloads <- Keys, on <- subscribed, arriving <- notices, hung <- Hung

\* The listener does what its users rely on, and it always comes back to
\* listening, whatever ended its connection; except from the one state it
\* cannot leave.
ImplementsLink == Link!Spec
=============================================================================
