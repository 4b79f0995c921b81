-------------------------- MODULE ServerConnection --------------------------
(***************************************************************************)
(* One client connection of the zivpn server (h3sHandler): authentication, *)
(* a handler goroutine per TCP stream, two relay goroutines under it, the  *)
(* datagrams, and the traffic loggers they ask before they pass anything   *)
(* on: the quota logger, then the statistics server with its kick list.    *)
(*                                                                         *)
(* Data is counted in chunks.  A relay that ends reports once on the       *)
(* channel of its stream; the handler takes the first report, closes both  *)
(* ends of the stream and, if a logger asked for it, the connection.       *)
(***************************************************************************)
EXTENDS Naturals, Sequences, FiniteSets

CONSTANTS
  Requests,    \* HTTP authentication requests of the client
  Streams,     \* its TCP streams
  Quota,       \* chunks its password may use, 0 for no limit
  MaxChunks,   \* bound: chunks that the connection carries
  MaxKicks     \* bound: calls of /kick

ASSUME StreamsAssumption == IsFiniteSet(Streams)
ASSUME BoundsAssumption == {Quota, MaxChunks, MaxKicks} \subseteq Nat

Dirs == {"up", "down"}      \* client to remote, remote to client
Relays == Streams \X Dirs
Results == {"end", "disconnect"}

VARIABLES
  open,        \* the QUIC connection
  request,     \* state of each authentication request
  flagged,     \* h.authenticated
  known,       \* h.authID is set
  managers,    \* UDP session managers: the number started
  udp,         \* whether one runs
  handler,     \* the handler of each stream
  named,       \* streams whose relays log under the client's identity
  ends,        \* streams whose two sockets are open
  relay,       \* the relay goroutines
  errChan,     \* the reports on the channel of each stream
  verdict,     \* the report its handler took
  used,        \* quota logger: chunks counted for the identity
  kicked,      \* statistics server: the identity is in KickMap
  kicks,       \* /kick calls so far
  offered,     \* chunks read so far
  passed,      \* history: chunks passed on to either side
  nameless     \* history: those that streams without the identity passed on

vars == <<open, request, flagged, known, managers, udp, handler, named, ends, relay,
          errChan, verdict, used, kicked, kicks, offered, passed, nameless>>
authVars == <<request, flagged, known, managers>>
streamVars == <<handler, named, ends, relay, errChan, verdict>>
logVars == <<used, kicked, offered, passed, nameless>>

\* The bound on the data.
Offer == offered < MaxChunks /\ offered' = offered + 1

Init ==
  /\ open = TRUE
  /\ request = [r \in Requests |-> "sent"]
  /\ flagged = FALSE /\ known = FALSE
  /\ managers = 0 /\ udp = "none"
  /\ handler = [s \in Streams |-> "none"]
  /\ named = {} /\ ends = {}
  /\ relay = [r \in Relays |-> "off"]
  /\ errChan = [s \in Streams |-> <<>>]
  /\ verdict = [s \in Streams |-> "none"]
  /\ used = 0 /\ kicked = FALSE /\ kicks = 0 /\ offered = 0
  /\ passed = 0 /\ nameless = 0

-----------------------------------------------------------------------------
\* Authentication, under authMutex.  The two fields of the result are set one
\* after the other, and read by the streams without the mutex: a stream may
\* see the first and not the second.

MutexFree == \A r \in Requests : request[r] # "setting"

\* Mutant: a second request is authenticated again.
AuthenticateTwice(r) ==
  /\ open /\ request[r] = "sent" /\ MutexFree
  /\ request' = [request EXCEPT ![r] = "setting"] /\ flagged' = TRUE
  /\ UNCHANGED <<open, known, managers, udp, streamVars, logVars, kicks>>

Authenticate(r) ==
  /\ open /\ request[r] = "sent" /\ MutexFree
  /\ IF flagged
       THEN request' = [request EXCEPT ![r] = "done"] /\ UNCHANGED flagged
       ELSE request' = [request EXCEPT ![r] = "setting"] /\ flagged' = TRUE
  /\ UNCHANGED <<open, known, managers, udp, streamVars, logVars, kicks>>

AuthenticateFails(r) ==
  /\ open /\ request[r] = "sent" /\ MutexFree /\ ~flagged
  /\ request' = [request EXCEPT ![r] = "done"]
  /\ UNCHANGED <<open, flagged, known, managers, udp, streamVars, logVars, kicks>>

\* The identity is stored and a goroutine runs the UDP session manager, which
\* ends at once on a connection that has closed meanwhile.
Identify(r) ==
  /\ request[r] = "setting"
  /\ request' = [request EXCEPT ![r] = "done"]
  /\ known' = TRUE
  /\ managers' = managers + 1
  /\ udp' = "running"
  /\ UNCHANGED <<open, flagged, streamVars, logVars, kicks>>

-----------------------------------------------------------------------------
\* The traffic loggers, asked under their own locks: the quota logger charges
\* and compares, the statistics server takes the identity off its kick list.
\* An identity that is not set yet has neither quota nor kick, and an identity
\* whose quota is 0 has no limit.

\* Mutant: the chunk is compared before it is charged.
WithinQuotaBefore == Quota = 0 \/ used <= Quota
WithinQuota == Quota = 0 \/ used + 1 <= Quota

Admitted(byName) == byName => WithinQuota /\ ~kicked

Charge(byName) ==
  /\ used' = IF byName THEN used + 1 ELSE used
  /\ kicked' = (kicked /\ ~(byName /\ WithinQuota))

Kick ==
  /\ kicks < MaxKicks
  /\ kicks' = kicks + 1 /\ kicked' = TRUE
  /\ UNCHANGED <<open, authVars, udp, streamVars, used, offered, passed, nameless>>

-----------------------------------------------------------------------------
\* TCP streams.

\* A stream with the TCP frame type is taken over once h.authenticated is set.
Hijack(s) ==
  /\ open /\ flagged /\ handler[s] = "none"
  /\ handler' = [handler EXCEPT ![s] = "dialing"]
  /\ UNCHANGED <<open, authVars, udp, named, ends, relay, errChan, verdict, logVars, kicks>>

\* The request cannot be read or the target cannot be reached.
DialFails(s) ==
  /\ handler[s] = "dialing"
  /\ handler' = [handler EXCEPT ![s] = "done"]
  /\ UNCHANGED <<open, authVars, udp, named, ends, relay, errChan, verdict, logVars, kicks>>

DialSucceeds(s) ==
  /\ handler[s] = "dialing"
  /\ handler' = [handler EXCEPT ![s] = "waiting"]
  /\ named' = IF known THEN named \cup {s} ELSE named
  /\ ends' = ends \cup {s}
  /\ relay' = [r \in Relays |-> IF r[1] = s THEN "reading" ELSE relay[r]]
  /\ UNCHANGED <<open, authVars, udp, errChan, verdict, logVars, kicks>>

\* A relay reads from and writes to two sockets: the stream, which dies with
\* the connection, and the remote one.  Both are closed by the handler.
Readable(s, d) == s \in ends /\ (d = "up" => open)
Writable(s, d) == s \in ends /\ (d = "down" => open)

\* Mutant: a channel without room, on which a report needs a receiver.
CanReportUnbuffered(s) == handler[s] = "waiting" /\ errChan[s] = <<>>
CanReport(s) == Len(errChan[s]) < 2

Report(s, d, result) ==
  /\ CanReport(s)
  /\ errChan' = [errChan EXCEPT ![s] = Append(@, result)]
  /\ relay' = [relay EXCEPT ![<<s, d>>] = "ended"]

ReadChunk(s, d) ==
  /\ relay[<<s, d>>] = "reading" /\ Readable(s, d)
  /\ Offer
  /\ relay' = [relay EXCEPT ![<<s, d>>] = "logging"]
  /\ UNCHANGED <<open, authVars, udp, handler, named, ends, errChan, verdict,
                 used, kicked, passed, nameless, kicks>>

\* End of file or an error, at the will of the peer or because the socket is
\* closed.
ReadEnds(s, d) ==
  /\ relay[<<s, d>>] = "reading"
  /\ Report(s, d, "end")
  /\ UNCHANGED <<open, authVars, udp, handler, named, ends, verdict, logVars, kicks>>

LogChunk(s, d) ==
  /\ relay[<<s, d>>] = "logging"
  /\ Charge(s \in named)
  /\ IF Admitted(s \in named)
       THEN relay' = [relay EXCEPT ![<<s, d>>] = "writing"] /\ UNCHANGED errChan
       ELSE Report(s, d, "disconnect")
  /\ UNCHANGED <<open, authVars, udp, handler, named, ends, verdict, offered, passed, nameless, kicks>>

WriteChunk(s, d) ==
  /\ relay[<<s, d>>] = "writing" /\ Writable(s, d)
  /\ relay' = [relay EXCEPT ![<<s, d>>] = "reading"]
  /\ passed' = passed + 1
  /\ nameless' = IF s \in named THEN nameless ELSE nameless + 1
  /\ UNCHANGED <<open, authVars, udp, handler, named, ends, errChan, verdict,
                 used, kicked, offered, kicks>>

WriteFails(s, d) ==
  /\ relay[<<s, d>>] = "writing"
  /\ Report(s, d, "end")
  /\ UNCHANGED <<open, authVars, udp, handler, named, ends, verdict, logVars, kicks>>

\* Mutant: the sockets are left to the relays.
CollectKeepsOpen(s) ==
  /\ handler[s] = "waiting" /\ errChan[s] # <<>>
  /\ handler' = [handler EXCEPT ![s] = "closing"]
  /\ verdict' = [verdict EXCEPT ![s] = Head(errChan[s])]
  /\ errChan' = [errChan EXCEPT ![s] = Tail(@)]
  /\ UNCHANGED <<open, authVars, udp, named, ends, relay, logVars, kicks>>

Collect(s) ==
  /\ handler[s] = "waiting" /\ errChan[s] # <<>>
  /\ handler' = [handler EXCEPT ![s] = "closing"]
  /\ verdict' = [verdict EXCEPT ![s] = Head(errChan[s])]
  /\ errChan' = [errChan EXCEPT ![s] = Tail(@)]
  /\ ends' = ends \ {s}
  /\ UNCHANGED <<open, authVars, udp, named, relay, logVars, kicks>>

Finish(s) ==
  /\ handler[s] = "closing"
  /\ handler' = [handler EXCEPT ![s] = "done"]
  /\ open' = (open /\ verdict[s] # "disconnect")
  /\ UNCHANGED <<authVars, udp, named, ends, relay, errChan, verdict, logVars, kicks>>

-----------------------------------------------------------------------------
\* Datagrams of either direction, and the end of the connection.

Datagram ==
  /\ open /\ udp = "running"
  /\ Offer /\ Charge(TRUE)
  /\ IF Admitted(TRUE)
       THEN passed' = passed + 1 /\ UNCHANGED open
       ELSE open' = FALSE /\ UNCHANGED passed
  /\ UNCHANGED <<authVars, udp, streamVars, nameless, kicks>>

\* Mutant: a failed receive call is taken for an invalid message.
ManagerContinues == ~open /\ udp = "running" /\ UNCHANGED vars

\* The receive call of the session manager fails.
ManagerEnds ==
  /\ ~open /\ udp = "running"
  /\ udp' = "ended"
  /\ UNCHANGED <<open, authVars, streamVars, logVars, kicks>>

ClientLeaves ==
  /\ open /\ open' = FALSE
  /\ UNCHANGED <<authVars, udp, streamVars, logVars, kicks>>

AuthStep(r) == Authenticate(r) \/ AuthenticateFails(r) \/ Identify(r)

WriteEnds(s, d) == WriteChunk(s, d) \/ WriteFails(s, d)

StreamStep(s) ==
  \/ Hijack(s) \/ DialFails(s) \/ DialSucceeds(s) \/ Collect(s) \/ Finish(s)
  \/ \E d \in Dirs : ReadChunk(s, d) \/ ReadEnds(s, d) \/ LogChunk(s, d) \/ WriteEnds(s, d)

Next ==
  \/ \E r \in Requests : AuthStep(r)
  \/ \E s \in Streams : StreamStep(s)
  \/ Datagram \/ ManagerEnds \/ ClientLeaves \/ Kick

Spec == Init /\ [][Next]_vars

\* Goroutines are scheduled.  The client owes nothing: the request of a stream
\* is awaited, and a write to the client blocks, for as long as the connection
\* is open (closing a stream does not wake its writer).  A dial has a timeout,
\* and the remote host is assumed to take what it is sent or to fail.
HandlerFairness(s) ==
  /\ WF_vars(Collect(s)) /\ WF_vars(Finish(s))
  /\ WF_vars(~open /\ (DialFails(s) \/ DialSucceeds(s)))

RelayFairness(s, d) ==
  /\ WF_vars(LogChunk(s, d))
  /\ WF_vars(~Readable(s, d) /\ ReadEnds(s, d))
  /\ WF_vars((d = "up" \/ ~open) /\ WriteEnds(s, d))

Fairness ==
  /\ \A s \in Streams : HandlerFairness(s) /\ \A d \in Dirs : RelayFairness(s, d)
  /\ WF_vars(ManagerEnds)

FairSpec == Spec /\ Fairness

-----------------------------------------------------------------------------
\* Types, and the bookkeeping between a handler and its relays: sockets are
\* open exactly while the handler waits for the first report, and every relay
\* that ended has reported exactly once.
TypeOK ==
  /\ {open, flagged, known, kicked} \subseteq BOOLEAN
  /\ request \in [Requests -> {"sent", "setting", "done"}]
  /\ handler \in [Streams -> {"none", "dialing", "waiting", "closing", "done"}]
  /\ relay \in [Relays -> {"off", "reading", "logging", "writing", "ended"}]
  /\ errChan \in [Streams -> {<<>>} \cup {<<x>> : x \in Results} \cup (Results \X Results)]
  /\ verdict \in [Streams -> Results \cup {"none"}]
  /\ {used, offered, passed, nameless, kicks, managers} \subseteq Nat
  /\ udp \in {"none", "running", "ended"}
  /\ named \subseteq Streams
  /\ ends = {s \in Streams : handler[s] = "waiting"}
  /\ \A s \in Streams :
       Cardinality({d \in Dirs : relay[<<s, d>>] = "ended"})
         = Len(errChan[s]) + (IF verdict[s] = "none" THEN 0 ELSE 1)

\* Streams whose relays run without the identity: they were dialed between
\* h.authenticated and h.authID, the two fields that ServeHTTP sets one after the
\* other and that a stream reads without the mutex.
Nameless == {s \in Streams \ named : \E d \in Dirs : relay[<<s, d>>] # "off"}

\* However many streams and datagrams run in parallel, a client with a quota gets
\* no more through than the quota, what nameless streams carry apart: a chunk is
\* charged before it is passed on and a refused one never is.  The exception is
\* the code's: no quota holds the traffic of a nameless stream, for as long as it
\* runs.  It is no wider than that: without such a stream nothing is excepted.
QuotaBoundsTraffic ==
  /\ Quota > 0 => passed <= Quota + nameless
  /\ Nameless = {} => nameless = 0

\* Concurrent authentication requests start one session manager (the comment
\* in ServeHTTP asks for it).
OneManager == managers <= 1

\* A relay outlives its handler (copyTwoWayWithLogger returns on the first
\* report) only while it waits for the client to take what it writes: it is
\* never stuck on a read or on its own report.
RelaysEnd == \A s \in Streams :
  handler[s] = "closing" ~>
    \A d \in Dirs : \/ relay[<<s, d>>] = "ended"
                    \/ d = "down" /\ relay[<<s, d>>] = "writing" /\ open

\* When the connection is gone, whoever closed it, all its streams and the
\* session manager end.
ClosedReleasesAll ==
  ~open ~> /\ \A s \in Streams : handler[s] \in {"none", "done"}
           /\ \A r \in Relays : relay[r] \in {"off", "ended"}
           /\ udp # "running"

=============================================================================
