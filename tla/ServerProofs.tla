---------------------------- MODULE ServerProofs ----------------------------
(***************************************************************************)
(* What one client connection of the zivpn server keeps true.              *)
(*                                                                         *)
(* ServerConnection, for any number of streams and authentication          *)
(* requests: one session manager starts, the quota bounds what streams and *)
(* datagrams pass on together (what streams without the identity carry is  *)
(* counted apart), and no stream reports more often than its channel holds.*)
(*                                                                         *)
(* UDPServerSessions, for every set of session IDs and any number of       *)
(* sessions: the session map and the receive loops agree, and no socket is *)
(* left open.                                                              *)
(***************************************************************************)
EXTENDS ServerConnection, UDPServerSessions, FiniteSetTheorems, TLAPS

-----------------------------------------------------------------------------
\* One session manager.  Two requests are never inside the mutex at once, and
\* one is inside, or a manager has started, only once the flag is set.

OneSetter == \A r, q \in Requests :
  request[r] = "setting" /\ request[q] = "setting" => r = q

FlagFirst == ~flagged => managers = 0 /\ MutexFree

AuthInv ==
  /\ DOMAIN request = Requests /\ managers \in {0, 1} /\ flagged \in BOOLEAN
  /\ OneSetter /\ FlagFirst
  /\ managers = 1 => MutexFree

LEMMA AuthInit == Init => AuthInv
BY DEF Init, AuthInv, OneSetter, FlagFirst, MutexFree

\* All other steps leave the authentication alone.
LEMMA AuthSame ==
  ASSUME AuthInv, UNCHANGED authVars
  PROVE  AuthInv'
BY DEF AuthInv, OneSetter, FlagFirst, MutexFree, authVars

LEMMA AuthStepKeeps ==
  ASSUME AuthInv, NEW r \in Requests, AuthStep(r)
  PROVE  AuthInv'
<1>1. CASE Authenticate(r)
  <2>1. CASE flagged
    BY <1>1, <2>1 DEF Authenticate, AuthInv, OneSetter, FlagFirst, MutexFree
  <2>2. CASE ~flagged
    BY <1>1, <2>2 DEF Authenticate, AuthInv, OneSetter, FlagFirst, MutexFree
  <2> QED
    BY <2>1, <2>2
<1>2. CASE AuthenticateFails(r)
  BY <1>2 DEF AuthenticateFails, AuthInv, OneSetter, FlagFirst, MutexFree
<1>3. CASE Identify(r)
  <2>1. managers = 0 /\ flagged
    BY <1>3 DEF Identify, AuthInv, FlagFirst, MutexFree
  <2> QED
    BY <1>3, <2>1 DEF Identify, AuthInv, OneSetter, FlagFirst, MutexFree
<1> QED
  BY <1>1, <1>2, <1>3 DEF AuthStep

LEMMA StreamKeepsAuth ==
  ASSUME NEW s \in Streams, StreamStep(s)
  PROVE  UNCHANGED authVars
BY DEF StreamStep, Hijack, DialFails, DialSucceeds, Collect, Finish,
       ReadChunk, ReadEnds, LogChunk, WriteEnds, WriteChunk, WriteFails

LEMMA AuthNext == AuthInv /\ [Next]_vars => AuthInv'
<1> SUFFICES ASSUME AuthInv, [Next]_vars PROVE AuthInv'
  OBVIOUS
<1>1. CASE \E r \in Requests : AuthStep(r)
  BY <1>1, AuthStepKeeps
<1>2. CASE \E s \in Streams : StreamStep(s)
  BY <1>2, StreamKeepsAuth, AuthSame
<1>3. CASE Datagram \/ ManagerEnds \/ ClientLeaves \/ Kick
  BY <1>3, AuthSame DEF Datagram, ManagerEnds, ClientLeaves, Kick
<1>4. CASE UNCHANGED vars
  BY <1>4, AuthSame DEF vars, authVars
<1> QED
  BY <1>1, <1>2, <1>3, <1>4 DEF Next

\* Concurrent authentication requests never start a second session manager.
THEOREM SingleManager == Spec => []OneManager
<1>1. AuthInv => OneManager
  BY DEF AuthInv, OneManager
<1> QED
  BY <1>1, AuthInit, AuthNext, PTL DEF Spec

-----------------------------------------------------------------------------
\* The quota.  What has been passed on and what a relay is about to pass on
\* was charged, and was within the quota when it was, but for what nameless
\* streams carry.

InFlight == {r \in Relays : relay[r] = "writing" /\ r[1] \in named}

FlightInv ==
  /\ DOMAIN relay = Relays
  /\ used \in Nat /\ passed \in Nat /\ nameless \in Nat
  /\ passed + Cardinality(InFlight) <= used + nameless
  /\ Quota > 0 => passed + Cardinality(InFlight) <= Quota + nameless

LEMMA FlightFinite ==
  /\ IsFiniteSet(InFlight) /\ Cardinality(InFlight) \in Nat
  /\ IsFiniteSet(InFlight') /\ Cardinality(InFlight') \in Nat
<1>1. IsFiniteSet(Dirs)
  <2>1. IsFiniteSet({} \cup {"up"})
    BY FS_EmptySet, FS_AddElement
  <2>2. IsFiniteSet(({} \cup {"up"}) \cup {"down"})
    BY <2>1, FS_AddElement
  <2>3. Dirs = ({} \cup {"up"}) \cup {"down"}
    BY DEF Dirs
  <2> QED
    BY <2>2, <2>3
<1>2. IsFiniteSet(Relays)
  BY <1>1, StreamsAssumption, FS_Product DEF Relays
<1>3. InFlight \subseteq Relays /\ InFlight' \subseteq Relays
  BY DEF InFlight
<1> QED
  BY <1>2, <1>3, FS_Subset, FS_CardinalityType

LEMMA FlightInit == Init => FlightInv
<1> SUFFICES ASSUME Init PROVE FlightInv
  OBVIOUS
<1>1. InFlight = {}
  BY DEF Init, InFlight
<1>2. Cardinality(InFlight) = 0 /\ Quota \in Nat
  BY <1>1, FS_EmptySet, BoundsAssumption
<1> QED
  BY <1>2 DEF Init, FlightInv

\* Nothing more is in flight, and the counters stand still.
LEMMA FlightSame ==
  ASSUME FlightInv, DOMAIN relay' = Relays, InFlight' \subseteq InFlight,
         used' = used, passed' = passed, nameless' = nameless
  PROVE  FlightInv'
<1>1. Cardinality(InFlight') <= Cardinality(InFlight)
  BY FlightFinite, FS_Subset
<1> QED
  BY <1>1, FlightFinite, BoundsAssumption DEF FlightInv

\* A step of the relay <<s, d>> that does not set it writing.
LEMMA RelayStops ==
  ASSUME FlightInv, NEW r, NEW x, x # "writing", relay' = [relay EXCEPT ![r] = x],
         named' = named, used' = used, passed' = passed, nameless' = nameless
  PROVE  FlightInv'
BY FlightSame DEF FlightInv, InFlight

LEMMA DialKeeps ==
  ASSUME FlightInv, NEW s \in Streams, DialSucceeds(s)
  PROVE  FlightInv'
<1>1. InFlight' \subseteq InFlight
  BY DEF DialSucceeds, InFlight
<1> QED
  BY <1>1, FlightSame DEF DialSucceeds, logVars

\* Charging: the counter only grows.
LEMMA ChargeGrows ==
  ASSUME FlightInv, NEW n, Charge(n)
  PROVE  used' \in Nat /\ used' >= used
BY DEF FlightInv, Charge

\* What is admitted under the identity is within its quota, if it has one.
LEMMA AdmittedWithin ==
  ASSUME NEW n, n, Admitted(n)
  PROVE  Quota > 0 => used + 1 <= Quota
<1>1. Quota = 0 \/ used + 1 <= Quota
  BY DEF Admitted, WithinQuota
<1>2. Quota = 0 => ~(Quota > 0)
  OBVIOUS
<1> QED
  BY <1>1, <1>2

LEMMA LogKeeps ==
  ASSUME FlightInv, NEW s \in Streams, NEW d \in Dirs, LogChunk(s, d)
  PROVE  FlightInv'
<1> DEFINE r == <<s, d>>
           n == s \in named
<1>1. /\ relay[r] = "logging" /\ Charge(n) /\ named' = named
      /\ passed' = passed /\ nameless' = nameless
      /\ r \in Relays /\ r[1] = s
  BY DEF LogChunk, Relays
<1>2. used' \in Nat /\ used' >= used /\ passed' \in Nat
  BY <1>1, ChargeGrows DEF FlightInv
<1>3. CASE n /\ Admitted(n)
  <2>1. relay' = [relay EXCEPT ![r] = "writing"]
    BY <1>3 DEF LogChunk
  <2>2. InFlight' = InFlight \cup {r} /\ r \notin InFlight
    <3>1. \A q \in Relays : relay'[q] = IF q = r THEN "writing" ELSE relay[q]
      BY <2>1 DEF FlightInv
    <3>2. r[1] \in named'
      BY <1>1, <1>3
    <3> HIDE DEF r
    <3> QED
      BY <1>1, <3>1, <3>2 DEF InFlight
  <2>3. Cardinality(InFlight') = Cardinality(InFlight) + 1
    BY <2>2, FlightFinite, FS_AddElement
  <2>4. used' = used + 1
    BY <1>1, <1>3 DEF Charge
  <2>5. Quota > 0 => used + 1 <= Quota
    BY <1>3, AdmittedWithin
  <2> QED
    BY <1>1, <1>2, <2>1, <2>3, <2>4, <2>5, FlightFinite, BoundsAssumption DEF FlightInv
<1>4. CASE ~(n /\ Admitted(n))
  <2>1. DOMAIN relay' = Relays /\ InFlight' \subseteq InFlight
    <3>1. CASE Admitted(n)
      BY <1>1, <1>4, <3>1 DEF LogChunk, InFlight, FlightInv
    <3>2. CASE ~Admitted(n)
      BY <1>1, <3>2 DEF LogChunk, Report, InFlight, FlightInv
    <3> QED
      BY <3>1, <3>2
  <2>2. Cardinality(InFlight') <= Cardinality(InFlight)
    BY <2>1, FlightFinite, FS_Subset
  <2> QED
    BY <1>1, <1>2, <2>1, <2>2, FlightFinite, BoundsAssumption DEF FlightInv
<1> QED
  BY <1>3, <1>4

LEMMA WriteKeeps ==
  ASSUME FlightInv, NEW s \in Streams, NEW d \in Dirs, WriteChunk(s, d)
  PROVE  FlightInv'
<1> DEFINE r == <<s, d>>
<1>1. /\ relay[r] = "writing" /\ relay' = [relay EXCEPT ![r] = "reading"]
      /\ used' = used /\ named' = named /\ r \in Relays /\ r[1] = s
      /\ passed' = passed + 1
      /\ nameless' = IF s \in named THEN nameless ELSE nameless + 1
  BY DEF WriteChunk, Relays
<1>2. CASE s \in named
  <2>1. r \in InFlight /\ InFlight' = InFlight \ {r}
    BY <1>1, <1>2 DEF InFlight, FlightInv
  <2>2. Cardinality(InFlight') = Cardinality(InFlight) - 1
    BY <2>1, FlightFinite, FS_RemoveElement
  <2> QED
    BY <1>1, <1>2, <2>2, FlightFinite, BoundsAssumption DEF FlightInv
<1>3. CASE s \notin named
  <2>1. InFlight' = InFlight
    BY <1>1, <1>3 DEF InFlight, FlightInv
  <2> QED
    BY <1>1, <1>3, <2>1, FlightFinite, BoundsAssumption DEF FlightInv
<1> QED
  BY <1>2, <1>3

LEMMA DatagramKeeps ==
  ASSUME FlightInv, Datagram
  PROVE  FlightInv'
<1>1. InFlight' = InFlight /\ relay' = relay /\ Charge(TRUE) /\ nameless' = nameless
  BY DEF Datagram, streamVars, InFlight
<1>2. used' = used + 1
  BY <1>1 DEF Charge
<1>3. CASE Admitted(TRUE)
  <2>1. passed' = passed + 1
    BY <1>3 DEF Datagram
  <2>2. Quota > 0 => used + 1 <= Quota
    BY <1>3, AdmittedWithin
  <2> QED
    BY <1>1, <1>2, <2>1, <2>2, FlightFinite, BoundsAssumption DEF FlightInv
<1>4. CASE ~Admitted(TRUE)
  <2>1. passed' = passed
    BY <1>4 DEF Datagram
  <2> QED
    BY <1>1, <1>2, <2>1, FlightFinite, BoundsAssumption DEF FlightInv
<1> QED
  BY <1>3, <1>4

LEMMA StreamKeepsFlight ==
  ASSUME FlightInv, NEW s \in Streams, StreamStep(s)
  PROVE  FlightInv'
<1>1. CASE Hijack(s) \/ DialFails(s) \/ Collect(s) \/ Finish(s)
  <2>1. UNCHANGED <<relay, named, used, passed, nameless>>
    BY <1>1 DEF Hijack, DialFails, Collect, Finish, logVars
  <2> QED
    BY <2>1, FlightSame DEF InFlight, FlightInv
<1>2. CASE DialSucceeds(s)
  BY <1>2, DialKeeps
<1>3. ASSUME NEW d \in Dirs, ReadChunk(s, d) \/ ReadEnds(s, d) \/ WriteFails(s, d)
      PROVE  FlightInv'
  <2>1. \E x \in {"logging", "ended"} : relay' = [relay EXCEPT ![<<s, d>>] = x]
    BY <1>3 DEF ReadChunk, ReadEnds, WriteFails, Report
  <2>2. named' = named /\ used' = used /\ passed' = passed /\ nameless' = nameless
    BY <1>3 DEF ReadChunk, ReadEnds, WriteFails, logVars
  <2> QED
    BY <2>1, <2>2, RelayStops
<1>4. ASSUME NEW d \in Dirs, LogChunk(s, d) PROVE FlightInv'
  BY <1>4, LogKeeps
<1>5. ASSUME NEW d \in Dirs, WriteChunk(s, d) PROVE FlightInv'
  BY <1>5, WriteKeeps
<1> QED
  BY <1>1, <1>2, <1>3, <1>4, <1>5 DEF StreamStep, WriteEnds

LEMMA FlightNext == FlightInv /\ [Next]_vars => FlightInv'
<1> SUFFICES ASSUME FlightInv, [Next]_vars PROVE FlightInv'
  OBVIOUS
<1>1. CASE \E s \in Streams : StreamStep(s)
  BY <1>1, StreamKeepsFlight
<1>2. CASE Datagram
  BY <1>2, DatagramKeeps
<1>3. CASE \/ \E r \in Requests : AuthStep(r)
           \/ ManagerEnds \/ ClientLeaves \/ Kick \/ UNCHANGED vars
  <2>1. UNCHANGED <<relay, named, used, passed, nameless>>
    BY <1>3 DEF AuthStep, Authenticate, AuthenticateFails, Identify, ManagerEnds,
                ClientLeaves, Kick, streamVars, logVars, vars
  <2> QED
    BY <2>1, FlightSame DEF InFlight, FlightInv
<1> QED
  BY <1>1, <1>2, <1>3 DEF Next

-----------------------------------------------------------------------------
\* Handlers and relays.  A stream whose handler has not dialed has no relays and
\* no reports, and a handler that waits has taken no report: so a relay reports
\* once, and there is room for it.

Ended(s) == {d \in Dirs : relay[<<s, d>>] = "ended"}
Taken(s) == IF verdict[s] = "none" THEN 0 ELSE 1
Reports == {e \in Seq(Results) : Len(e) <= 2}
NotStarted == \A s \in Streams :
  /\ handler[s] \in {"none", "dialing"} =>
       errChan[s] = <<>> /\ verdict[s] = "none" /\ \A d \in Dirs : relay[<<s, d>>] = "off"
  /\ handler[s] = "waiting" => verdict[s] = "none"
Counted == \A s \in Streams : Cardinality(Ended(s)) = Len(errChan[s]) + Taken(s)
StreamTypes ==
  /\ handler \in [Streams -> {"none", "dialing", "waiting", "closing", "done"}]
  /\ relay \in [Relays -> {"off", "reading", "logging", "writing", "ended"}]
  /\ errChan \in [Streams -> Reports]
  /\ verdict \in [Streams -> Results \cup {"none"}]
  /\ named \subseteq Streams
  /\ ends = {s \in Streams : handler[s] = "waiting"}
OtherTypes ==
  /\ {open, flagged, known, kicked} \subseteq BOOLEAN
  /\ request \in [Requests -> {"sent", "setting", "done"}]
  /\ {used, offered, passed, nameless, kicks, managers} \subseteq Nat
  /\ udp \in {"none", "running", "ended"}
RelayInv == StreamTypes /\ OtherTypes /\ NotStarted /\ Counted

LEMMA ReportsType ==
  Reports \subseteq {<<>>} \cup {<<x>> : x \in Results} \cup (Results \X Results)
<1> SUFFICES ASSUME NEW e \in Seq(Results), Len(e) <= 2
             PROVE  e \in {<<>>} \cup {<<x>> : x \in Results} \cup (Results \X Results)
  BY DEF Reports
<1>1. CASE Len(e) = 0
  BY <1>1
<1>2. CASE Len(e) = 1
  <2>1. e = <<e[1]>> /\ e[1] \in Results
    BY <1>2
  <2> QED
    BY <2>1
<1>3. CASE Len(e) = 2
  <2>1. e \in [1..2 -> Results]
    BY <1>3
  <2>2. e[1] \in Results /\ e[2] \in Results
    BY <2>1
  <2>3. e = <<e[1], e[2]>>
    BY <2>1
  <2> QED
    BY <2>2, <2>3
<1>4. Len(e) = 0 \/ Len(e) = 1 \/ Len(e) = 2
  <2>1. Len(e) \in Nat
    OBVIOUS
  <2>2. \A n \in Nat : n <= 2 => n = 0 \/ n = 1 \/ n = 2
    OBVIOUS
  <2> QED
    BY <2>1, <2>2
<1> QED
  BY <1>1, <1>2, <1>3, <1>4

LEMMA RelayInvType == RelayInv => TypeOK
<1> SUFFICES ASSUME RelayInv PROVE TypeOK
  OBVIOUS
<1>1. errChan \in [Streams -> {<<>>} \cup {<<x>> : x \in Results} \cup (Results \X Results)]
  BY ReportsType DEF RelayInv, StreamTypes
<1> QED
  BY <1>1 DEF RelayInv, StreamTypes, OtherTypes, Counted, Ended, Taken, TypeOK

LEMMA Appending ==
  ASSUME NEW e \in Reports, Len(e) < 2, NEW r \in Results
  PROVE  Append(e, r) \in Reports /\ Len(Append(e, r)) = Len(e) + 1 /\ Len(e) \in Nat
BY DEF Reports

LEMMA Taking ==
  ASSUME NEW e \in Reports, e # <<>>
  PROVE  /\ Head(e) \in Results /\ Tail(e) \in Reports
         /\ Len(e) = Len(Tail(e)) + 1 /\ Len(Tail(e)) \in Nat
BY DEF Reports

LEMMA DirsFinite == IsFiniteSet(Dirs)
<1>1. IsFiniteSet({} \cup {"up"})
  BY FS_EmptySet, FS_AddElement
<1>2. IsFiniteSet(({} \cup {"up"}) \cup {"down"})
  BY <1>1, FS_AddElement
<1>3. Dirs = ({} \cup {"up"}) \cup {"down"}
  BY DEF Dirs
<1> QED
  BY <1>2, <1>3

LEMMA RelayInit == Init => RelayInv
<1> SUFFICES ASSUME Init PROVE RelayInv
  OBVIOUS
<1>1. StreamTypes /\ NotStarted
  BY DEF Init, StreamTypes, NotStarted, Reports, Relays
<1>4. OtherTypes
  <2>1. {open, flagged, known, kicked} \subseteq BOOLEAN
    BY DEF Init
  <2>2. {used, offered, passed, nameless, kicks, managers} \subseteq Nat
    BY DEF Init
  <2> QED
    BY <2>1, <2>2 DEF Init, OtherTypes
<1>2. \A s \in Streams : Ended(s) = {}
  BY DEF Init, Ended, Relays
<1>3. Cardinality({}) = 0
  BY FS_EmptySet
<1>5. Counted
  <2>1. \A s \in Streams : errChan[s] = <<>> /\ Taken(s) = 0
    BY DEF Init, Taken
  <2> QED
    <3> SUFFICES ASSUME NEW s \in Streams
                 PROVE  Cardinality(Ended(s)) = Len(errChan[s]) + Taken(s)
      BY DEF Counted
    <3>1. Len(errChan[s]) = 0 /\ Taken(s) = 0
      BY <2>1
    <3>2. Cardinality(Ended(s)) = 0
      BY <1>2, <1>3
    <3> QED
      BY <3>1, <3>2
<1> QED
  BY <1>1, <1>4, <1>5 DEF RelayInv

\* A handler that gets on without a report, and relays that neither start nor end.
LEMMA SameReports ==
  ASSUME RelayInv, StreamTypes', UNCHANGED <<errChan, verdict>>,
         \A r \in Relays : \/ relay'[r] = relay[r]
                           \/ relay[r] \notin {"off", "ended"} /\ relay'[r] # "ended",
         \A s \in Streams : \/ handler'[s] = handler[s]
                            \/ handler[s] = "none" /\ handler'[s] = "dialing"
                            \/ handler'[s] = "done"
  PROVE  (NotStarted /\ Counted)'
<1>1. \A s \in Streams : Ended(s)' = Ended(s)
  BY DEF Ended, Relays
<1>2. Counted'
  BY <1>1 DEF RelayInv, Counted, Taken
<1>3. NotStarted'
  BY DEF RelayInv, NotStarted, Relays
<1> QED
  BY <1>2, <1>3

\* A relay that ends reports for the first time, and its handler has started.
LEMMA ReportKeeps ==
  ASSUME RelayInv, NEW s \in Streams, NEW d \in Dirs, NEW x \in Results,
         relay[<<s, d>>] \notin {"off", "ended"}, Report(s, d, x),
         UNCHANGED <<handler, verdict, named, ends>>
  PROVE  (StreamTypes /\ NotStarted /\ Counted)'
<1> DEFINE r == <<s, d>>
<1>1. r \in Relays
  BY DEF Relays
<1>2. /\ relay' = [relay EXCEPT ![r] = "ended"]
      /\ errChan' = [errChan EXCEPT ![s] = Append(@, x)]
      /\ errChan[s] \in Reports /\ Len(errChan[s]) < 2
  BY DEF Report, CanReport, RelayInv, StreamTypes
<1>3. /\ Append(errChan[s], x) \in Reports
      /\ Len(Append(errChan[s], x)) = Len(errChan[s]) + 1 /\ Len(errChan[s]) \in Nat
  BY <1>2, Appending
<1>4. StreamTypes'
  BY <1>1, <1>2, <1>3 DEF RelayInv, StreamTypes
<1>5. NotStarted'
  BY <1>1, <1>2 DEF RelayInv, StreamTypes, NotStarted, Relays
<1>6. \A t \in Streams : t # s => Ended(t)' = Ended(t) /\ errChan'[t] = errChan[t]
  BY <1>1, <1>2 DEF Ended, Relays, RelayInv, StreamTypes
<1>7. Cardinality(Ended(s)') = Cardinality(Ended(s)) + 1
  <2>1. Ended(s)' = Ended(s) \cup {d} /\ d \notin Ended(s)
    BY <1>1, <1>2 DEF Ended, Relays, RelayInv, StreamTypes
  <2>2. IsFiniteSet(Ended(s))
    BY DirsFinite, FS_Subset DEF Ended
  <2> QED
    BY <2>1, <2>2, FS_AddElement
<1>8. Counted'
  <2> SUFFICES ASSUME NEW t \in Streams
               PROVE  Cardinality(Ended(t)') = Len(errChan'[t]) + Taken(t)'
    BY DEF Counted
  <2>1. CASE t # s
    BY <2>1, <1>6 DEF RelayInv, Counted, Taken
  <2>2. CASE t = s
    <3>1. Len(errChan'[s]) = Len(errChan[s]) + 1
      BY <1>2, <1>3 DEF RelayInv, StreamTypes
    <3>2. Taken(s)' = Taken(s) /\ Taken(s) \in Nat
      BY DEF Taken
    <3> QED
      BY <2>2, <3>1, <3>2, <1>3, <1>7 DEF RelayInv, Counted
  <2> QED
    BY <2>1, <2>2
<1> QED
  BY <1>4, <1>5, <1>8

LEMMA DialStarts ==
  ASSUME RelayInv, NEW s \in Streams, DialSucceeds(s)
  PROVE  (StreamTypes /\ NotStarted /\ Counted)'
<1>1. /\ handler[s] = "dialing" /\ handler' = [handler EXCEPT ![s] = "waiting"]
      /\ relay' = [r \in Relays |-> IF r[1] = s THEN "reading" ELSE relay[r]]
      /\ ends' = ends \cup {s} /\ UNCHANGED <<errChan, verdict>>
      /\ named' \subseteq named \cup {s}
  BY DEF DialSucceeds
<1>2. StreamTypes'
  BY <1>1 DEF RelayInv, StreamTypes
<1>3. NotStarted'
  BY <1>1 DEF RelayInv, StreamTypes, NotStarted, Relays
<1>4. \A t \in Streams : Ended(t)' = Ended(t)
  BY <1>1 DEF Ended, Relays, RelayInv, StreamTypes, NotStarted
<1> QED
  BY <1>1, <1>2, <1>3, <1>4 DEF RelayInv, Counted, Taken

LEMMA CollectKeeps ==
  ASSUME RelayInv, NEW s \in Streams, Collect(s)
  PROVE  (StreamTypes /\ NotStarted /\ Counted)'
<1>1. /\ handler[s] = "waiting" /\ errChan[s] # <<>>
      /\ handler' = [handler EXCEPT ![s] = "closing"]
      /\ verdict' = [verdict EXCEPT ![s] = Head(errChan[s])]
      /\ errChan' = [errChan EXCEPT ![s] = Tail(errChan[s])]
      /\ ends' = ends \ {s} /\ UNCHANGED <<relay, named>>
  BY DEF Collect
<1>2. errChan[s] \in Reports /\ verdict[s] = "none"
  BY <1>1 DEF RelayInv, StreamTypes, NotStarted
<1>3. /\ Head(errChan[s]) \in Results /\ Tail(errChan[s]) \in Reports
      /\ Len(errChan[s]) = Len(Tail(errChan[s])) + 1 /\ Len(Tail(errChan[s])) \in Nat
  BY <1>1, <1>2, Taking
<1>4. StreamTypes'
  BY <1>1, <1>3 DEF RelayInv, StreamTypes
<1>5. NotStarted'
  BY <1>1 DEF RelayInv, StreamTypes, NotStarted
<1>6. \A t \in Streams : Ended(t)' = Ended(t)
  BY <1>1 DEF Ended
<1>7. Counted'
  <2> SUFFICES ASSUME NEW t \in Streams
               PROVE  Cardinality(Ended(t)') = Len(errChan'[t]) + Taken(t)'
    BY DEF Counted
  <2>1. CASE t # s
    BY <2>1, <1>1, <1>6 DEF RelayInv, StreamTypes, Counted, Taken
  <2>2. CASE t = s
    <3>1. Taken(s) = 0 /\ Taken(s)' = 1
      BY <1>1, <1>2, <1>3 DEF Taken, RelayInv, StreamTypes, Results
    <3>2. errChan'[s] = Tail(errChan[s])
      BY <1>1 DEF RelayInv, StreamTypes
    <3> QED
      BY <2>2, <3>1, <3>2, <1>3, <1>6 DEF RelayInv, Counted
  <2> QED
    BY <2>1, <2>2
<1> QED
  BY <1>4, <1>5, <1>7

LEMMA StreamKeepsRelays ==
  ASSUME RelayInv, NEW s \in Streams, StreamStep(s)
  PROVE  (StreamTypes /\ NotStarted /\ Counted)'
<1>1. CASE Hijack(s) \/ DialFails(s) \/ Finish(s)
  <2>1. /\ handler[s] # "waiting"
        /\ UNCHANGED <<named, ends, relay, errChan, verdict>>
        /\ \/ handler[s] = "none" /\ handler' = [handler EXCEPT ![s] = "dialing"]
           \/ handler' = [handler EXCEPT ![s] = "done"]
    BY <1>1 DEF Hijack, DialFails, Finish
  <2>2. StreamTypes'
    BY <2>1 DEF RelayInv, StreamTypes
  <2> QED
    BY <2>1, <2>2, SameReports DEF RelayInv, StreamTypes
<1>2. CASE DialSucceeds(s)
  BY <1>2, DialStarts
<1>3. CASE Collect(s)
  BY <1>3, CollectKeeps
<1>4. ASSUME NEW d \in Dirs, ReadChunk(s, d) \/ WriteChunk(s, d)
             \/ (LogChunk(s, d) /\ Admitted(s \in named))
      PROVE  (StreamTypes /\ NotStarted /\ Counted)'
  <2>1. /\ relay[<<s, d>>] \notin {"off", "ended"}
        /\ UNCHANGED <<handler, named, ends, errChan, verdict>>
        /\ \E a \in {"reading", "logging", "writing"} : relay' = [relay EXCEPT ![<<s, d>>] = a]
    BY <1>4 DEF ReadChunk, WriteChunk, LogChunk
  <2>2. StreamTypes'
    BY <2>1 DEF RelayInv, StreamTypes
  <2> QED
    BY <2>1, <2>2, SameReports DEF RelayInv, StreamTypes
<1>5. ASSUME NEW d \in Dirs, ReadEnds(s, d) \/ WriteFails(s, d)
             \/ (LogChunk(s, d) /\ ~Admitted(s \in named))
      PROVE  (StreamTypes /\ NotStarted /\ Counted)'
  <2>1. /\ relay[<<s, d>>] \notin {"off", "ended"}
        /\ UNCHANGED <<handler, verdict, named, ends>>
        /\ \E x \in Results : Report(s, d, x)
    BY <1>5 DEF ReadEnds, WriteFails, LogChunk, Results
  <2> QED
    BY <2>1, ReportKeeps
<1> QED
  BY <1>1, <1>2, <1>3, <1>4, <1>5 DEF StreamStep, WriteEnds

LEMMA NextKeepsOthers == OtherTypes /\ [Next]_vars => OtherTypes'
<1> SUFFICES ASSUME OtherTypes, [Next]_vars PROVE OtherTypes'
  OBVIOUS
<1> USE DEF OtherTypes
<1>1. ASSUME NEW r \in Requests, AuthStep(r) PROVE OtherTypes'
  <2>1. CASE Authenticate(r) \/ AuthenticateFails(r)
    BY <2>1 DEF Authenticate, AuthenticateFails, logVars
  <2>2. CASE Identify(r)
    BY <2>2 DEF Identify, logVars
  <2> QED
    BY <1>1, <2>1, <2>2 DEF AuthStep
<1>2. ASSUME NEW s \in Streams, Hijack(s) \/ DialFails(s) \/ DialSucceeds(s) \/ Collect(s)
      PROVE  OtherTypes'
  BY <1>2 DEF Hijack, DialFails, DialSucceeds, Collect, authVars, logVars
<1>3. ASSUME NEW s \in Streams, Finish(s) PROVE OtherTypes'
  BY <1>3 DEF Finish, authVars, logVars
<1>4. ASSUME NEW s \in Streams, NEW d \in Dirs, ReadChunk(s, d) \/ ReadEnds(s, d) \/ WriteEnds(s, d)
      PROVE  OtherTypes'
  BY <1>4 DEF ReadChunk, ReadEnds, WriteEnds, WriteChunk, WriteFails, Offer, authVars, logVars
<1>5. ASSUME NEW s \in Streams, NEW d \in Dirs, LogChunk(s, d) PROVE OtherTypes'
  BY <1>5 DEF LogChunk, Charge, authVars
<1>6. CASE Datagram
  <2>1. UNCHANGED <<request, flagged, known, managers, udp, nameless, kicks>>
    BY <1>6 DEF Datagram, authVars
  <2>2. {used', offered', passed'} \subseteq Nat
    <3>1. used' \in Nat
      BY <1>6 DEF Datagram, Charge
    <3>2. offered' \in Nat
      BY <1>6 DEF Datagram, Offer
    <3>3. passed' \in Nat
      <4>1. passed' = passed + 1 \/ passed' = passed
        BY <1>6 DEF Datagram, Admitted
      <4> QED
        BY <4>1
    <3> QED
      BY <3>1, <3>2, <3>3
  <2>3. open' \in BOOLEAN /\ kicked' \in BOOLEAN
    BY <1>6 DEF Datagram, Charge
  <2> QED
    BY <2>1, <2>2, <2>3
<1>7. CASE ManagerEnds \/ ClientLeaves
  BY <1>7 DEF ManagerEnds, ClientLeaves, authVars, logVars
<1>9. CASE Kick
  BY <1>9 DEF Kick, authVars
<1>8. CASE UNCHANGED vars
  BY <1>8 DEF vars
<1> QED
  BY <1>1, <1>2, <1>3, <1>4, <1>5, <1>6, <1>7, <1>8, <1>9 DEF Next, StreamStep

LEMMA RelayNext == RelayInv /\ [Next]_vars => RelayInv'
<1> SUFFICES ASSUME RelayInv, [Next]_vars PROVE (StreamTypes /\ NotStarted /\ Counted)'
  BY NextKeepsOthers DEF RelayInv
<1>1. CASE \E s \in Streams : StreamStep(s)
  BY <1>1, StreamKeepsRelays
<1>2. CASE UNCHANGED streamVars
  <2>1. StreamTypes'
    BY <1>2 DEF RelayInv, StreamTypes, streamVars
  <2> QED
    BY <1>2, <2>1, SameReports DEF streamVars
<1>3. CASE (\E r \in Requests : AuthStep(r)) \/ Datagram \/ ManagerEnds \/ ClientLeaves \/ Kick
  BY <1>2, <1>3 DEF AuthStep, Authenticate, AuthenticateFails, Identify, Datagram,
                    ManagerEnds, ClientLeaves, Kick
<1>4. CASE UNCHANGED vars
  BY <1>2, <1>4 DEF vars, streamVars
<1> QED
  BY <1>1, <1>3, <1>4 DEF Next

\* A stream whose relays run stays one: no handler dials twice, so none is given
\* the identity later.
LEMMA NamelessNext ==
  ASSUME RelayInv, Nameless = {} => nameless = 0, [Next]_vars
  PROVE  (Nameless = {} => nameless = 0)'
<1> USE DEF Nameless
<1>1. CASE UNCHANGED <<named, relay, nameless>>
  BY <1>1
<1>2. ASSUME NEW s \in Streams, DialSucceeds(s)
      PROVE  (Nameless = {} => nameless = 0)'
  <2>1. Nameless \subseteq Nameless' /\ nameless' = nameless
    <3>1. \A t \in Streams \ named, d \in Dirs :
            relay[<<t, d>>] # "off" => t \notin named' /\ relay'[<<t, d>>] # "off"
      BY <1>2 DEF DialSucceeds, RelayInv, NotStarted, Relays
    <3> QED
      BY <1>2, <3>1 DEF DialSucceeds, logVars
  <2> QED
    BY <2>1
<1>3. ASSUME NEW s \in Streams, NEW d \in Dirs,
             \/ ReadChunk(s, d) \/ ReadEnds(s, d) \/ LogChunk(s, d)
             \/ WriteFails(s, d) \/ WriteChunk(s, d)
      PROVE  (Nameless = {} => nameless = 0)'
  <2>1. /\ named' = named
        /\ relay[<<s, d>>] # "off" /\ <<s, d>> \in Relays
        /\ \E x \in {"reading", "logging", "writing", "ended"} :
             relay' = [relay EXCEPT ![<<s, d>>] = x]
    BY <1>3 DEF ReadChunk, ReadEnds, LogChunk, WriteFails, WriteChunk, Report, Relays
  <2>4. relay'[<<s, d>>] # "off" /\ \A q \in Relays : relay[q] # "off" => relay'[q] # "off"
    BY <2>1 DEF RelayInv, StreamTypes
  <2>2. Nameless \subseteq Nameless'
    BY <2>1, <2>4 DEF Relays
  <2>3. nameless' = nameless \/ s \in Nameless'
    <3>1. CASE WriteChunk(s, d)
      BY <3>1, <2>1, <2>4 DEF WriteChunk
    <3>2. CASE ~WriteChunk(s, d)
      BY <3>2, <1>3 DEF ReadChunk, ReadEnds, LogChunk, WriteFails, logVars
    <3> QED
      BY <3>1, <3>2
  <2> QED
    BY <2>2, <2>3
<1>4. ASSUME NEW s \in Streams, Hijack(s) \/ DialFails(s) \/ Collect(s) \/ Finish(s)
      PROVE  (Nameless = {} => nameless = 0)'
  BY <1>1, <1>4 DEF Hijack, DialFails, Collect, Finish, logVars
<1>5. CASE \/ \E r \in Requests : AuthStep(r)
           \/ Datagram \/ ManagerEnds \/ ClientLeaves \/ Kick \/ UNCHANGED vars
  BY <1>1, <1>5 DEF AuthStep, Authenticate, AuthenticateFails, Identify, Datagram,
                    ManagerEnds, ClientLeaves, Kick, streamVars, logVars, vars
<1> QED
  BY <1>2, <1>3, <1>4, <1>5 DEF Next, StreamStep, WriteEnds

\* Of everything that streams and datagrams pass on, a client with a quota gets
\* no more than the quota and what nameless streams carried, and those only where
\* a stream was dialed between the two fields of the authentication.
THEOREM QuotaHolds == Spec => []QuotaBoundsTraffic
<1> DEFINE Uncharged == Nameless = {} => nameless = 0
<1>1. FlightInv /\ Uncharged => QuotaBoundsTraffic
  BY FlightFinite, BoundsAssumption DEF FlightInv, QuotaBoundsTraffic
<1>2. Init => Uncharged
  BY DEF Init
<1>3. RelayInv /\ Uncharged /\ [Next]_vars => Uncharged'
  BY NamelessNext
<1> HIDE DEF Uncharged
<1> QED
  BY <1>1, <1>2, <1>3, FlightInit, FlightNext, RelayInit, RelayNext, PTL DEF Spec

\* Every variable keeps its type, sockets are open exactly while the handler
\* waits, and a relay that ended has reported once, for which there was room.
THEOREM TypeCorrect == Spec => []TypeOK
BY RelayInit, RelayNext, RelayInvType, PTL DEF Spec

-----------------------------------------------------------------------------
\* The session map and the receive loops.

\* A session whose receive loop has not finished its delete owns its ID.
Owns == \A e \in Sessions :
  loop[e] \in {"reading", "exited", "reported"} => m[id[e]] = e \/ BeingCreated(e)

\* Only the main loop inserts, so what its lookup did not find stays absent
\* until its own insert.
StillAbsent == pc \in {"dial", "insert"} => m[sid] = None

\* The session being created is the newest one; later ones do not run.
Newest ==
  /\ pc = "insert" => cur \in Sessions /\ id[cur] = sid
  /\ \A e \in Sessions : e > created => loop[e] = "none" /\ \A i \in Ids : m[i] # e
  /\ pc = "insert" => cur <= created

\* The map files a session under its own ID.
Filed == \A i \in Ids : m[i] # None => id[m[i]] = i

\* The main loop feeds the session its lookup found or it has just inserted.
Fed == pc = "feed" => cur \in Sessions

MapInv == Owns /\ StillAbsent /\ Newest /\ Filed /\ Fed

-----------------------------------------------------------------------------
LEMMA SessionsType == Sessions \subseteq Nat \ {0} /\ None \notin Sessions
  BY MaxSessionsAssumption DEF Sessions, None

\* The part of SessionsTypeOK that the map needs.
MapType ==
  /\ m \in [Ids -> Sessions \cup {None}] /\ created \in 0..MaxSessions
  /\ id \in [Sessions -> Ids]
  /\ loop \in [Sessions -> {"none", "reading", "exited", "reported", "done"}]
  /\ sid \in Ids

LEMMA InitMap == SessionsInit => MapType /\ MapInv
  <1> SUFFICES ASSUME SessionsInit PROVE MapType /\ MapInv
    OBVIOUS
  <1>1. (CHOOSE i \in Ids : TRUE) \in Ids
    BY IdsNonEmpty
  <1> QED
    BY <1>1, SessionsType, MaxSessionsAssumption
       DEF SessionsInit, MapType, MapInv, Owns, StillAbsent, Newest, Filed, Fed

\* The steps that touch neither the map, nor the IDs, nor the main loop, nor
\* start a receive loop.
LEMMA QuietStep ==
  ASSUME MapType, MapInv, UNCHANGED <<m, created, id, pc, sid, cur>>,
         loop' \in [Sessions -> {"none", "reading", "exited", "reported", "done"}],
         \A e \in Sessions : \/ loop'[e] = loop[e]
                             \/ loop[e] = "reading" /\ loop'[e] = "exited"
                             \/ loop[e] = "exited" /\ loop'[e] = "reported"
  PROVE  (MapType /\ MapInv)'
  BY DEF MapType, MapInv, Owns, StillAbsent, Newest, Filed, Fed, BeingCreated

LEMMA StepMap == MapType /\ MapInv /\ [SessionsNext]_sessionVars => (MapType /\ MapInv)'
  <1> SUFFICES ASSUME MapType, MapInv, [SessionsNext]_sessionVars PROVE (MapType /\ MapInv)'
    OBVIOUS
  <1> USE DEF MapInv
  <1>1. CASE UNCHANGED <<m, created, id, loop, pc, sid, cur>>
    BY <1>1 DEF MapType, Owns, StillAbsent, Newest, Filed, Fed, BeingCreated
  <1>2. ASSUME NEW i \in Ids, ReceiveMessage(i) PROVE (MapType /\ MapInv)'
    BY <1>2 DEF ReceiveMessage, entryVars, MapType, Owns, StillAbsent, Newest,
                Filed, Fed, BeingCreated
  <1>3. CASE ReceiveError
    BY <1>3 DEF ReceiveError, entryVars, MapType, Owns, StillAbsent, Newest,
                Filed, Fed, BeingCreated
  <1>4. CASE Lookup
    BY <1>4 DEF Lookup, entryVars, MapType, Owns, StillAbsent, Newest, Filed,
                Fed, BeingCreated
  <1>5. CASE DialError
    BY <1>5 DEF DialError, entryVars, MapType, Owns, StillAbsent, Newest, Filed,
                Fed, BeingCreated
  <1>6. CASE Dial
    <2> DEFINE e == created + 1
    <2>1. e \in Sessions /\ created' = e /\ cur' = e /\ pc' = "insert"
      BY <1>6, MaxSessionsAssumption DEF Dial, MapType, Sessions
    <2>2. id' = [id EXCEPT ![e] = sid] /\ loop' = [loop EXCEPT ![e] = "reading"]
          /\ m' = m /\ sid' = sid /\ m[sid] = None
      BY <1>6 DEF Dial, StillAbsent
    <2>3. \A i \in Ids : m[i] # e
      BY <2>1, MaxSessionsAssumption DEF Newest, MapType, Sessions
    <2>4. MapType'
      BY <2>1, <2>2, MaxSessionsAssumption DEF MapType, Sessions
    <2>5. Owns'
      BY <1>6, <2>1, <2>2, <2>3 DEF Owns, BeingCreated, MapType, Dial
    <2>6. StillAbsent' /\ Filed' /\ Fed'
      BY <2>1, <2>2, <2>3, SessionsType DEF StillAbsent, Filed, Fed, MapType
    <2>7. Newest'
      BY <2>1, <2>2, SessionsType, MaxSessionsAssumption DEF Newest, MapType, Sessions
    <2> QED
      BY <2>4, <2>5, <2>6, <2>7
  <1>7. CASE Insert
    <2>1. cur \in Sessions /\ id[cur] = sid /\ m[sid] = None /\ pc = "insert"
      BY <1>7 DEF Insert, Newest, StillAbsent
    <2>2. m' = [m EXCEPT ![sid] = cur] /\ pc' = "feed"
          /\ UNCHANGED <<sid, cur, created, id, loop>>
      BY <1>7 DEF Insert, entryVars
    <2>3. MapType'
      BY <2>1, <2>2 DEF MapType
    <2>4. Owns'
      BY <2>1, <2>2, SessionsType DEF Owns, BeingCreated, MapType
    <2>5. StillAbsent' /\ Filed' /\ Fed'
      BY <2>1, <2>2 DEF StillAbsent, Filed, Fed, MapType
    <2>6. Newest'
      BY <2>1, <2>2, SessionsType DEF Newest, MapType
    <2> QED
      BY <2>3, <2>4, <2>5, <2>6
  <1>8. CASE Feed
    BY <1>8 DEF Feed, scanVars, MapType, Owns, StillAbsent, Newest, Filed, Fed,
                BeingCreated
  <1>9. ASSUME NEW e \in Sessions, LoopError(e) \/ ReportEnd(e) PROVE (MapType /\ MapInv)'
    <2>1. UNCHANGED <<m, created, id, pc, sid, cur>>
      BY <1>9 DEF LoopError, ReportEnd
    <2>2. \/ loop[e] = "reading" /\ loop' = [loop EXCEPT ![e] = "exited"]
          \/ loop[e] = "exited" /\ loop' = [loop EXCEPT ![e] = "reported"]
      BY <1>9 DEF LoopError, ReportEnd
    <2>3. \A f \in Sessions : \/ loop'[f] = loop[f]
                              \/ loop[f] = "reading" /\ loop'[f] = "exited"
                              \/ loop[f] = "exited" /\ loop'[f] = "reported"
      BY <1>9, <2>2 DEF MapType
    <2>4. loop' \in [Sessions -> {"none", "reading", "exited", "reported", "done"}]
      BY <1>9, <2>2 DEF MapType
    <2> HIDE DEF MapInv
    <2> QED
      BY <2>1, <2>3, <2>4, QuietStep
  <1>10. ASSUME NEW e \in Sessions, Delete(e) PROVE (MapType /\ MapInv)'
    <2>1. m' = [m EXCEPT ![id[e]] = None] /\ loop' = [loop EXCEPT ![e] = "done"]
          /\ UNCHANGED <<created, id, pc, sid, cur>> /\ loop[e] = "reported"
      BY <1>10 DEF Delete
    <2>2. m[id[e]] = e \/ BeingCreated(e)
      BY <2>1 DEF Owns
    <2>3. MapType'
      BY <2>1 DEF MapType
    <2>4. ASSUME NEW f \in Sessions, loop'[f] \in {"reading", "exited", "reported"}
          PROVE  m'[id'[f]] = f \/ BeingCreated(f)'
      <3>1. f # e /\ (m[id[f]] = f \/ BeingCreated(f))
        BY <2>1, <2>4 DEF Owns, MapType
      <3>2. CASE BeingCreated(f)
        BY <3>2, <2>1 DEF BeingCreated
      <3>3. CASE m[id[f]] = f
        <4>1. id[f] # id[e]
          BY <3>1, <3>3, <2>2, SessionsType DEF BeingCreated, Newest, StillAbsent
        <4> QED
          BY <4>1, <3>3, <2>1 DEF MapType
      <3> QED
        BY <3>1, <3>2, <3>3
    <2>5. StillAbsent' /\ Filed' /\ Fed'
      BY <2>1 DEF StillAbsent, Filed, Fed, MapType
    <2>6. Newest'
      BY <2>1, SessionsType DEF Newest, MapType
    <2> QED
      BY <2>3, <2>4, <2>5, <2>6 DEF Owns
  <1>11. ASSUME NEW s \in Scans, ScanEnd(s) PROVE (MapType /\ MapInv)'
    BY <1>11 DEF ScanEnd, Scanning, entryVars, MapType, Owns, StillAbsent,
                 Newest, Filed, Fed, BeingCreated
  <1> QED
    BY <1>1, <1>2, <1>3, <1>4, <1>5, <1>6, <1>7, <1>8, <1>9, <1>10, <1>11
       DEF SessionsNext, MainStep, LoopStep, Read, Age, Tick, CleanerStops, ScanStep,
           Visit, CloseConn, sessionVars, entryVars, scanVars

LEMMA MapInductive == SessionsSpec => [](MapType /\ MapInv)
  BY InitMap, StepMap, PTL DEF SessionsSpec

\* No goroutine and no socket is out of the reach of the two cleanups, although
\* a receive loop deletes whatever its ID holds.
THEOREM Reachable == SessionsSpec => []LiveIsReachable
  <1>1. MapType /\ MapInv => LiveIsReachable
    BY DEF MapInv, Owns, LiveIsReachable
  <1> QED
    BY <1>1, MapInductive, PTL

\* An ID never has two live sessions.
THEOREM OneLive == SessionsSpec => []OneLivePerId
  <1>1. MapType /\ MapInv => OneLivePerId
    BY SessionsType DEF MapType, MapInv, Owns, StillAbsent, Newest, OneLivePerId,
                        BeingCreated
  <1> QED
    BY <1>1, MapInductive, PTL

-----------------------------------------------------------------------------
\* A socket that no loop will close is about to be closed by a scan: a loop
\* leaves it open only after its entry was marked, and a scan that has marked
\* an entry closes it before anything else.  Only entries that exist are marked.
MarkedIsClosed == \A e \in Sessions :
  timeout[e] => e <= created /\ (conn[e] # "open" \/ \E s \in Scans : closing[s] = e)
ScansExisting == \A s \in Scans : \A e \in todo[s] : e <= created
SocketInv == SessionsTypeOK /\ MapInv /\ OpenHasLoop /\ MarkedIsClosed /\ ScansExisting

LEMMA InitType == SessionsInit => SessionsTypeOK
  <1> SUFFICES ASSUME SessionsInit PROVE SessionsTypeOK
    OBVIOUS
  <1>1. (CHOOSE i \in Ids : TRUE) \in Ids
    BY IdsNonEmpty
  <1>2. 0 \in 0..MaxSessions
    BY MaxSessionsAssumption
  <1> QED
    BY <1>1, <1>2 DEF SessionsInit, SessionsTypeOK

LEMMA StepType == SessionsTypeOK /\ [SessionsNext]_sessionVars => SessionsTypeOK'
  <1> SUFFICES ASSUME SessionsTypeOK, [SessionsNext]_sessionVars PROVE SessionsTypeOK'
    OBVIOUS
  <1>1. CASE UNCHANGED sessionVars
    BY <1>1 DEF sessionVars, SessionsTypeOK, Scanning
  <1>2. ASSUME NEW i \in Ids, ReceiveMessage(i) PROVE SessionsTypeOK'
    BY <1>2 DEF ReceiveMessage, entryVars, scanVars, SessionsTypeOK, Scanning
  <1>3. Mapped \subseteq Sessions
    BY DEF Mapped, SessionsTypeOK
  <1>4. CASE ReceiveError
    BY <1>3, <1>4 DEF ReceiveError, entryVars, SessionsTypeOK, Scanning, Scans
  <1>5. CASE Lookup
    BY <1>5 DEF Lookup, entryVars, scanVars, SessionsTypeOK, Scanning
  <1>6. CASE DialError
    BY <1>6 DEF DialError, entryVars, scanVars, SessionsTypeOK, Scanning
  <1>7. CASE Dial
    <2>1. created + 1 \in Sessions /\ created + 1 \in 0..MaxSessions
      BY <1>7, MaxSessionsAssumption DEF Dial, SessionsTypeOK, Sessions
    <2> QED
      BY <1>7, <2>1 DEF Dial, scanVars, SessionsTypeOK, Scanning
  <1>8. CASE Insert
    BY <1>8 DEF Insert, entryVars, scanVars, SessionsTypeOK, Scanning
  <1>9. CASE Feed
    BY <1>9 DEF Feed, scanVars, SessionsTypeOK, Scanning
  <1>10. ASSUME NEW e \in Sessions, Read(e) \/ LoopError(e) \/ ReportEnd(e) \/ Delete(e) \/ Age(e)
         PROVE  SessionsTypeOK'
    BY <1>10 DEF Read, LoopError, ReportEnd, Delete, Age, scanVars, SessionsTypeOK, Scanning
  <1>11. CASE Tick
    BY <1>3, <1>11 DEF Tick, entryVars, SessionsTypeOK, Scanning, Scans
  <1>12. CASE CleanerStops
    BY <1>12 DEF CleanerStops, entryVars, SessionsTypeOK, Scanning
  <1>13. ASSUME NEW s \in Scans, NEW e \in Sessions, Visit(s, e) PROVE SessionsTypeOK'
    <2>1. Scanning(s) /\ todo' = [todo EXCEPT ![s] = @ \ {e}]
      BY <1>13 DEF Visit
    <2>2. \/ /\ timeout' = [timeout EXCEPT ![e] = TRUE]
             /\ closing' = [closing EXCEPT ![s] = e]
          \/ timeout' = timeout /\ closing' = closing
      BY <1>13 DEF Visit
    <2>3. UNCHANGED <<m, created, id, conn, idle, loop, pc, sid, cur, cleaner>>
      BY <1>13 DEF Visit
    <2>4. timeout' \in [Sessions -> BOOLEAN]
      BY <2>2 DEF SessionsTypeOK
    <2>5. closing' \in [Scans -> Sessions \cup {None}]
      BY <2>2 DEF SessionsTypeOK
    <2>6. todo' \in [Scans -> SUBSET Sessions]
      BY <2>1 DEF SessionsTypeOK
    <2>7. ASSUME NEW r \in Scans, ~Scanning(r)' PROVE todo'[r] = {} /\ closing'[r] = None
      <3>1. ~Scanning(r) /\ r # s
        BY <2>1, <2>3, <2>7 DEF Scanning
      <3>2. todo'[r] = todo[r]
        BY <2>1, <3>1 DEF SessionsTypeOK
      <3>3. closing'[r] = closing[r]
        BY <2>2, <3>1 DEF SessionsTypeOK
      <3> QED
        BY <3>1, <3>2, <3>3 DEF SessionsTypeOK
    <2> QED
      BY <2>3, <2>4, <2>5, <2>6, <2>7 DEF SessionsTypeOK
  <1>14. ASSUME NEW s \in Scans, CloseConn(s) PROVE SessionsTypeOK'
    BY <1>14 DEF CloseConn, SessionsTypeOK, Scanning
  <1>15. ASSUME NEW s \in Scans, ScanEnd(s) PROVE SessionsTypeOK'
    BY <1>15 DEF ScanEnd, entryVars, SessionsTypeOK, Scanning, Scans
  <1> QED
    BY <1>1, <1>2, <1>4, <1>5, <1>6, <1>7, <1>8, <1>9, <1>10, <1>11, <1>12, <1>13, <1>14, <1>15
       DEF SessionsNext, MainStep, LoopStep, ScanStep

\* Every variable keeps its type, and a scan that does not hold the lock has
\* nothing left to visit or to close.
THEOREM SessionsTypeCorrect == SessionsSpec => []SessionsTypeOK
  BY InitType, StepType, PTL DEF SessionsSpec

\* The steps that neither mark nor close an entry nor begin a scan or a session.
LEMMA SameSockets ==
  ASSUME SocketInv, UNCHANGED <<created, conn, timeout, todo, closing>>,
         \A e \in Sessions : loop[e] \in {"reading", "exited"} /\ conn[e] = "open"
                               => loop'[e] \in {"reading", "exited"}
  PROVE  (OpenHasLoop /\ MarkedIsClosed /\ ScansExisting)'
  BY DEF SocketInv, OpenHasLoop, MarkedIsClosed, ScansExisting

\* What the map holds exists.
LEMMA MappedExist == SocketInv => \A e \in Mapped : e <= created
  BY SessionsType DEF SocketInv, MapInv, Newest, Mapped, SessionsTypeOK, Sessions

LEMMA StepSockets ==
  SocketInv /\ [SessionsNext]_sessionVars => (OpenHasLoop /\ MarkedIsClosed /\ ScansExisting)'
  <1> DEFINE Good == OpenHasLoop /\ MarkedIsClosed /\ ScansExisting
  <1> SUFFICES ASSUME SocketInv, [SessionsNext]_sessionVars PROVE Good'
    OBVIOUS
  <1> USE DEF SocketInv
  <1>1. ASSUME UNCHANGED <<created, conn, timeout, todo, closing>>, loop' = loop PROVE Good'
    BY <1>1, SameSockets
  <1>2. CASE ReceiveError \/ Tick
    <2>1. UNCHANGED <<created, conn, timeout, loop, closing>>
      BY <1>2 DEF ReceiveError, Tick, entryVars
    <2>2. \A s \in Scans : \A e \in todo'[s] : e \in todo[s] \/ e \in Mapped
      BY <1>2 DEF ReceiveError, Tick, SessionsTypeOK
    <2> QED
      BY <2>1, <2>2, MappedExist DEF OpenHasLoop, MarkedIsClosed, ScansExisting
  <1>3. CASE Dial
    <2> DEFINE e == created + 1
    <2>1. e \in Sessions /\ created' = e /\ UNCHANGED <<timeout, todo, closing>>
          /\ created \in Nat
      BY <1>3, MaxSessionsAssumption DEF Dial, scanVars, SessionsTypeOK, Sessions
    <2>2. conn' = [conn EXCEPT ![e] = "open"] /\ loop' = [loop EXCEPT ![e] = "reading"]
      BY <1>3 DEF Dial
    <2>3. ~timeout[e]
      BY <2>1 DEF MarkedIsClosed
    <2>4. OpenHasLoop'
      BY <2>1, <2>2 DEF OpenHasLoop, SessionsTypeOK
    <2>5. MarkedIsClosed'
      <3> SUFFICES ASSUME NEW f \in Sessions, timeout[f]
                   PROVE  f <= e /\ (conn'[f] # "open" \/ \E s \in Scans : closing[s] = f)
        BY <2>1 DEF MarkedIsClosed
      <3>1. f # e /\ f <= created /\ (conn[f] # "open" \/ \E s \in Scans : closing[s] = f)
        BY <2>3 DEF MarkedIsClosed
      <3>2. conn'[f] = conn[f] /\ f \in Nat
        BY <3>1, <2>2, SessionsType DEF SessionsTypeOK
      <3> QED
        BY <3>1, <3>2, <2>1
    <2>6. ScansExisting'
      BY <2>1, SessionsType DEF ScansExisting, SessionsTypeOK
    <2> QED
      BY <2>4, <2>5, <2>6
  <1>4. ASSUME NEW e \in Sessions, LoopError(e) PROVE Good'
    <2>1. \A f \in Sessions : loop[f] \in {"reading", "exited"} => loop'[f] \in {"reading", "exited"}
      BY <1>4 DEF LoopError, SessionsTypeOK
    <2>2. UNCHANGED <<created, conn, timeout, todo, closing>>
      BY <1>4 DEF LoopError, scanVars
    <2> QED
      BY <2>1, <2>2, SameSockets
  <1>5. ASSUME NEW e \in Sessions, ReportEnd(e) PROVE Good'
    <2>1. loop' = [loop EXCEPT ![e] = "reported"] /\ UNCHANGED <<created, timeout, todo, closing>>
      BY <1>5 DEF ReportEnd, scanVars
    <2>2. \A f \in Sessions : conn'[f] = "open" => conn[f] = "open" /\ (f = e => timeout[e])
      BY <1>5 DEF ReportEnd, SessionsTypeOK
    <2>3. OpenHasLoop'
      BY <2>1, <2>2 DEF OpenHasLoop, MarkedIsClosed, SessionsTypeOK
    <2>4. MarkedIsClosed' /\ ScansExisting'
      BY <2>1, <2>2 DEF MarkedIsClosed, ScansExisting
    <2> QED
      BY <2>3, <2>4
  <1>6. ASSUME NEW e \in Sessions, Delete(e) PROVE Good'
    <2>1. UNCHANGED <<created, conn, timeout, todo, closing>>
      BY <1>6 DEF Delete, scanVars
    <2>2. \A f \in Sessions : loop[f] \in {"reading", "exited"} => loop'[f] = loop[f]
      BY <1>6 DEF Delete, SessionsTypeOK
    <2> QED
      BY <2>1, <2>2, SameSockets
  <1>7. ASSUME NEW s \in Scans, NEW e \in Sessions, Visit(s, e) PROVE Good'
    <2>1. UNCHANGED <<created, conn, loop>> /\ closing[s] = None /\ e <= created
          /\ todo' = [todo EXCEPT ![s] = @ \ {e}]
      BY <1>7 DEF Visit, ScansExisting
    <2>2. ScansExisting'
      BY <2>1 DEF ScansExisting, SessionsTypeOK
    <2>3. CASE UNCHANGED <<timeout, closing>>
      BY <2>1, <2>2, <2>3 DEF OpenHasLoop, MarkedIsClosed
    <2>4. CASE /\ timeout' = [timeout EXCEPT ![e] = TRUE]
               /\ closing' = [closing EXCEPT ![s] = e]
      <3>1. closing'[s] = e /\ \A t \in Scans, f \in Sessions : closing[t] = f => closing'[t] = f
        BY <2>1, <2>4, SessionsType DEF SessionsTypeOK
      <3>2. \A f \in Sessions : timeout'[f] => timeout[f] \/ f = e
        BY <2>4 DEF SessionsTypeOK
      <3> QED
        BY <2>1, <2>2, <3>1, <3>2 DEF OpenHasLoop, MarkedIsClosed
    <2> QED
      BY <1>7, <2>3, <2>4 DEF Visit
  <1>8. ASSUME NEW s \in Scans, CloseConn(s) PROVE Good'
    <2>1. UNCHANGED <<created, timeout, loop, todo>>
          /\ closing' = [closing EXCEPT ![s] = None]
          /\ conn' = [conn EXCEPT ![closing[s]] = "closed"]
      BY <1>8 DEF CloseConn
    <2>2. \A f \in Sessions : conn'[f] = "open" => conn[f] = "open" /\ f # closing[s]
      BY <2>1 DEF SessionsTypeOK
    <2>3. \A t \in Scans, f \in Sessions : closing[t] = f /\ f # closing[s] => closing'[t] = f
      BY <2>1 DEF SessionsTypeOK
    <2> QED
      BY <2>1, <2>2, <2>3 DEF OpenHasLoop, MarkedIsClosed, ScansExisting
  <1> QED
    BY <1>1, <1>2, <1>3, <1>4, <1>5, <1>6, <1>7, <1>8
       DEF SessionsNext, MainStep, LoopStep, ScanStep, ReceiveMessage, Lookup, DialError, Insert,
           Feed, Read, Age, CleanerStops, ScanEnd, sessionVars, entryVars, scanVars

LEMMA InitSockets == SessionsInit => SocketInv
  BY InitType, InitMap, SessionsType
     DEF SessionsInit, SocketInv, OpenHasLoop, MarkedIsClosed, ScansExisting

\* The main loop, the idle cleaner and the loop of the session each close the
\* socket in their own case, and no order of them leaves one open for good.
THEOREM OpenIsServed == SessionsSpec => []OpenHasLoop
  <1>1. SessionsTypeOK => MapType
    BY DEF SessionsTypeOK, MapType
  <1>2. SocketInv /\ [SessionsNext]_sessionVars => SocketInv'
    BY <1>1, StepType, StepMap, StepSockets DEF SocketInv
  <1>3. SocketInv => OpenHasLoop
    BY DEF SocketInv
  <1> QED
    BY InitSockets, <1>2, <1>3, PTL DEF SessionsSpec
=============================================================================
