-------------------------- MODULE UDPServerSessions -------------------------
(***************************************************************************)
(* The UDP session manager of one client connection (core/server/udp.go)   *)
(* as the goroutines it is made of: the main loop, which receives and      *)
(* feeds messages and cleans up when the connection ends; the idle cleaner;*)
(* and one receive loop per session.  They meet on the session map, which  *)
(* a read-write lock protects, and on each entry, which nothing protects.  *)
(*                                                                         *)
(* Session numbers stand for the *udpSessionEntry pointers.  The scans of  *)
(* cleanup hold the read lock from the first entry to the last, so a write *)
(* (insert, delete) waits for both of them; a lookup never waits.          *)
(***************************************************************************)
EXTENDS Naturals, FiniteSets

CONSTANTS Ids,         \* session IDs a client uses
          MaxSessions  \* bound: sessions created on the connection

ASSUME IdsNonEmpty == Ids # {}
ASSUME MaxSessionsAssumption == MaxSessions \in Nat

Sessions == 1..MaxSessions
None == 0

VARIABLES
  m,        \* the session map: ID -> session or None
  created,  \* how many sessions were created
  id,       \* entry.ID
  conn,     \* entry.Conn: "none", "open", "closed"
  timeout,  \* entry.Timeout
  idle,     \* now - entry.Last > idleTimeout
  loop,     \* the receive loop of the session
  pc,       \* the main loop
  sid, cur, \* its msg.SessionID and entry
  cleaner,  \* the idle cleaner: "waiting", "scanning", "gone"
  todo,     \* for each of the two scans, the entries still to visit
  closing   \* for each scan, the entry marked but not closed yet

sessionVars ==
  <<m, created, id, conn, timeout, idle, loop, pc, sid, cur, cleaner, todo, closing>>
entryVars == <<created, id, conn, timeout, idle, loop>>
scanVars == <<cleaner, todo, closing>>

Scans == {"run", "cleaner"}

Scanning(s) == IF s = "run" THEN pc = "cleanup" ELSE cleaner = "scanning"
WriteLockFree == \A s \in Scans : ~Scanning(s)

Mapped == {m[i] : i \in Ids} \ {None}

SessionsInit ==
  /\ m = [i \in Ids |-> None]
  /\ created = 0
  /\ id = [e \in Sessions |-> CHOOSE i \in Ids : TRUE]
  /\ conn = [e \in Sessions |-> "none"]
  /\ timeout = [e \in Sessions |-> FALSE]
  /\ idle = [e \in Sessions |-> FALSE]
  /\ loop = [e \in Sessions |-> "none"]
  /\ pc = "receive"
  /\ sid = (CHOOSE i \in Ids : TRUE) /\ cur = None
  /\ cleaner = "waiting"
  /\ todo = [s \in Scans |-> {}]
  /\ closing = [s \in Scans |-> None]

-----------------------------------------------------------------------------
\* The main loop.

ReceiveMessage(i) ==
  /\ pc = "receive"
  /\ sid' = i
  /\ pc' = "lookup"
  /\ UNCHANGED <<m, cur, entryVars, scanVars>>

\* Mutant: Run returns without a cleanup of the sessions that are not idle.
ReceiveErrorNoCleanup ==
  /\ pc = "receive"
  /\ pc' = "cleanup"
  /\ UNCHANGED <<m, sid, cur, entryVars, scanVars>>

\* The connection failed or the traffic logger ended it: Run returns, and its
\* deferred cleanup(false) scans the map before stopCh is closed.
ReceiveError ==
  /\ pc = "receive"
  /\ pc' = "cleanup"
  /\ todo' = [todo EXCEPT !["run"] = Mapped]
  /\ UNCHANGED <<m, sid, cur, entryVars, cleaner, closing>>

\* Mutant: a session that timed out is looked up as absent.
LookupSkipsDying ==
  /\ pc = "lookup"
  /\ cur' = m[sid]
  /\ pc' = IF m[sid] = None \/ (m[sid] # None /\ timeout[m[sid]]) THEN "dial" ELSE "feed"
  /\ UNCHANGED <<m, sid, entryVars, scanVars>>

Lookup ==
  /\ pc = "lookup"
  /\ cur' = m[sid]
  /\ pc' = IF m[sid] = None THEN "dial" ELSE "feed"
  /\ UNCHANGED <<m, sid, entryVars, scanVars>>

\* io.UDP fails: both events are logged and the message is dropped.
DialError ==
  /\ pc = "dial"
  /\ pc' = "receive"
  /\ UNCHANGED <<m, sid, cur, entryVars, scanVars>>

\* A new entry, whose receive loop starts before the entry is in the map.
Dial ==
  /\ pc = "dial" /\ created < MaxSessions
  /\ LET e == created + 1 IN
       /\ created' = e
       /\ id' = [id EXCEPT ![e] = sid]
       /\ conn' = [conn EXCEPT ![e] = "open"]
       /\ loop' = [loop EXCEPT ![e] = "reading"]
       /\ cur' = e
  /\ pc' = "insert"
  /\ UNCHANGED <<m, timeout, idle, sid, scanVars>>

Insert ==
  /\ pc = "insert" /\ WriteLockFree
  /\ m' = [m EXCEPT ![sid] = cur]
  /\ pc' = "feed"
  /\ UNCHANGED <<sid, cur, entryVars, scanVars>>

\* entry.Feed: Last is refreshed; a write to a closed connection fails and
\* the error is ignored.
Feed ==
  /\ pc = "feed"
  /\ idle' = [idle EXCEPT ![cur] = FALSE]
  /\ pc' = "receive"
  /\ UNCHANGED <<m, created, id, conn, timeout, loop, sid, cur, scanVars>>

MainStep == Lookup \/ Dial \/ DialError \/ Insert \/ Feed

-----------------------------------------------------------------------------
\* The receive loop of session e.

Read(e) ==
  /\ loop[e] = "reading" /\ conn[e] = "open"
  /\ idle' = [idle EXCEPT ![e] = FALSE]
  /\ UNCHANGED <<m, created, id, conn, timeout, loop, pc, sid, cur, scanVars>>

\* ReadFrom or SendMessage returns an error, at the latest once closed.
LoopError(e) ==
  /\ loop[e] = "reading"
  /\ loop' = [loop EXCEPT ![e] = "exited"]
  /\ UNCHANGED <<m, created, id, conn, timeout, idle, pc, sid, cur, scanVars>>

\* Mutant: the socket is not closed when the loop failed by itself.
ReportNoClose(e) ==
  /\ loop[e] = "exited"
  /\ loop' = [loop EXCEPT ![e] = "reported"]
  /\ UNCHANGED <<m, created, id, conn, timeout, idle, pc, sid, cur, scanVars>>

\* Timeout is read without a lock: it tells who closes and what is logged.
ReportEnd(e) ==
  /\ loop[e] = "exited"
  /\ conn' = IF timeout[e] THEN conn ELSE [conn EXCEPT ![e] = "closed"]
  /\ loop' = [loop EXCEPT ![e] = "reported"]
  /\ UNCHANGED <<m, created, id, timeout, idle, pc, sid, cur, scanVars>>

\* Mutant: the deferred delete uses the ID of the message being fed.
DeleteCaptured(e) ==
  /\ loop[e] = "reported" /\ WriteLockFree
  /\ m' = [m EXCEPT ![sid] = None]
  /\ loop' = [loop EXCEPT ![e] = "done"]
  /\ UNCHANGED <<created, id, conn, timeout, idle, pc, sid, cur, scanVars>>

\* delete(m.m, entry.ID): whatever entry the ID holds now.
Delete(e) ==
  /\ loop[e] = "reported" /\ WriteLockFree
  /\ m' = [m EXCEPT ![id[e]] = None]
  /\ loop' = [loop EXCEPT ![e] = "done"]
  /\ UNCHANGED <<created, id, conn, timeout, idle, pc, sid, cur, scanVars>>

-----------------------------------------------------------------------------
\* cleanup, run by both the idle cleaner and the end of Run.

Tick ==
  /\ cleaner = "waiting"
  /\ cleaner' = "scanning"
  /\ todo' = [todo EXCEPT !["cleaner"] = Mapped]
  /\ UNCHANGED <<m, entryVars, pc, sid, cur, closing>>

\* Mutant: idleOnly inverted.
VisitInverted(s, e) ==
  /\ Scanning(s) /\ closing[s] = None /\ e \in todo[s]
  /\ todo' = [todo EXCEPT ![s] = @ \ {e}]
  /\ IF s = "run" \/ ~idle[e]
       THEN /\ timeout' = [timeout EXCEPT ![e] = TRUE]
            /\ closing' = [closing EXCEPT ![s] = e]
       ELSE UNCHANGED <<timeout, closing>>
  /\ UNCHANGED <<m, created, id, conn, idle, loop, pc, sid, cur, cleaner>>

\* The next entry of the scan, in map order: any order.
Visit(s, e) ==
  /\ Scanning(s) /\ closing[s] = None /\ e \in todo[s]
  /\ todo' = [todo EXCEPT ![s] = @ \ {e}]
  /\ IF s = "run" \/ idle[e]
       THEN /\ timeout' = [timeout EXCEPT ![e] = TRUE]
            /\ closing' = [closing EXCEPT ![s] = e]
       ELSE UNCHANGED <<timeout, closing>>
  /\ UNCHANGED <<m, created, id, conn, idle, loop, pc, sid, cur, cleaner>>

CloseConn(s) ==
  /\ closing[s] # None
  /\ conn' = [conn EXCEPT ![closing[s]] = "closed"]
  /\ closing' = [closing EXCEPT ![s] = None]
  /\ UNCHANGED <<m, created, id, timeout, idle, loop, pc, sid, cur, cleaner, todo>>

ScanEnd(s) ==
  /\ Scanning(s) /\ todo[s] = {} /\ closing[s] = None
  /\ IF s = "run" THEN pc' = "stopped" /\ UNCHANGED cleaner
                  ELSE cleaner' = "waiting" /\ UNCHANGED pc
  /\ UNCHANGED <<m, entryVars, sid, cur, todo, closing>>

ScanStep(s) == (\E e \in Sessions : Visit(s, e)) \/ CloseConn(s) \/ ScanEnd(s)

\* stopCh is closed; select may still take a last tick first.
CleanerStops ==
  /\ cleaner = "waiting" /\ pc = "stopped"
  /\ cleaner' = "gone"
  /\ UNCHANGED <<m, entryVars, pc, sid, cur, todo, closing>>

\* More than idleTimeout passes without a message.
Age(e) ==
  /\ conn[e] # "none" /\ ~idle[e]
  /\ idle' = [idle EXCEPT ![e] = TRUE]
  /\ UNCHANGED <<m, created, id, conn, timeout, loop, pc, sid, cur, scanVars>>

LoopStep(e) == Read(e) \/ LoopError(e) \/ ReportEnd(e) \/ Delete(e)

SessionsNext ==
  \/ (\E i \in Ids : ReceiveMessage(i)) \/ ReceiveError \/ MainStep
  \/ (\E e \in Sessions : LoopStep(e) \/ Age(e))
  \/ Tick \/ CleanerStops \/ (\E s \in Scans : ScanStep(s))

SessionsSpec == SessionsInit /\ [][SessionsNext]_sessionVars

\* Every goroutine goes on; a goroutine blocked on the write lock gets it in
\* the end (a waiting writer holds back new readers).  No message is promised
\* to arrive and no connection to fail.
SessionsFairness ==
  /\ WF_sessionVars(Lookup \/ Dial \/ DialError)
  /\ SF_sessionVars(Insert) /\ WF_sessionVars(Feed)
  /\ \A e \in Sessions : /\ WF_sessionVars(conn[e] = "closed" /\ LoopError(e))
                         /\ WF_sessionVars(ReportEnd(e)) /\ SF_sessionVars(Delete(e))
  /\ WF_sessionVars(Tick) /\ \A s \in Scans : WF_sessionVars(ScanStep(s))

SessionsFairSpec == SessionsSpec /\ SessionsFairness

-----------------------------------------------------------------------------
\* Every variable has its type; both scans hold the lock whenever they have
\* entries left.
SessionsTypeOK ==
  /\ m \in [Ids -> Sessions \cup {None}]
  /\ created \in 0..MaxSessions
  /\ id \in [Sessions -> Ids]
  /\ conn \in [Sessions -> {"none", "open", "closed"}]
  /\ timeout \in [Sessions -> BOOLEAN] /\ idle \in [Sessions -> BOOLEAN]
  /\ loop \in [Sessions -> {"none", "reading", "exited", "reported", "done"}]
  /\ pc \in {"receive", "lookup", "dial", "insert", "feed", "cleanup", "stopped"}
  /\ sid \in Ids /\ cur \in Sessions \cup {None}
  /\ cleaner \in {"waiting", "scanning", "gone"}
  /\ todo \in [Scans -> SUBSET Sessions]
  /\ closing \in [Scans -> Sessions \cup {None}]
  /\ \A s \in Scans : ~Scanning(s) => todo[s] = {} /\ closing[s] = None

BeingCreated(e) == pc = "insert" /\ cur = e

\* A session whose receive loop still runs is in the map under its ID, where
\* both cleanups find it, or about to be inserted: no goroutine and no socket
\* is out of reach, although receive loops delete by ID, whatever it holds.
LiveIsReachable == \A e \in Sessions :
  loop[e] = "reading" => m[id[e]] = e \/ BeingCreated(e)

\* At most one live session per ID, so that the answers of one destination
\* never come from two sockets under the same ID.
OneLivePerId == \A e, f \in Sessions :
  e # f /\ id[e] = id[f] => ~(loop[e] = "reading" /\ loop[f] = "reading")

\* A socket stays open only as long as a receive loop is there to end it, or a
\* scan that has marked its entry and closes it next.
OpenHasLoop == \A e \in Sessions :
  conn[e] = "open" => \/ loop[e] \in {"reading", "exited"}
                      \/ \E s \in Scans : closing[s] = e

\* When the connection ends, every socket is closed and every goroutine ends.
StopReleasesAll ==
  pc = "cleanup" ~> \A e \in Sessions : loop[e] \in {"none", "done"} /\ conn[e] # "open"

\* A session without traffic loses its socket, unless traffic resumes.
IdleIsClosed == \A e \in Sessions :
  (conn[e] = "open" /\ idle[e]) ~> (conn[e] = "closed" \/ ~idle[e])
=============================================================================
