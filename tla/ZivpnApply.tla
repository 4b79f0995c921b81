----------------------------- MODULE ZivpnApply -----------------------------
(***************************************************************************)
(* Calls of the panel (install2.py) that overlap around config.json, the   *)
(* state file and the zivpn service: quota_enforce, zivpn_quota_guard and  *)
(* the calls of administrators each run in a process of their own.  A step *)
(* is one access to a shared file or to the service; what a process has    *)
(* read stays in its frame, and a process may be killed anywhere.          *)
(*                                                                         *)
(* ZivpnPanel has the operations in full, one after the other.  Here an    *)
(* account is its password, a counter is there or not, and what cron finds *)
(* an account has used is arbitrary (ZivpnUsage computes it).              *)
(***************************************************************************)
EXTENDS Naturals, FiniteSets

CONSTANTS
  Users,
  Limited,                   \* accounts with a quota
  Enforcers, Guards, Admins, \* the processes
  MaxEvents                  \* bound: calls that change an account, and kills

ASSUME LimitedAssumption == Limited \subseteq Users
ASSUME BoundsAssumption == MaxEvents \in Nat

Procs == Enforcers \cup Guards \cup Admins
Nobody == "nobody"
Placeholder == "__KIGHMU_EMPTY__"

VARIABLES
  live, locked,  \* accounts with a meta file, and those locked
  registry,      \* issued-passwords.txt
  conf,          \* auth.config and quota of config.json
  state, bak,    \* keys of quota-state.json and its mirror
  srv,           \* the server
  frame,         \* what each process does and has read
  cooling,       \* the guard applied less than ten minutes ago
  events,        \* how many calls and kills there were
  killed,        \* history: a call was killed
  raced          \* history: config.json changed between a call's look at it and its replacement

meta == <<live, locked>>
files == <<registry, conf, state, bak>>
vars == <<meta, files, srv, frame, cooling, events, killed, raced>>
rest == <<cooling, events, killed, raced>>

Active == live \ locked
Wanted == [auth |-> Active, quota |-> Active \cap Limited]

\* The server as it starts: an empty password list is fatal, and the counters
\* are loaded when some account has a quota, from the mirror if need be.
NoConf == [auth |-> {}, quota |-> {}]
Down == [up |-> FALSE, conf |-> NoConf, mem |-> {}]

Started(c) ==
  IF c.auth = {} THEN Down
  ELSE [up |-> TRUE, conf |-> c,
        mem |-> IF c.quota = {} THEN {} ELSE IF state.ok THEN state.keys ELSE bak]

Idle == [job |-> "none", at |-> "idle", user |-> Nobody, bounce |-> FALSE,
         want |-> {}, auth |-> {}, before |-> NoConf, keys |-> {}, keep |-> FALSE]

Init ==
  /\ live = Users /\ locked = {} /\ registry = Users
  /\ conf = [auth |-> Users, quota |-> Limited]
  /\ state = [ok |-> TRUE, keys |-> {}, writer |-> Nobody] /\ bak = {}
  /\ srv = [up |-> TRUE, conf |-> [auth |-> Users, quota |-> Limited], mem |-> {}]
  /\ frame = [p \in Procs |-> Idle]
  /\ cooling = FALSE /\ events = 0 /\ killed = FALSE /\ raced = FALSE

-----------------------------------------------------------------------------
\* Control of a process.

At(p, label) == frame[p].at = label
User(p) == frame[p].user
Goto(p, label) == frame' = [frame EXCEPT ![p].at = label]
End(p) == frame' = [frame EXCEPT ![p] = Idle]
Apply(p) == frame' = [frame EXCEPT ![p] = [Idle EXCEPT !.at = "auth"]]

\* One run of quota_enforce that locks or frees an account, or a call of an
\* administrator.
StartCall(p) ==
  /\ p \in Enforcers \cup Admins /\ At(p, "idle") /\ events < MaxEvents
  /\ \E u \in live, job \in {"lock", "unlock"} \cup (IF p \in Admins THEN {"renew", "delete"} ELSE {}) :
       frame' = [frame EXCEPT ![p] = [Idle EXCEPT !.job = job, !.at = job, !.user = u]]
  /\ events' = events + 1
  /\ UNCHANGED <<meta, files, srv, cooling, killed, raced>>

\* Mutant: _meta_set creates the file of an account that is gone.
SetLockedAnyway(p) ==
  /\ At(p, "lock") \/ At(p, "unlock")
  /\ locked' = IF At(p, "lock") THEN locked \cup {User(p)} ELSE locked \ {User(p)}
  /\ Apply(p)
  /\ UNCHANGED <<live, files, srv, rest>>

\* _meta_set on an account that is gone does nothing.
SetLocked(p) ==
  /\ At(p, "lock") \/ At(p, "unlock")
  /\ locked' = IF At(p, "lock") THEN locked \cup (live \cap {User(p)}) ELSE locked \ {User(p)}
  /\ Apply(p)
  /\ UNCHANGED <<live, files, srv, rest>>

\* renew_user writes the meta file anew, which creates it if it is gone, and
\* then puts back what it has read, unless the field was never set.
Keep(p) ==
  /\ At(p, "renew")
  /\ frame' = [frame EXCEPT ![p].keep = (User(p) \in locked), ![p].at = "rewrite"]
  /\ UNCHANGED <<meta, files, srv, rest>>

Rewrite(p) ==
  /\ At(p, "rewrite")
  /\ live' = live \cup {User(p)} /\ locked' = locked \ {User(p)}
  /\ Goto(p, "putback")
  /\ UNCHANGED <<files, srv, rest>>

PutBack(p) ==
  /\ At(p, "putback")
  /\ locked' \in IF frame[p].keep THEN {locked \cup (live \cap {User(p)})}
                                   ELSE {locked, locked \ {User(p)}}
  /\ Apply(p)
  /\ UNCHANGED <<live, files, srv, rest>>

-----------------------------------------------------------------------------
\* delete_user: the meta file first; then the server is stopped, the state
\* file purged, the configuration applied, the server started again, and the
\* password released.

Unlink(p) ==
  /\ At(p, "delete")
  /\ live' = live \ {User(p)} /\ locked' = locked \ {User(p)}
  /\ Goto(p, "stop")
  /\ UNCHANGED <<files, srv, rest>>

Stop(p) ==
  /\ At(p, "stop")
  /\ srv' = Down
  /\ frame' = [frame EXCEPT ![p].bounce = srv.up, ![p].at = "purge"]
  /\ UNCHANGED <<meta, files, rest>>

\* The state file is rewritten in place: it is empty until Purged.
Purge(p) ==
  /\ At(p, "purge")
  /\ IF state.ok /\ User(p) \in state.keys
       THEN /\ state' = [state EXCEPT !.ok = FALSE, !.writer = p]
            /\ frame' = [frame EXCEPT ![p].keys = state.keys \ {User(p)}, ![p].at = "purged"]
       ELSE Goto(p, "auth") /\ UNCHANGED state
  /\ UNCHANGED <<meta, registry, conf, bak, srv, rest>>

\* The text is lost if the server has renamed a new file over this one, and
\* leaves an unreadable mixture if the guard has copied the mirror into it.
Purged(p) ==
  /\ At(p, "purged")
  /\ state' = IF state.writer = p
                THEN [ok |-> ~state.ok, keys |-> frame[p].keys, writer |-> Nobody]
                ELSE state
  /\ Goto(p, "mirror")
  /\ UNCHANGED <<meta, registry, conf, bak, srv, rest>>

Mirror(p) ==
  /\ At(p, "mirror")
  /\ bak' = frame[p].keys
  /\ frame' = [frame EXCEPT ![p].keys = {}, ![p].at = "auth"]
  /\ UNCHANGED <<meta, registry, conf, state, srv, rest>>

Start(p) ==
  /\ At(p, "start")
  /\ srv' = IF frame[p].bounce /\ ~srv.up THEN Started(conf) ELSE srv
  /\ frame' = [frame EXCEPT ![p].bounce = FALSE, ![p].at = "free"]
  /\ UNCHANGED <<meta, files, rest>>

Free(p) ==
  /\ At(p, "free")
  /\ registry' = registry \ {User(p)}
  /\ End(p)
  /\ UNCHANGED <<meta, conf, state, bak, srv, rest>>

CallStep(p) ==
  \/ SetLocked(p) \/ Keep(p) \/ Rewrite(p) \/ PutBack(p)
  \/ Unlink(p) \/ Stop(p) \/ Purge(p) \/ Purged(p) \/ Mirror(p) \/ Start(p) \/ Free(p)

-----------------------------------------------------------------------------
\* zivpn_apply, the end of every call that changed an account: it reads the
\* active passwords, then the quotas, looks at config.json, replaces it, and
\* restarts the server if the file differs from the one it looked at.

ReadAuth(p) ==
  /\ At(p, "auth")
  /\ frame' = [frame EXCEPT ![p].auth = Active, ![p].at = "quota"]
  /\ UNCHANGED <<meta, files, srv, rest>>

ReadQuota(p) ==
  /\ At(p, "quota")
  /\ frame' = [frame EXCEPT ![p].want = Active \cap Limited, ![p].at = "look"]
  /\ UNCHANGED <<meta, files, srv, rest>>

\* Where a call goes from there.
AfterApply(f) ==
  CASE f.job = "guard"  -> [Idle EXCEPT !.job = "guard", !.at = "cool"]
    [] f.job = "delete" -> [f EXCEPT !.at = "start"]
    [] OTHER -> Idle

Look(p) ==
  /\ At(p, "look")
  /\ frame' = [frame EXCEPT ![p].before = conf, ![p].at = "replace"]
  /\ UNCHANGED <<meta, files, srv, rest>>

Replace(p) ==
  /\ At(p, "replace")
  /\ conf' = [auth |-> frame[p].auth, quota |-> frame[p].want]
  /\ frame' = [frame EXCEPT ![p].auth = {}, ![p].want = {}, ![p].at = "check"]
  /\ raced' = (raced \/ frame[p].before # conf)
  /\ UNCHANGED <<meta, registry, state, bak, srv, cooling, events, killed>>

\* Mutant: only a change of the password list asks for a restart.
ChangedAuth(p) == frame[p].before.auth # conf.auth
Changed(p) == frame[p].before # conf

Check(p) ==
  /\ At(p, "check")
  /\ frame' = [frame EXCEPT ![p] =
       LET f == [@ EXCEPT !.before = NoConf] IN
         IF Changed(p) THEN [f EXCEPT !.at = "restart"] ELSE AfterApply(f)]
  /\ UNCHANGED <<meta, files, srv, rest>>

Restart(p) ==
  /\ At(p, "restart")
  /\ srv' = Started(conf)
  /\ frame' = [frame EXCEPT ![p] = AfterApply(@)]
  /\ UNCHANGED <<meta, files, rest>>

ApplyStep(p) == ReadAuth(p) \/ ReadQuota(p) \/ Look(p) \/ Replace(p) \/ Check(p) \/ Restart(p)

-----------------------------------------------------------------------------
\* zivpn_quota_guard.  (The totals it refreshes are in ZivpnUsage.)

StartGuard(p) ==
  /\ p \in Guards /\ At(p, "idle")
  /\ srv' = IF srv.up THEN srv ELSE Started(conf)
  /\ frame' = IF srv'.up
                THEN [frame EXCEPT ![p] = [Idle EXCEPT !.job = "guard", !.at = "expect"]]
                ELSE frame
  /\ UNCHANGED <<meta, files, rest>>

Expect(p) ==
  /\ At(p, "expect")
  /\ frame' = [frame EXCEPT ![p].want = Active \cap Limited, ![p].at = "seed"]
  /\ UNCHANGED <<meta, files, srv, rest>>

SeedRegistry(p) ==
  /\ At(p, "seed")
  /\ registry' = registry \cup live
  /\ Goto(p, "repair")
  /\ UNCHANGED <<meta, conf, state, bak, srv, rest>>

\* An unreadable state file is replaced by the mirror.
Repair(p) ==
  /\ At(p, "repair")
  /\ state' = IF state.ok THEN state ELSE [state EXCEPT !.ok = TRUE, !.keys = bak]
  /\ Goto(p, IF frame[p].want = {} THEN "fill" ELSE "compare")
  /\ UNCHANGED <<meta, registry, conf, bak, srv, rest>>

\* With no quota expected only an empty password list is attended to, by a
\* placeholder if there is nobody to list.
Fill(p) ==
  /\ At(p, "fill")
  /\ IF conf.auth = {} /\ Active = {}
       THEN frame' = [frame EXCEPT ![p] = [Idle EXCEPT !.before = conf, !.at = "place"]]
       ELSE End(p)
  /\ UNCHANGED <<meta, files, srv, rest>>

Place(p) ==
  /\ At(p, "place")
  /\ conf' = [frame[p].before EXCEPT !.auth = {Placeholder}]
  /\ frame' = [frame EXCEPT ![p] = [Idle EXCEPT !.at = "restart"]]
  /\ UNCHANGED <<meta, registry, state, bak, srv, rest>>

\* Mutant: the lists are taken for equal when they are as long.
DriftOfLength(p) == Cardinality(conf.auth) # Cardinality(Active)
Drift(p) == conf.quota # frame[p].want \/ conf.auth # Active

\* The state file may be older than two minutes whatever the server does.
Compare(p) ==
  /\ At(p, "compare")
  /\ \E loggerAlive \in BOOLEAN :
       IF ~cooling /\ (Drift(p) \/ ~loggerAlive)
         THEN frame' = [frame EXCEPT ![p].want = {}, ![p].at = "auth"]
         ELSE End(p)
  /\ UNCHANGED <<meta, files, srv, rest>>

Cool(p) ==
  /\ At(p, "cool")
  /\ cooling' = (cooling \/ srv.up)
  /\ End(p)
  /\ UNCHANGED <<meta, files, srv, events, killed, raced>>

GuardStep(p) ==
  \/ StartGuard(p) \/ Expect(p) \/ SeedRegistry(p) \/ Repair(p)
  \/ Fill(p) \/ Place(p) \/ Compare(p) \/ Cool(p)

-----------------------------------------------------------------------------
\* The server and the world.

\* The first bytes of an account are counted.
Use(u) ==
  /\ srv.up /\ u \in (srv.conf.auth \cap srv.conf.quota) \ srv.mem
  /\ srv' = [srv EXCEPT !.mem = @ \cup {u}]
  /\ UNCHANGED <<meta, files, frame, rest>>

\* The saver writes a new file and renames it.
Flush ==
  /\ srv.up /\ srv.conf.quota # {}
  /\ state' = [ok |-> TRUE, keys |-> srv.mem, writer |-> Nobody]
  /\ bak' = srv.mem
  /\ UNCHANGED <<meta, registry, conf, srv, frame, rest>>

CooldownEnds ==
  /\ cooling /\ cooling' = FALSE
  /\ UNCHANGED <<meta, files, srv, frame, events, killed, raced>>

Kill(p) ==
  /\ ~At(p, "idle") /\ events < MaxEvents
  /\ End(p)
  /\ events' = events + 1 /\ killed' = TRUE
  /\ UNCHANGED <<meta, files, srv, cooling, raced>>

Step(p) == CallStep(p) \/ ApplyStep(p) \/ GuardStep(p)

Next ==
  \/ \E p \in Procs : Step(p) \/ StartCall(p) \/ Kill(p)
  \/ \E u \in Users : Use(u)
  \/ Flush \/ CooldownEnds

Spec == Init /\ [][Next]_vars

\* Cron starts the guard for ever and processes are scheduled; the saver of the
\* server ticks; time passes.  Administrators and clients owe nothing.
Fairness ==
  /\ \A p \in Procs : WF_vars(Step(p))
  /\ WF_vars(Flush) /\ WF_vars(CooldownEnds)

FairSpec == Spec /\ Fairness

-----------------------------------------------------------------------------
Labels == {"idle", "lock", "unlock", "renew", "rewrite", "putback", "delete", "stop", "purge",
           "purged", "mirror", "start", "free", "auth", "quota", "look", "replace", "check", "restart",
           "expect", "seed", "repair", "fill", "place", "compare", "cool"}
Jobs == {"none", "lock", "unlock", "renew", "delete", "guard"}
Names == Users \cup {Placeholder}
Confs == [auth : SUBSET Names, quota : SUBSET Users]
Frames == [job : Jobs, at : Labels, user : Users \cup {Nobody}, bounce : BOOLEAN,
           want : SUBSET Users, auth : SUBSET Users, before : Confs, keys : SUBSET Users,
           keep : BOOLEAN]

\* Types; only accounts that exist are locked.
TypeOK ==
  /\ live \subseteq Users /\ registry \subseteq Users /\ locked \subseteq live
  /\ conf \in Confs
  /\ state \in [ok : BOOLEAN, keys : SUBSET Users, writer : Procs \cup {Nobody}]
  /\ bak \subseteq Users
  /\ srv \in [up : BOOLEAN, conf : Confs, mem : SUBSET Users]
  /\ frame \in [Procs -> Frames]
  /\ cooling \in BOOLEAN /\ events \in 0..MaxEvents
  /\ killed \in BOOLEAN /\ raced \in BOOLEAN

\* A call under way that will restart the server or, if it is down, start it.
Due(p) ==
  \/ At(p, "restart")
  \/ At(p, "check") /\ frame[p].before # conf
  \/ frame[p].bounce /\ ~srv.up

\* Whatever else overlaps, the server runs with the config.json on disk, and
\* runs at all if that lists anybody, unless a call that will restart or start
\* it is still under way.  Two things break this for good: a call that is killed
\* between replacing the file and the restart, and one that replaces a file
\* another call has changed since it looked, with just what it had seen then.
ServerIsCurrent ==
  \/ killed \/ raced
  \/ srv.up /\ srv.conf = conf
  \/ ~srv.up /\ conf.auth = {}
  \/ \E p \in Procs : Due(p)

\* A configuration that an overlapping call has overwritten with an older
\* decision is set right in the end: the guard sees the drift (docstring of
\* zivpn_quota_guard), as long as some account has a quota and the list on disk
\* is not empty, for with an empty one it gives up.
ConfConverges ==
  <>[](Active \cap Limited # {} /\ conf.auth # {}) => <>[](conf = Wanted)

=============================================================================
