---------------------------- MODULE TunnelAccounts ----------------------------
(***************************************************************************)
(* One account of a tunnel other than zivpn, as the panel (install2.py)     *)
(* keeps it: the calls of an administrator, the cron --quota-enforce, the   *)
(* SSH timer and, for SSH, the traffic tracker run at the same time.        *)
(*                                                                          *)
(* A call is its script: the writes it makes, in order.  One command runs   *)
(* per step, so calls interleave and a reboot falls between any two.  What  *)
(* a call decides on is read in the step that starts the decision; a field  *)
(* of the meta file is written under its lock, from values read before.     *)
(***************************************************************************)
EXTENDS Integers, Sequences, FiniteSets, FiniteSetsExt

CONSTANTS
  Protos,                   \* tunnels the account may be of
  Conns,                    \* SSH connections over the whole run
  Crons, Admins,            \* processes of --quota-enforce and of the panel
  Quotas,                   \* quotas the account may have, 0 for none
  MaxBusy,                  \* bound: calls under way at once, for each tunnel
  MaxBytes,                 \* bound: units carried
  MaxEvents                 \* bound, for each tunnel: calls of administrators, and
                            \* crashes, queries that fail or overlap a measure

ASSUME ProtosAssumption == Protos \subseteq {"ssh", "vmess", "v2raydns", "hysteria"}
ASSUME ConnsAssumption == IsFiniteSet(Conns)
ASSUME QuotasAssumption == Quotas \subseteq Nat
ASSUME BoundsAssumption == MaxBytes \in Nat /\ {MaxBusy, MaxEvents} \subseteq [Protos -> Nat]

Metered == {"vmess", "v2raydns"}           \* tunnels with a traffic API
Procs == Crons \cup Admins \cup {"tracker"}

VARIABLES
  proto, meta,   \* the account, and the fields of its meta file
  admitted,      \* SSH: the password opens a session; others: in the running configuration
  raw,           \* counter of the traffic API, lost when the service restarts
  conn, count,   \* SSH connections; nft counters of the tracked ones
  file, trk,     \* state of the tracker, on disk and in memory
  todo,          \* rest of the script of each process
  carried,       \* history: units the tunnel carried for the account
  slips, sole,   \* history: what may have billed twice; who was the last to query the API,
                 \* if it was answered and nobody else was measuring
  calls, clean   \* clean: no two calls overlapped and none was cut short

vars == <<proto, meta, admitted, raw, conn, count, file, trk, todo, carried, slips, sole, calls, clean>>
ssh == <<conn, count, file, trk>>

NewMeta(q) == [here |-> TRUE, quota |-> q, past |-> FALSE, used |-> 0, last |-> 0,
               locked |-> FALSE, quota_hit |-> FALSE, exp_lock |-> FALSE]
NoConns == [c \in {} |-> 0]
Off == [at |-> "off", last |-> NoConns]
Fresh == [torn |-> FALSE, last |-> NoConns]

Init ==
  /\ proto \in Protos /\ \E q \in Quotas : meta = NewMeta(q)
  /\ admitted = TRUE /\ raw = 0
  /\ conn = [c \in Conns |-> [is |-> "none", sent |-> 0]]
  /\ count = NoConns /\ file = Fresh /\ trk = Off
  /\ todo = [p \in Procs |-> <<>>]
  /\ carried = 0 /\ slips = 0 /\ sole = {} /\ calls = 0 /\ clean = TRUE

Idle(p) == todo[p] = <<>>
Enter(p, script) ==
  /\ Cardinality({q \in Procs : ~Idle(q)}) < MaxBusy[proto]
  /\ todo' = [todo EXCEPT ![p] = script]
  /\ clean' = (clean /\ \A q \in Procs : Idle(q))
Goes(p, name) == ~Idle(p) /\ Head(todo[p])[1] = name
Then(p, script) == todo' = [todo EXCEPT ![p] = script \o Tail(@)]

-----------------------------------------------------------------------------
\* Commands.  _meta_set writes one field, and nothing if there is no account.

Set(field, value) == <<"set", field, value>>
SetField(p) ==
  /\ Goes(p, "set") /\ Then(p, <<>>)
  /\ meta' = IF meta.here THEN [meta EXCEPT ![Head(todo[p])[2]] = Head(todo[p])[3]] ELSE meta
  /\ UNCHANGED <<proto, admitted, raw, ssh, carried, slips, sole, calls, clean>>

\* passwd -l and -u, chpasswd, useradd and userdel.
Passwd(p) ==
  /\ Goes(p, "passwd") /\ Then(p, <<>>)
  /\ admitted' = Head(todo[p])[2]
  /\ UNCHANGED <<proto, meta, raw, ssh, carried, slips, sole, calls, clean>>

\* xray_build_config, v2raydns_apply, hysteria_apply: whom to admit is read
\* first; the service restarts when the configuration changes.
\* Mutant: a locked account is listed all the same.
ActiveIgnoresLock == meta.here /\ ~meta.past
Active == meta.here /\ ~meta.past /\ ~meta.locked

Collect(p) ==
  /\ Goes(p, "collect") /\ Then(p, <<<<"install", Active>>>>)
  /\ UNCHANGED <<proto, meta, admitted, raw, ssh, carried, slips, sole, calls, clean>>
Install(p) ==
  /\ Goes(p, "install") /\ Then(p, <<>>)
  /\ admitted' = Head(todo[p])[2]
  /\ raw' = IF admitted' = admitted THEN raw ELSE 0
  /\ UNCHANGED <<proto, meta, ssh, carried, slips, sole, calls, clean>>

\* The connections the tracker has saved are closed, and with them whatever
\* pkill finds running as the user.
KillConns(p) ==
  /\ Goes(p, "kill") /\ Then(p, <<>>)
  /\ \E also \in SUBSET (Conns \ DOMAIN file.last) :
       conn' = [c \in Conns |-> IF conn[c].is = "open" /\ c \in DOMAIN file.last \cup also
                                THEN [conn[c] EXCEPT !.is = "closed"] ELSE conn[c]]
  /\ UNCHANGED <<proto, meta, admitted, raw, count, file, trk, carried, slips, sole, calls, clean>>

Rebuild == IF proto = "ssh" THEN <<>> ELSE <<<<"collect">>>>
Shut(yes) == IF proto = "ssh" THEN <<<<"passwd", ~yes>>>> ELSE <<>>

-----------------------------------------------------------------------------
\* What has been used.  get_ssh_traffic adds the live counters to the total.

Total(f(_), S) == FoldSet(LAMBDA c, n : n + f(c), 0, S)
Counted(c) == IF c \in DOMAIN count THEN count[c] ELSE 0
Live == Total(Counted, DOMAIN file.last)
Traffic == IF proto = "ssh" THEN meta.used + Live ELSE meta.used
Over(q, n) == q > 0 /\ n >= q

\* One process is between its query and the last write of what it found.
Measuring(p) == proto \in Metered /\ \E i \in 1..Len(todo[p]) :
  LET e == todo[p][i] IN e[1] \in {"tally", "grow", "first"} \/ (e[1] = "set" /\ e[2] \in {"used", "last"})

\* get_xray_traffic, get_v2ray_traffic: a query that fails reads as 0.
Measure(p) ==
  /\ Goes(p, "measure")
  /\ \E r \in {raw, 0} :
       LET fine == r = raw /\ \A q \in Procs \ {p} : ~Measuring(q) IN
       /\ fine \/ calls + slips < MaxEvents[proto]
       /\ sole' = IF fine THEN {p} ELSE {}
       /\ Then(p, <<<<"tally", Head(todo[p])[2], Head(todo[p])[3], r>>>>)
  /\ UNCHANGED <<proto, meta, admitted, raw, ssh, carried, slips, calls, clean>>

\* The total is read, if there is an account.
Tally(p) ==
  /\ Goes(p, "tally")
  /\ LET use == Head(todo[p])[2]  q == Head(todo[p])[3]  r == Head(todo[p])[4] IN
       Then(p, IF meta.here THEN <<<<"grow", use, q, r, meta.used>>>> ELSE <<<<use, q, r>>>>)
  /\ UNCHANGED <<proto, meta, admitted, raw, ssh, carried, slips, sole, calls, clean>>

\* The last value is read: a counter below it is taken for a restart.
Growth(r) == IF r >= meta.last THEN r - meta.last ELSE r
Grow(p) ==
  /\ Goes(p, "grow")
  /\ LET use == Head(todo[p])[2]  q == Head(todo[p])[3]  r == Head(todo[p])[4]
         total == Head(todo[p])[5] + Growth(r) IN
       Then(p, (IF Growth(r) > 0 THEN <<Set("used", total)>> ELSE <<>>)
                 \o <<Set("last", r), IF total = 0 /\ r > 0 THEN <<"first", use, q, r>> ELSE <<use, q, total>>>>)
  /\ slips' = IF p \in sole THEN slips ELSE slips + 1
  /\ UNCHANGED <<proto, meta, admitted, raw, ssh, carried, sole, calls, clean>>

\* A counter without a total is taken for the total.
First(p) ==
  /\ Goes(p, "first")
  /\ LET r == Head(todo[p])[4] IN
       Then(p, (IF meta.used = 0 THEN <<Set("used", r)>> ELSE <<>>) \o <<<<Head(todo[p])[2], Head(todo[p])[3], r>>>>)
  /\ UNCHANGED <<proto, meta, admitted, raw, ssh, carried, slips, sole, calls, clean>>

\* An account that is deleted, created or renewed under a measure may be billed again.
ReplacedUnder == slips' = IF \E p \in Procs : Measuring(p) THEN slips + 1 ELSE slips

-----------------------------------------------------------------------------
\* quota_enforce.

LockFor(why) ==
  CASE proto = "ssh" /\ why = "quota_hit" ->
         <<Set("quota_hit", TRUE), Set("locked", TRUE)>> \o Shut(TRUE) \o <<<<"kill">>>>
    [] proto \in Metered -> <<Set("locked", TRUE), Set("quota_hit", TRUE)>> \o Rebuild
    [] proto = "hysteria" /\ why = "quota_hit" ->
         <<Set("quota_hit", TRUE), Set("locked", TRUE)>> \o Rebuild
    [] OTHER -> <<Set("locked", TRUE), Set("exp_lock", TRUE)>> \o Shut(TRUE) \o Rebuild

Release ==
  IF proto = "ssh" THEN <<Set("quota_hit", FALSE)>> \o Shut(FALSE) \o <<Set("locked", FALSE)>>
  ELSE IF proto \in Metered THEN <<Set("locked", FALSE), Set("quota_hit", FALSE)>> \o Rebuild
  ELSE <<Set("quota_hit", FALSE), Set("locked", FALSE)>> \o Rebuild

Held == meta.locked /\ meta.quota_hit

\* An expired account is not measured; the quota is the one read at first.
Enforce(p) ==
  /\ p \in Crons /\ Idle(p) /\ meta.here
  /\ Enter(p, IF meta.past THEN <<<<"lock", "exp_lock">>>>
              ELSE IF proto \in Metered /\ meta.quota > 0 THEN <<<<"measure", "judge", meta.quota>>>>
              ELSE <<<<"judge", meta.quota, Traffic>>>>)
  /\ UNCHANGED <<proto, meta, admitted, raw, ssh, carried, slips, sole, calls>>

\* Mutant: nobody is let in again.
JudgeOnly(p) ==
  /\ Goes(p, "judge")
  /\ Then(p, IF Over(Head(todo[p])[2], Head(todo[p])[3]) THEN <<<<"lock", "quota_hit">>>> ELSE <<>>)
  /\ UNCHANGED <<proto, meta, admitted, raw, ssh, carried, slips, sole, calls, clean>>

\* The account is locked once; below the quota it is measured a second time.
Judge(p) ==
  /\ Goes(p, "judge")
  /\ LET q == Head(todo[p])[2]  used == Head(todo[p])[3] IN
       Then(p, IF Over(q, used) THEN <<<<"lock", "quota_hit">>>>
               ELSE IF ~Held THEN <<>>
               ELSE IF proto \in Metered /\ q > 0 THEN <<<<"measure", "free", q>>>>
               ELSE <<<<"free", q, Traffic>>>>)
  /\ UNCHANGED <<proto, meta, admitted, raw, ssh, carried, slips, sole, calls, clean>>
Lock(p) ==
  /\ Goes(p, "lock") /\ Then(p, IF meta.locked THEN <<>> ELSE LockFor(Head(todo[p])[2]))
  /\ UNCHANGED <<proto, meta, admitted, raw, ssh, carried, slips, sole, calls, clean>>
Free(p) ==
  /\ Goes(p, "free")
  /\ Then(p, IF Over(Head(todo[p])[2], Head(todo[p])[3]) THEN <<>> ELSE Release)
  /\ UNCHANGED <<proto, meta, admitted, raw, ssh, carried, slips, sole, calls, clean>>

\* _ssh_expiry_enforce, after the sync of the same timer.
ExpiryEnforce(p) ==
  /\ p \in Crons /\ Idle(p) /\ proto = "ssh" /\ meta.here /\ meta.past /\ ~meta.locked
  /\ Enter(p, Shut(TRUE) \o <<Set("locked", TRUE), Set("exp_lock", TRUE)>>)
  /\ UNCHANGED <<proto, meta, admitted, raw, ssh, carried, slips, sole, calls>>

-----------------------------------------------------------------------------
\* The panel.

Call(p, script) ==
  /\ p \in Admins /\ Idle(p) /\ calls + slips < MaxEvents[proto] /\ calls' = calls + 1
  /\ Enter(p, script)
  /\ UNCHANGED <<proto, meta, admitted, raw, ssh, carried, slips, sole>>

LockUser(p) == meta.here /\ ~meta.locked
  /\ Call(p, Shut(TRUE) \o <<Set("locked", TRUE)>> \o IF proto = "vmess" THEN <<>> ELSE Rebuild)
UnlockUser(p) == meta.here /\ meta.locked
  /\ Call(p, Shut(FALSE) \o <<Set("locked", FALSE)>> \o IF proto = "vmess" THEN <<>> ELSE Rebuild)

\* renew_user replaces the meta file and puts some fields back one by one; what
\* the traffic API has counted so far is not among them.
RenewUser(p) == meta.here /\ Call(p, <<<<"rewrite">>>>)
Kept(field, none) == IF meta[field] = none THEN <<>> ELSE <<Set(field, meta[field])>>
Rewrite(p) ==
  /\ Goes(p, "rewrite")
  /\ meta' = NewMeta(meta.quota)
  /\ Then(p, (IF proto \in Metered THEN <<>> ELSE Kept("used", 0))
               \o Kept("quota_hit", FALSE) \o Kept("locked", FALSE) \o Kept("exp_lock", FALSE)
               \o <<<<"renewed">>>>)
  /\ ReplacedUnder
  /\ UNCHANGED <<proto, admitted, raw, ssh, carried, sole, calls, clean>>
ExpiryUnlock == Shut(FALSE) \o <<Set("locked", FALSE), Set("exp_lock", FALSE)>>
\* The quota lock of an SSH or hysteria account outlives its renewal.
Renewed(p) ==
  /\ Goes(p, "renewed")
  /\ Then(p, CASE proto = "ssh" /\ meta.exp_lock -> ExpiryUnlock
               [] proto \in Metered /\ meta.locked /\ (meta.exp_lock \/ meta.quota_hit) ->
                    <<Set("exp_lock", FALSE), Set("quota_hit", FALSE), Set("locked", FALSE)>> \o Rebuild
               [] proto = "hysteria" /\ meta.locked /\ meta.exp_lock ->
                    <<Set("exp_lock", FALSE), Set("locked", FALSE)>> \o Rebuild
               [] OTHER -> Rebuild)
  /\ UNCHANGED <<proto, meta, admitted, raw, ssh, carried, slips, sole, calls, clean>>

\* ui_list_users shows what was used, and so measures it.
ListUsers(p) == meta.here /\ proto \in Metered /\ Call(p, <<<<"measure", "shown", 0>>>>)
Shown(p) ==
  /\ Goes(p, "shown") /\ Then(p, <<>>)
  /\ UNCHANGED <<proto, meta, admitted, raw, ssh, carried, slips, sole, calls, clean>>

SetUserQuota(p) == meta.here
  /\ \E q \in Quotas : Call(p, <<Set("quota", q), <<"requoted">>>>)
Requoted(p) ==
  /\ Goes(p, "requoted")
  /\ Then(p, (IF ~meta.quota_hit THEN <<>>
              ELSE <<Set("quota_hit", FALSE)>> \o Shut(FALSE) \o <<Set("locked", FALSE)>>)
             \o Rebuild)
  /\ UNCHANGED <<proto, meta, admitted, raw, ssh, carried, slips, sole, calls, clean>>

\* chpasswd gives a locked SSH account a password it can log in with.
ChangePassword(p) == meta.here
  /\ Call(p, IF proto = "ssh" THEN <<<<"passwd", TRUE>>>>
             ELSE IF proto = "vmess" THEN <<>> ELSE Rebuild)

DeleteUser(p) == meta.here
  /\ Call(p, <<<<"unlink">>>> \o (IF proto = "ssh" THEN Shut(TRUE) ELSE Rebuild))
Unlink(p) ==
  /\ Goes(p, "unlink") /\ Then(p, <<>>)
  /\ meta' = [NewMeta(0) EXCEPT !.here = FALSE]
  /\ ReplacedUnder
  /\ UNCHANGED <<proto, admitted, raw, ssh, carried, sole, calls, clean>>
CreateUser(p) == ~meta.here /\ (proto = "ssh" => ~admitted)
  /\ \E q \in Quotas : Call(p, Shut(FALSE) \o <<<<"write_meta", q>>>> \o Rebuild)
WriteMeta(p) ==
  /\ Goes(p, "write_meta") /\ Then(p, <<>>)
  /\ meta' = NewMeta(Head(todo[p])[2])
  /\ ReplacedUnder
  /\ UNCHANGED <<proto, admitted, raw, ssh, carried, sole, calls, clean>>

-----------------------------------------------------------------------------
\* The tracker of SSH connections: one process at a time holds the lock, the
\* daemon or a sync that makes one round.

Tracking == UNCHANGED <<proto, admitted, raw, carried, sole, calls, clean>>
TrackAt(label) == trk.at = label /\ Idle("tracker")

\* A state file that cannot be read starts over.
TrackStart ==
  /\ proto = "ssh" /\ trk.at = "off"
  /\ trk' = [at |-> "poll", last |-> IF file.torn THEN NoConns ELSE file.last]
  /\ UNCHANGED <<meta, conn, count, file, todo, slips>> /\ Tracking

\* The journal is read from the second of the last line, or from fifteen minutes
\* ago: logins already followed, and already over, are read again.  A connection
\* begins with what ss says it has carried, and counters at 0.
Seed(c) == IF conn[c].is = "open" THEN conn[c].sent ELSE 0
Poll ==
  /\ TrackAt("poll")
  /\ \E new \in SUBSET {c \in Conns \ DOMAIN trk.last : conn[c].is # "none" /\ meta.here} :
       /\ meta' = [meta EXCEPT !.used = @ + Total(Seed, new)]
       /\ trk' = [at |-> "timers", last |-> [c \in DOMAIN trk.last \cup new |->
                                           IF c \in new THEN 0 ELSE trk.last[c]]]
       /\ count' = [c \in DOMAIN count \cup new |-> IF c \in new THEN 0 ELSE count[c]]
  /\ UNCHANGED <<conn, file, todo, slips>> /\ Tracking

\* Every thirty seconds: what the counters grew by since the last flush is
\* billed, closed connections go, and an exhausted account is locked.
Grown(c) == IF Counted(c) > trk.last[c] THEN Counted(c) - trk.last[c] ELSE 0
Followed == IF meta.here THEN {c \in DOMAIN trk.last : conn[c].is = "open"} ELSE {}
\* Mutant: the counter read is not remembered.
RememberedNot(c) == trk.last[c]
Remembered(c) == trk.last[c] + Grown(c)
TrackerLock ==
  <<Set("quota_hit", TRUE)>> \o Shut(TRUE) \o <<Set("locked", TRUE), <<"kill">>>>
Flush ==
  /\ TrackAt("timers")
  /\ LET used == meta.used + IF meta.here THEN Total(Grown, DOMAIN trk.last) ELSE 0
         hit == meta.here /\ Over(meta.quota, used + Live) /\ ~meta.locked IN
       /\ meta' = [meta EXCEPT !.used = used]
       /\ todo' = IF hit THEN [todo EXCEPT !["tracker"] = TrackerLock] ELSE todo
       /\ clean' = (clean /\ (hit => \A p \in Procs : Idle(p)))
  /\ trk' = [at |-> "rebuild", last |-> [c \in Followed |-> Remembered(c)]]
  /\ UNCHANGED <<conn, count, file, slips, proto, admitted, raw, carried, sole, calls>>

\* Every five minutes the table is made anew: every counter starts at 0, and
\* what it held beyond the last flush is lost.
RebuildTable ==
  /\ TrackAt("timers") \/ TrackAt("rebuild")
  /\ count' = [c \in DOMAIN trk.last |-> 0]
  /\ trk' = [at |-> "save", last |-> [c \in DOMAIN trk.last |-> 0]]
  /\ UNCHANGED <<meta, conn, file, todo, slips>> /\ Tracking
\* The daemon goes on, a sync ends.
Save ==
  /\ \E label \in {"timers", "rebuild", "save"} : TrackAt(label)
  /\ file' = [torn |-> FALSE, last |-> trk.last]
  /\ trk' \in {Off, [trk EXCEPT !.at = "poll"]}
  /\ UNCHANGED <<meta, conn, count, todo, slips>> /\ Tracking

\* The daemon dies, during the rewriting of its state file too; systemd
\* restarts it.
TrackCrash ==
  /\ trk.at # "off" /\ calls + slips < MaxEvents[proto] /\ slips' = slips + 1
  /\ trk' = Off /\ todo' = [todo EXCEPT !["tracker"] = <<>>]
  /\ file' \in {file} \cup IF trk.at \in {"timers", "rebuild", "save"} THEN {[file EXCEPT !.torn = TRUE]} ELSE {}
  /\ clean' = (clean /\ Idle("tracker"))
  /\ UNCHANGED <<meta, conn, count, proto, admitted, raw, carried, sole, calls>>

-----------------------------------------------------------------------------
\* The users, the services and the machine.

Login(c) ==
  /\ proto = "ssh" /\ admitted /\ conn[c].is = "none"
  /\ conn' = [conn EXCEPT ![c].is = "open"]
  /\ UNCHANGED <<meta, count, file, trk, todo, slips>> /\ Tracking
Close(c) ==
  /\ conn[c].is = "open" /\ conn' = [conn EXCEPT ![c].is = "closed"]
  /\ UNCHANGED <<meta, count, file, trk, todo, slips>> /\ Tracking
CarrySsh(c) ==
  /\ conn[c].is = "open" /\ carried < MaxBytes /\ carried' = carried + 1
  /\ conn' = [conn EXCEPT ![c].sent = @ + 1]
  /\ count' = IF c \in DOMAIN count THEN [count EXCEPT ![c] = @ + 1] ELSE count
  /\ UNCHANGED <<proto, meta, admitted, raw, file, trk, todo, slips, sole, calls, clean>>
Carry ==
  /\ proto # "ssh" /\ admitted /\ carried < MaxBytes /\ carried' = carried + 1
  /\ raw' = raw + 1
  /\ UNCHANGED <<proto, meta, admitted, ssh, todo, slips, sole, calls, clean>>

\* Xray and V2Ray also restart for other accounts, and by their watchdogs.
Restart ==
  /\ proto \in Metered /\ raw > 0 /\ raw' = 0
  /\ UNCHANGED <<proto, meta, admitted, ssh, todo, carried, slips, sole, calls, clean>>
Expire ==
  /\ meta.here /\ ~meta.past /\ meta' = [meta EXCEPT !.past = TRUE]
  /\ UNCHANGED <<proto, admitted, raw, ssh, todo, carried, slips, sole, calls, clean>>
Reboot ==
  /\ calls + slips < MaxEvents[proto] /\ slips' = slips + 1
  /\ clean' = (clean /\ \A p \in Procs : Idle(p))
  /\ todo' = [p \in Procs |-> <<>>]
  /\ conn' = [c \in Conns |-> IF conn[c].is = "open" THEN [conn[c] EXCEPT !.is = "closed"] ELSE conn[c]]
  /\ count' = NoConns /\ trk' = Off /\ raw' = 0
  /\ UNCHANGED <<proto, meta, admitted, file, carried, sole, calls>>

Command(p) ==
  \/ SetField(p) \/ Passwd(p) \/ Collect(p) \/ Install(p) \/ KillConns(p)
  \/ Measure(p) \/ Tally(p) \/ Grow(p) \/ First(p) \/ Judge(p) \/ Lock(p) \/ Free(p)
  \/ Rewrite(p) \/ Renewed(p) \/ Requoted(p) \/ Unlink(p) \/ WriteMeta(p)
  \/ Shown(p)
Tracker == TrackStart \/ Poll \/ Flush \/ RebuildTable \/ Save
Panel(p) ==
  \/ LockUser(p) \/ UnlockUser(p) \/ RenewUser(p) \/ SetUserQuota(p)
  \/ ListUsers(p) \/ ChangePassword(p) \/ DeleteUser(p) \/ CreateUser(p)
Environment ==
  \/ Carry \/ Restart \/ Expire \/ Reboot \/ TrackCrash
  \/ \E c \in Conns : Login(c) \/ Close(c) \/ CarrySsh(c)

Next ==
  \/ \E p \in Procs : Command(p) \/ Enforce(p) \/ ExpiryEnforce(p) \/ Panel(p)
  \/ Tracker \/ Environment

\* Calls run to their end; cron starts every five minutes; systemd restarts the
\* tracker and its loop goes on.
Fairness ==
  /\ \A p \in Procs : WF_vars(Command(p))
  /\ \A p \in Crons : WF_vars(Enforce(p))
  /\ WF_vars(Tracker)
Spec == Init /\ [][Next]_vars /\ Fairness

-----------------------------------------------------------------------------
\* Properties.

\* Traffic is billed once: the seeds, counters, flushes and rebuilds of the
\* tracker, and the readings of the API, never add up to more than was carried;
\* each crash, each measure that failed or that another overlapped, and each
\* account replaced under a measure bills at most everything carried
\* until then once more.
BilledAtMostCarried == meta.used <= (1 + slips) * carried

\* After calls that ran one at a time and to their end, the tunnel admits whom
\* the flags say: nobody it should not, and everybody it should.  A new password
\* lets a locked SSH account in, and the lock of an Xray account waits for the
\* next configuration: see LockedIsShutOut.
AtRest == \A p \in Procs : Idle(p)
SettledAsDecided ==
  clean /\ AtRest /\ proto # "vmess" =>
    /\ admitted => meta.here /\ (meta.locked => proto = "ssh")
    /\ meta.here /\ ~meta.locked /\ ~meta.past => admitted

\* "SSH is locked" (quota_enforce), "Locked" (menu): a locked account is not
\* admitted once the call that locked it has ended.
LockedIsShutOut == clean /\ AtRest /\ meta.here /\ meta.locked => ~admitted

\* "Blocks the accounts that have passed their quota; lets an account in again
\* once its quota is raised and it is below" (quota_enforce), if no two calls
\* overlap and none is cut short.
Disturbed == meta.past \/ ~meta.here \/ ~clean
Obeyed ==
  /\ Over(meta.quota, meta.used) => meta.locked /\ (admitted => proto = "ssh")
  /\ Held => Over(meta.quota, Traffic)
QuotaIsEnforced == []<>(Obeyed \/ Disturbed)
=============================================================================
