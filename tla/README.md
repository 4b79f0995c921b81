# Formal models of the zivpn server and of its panel

The repository is a VPN product in two halves that meet in a few files:

* `zivpn-clone/source`, a Go fork of the Hysteria 2 proxy. Its server
  authenticates clients by password, relays their TCP streams and datagrams, and
  counts the bytes of every password against a quota in a state file;
* `install2.py`, the panel "kighmu" that runs as root on the same machine. It
  creates, renews, locks and deletes accounts for half a dozen tunnels, writes the
  configuration of the server, edits the server's state file, and runs from the
  menu, from Telegram bots and from cron, without a daemon of its own. It installs
  the tunnels, sells accounts through resellers, and is itself under a licence that
  `ventes_v3.sh` sells, and that removes it when it ends.

What makes the product correct is agreement between copies: the counters in the
memory of the server, in `quota-state.json` and in its mirror; the accounts in their
meta files, in the registry of issued passwords, in the quarantine and in
`config.json`; sessions in a map and the goroutines that serve them. The modules
here model those copies, the steps at which they change, and everything that may
come between two steps. TLC checks them on small instances; TLAPS
proves the invariants, in eight modules of proofs, for every instance.

Paths below are relative to the root of the repository, except that `source/` is
short for `zivpn-clone/source/`.

## 1. Inventory

### Server

| Component | State | Operations | Meets | Hard because |
|---|---|---|---|---|
| quota logger, `source/extras/trafficlogger/quota.go` | `Used`, `Month`, the mutex; `quota-state.json` and `.bak` | `load`, `Log`, `ResetUser`, `ResetAll`, `Used`, `SaveState`, roll-over of the month | relays and datagrams call `Log`, the saver calls `SaveState`, the statistics service resets, the panel edits the files | the process is only ever killed; a save is two writes; files may be damaged |
| set-up and saver, `source/app/cmd/server.go` | none of its own | `fillAuthenticator`, `fillTrafficLogger`, `runQuotaStateSaver` | reads `config.json`, builds the logger | a logger exists only if some password had a quota at the start; an empty password list is fatal |
| UDP sessions, `source/core/server/udp.go` | session map under a read-write lock, entries without one | `Run`, `feed`, `cleanup`, `idleCleanupLoop`, `receiveLoop` | one per connection | main loop, cleaner and one goroutine per session close and delete the same entries |
| connections, `source/core/server/server.go`, `copy.go` | `authenticated`, `authID`, streams, sockets | `ServeHTTP`, `ProxyStreamHijacker`, `handleTCPRequest`, `copyTwoWayWithLogger`, `udpIOImpl` | quota logger and statistics logger through `multi.go` | a handler and two relays per stream, of which only the first report is read |
| statistics logger, `source/extras/trafficlogger/http.go` | traffic and kick maps under a mutex | `Log`, `/traffic`, `/kick`, `/online` | asked after the quota logger | a kick is used up by whoever asks first |
| statistics service, `source/extras/statsservice/server.go` | none | query, query with reset | quota logger | read and reset are two calls |
| fragmentation, `source/core/internal/frag`, `protocol` | the packet being reassembled | split, feed | UDP sessions of both sides | loss, repetition, reordering, 8-bit counts |
| congestion control, `source/core/internal/congestion` | ring buffers, queues, filters, pacer | on packet sent, acknowledged, lost | QUIC | numeric limits |
| client, `source/core/client`, `extras/transport/udphop`, `app/cmd/client.go`, `app/internal` | client sessions, current connection, two sockets of a hop | dial, reconnect, hop, local listeners | server | a reconnection races its users, queues fill up |
| outbounds, resolvers, ACL, `source/extras/outbounds` | a cache of rules | dial, resolve, match | connections | mostly stateless I/O |
| authenticators, obfuscation, masquerade | none | conversions | connections | stateless |

### Panel

| Component | State | Operations | Meets | Hard because |
|---|---|---|---|---|
| zivpn accounts, `install2.py` 317-1502, 3446-3788, 5480-5522 | meta file per account, `issued-passwords.txt`, `quarantine.json`, `config.json`, backups | create, delete, renew, set quota, lock, unlock, change password, block, unblock, `quota_enforce`, `zivpn_quota_guard`, `zivpn_apply`, backup | restarts and stops the server, edits its state file | every call is a process; cron starts `--quota-enforce` from two binaries and the guard in the same minute; only single fields of a meta file are locked |
| accounts of the other tunnels (ssh, xray, v2ray dns, hysteria), 3446-3788 and the helpers they call | the same meta files; `passwd`, the configurations of Xray, V2Ray and Hysteria | the same calls, `quota_enforce`, the SSH timer | their services, the traffic API of Xray | which call rebuilds which configuration differs from tunnel to tunnel; the traffic API forgets at a restart |
| SSH traffic tracker, 5312-5660 | counters per connection in a state file and in nftables, `used` of the account | journal, seed, flush, rebuild, enforce | sshd, nftables, meta files | a crash between two files; live counters added to totals |
| tunnel installers, 1557-3442 | binaries, units, nftables tables and files, crontab, `haproxy.cfg` | `install_*`, `uninstall_*`, all at once, removal of everything | systemd, nftables, cron and its watchdogs | a function is a script that may stop anywhere, beside cron that restarts and reloads |
| licence, 3376-3442, 4620-5080, and sales, `ventes_v3.sh` | token, local table of sales, watchdog units, clock of the grace period | check, watchdog, check-in, complete removal; create, sign, renew, suspend, expire | the seller's table, over HTTP | two tables, a token with a date of its own, a removal that may stop itself |
| resellers and bots, 5053-5212, 5874-7123 | table of resellers, tag of each account, conversations | set up, sell, renew, hand over, delete, nightly cleanup | Telegram, the operations on accounts | a conversation decides at one message what it does at a later one; a process per bot |
| `install.sh`, `scripts/` | none | shell commands | | run once |

`sshws/sshws.go` is a separate one-relay-per-connection proxy, and
`fasto/raw/main/` holds older copies of the panel and of the sales script.

What each modelled component has to get right:

* **quota logger** – a count that was saved is never lost and never inflated, a
  quota is enforced through restarts, and what is counted becomes durable;
* **UDP sessions** – every goroutine and socket stays within reach of a cleanup,
  one live session per ID, the end of the connection releases everything;
* **connections** – the quota holds across parallel streams, one session manager,
  no goroutine outlives what it serves, a refusal disconnects;
* **accounts, one call at a time** – served are exactly the active accounts, a
  password has one owner, a counter follows its account and is gone when the
  password is released, usage is billed once;
* **accounts of the other tunnels** – traffic is billed once, the tunnel admits whom
  the flags say, a quota is enforced;
* **installers** – a full installation serves and survives a reboot, a removal leaves
  nothing, a port range reaches the tunnel it belongs to;
* **licence** – only issued keys run, a valid panel is kept, a revoked one goes;
* **resellers** – each within its limit and its own accounts, an expired one is cleaned up;
* **accounts, overlapping calls** – the server runs on the list that is on disk, the
  list on disk ends up as decided, a purge is final, an exhausted account ends up
  locked whatever the refreshes do to each other.

`PROJECT.json` lists every component with its status, and under `hazards` what in
this code is hard to test, at the line where it bites, with the properties that
would catch it or the reason there is none yet.

## 2. Modules

    DurableCounter                abstract: a counter between a floor and a ceiling
      ^ INSTANCE (refinement)
    QuotaLogger                   quota.go, saver, process    MCQuotaLogger
      ^ EXTENDS
    QuotaLoggerProofs             4 theorems

    UDPServerSessions             core/server/udp.go
    ServerConnection              server.go, copy.go, http.go, multi.go
      ^ EXTENDS both
    ServerProofs                  4 theorems on sessions, 3 on connections

    ZivpnPanel                    install2.py, call by call   MCZivpnPanel
      ^ EXTENDS
    ZivpnPanelProofs              6 theorems: owners, who is served, the counters

    ZivpnApply                    install2.py, access by access: files and service
      ^ EXTENDS
    ZivpnApplyProofs              2 theorems
    ZivpnUsage                    install2.py, access by access: traffic and flags

    TunnelAccounts                install2.py, ssh, xray, v2ray dns, hysteria  MCTunnelAccounts
      ^ EXTENDS
    TunnelAccountsProofs          3 theorems
    Tunnels                       install2.py, installers     MCTunnels
      ^ EXTENDS
    TunnelsProofs                 5 theorems
    PanelBots                     install2.py, resellers      MCPanelBots
      ^ EXTENDS
    PanelBotsProofs               4 theorems
    Licence                       install2.py, ventes_v3.sh
      ^ EXTENDS
    LicenceProofs                 3 theorems

The three modules on zivpn accounts describe the same code at different grains, because the grains do not
multiply: `ZivpnPanel` has all operations, all files and all fields but each call is
one step; `ZivpnApply` splits the calls at every access to the shared files and to
the service but knows of an account only whether it exists, is locked and has a
quota; `ZivpnUsage` splits the computation of the traffic of one account and what
`quota_enforce` makes of it. What one of them leaves arbitrary another computes:
`ZivpnApply` lets `quota_enforce` lock or free any account, `ZivpnUsage` says when.

### DurableCounter and QuotaLogger

A counter per password (`used`), its value at the last confirmed save (`floor`) and
the largest value a copy of it has had since (`ceil`). `DurableCounter` says only that
counting raises it, a save may move the floor up to it, a reset takes it to zero, and
a restart puts it anywhere between the floor and the ceiling.

`QuotaLogger` is the code. Each method of `QuotaTrafficLogger` enters the mutex
(`Enter`), which first rolls the month over (a save, and no reset: the counters
are for life), does its body, and for a save replaces first the main file and then
the mirror (`WriteMain`, `WriteBak`), each of which may fail. `Crash` may come between
any two stages, since the server installs no signal handler. `Boot` loads the main
file, else the mirror, else nothing. A damaged file is "torn" (unparsable, or its
checksum is wrong) or "bare" (JSON that decodes to an empty state, which the loader
takes for the format of version 0).

`QuotaLogger` instantiates `DurableCounter` with its own counters and histories
(`Abstract`), and `ImplementsDurableCounter` is the refinement.

Histories: `floor`, `ceil`, `passed` (bytes let through) and `excused` (bytes a reset
forgave or a crash lost).

### UDPServerSessions

Sessions are numbers, standing for `*udpSessionEntry`. The main loop (`pc`) receives,
looks up, dials, inserts, feeds and cleans up; the receive loop of a session reads,
reports and deletes its ID; `cleanup` is a scan that holds the read lock from its
first entry to its last and marks and closes one entry per two steps. The new
goroutine runs from the moment `Dial` has created the session, that is before
`Insert`. `Age` stands for the passing of the idle time. Its initial states, steps and
specification are `SessionsInit`, `SessionsNext` and `SessionsSpec`, and the report of a
session is `ReportEnd`, so that one module can prove about sessions and connections.

### ServerConnection

Authentication requests that race for `authMutex`, the two unsynchronised fields they
set, a handler per stream that dials, waits for the first of two reports, closes both
sockets and perhaps the connection, the two relays with one chunk in hand each, the
datagrams of the session manager, and the loggers: `WithinQuota` charges before it
answers, `Admitted` asks the quota logger first and the kick list only if that agrees.
Data is counted in chunks. A write to the client may block for as long as the
connection is open.

### ZivpnPanel

`live` and `meta` are the meta files, `registry`, `quarantine`, `conf`, `state`, `bak`,
`backups` the files under `/etc/zivpn`, `proc` the server with its loaded configuration
and its memory. An action per operation makes every change the operation makes, the
final `zivpn_apply` (`Apply`) included, which restarts the server if `config.json`
changed. The server counts (`Use`), flushes and restarts in between, accounts expire,
and the state file may become unreadable (`DamageState`), which a purge, a renaming
and a refresh each take in their own way and the guard repairs. Reading traffic
(`Synced`) changes the meta file and is part of the operations that do it; `SyncUsage`
is the command that does it for all accounts, and `Restore` the command that puts a
backup in place of the state file.

### ZivpnApply

A process per cron command and administrator, with a frame that holds what it has
read. A call writes its field, or for a deletion unlinks the meta file, stops the
server, purges the state file (in place: `Purge` truncates, `Purged` writes) and
its mirror, and then applies: `ReadAuth`, `ReadQuota`, `Look` (the bytes of
`config.json` before), `Replace`, `Check` (the bytes after), `Restart`. The guard starts
a stopped server, computes what it expects, seeds the registry, repairs the state
file, fills an empty list with a placeholder or compares and applies, and cools down.
A process may be killed at any step.

### ZivpnUsage

`get_zivpn_traffic` as its accesses (`ReadRaw`, `ReadStored`, `ReadLast`, `AddGrowth`,
`Remember`, `Seed`, `Plant`), called by `quota_enforce` three times per run: for
display, to judge, and to see whether a locked account may be freed. `Hit`, `Cut`, `Release`
and `Restore` are its four single-field writes. An administrator locks, unlocks,
sets a quota or renews; a renewal rewrites the meta file without the traffic fields
and puts them back one by one.

### TunnelAccounts

One account of one tunnel. A call is its script (`todo`), the list of writes it makes;
one write is one step, so that calls interleave and a reboot falls between any two.
`meta` is the meta file, `admitted` whether the tunnel lets the account in, `raw` the
counter of the traffic API, which a restart of the service loses. For SSH the tracker
follows connections: `Poll` reads the journal of sshd, `count` are the nftables counters, `trk` and
`file` how far it has billed each connection, in memory and on disk. `slips` counts what
excuses double billing (a crash, a measure that failed or that another overlapped, an account replaced
under a measure), and `clean`
says that no two calls overlapped and none was cut short. A measure of the traffic API is as many steps as
the code has accesses: the query (`Measure`), the reading of the total (`Tally`), that of the last value (`Grow`), the
writes of the two, and the total taken from the counter where there was none (`First`). `sole` is the process that
queried last, if it was answered and nobody else was between its query and its last write. VMess stands for VLESS,
and for Trojan but where its password is changed: `change_password` rebuilds the configuration
for Trojan (`install2.py` 3642-3644) and for neither of the other two.

### Tunnels

A function `install_*` or `uninstall_*` is its script, a sequence of commands; `host` is
what the commands change (binaries, directories, units, enabled and running services,
tables, their files, the crontab, `haproxy.cfg` as it is and as HAProxy runs it). A job of
the menu runs one command per step, and a job ends early where a command fails or, for a
binary that hangs under test, raises (`Raise`). `Watch` is the cron watchdog that removes foreign
NAT rules and reloads tables; it replaces the table of SlowDNS with two commands, so that there is
a moment without one (`WatchDrop`, `WatchReload`), and for good when the file has gone meanwhile.
Repairing HAProxy is two commands as well, a new certificate file and a restart if the configuration is
valid then. `Cron` stands for the lines of the crontab that restart dead services. `Route` says
which tunnel a port reaches under the loaded tables.

### PanelBots

The table of resellers (`row`), the service of each bot, the tag of each account, and a
conversation with the administrator and with each client of a reseller. A button may be
pressed whenever its message is on the screen; a text goes to the step the conversation is
at. An update that writes several things is its script, one write per step, and so is the
nightly cleanup, whose changes to the table are `pending` until it commits. Reading the owner
of an account and deleting it are two steps (`Delete` or `Sweep`, then `Remove`), and so are
finding a name free and writing its meta file (`Create`, `WriteMeta`). History `others`: the accounts of
others that were there when the bot of a reseller last looked, and since.

### Licence

The table of the seller (`sold`) and the local one (`row`), one and the same where
`ventes_v3.sh` runs on the machine (`shared`); the token (`file`) with a date of its own; the
timer and the crontab line of the watchdog; and four processes: the menu, the run of the
timer, the run of the crontab, and a command with arguments (`--license-checkin`, `--auto-uninstall`). Each goes through the stages check, question to the
server, and removal, and the removal is four steps, of which the third stops the unit it may be
running under. A read of the local table may fail at every place the code reads it.

## 3. What the runs check

| Run | Properties | Shows |
|---|---|---|
| `quota_logger` | `TypeOK`, `CountersBracketed`, `QuotaEnforced`, `ImplementsDurableCounter`, `EventuallyDurable` | crashes, failed writes and one damaged file at a time neither lose nor inflate what a save confirmed; the logger refines `DurableCounter`; what is counted reaches both files |
| `udp_sessions` | `LiveIsReachable`, `OneLivePerId`, `OpenHasLoop`, `StopReleasesAll`, `IdleIsClosed` | no goroutine or socket gets out of reach, though loops delete by ID and start before they are inserted |
| `server_connection` | `TypeOK`, `QuotaBoundsTraffic`, `OneManager`, `RelaysEnd`, `ClosedReleasesAll` | parallel streams and datagrams together stay within the quota, except for what streams dialed before the identity was set carry; relays end once their handler has, except in a write the client does not take; nothing survives the connection |
| `zivpn_panel` | `TypeOK`, `ServedAsDecided`, `PasswordHasOneOwner`, `ReleasedLeavesNoCounter`, `CounterFollowsAccount`, `BilledOnce` | after every call the copies of an account agree; released passwords leave no counter anywhere; usage is billed once while the state file is readable |
| `zivpn_apply` | `TypeOK`, `ServerIsCurrent`, `ConfConverges` | with calls overlapping anywhere the server runs on what is on disk, with two exceptions that the property names, and the file ends up as decided |
| `zivpn_usage` | `ExhaustedIsLocked` | two refreshes that overwrite each other, or one beside a call (a renewal, an unlock, a new quota) or a torn state file, do not keep an exhausted account free |
| `accounts` | `BilledAtMostCarried`, `SettledAsDecided`, `QuotaIsEnforced` | tracker and traffic API bill once, but for what each crash, failed or overlapping measure, and replacement of the account under a measure repeats; after calls that ran alone the tunnel follows the flags; quotas are enforced |
| `accounts_locked` | `LockedIsShutOut`, violated | an account whose lock was announced is still admitted: first finding |
| `tunnels` | `FullInstallServes`, `FullInstallRecovers`, `PurgeLeavesNothing`, `TableHasFile`, `RangesReachTunnel` | what full installation, full removal and port rules promise holds after any history of jobs, kills and reboots beside cron |
| `bots` | `RemovedLeavesNoAccount`, `WithinLimit`, `OwnAccountsOnly`, `ExpiredIsCleaned` | resellers stay within their accounts and their limit, whatever happens between two messages, and the cleanup starts over after a crash |
| `licence` | `RunsOnlyIssued`, `ValidIsKept`, `RevokedIsRemoved` | only issued keys run; no step begins the removal of a panel with a valid licence but in the cases the property names; a signed token that may not run any more is deleted in the end if the watchdog could run then, unless the bot is removed first or a reboot interrupts a removal |
| `licence_renewed` | `RenewedIsKept`, violated | a renewed licence is removed on the day its first token named: second finding |

Every property of a passing run has a mutant in its module, a plausible slip in one
definition (a dropped guard, a missing reset, a swapped order), under which the run
fails. `CHECK_DEADLOCK FALSE` is in every configuration but those of the licence: the other
systems may rest (a stopped connection, no cron started, the bound on data used up).

The two violated runs state what the repository says of itself and find a behaviour of
the code that contradicts it:

1. `install2.py:3610` – `lock_user` rebuilds no configuration for VMess, VLESS and Trojan, so Xray goes
   on admitting the account the menu calls locked; `change_password` gives a locked SSH
   account a valid password.
2. `install2.py:4930` – the watchdog compares the date inside the token before it looks at
   the table, and a renewal changes only the table.

### Known divergences

Met while modelling. Each is a choice of a module, so the properties above hold in spite of
it or name it as an exception; no run of its own shows it.

Server:

* `quota.go:172` – versions below 2 need no checksum, and `{}` has version 0, so a file
  damaged into a bare `{}` or `null` zeroes the counters although the mirror is sound
  (`DamageKinds` has "bare" for it; `quota_logger` runs without).
* `udp.go:193` – `go receiveLoop` comes before the insertion; a loop that fails at once deletes
  nothing, and the entry inserted afterwards stays in the map with a closed socket.
* `copy.go:47` – the channel holds two reports and one is read. A refusal that is the
  second does not disconnect the client, and a kick is used up by it.
* `server.go:129-130` – `h.authenticated` is set before `h.authID`, and a stream reads both
  without the mutex (`server.go:187`, `226`). One that is dialed in between relays for as long as it lives
  without an identity, so nothing it carries is charged, refused or kicked. `QuotaBoundsTraffic`
  counts these chunks (`nameless`), excepts them, and excepts nothing where no such stream is.

Accounts of zivpn:

* `install2.py:3649` – `change_password` releases the old password without taking it
  out of the quarantine, and `create_user` only looks for residues of registered passwords; so lock,
  change of password, renewal and creation may serve a quarantined password.
* `install2.py:1409` – the stop–purge–start order of `delete_user` holds against
  the server's own flush and not against `systemctl start` of the guard, nor
  against the restart of an overlapping `zivpn_apply`: the purged password may be counted
  and saved again.
* `install2.py:5498` – the read–add–write of the lifetime total takes the lock of
  the meta file for each field and not for the whole: two crons of one minute bill a growth twice.
* `install2.py:5490-5491` says the server resets the counters every month
  (`rolloverLocked`); `quota.go` only changes the month. The branch that handles a
  reset is taken when the state file is unreadable, and then bills again.
* While `quota-state.json` is unreadable, `_zivpn_forget_password` and
  `_zivpn_migrate_state_key` fail silently and the password is released all the same;
  the next owner inherits the counter of the mirror (`CONTRAT_QUOTA.md:14-16`), and
  the guard refreshes totals (1428) before it repairs the file (1442).
  `ReleasedLeavesNoCounter`, `CounterFollowsAccount` and `BilledOnce` are therefore stated
  for a state file that was never damaged.
* A call that is killed between the replacement of `config.json` and the restart
  leaves the server on the old list for good: the guard compares the file with the
  accounts, never the server with the file. Two overlapping applies have the same
  effect when the one replaces what it computed earlier over what the other has
  just written and finds the bytes it had seen before (1073-1076). `ServerIsCurrent` excepts
  exactly these two (`killed`, `raced`).
* With an empty password list the server does not start, and the guard returns at
  1412 before it would compare or fill anything; `ConfConverges` excepts it.
* `install2.py:5241-5263` – the query of a traffic API, the reads of the total and of the last value and
  the two writes take the lock of the meta file one by one or not at all. Two measures that overlap (a list of users
  beside a cron) bill one growth twice, and so does a measure under which the account is renewed, or deleted and
  created, since the last value starts over while the total that was read does not. `BilledAtMostCarried` allows each once (`slips`).
* `install2.py:3563` – a renewal of an SSH account rewrites the meta file and then puts the old
  total back field by field. If another menu deletes the account and creates it again in between, the
  new one is billed for the old one. The run has one administrator, and `OneAdmin` is the
  assumption of the theorem.
* `quota_enforce` sets `quota_hit` and then `locked`; a reboot or a new quota between the two
  leaves an account locked that nothing frees (3688-3692). `QuotaIsEnforced` is stated for calls
  that neither overlap nor are cut short.

Tunnels, resellers, licence:

* `install2.py:1910` – `install_ssl_tls` alone (and `install_sshws` alone) sends the SSH ports to a
  balancer (1092) that only other installations start; `FullInstallServes` asks for all of them.
* `install2.py:7022` – the bot of a reseller checks the owner of an account when it asks for
  the quota, and not again when it sets it; `OwnAccountsOnly` excepts it.
* `install2.py:482-491`, `447` – `create_user` looks whether a name is free and writes the meta file later,
  without a lock; the tag follows later still. Of two processes that create one name at the same time the later
  overwrites the account of the earlier, and a reseller's bot tags what is there by then as its own.
  Likewise what it has found to be its own may be somebody else's when it is renewed or deleted. `OwnAccountsOnly`
  therefore speaks of the accounts that were there when the bot last looked (`others`).
* `install2.py:7044-7052`, `5174` – an account is created and tagged in two steps: one that a crash leaves without
  a tag counts for no limit and outlives its reseller, and one that is tagged while the cleanup walks through its list
  may be left behind. `RemovedLeavesNoAccount` excepts the second (`late`) and does not see the first.
* `install2.py:1753-1754` – the watchdog deletes the table of SlowDNS before it loads it again.
  While it does, a query on port 53 reaches whatever another table says. `RangesReachTunnel` and
  `FullInstallServes` except that moment, for that tunnel (`Reloading`).
* `install2.py:1634` – the catch-all of UDP custom excludes the ports of the tunnels that were there when it was
  written. A range installed since is decided by its own table, which comes first, so no property of port ranges is
  touched, and none would notice other exclusions; the range of a tunnel removed since stays excluded until UDP custom is installed again.
* `install2.py:3393-3396` – run by its own timer, the removal stops the unit it is running under
  and is killed there: accounts, panel and crontab stay. `RevokedIsRemoved` asks for the token to go,
  which it does, since the token is deleted three lines earlier (3389).
* `install2.py:3386` – the removal takes the bot, and with it the program the watchdog runs
  (4806), before it takes the token. A reboot in between leaves the panel with its revoked token, and
  nothing goes on with the removal until somebody opens the menu. An administrator who removes the bot in the
  menu has the same effect. `RevokedIsRemoved` names both (`cut`).
* `install2.py:4882-4895` – when the table fails before the name of the client is known, the menu stores the
  token and then ends with a `NameError`; the panel runs the next time it is started.
* `install2.py:7111` – `--auto-uninstall` removes everything without a licence, a menu or a confirmation.
* `install2.py:4984-4996` – the hours of grace run on while the machine is off: after a longer
  pause the first query that fails removes a valid panel. `ValidIsKept` measures grace
  from the last contact, as the code does.
* Once its local table is gone, the signed token of a suspended licence is accepted again by
  the menu, which enters it into a new table.

## 4. Bounds, and why they are enough

* `quota_logger`: two passwords, one with a quota of 1 byte and one without limit,
  so that a reset of one differs from a reset of all; 2 bytes per password, of
  calls of 1 and 2, so that a call straddles the quota; an earlier run that
  counted 0 or 1; two faults, so that a crash can follow a failed write or a damaged
  file; one change of month. A third fault repeats the state after the first, since a
  save makes both files sound.
* `udp_sessions`: two sessions on two IDs or on one. Hazards here concern two
  sessions under one ID, or one session and one scan; two scans run in parallel.
* `server_connection`: two requests, two streams with four relays, one chunk of quota
  and two of data, one kick: a chunk within the quota, one that is refused, on one stream or
  on both at the same time.
* `zivpn_panel`: two logins, two passwords, a unit of data, a quota of one unit
  or none, one damage, and at most one account once the damage is done (`SmallOnceDamaged`: the
  other account has the same choices). Two owners and two passwords suffice for
  an exchange of passwords; logins and passwords are symmetric, and this run has no
  liveness property, so symmetry is sound.
* `zivpn_apply`: one account with a quota, one `quota_enforce`, one guard and one
  administrator, two events, each a call that changes an account or a kill. The guard
  runs as often as it likes. Three writers of `config.json` overlap: two calls and
  the guard. The invariants are proved for any number of each; the account stands for
  the one the calls disagree on.
* `zivpn_usage`: one account, two `quota_enforce` for ever (cron starts one from each of two binaries
  in the same minute) and an administrator, of whom any two overlap at every access; quotas of one and
  two units, two units counted, and one event, a call of the administrator or a rewriting of the
  state file. The quota of two is the one that is first missed and then reached, and two units let one
  refresh remember a counter that is older than the one the other has billed. The guard refreshes as the
  first of the three refreshes of `quota_enforce` does, so a guard adds no overlap that two enforcers
  lack.
* `accounts`: an SSH, a V2Ray or a Hysteria account with a quota of one unit or none, two units carried, one
  connection, one cron and one administrator, who overlap where calls measure the traffic API (V2Ray) and
  not beside the tracker, and one (SSH) or two calls or faults. One unit on either side of a flush, a rebuild or a crash
  suffices to bill it twice. `accounts_locked` takes SSH and VMess without connections.
* `tunnels`: three jobs out of installing or removing UDP custom (the one tunnel whose
  rules depend on the others), all missing tunnels or all active ones, or removing everything; one
  fault. `SpoiledIsPurged` tries only a complete removal after a fault, and before it the repair of HAProxy where
  that finds something to do, and lets the last job be one over all
  tunnels, since every property but the one on port ranges speaks of those.
* `bots`: one reseller with a limit of 1 or 2, whose bot is public behind a code or answers one Telegram user;
  two accounts, one chat, three buttons, one crash. A conversation of two messages and one interference between them are three.
* `licence`: two days, no hours of grace beyond the day, one failure of the table, one reboot or one removal by command,
  three acts of the seller (create, sign, and one of renew, suspend, expire).

## 5. Fairness

Only what the code's scheduling promises:

* quota logger: systemd restarts the service (`WF(Boot)`), a call that has the mutex
  finishes (`WF(Step)`), the ticker of the saver fires for ever and Go's mutex starves
  nobody (`SF(Enter(SaveCall))`);
* UDP sessions: goroutines are scheduled, and a goroutine that waits for the write lock
  gets it in the end, because a waiting writer holds back new readers (`SF` on
  `Insert` and `Delete`). No message is promised and no socket fails by itself;
* connections: goroutines are scheduled; a dial ends once the connection is gone; a
  read ends when its socket is closed; a write towards the client ends only when the
  connection is gone, a write to the remote host is assumed to be taken or to fail. The
  client owes nothing;
* zivpn: a process that runs goes on, cron starts the guard and `quota_enforce` for ever, the saver ticks, the
  cooldown ends. Administrators and clients owe nothing, and a killed process ends
  where it was;
* accounts of other tunnels: calls run to their end, cron starts `--quota-enforce` for ever, systemd restarts
  the tracker;
* installers: cron runs its watchdog and its restart lines for ever (`Watch`, `Cron`); a job of the menu owes nothing;
* resellers: a script goes on (`Command`), cron starts the cleanup every day (`Cron`, `Cleanup`);
* licence: the timer fires for ever, and a process that asks the server or removes the panel goes on.

## 6. Proofs

| Theorem | Statement | Argument |
|---|---|---|
| `QuotaLoggerProofs!TypeCorrect` | `Spec => []TypeOK` | inductive as it stands: the mutex is held exactly while a call of the running process is inside |
| `QuotaLoggerProofs!QuotaSafe` | `Spec => []QuotaEnforced` | with `ChargeInv`: what passed is at most what is counted plus what was excused. `QuotaEnforced` alone is not inductive, since it does not mention the counter that the next decision is taken on |
| `QuotaLoggerProofs!Durable` | `Spec => []CountersBracketed` if "bare" is no kind of damage | with `FilesInv`: every sound file is between floor and ceiling, at least one is sound once something was saved, the main file of a save in progress already has the value the mirror is about to get |
| `QuotaLoggerProofs!Refinement` | `Spec => ImplementsDurableCounter`, same assumption | initial states map to initial states, and every step to a step or a stutter, under `TypeOK` and `FilesInv` |
| `ServerProofs!Reachable` | `SessionsSpec => []LiveIsReachable` | `MapInv`: a live loop owns its ID or its session is being inserted; what the main loop looked up as absent is still absent when it inserts; the session being inserted is the newest; an entry is filed under its own ID |
| `ServerProofs!OneLive` | `SessionsSpec => []OneLivePerId` | two live sessions with one ID would both be what the map holds under it |
| `ServerProofs!SessionsTypeCorrect` | `SessionsSpec => []SessionsTypeOK` | inductive as it stands |
| `ServerProofs!OpenIsServed` | `SessionsSpec => []OpenHasLoop` | a loop leaves its socket open only after its entry was marked, and a scan that has marked an entry closes it before anything else (`MarkedIsClosed`); only sessions that exist are marked (`ScansExisting`, with `MapInv`) |
| `ServerProofs!TypeCorrect` | `Spec => []TypeOK` | with `RelayInv`: a stream whose relays have not started has no report, and the relays that ended are the reports in the channel and the one taken, so a report never finds the channel full |
| `ZivpnPanelProofs!OneOwner` | `Spec => []PasswordHasOneOwner` | with `MetaOK`, the types of the fields the argument needs; one step per operation, since every operation that assigns a password looks for it first and registers it |
| `ZivpnPanelProofs!TypeCorrect` | `Spec => []TypeOK` | what `zivpn_apply` writes is typed if the accounts are, and a server that is not restarted runs with a list that did not change |
| `ZivpnPanelProofs!Served` | `Spec => []ServedAsDecided` | with `OneOwner`: the quota of a password is the largest of those who share it, which is the owner's only because there is one (`WantedServes`). An operation ends in `zivpn_apply` (`ApplyServes`) or changes nothing the list is made of (`SameServed`); the guard applies what the accounts said before it refreshed them |
| `ZivpnPanelProofs!NoCounterLeft` | `Spec => []ReleasedLeavesNoCounter` | with `Books`, which the three theorems share: while the state file is readable it equals its mirror, the counters of a server that runs are never behind the file and those of one that counts nothing are zero. A quota is set only on a password that is served (`Listed`), hence owned, hence registered, so a save brings no released key back |
| `ZivpnPanelProofs!Followed` | `Spec => []CounterFollowsAccount` | a renaming finds its new key free because the new password is not registered (`NoCounterLeft`), and the counter of nobody else moves (`OneOwner`) |
| `ZivpnPanelProofs!Billed` | `Spec => []BilledOnce` | the refreshed total is the counter itself (`SyncedBooks`), and a save never lowers a counter |
| `ServerProofs!SingleManager` | `Spec => []OneManager` | `AuthInv` ties the flag set under the mutex to the requests that are past it |
| `ServerProofs!QuotaHolds` | `Spec => []QuotaBoundsTraffic` | `FlightInv`: what passed, and the chunks that were admitted and are not written yet, are together at most what is counted, and, where there is a quota, at most the quota, each time with what nameless streams carried on top. What passed is bounded only through the chunks in flight, hence the cardinality. That nameless chunks come from a nameless stream needs `RelayInv`: a stream is dialed once (`NamelessNext`) |
| `ZivpnApplyProofs!TypeCorrect` | `Spec => []TypeOK` | with `Renewing`: a renewal rewrites the meta file of an account |
| `ZivpnApplyProofs!Current` | `Spec => []ServerIsCurrent` | with `Remembering`: a call that has stopped the server is a deletion and keeps the debt until its own start of it. Three steps matter: `Replace` when the file did not change since the look leaves the call itself in debt, `Check` turns a changed file into a restart, and every start reads the file on disk; `QuietStep` covers all others |
| `TunnelAccountsProofs!Types` | `Spec => []TypeOK` | what a call has left to write is a script (`Script`): steps of known kinds, of which those that begin a new script come last. Scripts are compared by the set of their commands (`Elems`), which concatenation joins and every step takes one element from |
| `TunnelAccountsProofs!Settles` | `Spec => []SettledAsDecided` | every tunnel but VMess, whose lock is the first finding; a locked SSH account may be admitted, as there. With `Settling`: while no two calls overlap, one process is at work and what its script has left to write leads to what the flags say (`Plan`). SSH is shut out and let in by the script itself, so there the plan compares the writes of the flag with those of the password; the other tunnels are configured from the flags, so there a configuration that agrees was made last or is still to be made |
| `TunnelAccountsProofs!BilledOnce` | `OneAdmin => (Spec => []BilledAtMostCarried)` | with `Billing`: a potential. For SSH the total on file, or a total that a renewal will put back, and what the tracker has still to bill of every connection (`Owing`, a sum over connections) is at most what was carried plus what the slips excuse (`Track`): a flush moves an amount from one to the other, and a rebuild or a restart of the tracker, which may take a counter that was billed for new, is a slip. For the traffic API (`Meter`) a total is one on file, one still to be written or one that a measure started from (`TotalMay`), and each, together with what the next measure would add from any last value still possible (`GrowthFrom`), is within the bound; so is what the one measure that runs alone is about to add (`sole`). Any other measure adds at most the counter, which is at most what was carried, and is a slip. `AllDecent` says who may have which write pending |
| `LicenceProofs!TypeCorrect` | `Spec => []TypeOK` | inductive as it stands, one step per action |
| `LicenceProofs!OnlyIssuedRuns` | `Spec => []RunsOnlyIssued` | with `Backed`: every row, token, file and menu in use goes back to a licence the seller made, since the menu enters a row only for a token it could read |
| `LicenceProofs!ValidStays` | `Spec => ValidIsKept` | with `ClockIsContact` (the day on file is the day of the last contact) and `AsksWithoutFile` (the menu asks for a key only without a token): each step into the removal is one of the check, of the answers or of the menu, and each falls under one of the cases the property names |
| `PanelBotsProofs!BotsTyped` | `Spec => [](TypeOK /\ Scripts)` | `Scripts` lists what a process may have left to do: the suffixes of what an update, a wizard or the cleanup writes. Every step takes one element away or begins a new list |
| `PanelBotsProofs!RemovedSafe` | `Spec => []RemovedLeavesNoAccount` | with `Gone` (no row means no account, but those tagged meanwhile) and `Swept`: a removal deletes the row only after the accounts, and an account it has passed is not tagged again except by a conversation that was under way |
| `PanelBotsProofs!LimitSafe` | `Spec => WithinLimit` | with `Room`: a creation that was allowed still finds room when it tags. A renewal of a user name keeps its place, so what is counted is the set of names and not the creations, and only the reseller's one process adds to it |
| `PanelBotsProofs!OwnSafe` | `Spec => OwnAccountsOnly` | with `OwnInv`: between a look and the end of the script that follows it, no name the script is about to write, tag, change or delete is in `others` (`Checked`). A step of anybody else keeps that, since only a look of the bot itself adds to `others` (`CheckedKept`); a conversation need not be trusted, because each of its messages but the one the property names looks again before it acts (`MessageChecks`) |
| `TunnelsProofs!TunnelsTyped` | `Spec => []TypeOK` | every script has the order its installer gives it (`Ordered`), which concatenation keeps (`Joined`) and every suffix too (`RunsOn`) |
| `TunnelsProofs!TableFileSafe` | `Spec => []TableHasFile` | with `Covered`: a loaded table has its file, or the command that drops it is still to come. The watchdog loads a table without a file only when the file was unlinked under its hands, and `_remove_nft` drops the table after that (`UnlinkDrops`) |
| `TunnelsProofs!PurgeSafe` | `Spec => []PurgeLeavesNothing` | with `Purge`: during a complete removal each service, table, file, unit and line of the crontab that is there has a command left, in the script or in the queue, that takes it away (`Remaining`), in an order in which nothing brings it back (`Ordered`); the catchall is written again only while the removal of udp-custom is still in the queue; and nothing cron could start is left behind (`NoRevival`) |
| `TunnelsProofs!RangesSafe` | `Spec => []RangesReachTunnel` | with `ServeInv`: between any two commands of a job that no failure has spoiled, a program that is there, or runs, has each of its tables loaded with its file, unless the script goes on to load it or to wipe the program (`Guarding`). That needs an order: `Needs(c)` is what a script that gives `c` has to give after it, `Owed` what it has not given yet, and no script ever owes anything (`Orderly`), which concatenation and every suffix keep (`PieceJoined`, `OwedNext`). What a removal takes from a program it takes after it wiped that program (`Leaving`), and `_uninstall_rest`, which wipes none, runs only in a complete removal and last (`Resting`). The rules of the four ranges are apart (`RangesApart`), so of the rules that match a port within a range the tunnel's own is first (`Translated`) |
| `TunnelsProofs!FullServes` | `Spec => []FullInstallServes` | with `FullInv` beside `ServeInv`: a program that is there has its services in place, or the script goes on to enable them or to wipe the program (`Serving`, `Units`); udp-custom has the catchall (`Catching`), Xray has HAProxy with its certificate and its frontends (`Fronting`), each of them or a command still to come; and `install_all_missing` never lacks a program that neither its script nor its queue still brings (`Progress`). A restart or a stop between two commands is made good because of what the script needs after it (`Briefly`, `Needs`): the certificate stops sshws only to start it at once, or before its removal. HAProxy may be down only where it is disabled: nothing but a disabling stops it, and no installer enables it again |

They hold for any number of passwords, sessions, accounts, streams, overlapping calls, jobs, crashes, days and faults,
and for any bound. The assumptions on the constants are the `ASSUME`s of the modules (finite sets of
passwords, of user names, of streams and of connections, quotas and sizes natural numbers, at least one session ID, the tunnels
the administrator handles one by one among those there are). `Durable` and `Refinement` need
the assumption on damage because without it they are false: a bare file zeroes a counter (see
the known divergences). `BilledOnce` needs one administrator at a time on SSH accounts (`OneAdmin`,
as the run has it; the other tunnels need no such assumption) because with two it is false, which TLC
finds with two of them and three calls (see the known divergences). Proofs stand in modules of their own, one step per action, and lemmas about the
shape of calls and of files are stated once and cited.

Only model-checked: every liveness property (`EventuallyDurable`, `StopReleasesAll`,
`IdleIsClosed`, `RelaysEnd`, `ClosedReleasesAll`, `ConfConverges`, `ExhaustedIsLocked`,
`QuotaIsEnforced`, `FullInstallRecovers`, `ExpiredIsCleaned`, `RevokedIsRemoved`),
which the prover does not reach under fairness, and with them `ZivpnUsage`, whose only
property is one. Every invariant and every safety property of a step that a passing run checks is
proved. The sums over connections take no
induction over data: a sum over a finite set is known by its recurrence, and what holds of every sum is
proved for the smallest subset without it (`Minimal`, `SubsetInduction`), from the theorem of the
library that numbers are well founded.

## 7. Abstractions

* Bytes are counted in small units; the counters are 64 bits wide and are not wrapped.
* File contents are the sets and maps they encode. JSON and checksums appear as what
  a reader makes of them (sound, torn, bare).
* `ServerConnection` leaves out the masquerade, the choice of a congestion controller
  and event logs. It lets a stream see that the client is authenticated before the
  identity is set, but not a torn identity string.
* `ZivpnPanel` treats a call as one step, even one in which the server could die.
  Passwords are opaque, quotas are those the panel writes in a form the server reads
  (10.5 would be written as `10.5GB`, which the server refuses: not modelled).
* `ZivpnApply` has no quarantine, no expiry and no creation. Both files of the server's flush are
  replaced in one step there (`QuotaLogger` has the two).
* `ZivpnUsage` reads fields that the code reads one right after another in one step, and
  a write of a field is atomic under the lock of the account. `write_meta` does not take that
  lock, so a field written by a cron may bring back the meta file from before a
  renewal: not modelled yet. Accounts there do not expire.
* `TunnelAccounts` has one account; two accounts with one password are left out. Its tracker
  has one counter per connection where the code has two, one for each direction.
* `Tunnels` has no contents of configuration files but those of `haproxy.cfg` that a property
  is about, no DNS zones and no certificates. Only one panel is at work at a time.
* `PanelBots` has texts only as far as a step accepts them; menus and statistics hold no state.
* `Licence` has one licence. Every status but ACTIVE is one, as for the code. The binding to the
  hardware never refuses a licence and is left out, signatures can be verified or cannot.

Not modelled, and why, is listed component by component in `PROJECT.json`: user
interfaces, shell installers, superseded copies, vendored and generated code and cryptography hold no state that a
property could be about; the rest is in the plan.

## 8. Plan

Order of work, most important behaviour first. Done: the counters and their files; the
sessions and connections of the server; the accounts, call by call and access by access; the
accounts of the other tunnels with the SSH tracker; the installers; resellers; the licence.

1. Overlapping creations and changes of password around the registry and
   `quarantine.json` (read, change and replace without a lock), and the two halves of
   `_meta_set` against `write_meta`: `ZivpnRegistry`. Properties: one owner per password
   under overlap, nothing lost from the quarantine, a renewal is not undone.
2. The client side: `ClientSessions` (`core/client/udp.go`), `Reconnect`
   (`reconnect.go`) and `UDPHop` (`udphop/conn.go`). Properties: no message to a closed session, one
   reconnection at a time, a hop loses no socket and no loop blocks for ever on a full queue.
3. `Fragmentation` (`frag.go`) with a network that loses, repeats and reorders,
   against the reference "a reassembled message is one that was sent", and 8-bit counts.
4. The statistics service, composed with `QuotaLogger`.
5. Data structures of congestion control (packet number queue, ring buffer,
   windowed filter, pacer) as pure functions against reference definitions.

## 9. Running the checks

    tlc -config QuotaLogger.cfg MCQuotaLogger        # likewise the other runs
    tlc -config ZivpnApply.cfg ZivpnApply
    tlapm QuotaLoggerProofs.tla                      # likewise the other proofs

`PROJECT.json` gives, for each run, its module and configuration, and for each definition
that models code the lines it stands for.
