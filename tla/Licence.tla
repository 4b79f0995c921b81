-------------------------------- MODULE Licence --------------------------------
(***************************************************************************)
(* The licence of the panel (install2.py): the token kept on the machine,   *)
(* the local copy of the table of sales, the check when the menu starts,    *)
(* the watchdog of the timer and of the crontab, the answers of the server  *)
(* of sales, and the removal of everything ("_auto_uninstall_all") that     *)
(* follows when a check fails.  One licence; every status but ACTIVE is     *)
(* treated alike by the code and is one here.  The binding to the hardware  *)
(* never refuses a licence and is left out.                                 *)
(***************************************************************************)
EXTENDS Integers, FiniteSets

CONSTANTS
  MaxDay,                   \* bound: days that pass
  Grace,                    \* LICENSE_GRACE_HOURS, in days
  HasNacl,                  \* PyNaCl is there, so signatures can be verified
  MaxTroubles,              \* bound: failures of the local database, reboots and
                            \* removals by command together
  MaxSales                  \* bound: changes the seller makes to the licence

ASSUME BoundsAssumption == {MaxDay, Grace, MaxTroubles, MaxSales} \subseteq Nat
ASSUME HasNaclAssumption == HasNacl \in BOOLEAN

Days == 0..MaxDay
Never == MaxDay + 1                       \* 9999-12-31
Dates == 0..Never
NoDay == -1
Procs == {"menu", "timer", "cron", "command"}   \* command: a call with arguments
Removal == {"tunnels", "licence", "units", "rest"}
Stages == Removal \cup {"off", "ask1", "ask2", "ask3", "open", "online", "boot"}
NoFile == [kind |-> "none", exp |-> NoDay]
NoRow == [status |-> "absent", exp |-> NoDay]
Parts == {"panel", "bot"}       \* the script and all it has made, but for its bot
Files == {NoFile} \cup [kind : {"signed", "plain"}, exp : Dates]
Rows == {NoRow} \cup [status : {"ACTIVE", "INACTIVE"}, exp : Dates]

VARIABLES
  today,
  sold, row, shared,   \* the table of the seller and the local one; they are one
  tokens,              \* dates of the signed tokens handed out
  file,                \* .license_key
  server, clock,       \* license_server is set; day in .license_last_online
  timer, cron,         \* kighmu-watchdog.timer: "none", "on", "off"; @reboot line
  left,                \* what of the panel is on the machine
  procs,               \* what the processes that know of the licence are doing
  contact,             \* history: day of the last ACTIVE answer, or first failure
  issued,              \* history: the seller has made a licence
  cut,                 \* history: the watchdog's copy of the panel was taken from
                       \* it, or a removal was interrupted after it had done so
  faults, upsets, sales \* failures; reboots and removals by command; sales so far

seller == <<today, sold, shared, tokens, server>>
units == <<timer, cron>>
budget == <<faults, upsets, sales>>
history == <<contact, issued, cut>>
vars == <<today, sold, row, shared, tokens, file, server, clock, timer, cron, left,
          procs, contact, issued, cut, faults, upsets, sales>>

TypeOK ==
  /\ today \in Days /\ sold \in Rows /\ row \in Rows /\ shared \in BOOLEAN
  /\ tokens \subseteq Dates /\ file \in Files /\ server \in BOOLEAN
  /\ clock \in Days \cup {NoDay} /\ contact \in Days \cup {NoDay}
  /\ timer \in {"none", "on", "off"} /\ cron \in BOOLEAN /\ left \subseteq Parts
  /\ procs \in [Procs -> Stages] /\ {issued, cut} \subseteq BOOLEAN
  /\ faults \in 0..MaxTroubles /\ upsets \in 0..MaxTroubles /\ sales \in 0..MaxSales

Init ==
  /\ today = 0 /\ sold = NoRow /\ row = NoRow /\ shared \in BOOLEAN
  /\ tokens = {} /\ file = NoFile /\ server \in BOOLEAN /\ clock = NoDay
  /\ timer = "none" /\ cron = FALSE /\ left = {}
  /\ procs = [p \in Procs |-> "off"]
  /\ contact = NoDay /\ issued = FALSE /\ cut = FALSE
  /\ faults = 0 /\ upsets = 0 /\ sales = 0

-----------------------------------------------------------------------------
\* What the code asks of the token and of the local table.

Past(d) == d < today
Licensed(r) == r.status = "ACTIVE" /\ ~Past(r.exp)
Verified(f) == f.kind = "signed" /\ HasNacl
\* An unsigned token counts only while its key is active in the local table.
Fallback(f, fails) == f.kind # "none" /\ ~fails /\ Licensed(row)
Readable(f, fails) == Verified(f) \/ Fallback(f, fails)

Does(p, stage) == procs' = [procs EXCEPT ![p] = stage]
Removes(p) == Does(p, "tunnels")
Fails(fail) == fail \in BOOLEAN /\ (fail => faults + upsets < MaxTroubles)
               /\ faults' = faults + IF fail THEN 1 ELSE 0
\* The local table is that of the seller when ventes.sh runs on this machine.
SetRow(r) == row' = r /\ sold' = IF shared THEN r ELSE sold

-----------------------------------------------------------------------------
\* The seller: ventes.sh, its watchdog, and the passing of days.

Writes(r) == sold' = r /\ row' = IF shared THEN r ELSE row
Sells == sales < MaxSales /\ sales' = sales + 1
client == <<shared, file, server, clock, units, left, procs, contact, cut, faults, upsets>>
Create ==
  /\ Sells /\ sold = NoRow /\ issued' = TRUE
  /\ \E d \in Dates : d >= today /\ Writes([status |-> "ACTIVE", exp |-> d])
  /\ UNCHANGED <<today, tokens, client>>
\* Days are added to a date still ahead; an unlimited licence gets one from today.
Renew ==
  /\ Sells /\ sold # NoRow
  /\ \E d \in Dates : /\ d > today /\ (sold.exp # Never => d > sold.exp)
                      /\ Writes([status |-> "ACTIVE", exp |-> d])
  /\ UNCHANGED <<today, tokens, issued, client>>
Toggle ==
  /\ Sells /\ sold # NoRow
  /\ Writes([sold EXCEPT !.status = IF @ = "ACTIVE" THEN "INACTIVE" ELSE "ACTIVE"])
  /\ UNCHANGED <<today, tokens, issued, client>>
AutoExpire ==
  /\ sold.status = "ACTIVE" /\ Past(sold.exp)
  /\ Writes([sold EXCEPT !.status = "INACTIVE"])
  /\ UNCHANGED <<today, tokens, issued, sales, client>>
Sign ==
  /\ Sells /\ sold.status = "ACTIVE" /\ tokens' = tokens \cup {sold.exp}
  /\ UNCHANGED <<today, sold, row, issued, client>>
Tick ==
  /\ today < MaxDay /\ today' = today + 1
  /\ UNCHANGED <<sold, row, shared, tokens, file, server, clock, units, left, procs, history, budget>>

-----------------------------------------------------------------------------
\* The menu: self_install, then _verify_license.

SelfInstall ==
  /\ left' = left \cup {"panel"} /\ cron' = TRUE
  /\ timer' = IF timer = "none" THEN "on" ELSE timer

\* The file is read, and its key looked for in the table; each may fail.
Verify ==
  \E f1, f2 \in BOOLEAN :
    /\ Fails(f1 \/ f2)
    /\ IF ~Readable(file, f1)
       THEN file' = NoFile /\ Does("menu", "ask1")
       ELSE /\ IF Past(file.exp) \/ f2 \/ ~Licensed(row)
               THEN Removes("menu")
               ELSE Does("menu", "open")
            /\ UNCHANGED file
StartMenu ==
  /\ procs["menu"] = "off" /\ SelfInstall /\ Verify
  /\ UNCHANGED <<seller, row, clock, history, upsets, sales>>

\* One answer to the three questions for a key.
Asking == procs["menu"] \in {"ask1", "ask2", "ask3"}
Refused == Does("menu", CASE procs["menu"] = "ask1" -> "ask2"
                          [] procs["menu"] = "ask2" -> "ask3" [] OTHER -> "off")
           /\ UNCHANGED <<file, row, sold>>
Activated(f, stages) == file' = f /\ \E s \in stages : Does("menu", s)

\* A token with its date.  A valid one whose key the table lacks is put there.
\* When the table fails before the name of the client is known, the menu ends with
\* an error after it has stored the token.
AnswerToken ==
  /\ Asking
  /\ \E f \in [kind : {"signed", "plain"}, exp : Dates], f1, f2 \in BOOLEAN :
       /\ f.kind = "signed" => f.exp \in tokens
       /\ Fails(f1 \/ f2)
       /\ IF ~Readable(f, f1) THEN Refused
          ELSE IF Past(f.exp) THEN Removes("menu") /\ UNCHANGED <<file, row, sold>>
          ELSE /\ Activated(f, IF f2 THEN {"open", "off"} ELSE {"open"})
               /\ IF row = NoRow /\ ~f2 THEN SetRow([status |-> "ACTIVE", exp |-> f.exp])
                                        ELSE UNCHANGED <<row, sold>>
  /\ UNCHANGED <<today, shared, tokens, server, clock, units, left, history, upsets, sales>>

\* Mutant of KeyAccepted: a key that is not in the table is taken as new.
KeyAcceptedNew == row = NoRow \/ ~Past(row.exp)
\* A key alone: its row must be there and not expired, whatever its status.
KeyAccepted == row # NoRow /\ ~Past(row.exp)
AnswerKey ==
  /\ Asking
  /\ \E f \in BOOLEAN :
       /\ Fails(f)
       /\ IF ~f /\ KeyAccepted
          THEN Activated([kind |-> "plain", exp |-> row.exp], {"open"}) /\ UNCHANGED <<row, sold>>
          ELSE IF ~f /\ row # NoRow THEN Removes("menu") /\ UNCHANGED <<file, row, sold>>
          ELSE Refused
  /\ UNCHANGED <<today, shared, tokens, server, clock, units, left, history, upsets, sales>>

\* In the menu the bot is installed and removed.
Open == procs["menu"] = "open"
UseBot ==
  /\ Open
  /\ \/ left' = left \cup {"bot"} /\ cut' = FALSE /\ UNCHANGED cron
     \/ left' = left \ {"bot"} /\ cut' = TRUE /\ cron' = FALSE
  /\ UNCHANGED <<seller, row, file, clock, timer, procs, contact, issued, budget>>
\* The menu is left, or removes everything once that is confirmed.
Leave ==
  /\ Open /\ (Removes("menu") \/ Does("menu", "off"))
  /\ UNCHANGED <<seller, row, file, clock, units, left, history, budget>>
\* "--auto-uninstall" asks nothing, neither for a licence nor for a confirmation.
UninstallCommand ==
  /\ procs["command"] = "off" /\ "panel" \in left /\ Removes("command")
  /\ faults + upsets < MaxTroubles /\ upsets' = upsets + 1
  /\ UNCHANGED <<seller, row, file, clock, units, left, history, faults, sales>>

-----------------------------------------------------------------------------
\* The watchdog.  Its units run the bot's copy of the panel.

Check(p) ==
  \E f1, f2, f3 \in BOOLEAN :
    /\ Fails(f1 \/ f2 \/ f3)
    /\ \/ /\ ~Readable(file, f1) /\ Does(p, "off")
       \/ /\ Readable(file, f1) /\ (Past(file.exp) \/ ~(f2 \/ Licensed(row))) /\ Removes(p)
       \/ /\ Readable(file, f1) /\ ~Past(file.exp) /\ (f2 \/ Licensed(row))
          /\ Does(p, IF f2 \/ f3 \/ ~server THEN "off" ELSE "online")
\* The timer runs the watchdog from the bot's copy of the panel.
Watch == timer = "on" /\ "bot" \in left
TimerFires ==
  /\ Watch /\ procs["timer"] = "off" /\ Check("timer")
  /\ UNCHANGED <<seller, row, file, clock, units, left, history, upsets, sales>>
CheckinCommand ==
  /\ procs["command"] = "off" /\ "panel" \in left /\ server
  /\ \E f \in BOOLEAN : Fails(f) /\ Readable(file, f) /\ Does("command", "online")
  /\ UNCHANGED <<seller, row, file, clock, units, left, history, upsets, sales>>

\* _license_checkin, when there is a server to ask.

\* Mutant of Since: with no day on file the clock starts long ago.
SinceLongAgo == IF clock = NoDay THEN 0 ELSE clock
\* The clock starts at the first failure, and is set by each ACTIVE answer.
Since == IF clock = NoDay THEN today ELSE clock
Offline(p) ==
  /\ procs[p] = "online" /\ server
  /\ clock' = Since
  /\ contact' = IF contact = NoDay THEN today ELSE contact
  /\ IF today - Since <= Grace THEN Does(p, "off") ELSE Removes(p)
  /\ UNCHANGED <<seller, row, file, units, left, issued, cut, budget>>
AnswersActive(p) ==
  /\ procs[p] = "online" /\ server /\ sold.status = "ACTIVE"
  /\ Does(p, "off") /\ clock' = today /\ contact' = today
  /\ \E f \in BOOLEAN :
       /\ Fails(f)
       /\ row' = IF f \/ row = NoRow THEN row ELSE [row EXCEPT !.exp = sold.exp]
  /\ UNCHANGED <<seller, file, units, left, issued, cut, upsets, sales>>
AnswersRevoked(p) ==
  /\ procs[p] = "online" /\ server /\ sold.status # "ACTIVE" /\ Removes(p)
  /\ UNCHANGED <<seller, row, file, clock, units, left, history, budget>>

-----------------------------------------------------------------------------
\* _auto_uninstall_all, by whichever process decided it.

RemoveTunnels(p) ==
  /\ procs[p] = "tunnels" /\ Does(p, "licence")
  /\ left' = left \ {"bot"} /\ cron' = FALSE
  /\ UNCHANGED <<seller, row, file, clock, timer, history, budget>>

\* Mutant: the token is not among the files that go first.
RemoveLicenceKeeps(p) ==
  /\ procs[p] = "licence" /\ Does(p, "units")
  /\ SetRow(NoRow)
  /\ UNCHANGED <<today, shared, tokens, file, server, clock, units, left, history, budget>>
RemoveLicence(p) ==
  /\ procs[p] = "licence" /\ Does(p, "units")
  /\ file' = NoFile /\ SetRow(NoRow)
  /\ UNCHANGED <<today, shared, tokens, server, clock, units, left, history, budget>>
\* The unit of the watchdog is stopped before its timer, and all it runs with it.
Stopped(p) == [procs EXCEPT ![p] = "rest", !["timer"] = "off"]
RemoveUnits(p) ==
  /\ procs[p] = "units" /\ procs' = Stopped(p)
  /\ timer' = IF timer = "on" /\ p # "timer" THEN "off" ELSE timer
  /\ UNCHANGED <<seller, row, file, clock, cron, left, history, budget>>
\* The files of the units, the accounts, /etc/kighmu; then every process ends.
RemoveRest(p) ==
  /\ procs[p] = "rest" /\ procs' = [q \in Procs |-> "off"]
  /\ left' = {} /\ timer' = "none" /\ cron' = FALSE /\ clock' = NoDay
  /\ server' = FALSE /\ contact' = NoDay /\ file' = NoFile
  /\ UNCHANGED <<today, sold, row, shared, tokens, issued, cut, budget>>

\* After a reboot the crontab starts a watchdog, and the timer one of its own.
Reboot ==
  /\ faults + upsets < MaxTroubles /\ upsets' = upsets + 1
  /\ procs' = [p \in Procs |-> IF p = "cron" /\ cron THEN "boot" ELSE "off"]
  /\ cut' = (cut \/ \E p \in Procs : procs[p] \in Removal /\ ~Watch)
  /\ UNCHANGED <<seller, row, file, clock, units, left, contact, issued, faults, sales>>
CronStarts ==
  /\ procs["cron"] = "boot"
  /\ IF "bot" \in left THEN Check("cron") ELSE Does("cron", "off") /\ UNCHANGED faults
  /\ UNCHANGED <<seller, row, file, clock, units, left, history, upsets, sales>>

Checkin(p) == Offline(p) \/ AnswersActive(p) \/ AnswersRevoked(p)
Removing(p) == RemoveTunnels(p) \/ RemoveLicence(p) \/ RemoveUnits(p) \/ RemoveRest(p)
Seller == Create \/ Renew \/ Toggle \/ AutoExpire \/ Sign \/ Tick
Menu == StartMenu \/ AnswerToken \/ AnswerKey \/ UseBot \/ Leave
Commands == CheckinCommand \/ UninstallCommand
Next ==
  \/ Seller \/ Menu \/ TimerFires \/ CronStarts \/ Commands \/ Reboot
  \/ \E p \in Procs : Checkin(p) \/ Removing(p)

-----------------------------------------------------------------------------
Spec == Init /\ [][Next]_vars
Watched == WF_vars(TimerFires) /\ \A p \in Procs : WF_vars(Checkin(p)) /\ WF_vars(Removing(p))
FairSpec == Spec /\ Watched

\* Only a key the seller made gets a panel into use: a token of its making, or
\* a key that is in its table (the comment of _verify_license: "plus
\* d'auto-enregistrement").
RunsOnlyIssued == (Open \/ file # NoFile) => issued

\* A panel whose licence is active, whose token has not expired and whose
\* seller has not revoked it is removed only on request, when the menu cannot
\* read the table, for a token that was typed in too late, or when no answer
\* has come for more than the days of grace (_verify_license, _license_watchdog,
\* _license_checkin).
Begins(p) == procs[p] \notin Removal /\ procs'[p] \in Removal
Asked(p) == (p = "menu" /\ Open) \/ (p = "command" /\ procs[p] = "off")
Valid == Licensed(row) /\ file # NoFile /\ ~Past(file.exp)
Revoked == server /\ sold.status # "ACTIVE"
GraceIsOver == server /\ contact # NoDay /\ today - contact > Grace
ValidIsKept ==
  [][\A p \in Procs : Begins(p) /\ Valid =>
       \/ Asked(p)
       \/ p = "menu" /\ faults' > faults
       \/ Revoked \/ GraceIsOver]_vars

\* A signed token whose row is no longer active, or whose date has passed, is off
\* the machine in the end (_license_watchdog: "inactive ou expirée") if the
\* watchdog can run when that happens, whichever process removes it, though the
\* first thing a removal takes is the bot and with it the watchdog, and though
\* the timer's own removal kills itself halfway.  Not so, and said by cut, when the
\* bot is removed in the menu first, or when a reboot interrupts a removal that has
\* taken the bot or the timer already: then nothing starts it again but the menu.
MayRun == Licensed(row) /\ ~Past(file.exp)
RevokedIsRemoved ==
  (Verified(file) /\ ~MayRun /\ Watch) ~> (~Verified(file) \/ MayRun \/ cut)

\* What the seller has renewed stays (_license_watchdog: it asks the table, and
\* removes what is "EXPIREE, INACTIVE ou ABSENTE" there).
RenewedIsKept ==
  [][\A p \in Procs : Begins(p) /\ Verified(file) /\ Licensed(row) =>
       \/ p = "menu" /\ procs["menu"] # "off"
       \/ Asked(p)
       \/ faults' > faults
       \/ Revoked \/ GraceIsOver]_vars

===============================================================================
