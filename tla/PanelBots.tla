------------------------------- MODULE PanelBots -------------------------------
(***************************************************************************)
(* The Telegram bots of the panel (install2.py): the bot of the             *)
(* administrator, one bot for each reseller, the table of resellers, and    *)
(* the cron --reseller-cleanup.  Each is a process of its own; they meet in *)
(* the table and in the "reseller" field of the meta files.                 *)
(*                                                                          *)
(* A bot answers one update at a time.  A button can be pressed whenever    *)
(* its message is on the screen, so at any time; a text goes to the step    *)
(* the conversation is at.  A text that its step refuses changes nothing    *)
(* and is no action here.  An update that makes several writes is its       *)
(* script, of which one command runs per step.                              *)
(***************************************************************************)
EXTENDS Integers, Sequences, FiniteSets

CONSTANTS
  Rids, Users,              \* ids of the resellers, names of the accounts
  Chats,                    \* Telegram users who write to the bots of resellers
  Tunnels,                  \* tunnels a reseller may be allowed
  Limits,                   \* values of max_users
  Settings,                 \* what resellers are set up with
  Admin,                    \* whoever is not a reseller
  MaxPresses, MaxCrashes    \* bounds: buttons pressed; crashes of a process

ASSUME LimitsAssumption == Limits \subseteq Nat \ {0}
ASSUME BoundsAssumption == MaxPresses \in Nat /\ MaxCrashes \in Nat
ASSUME SettingsAssumption ==
  Settings \subseteq [is : {"on"}, due : {FALSE}, max : Limits, code : BOOLEAN,
                      tgid : Chats \cup {0}, tunnels : (SUBSET Tunnels) \ {{}}]
ASSUME NamesAssumption == Admin \notin Rids /\ Rids \cap {"admin", "cron", "panel"} = {}
ASSUME UsersAssumption == IsFiniteSet(Users)

Procs == Rids \cup {"admin", "cron", "panel"}
NoAccount == [owner |-> "none"]

VARIABLES
  row,         \* the table: is it there and active, past its expiry, its settings
  pending,     \* rows the cleanup has set to inactive and not committed
  svc,         \* the service of the reseller's bot is there, and the bot runs
  acct,        \* the meta files: their reseller, and who last changed quota or expiry
  granted,     \* reseller_access files: who has given the access code
  crontab,     \* the line of --reseller-cleanup is in the crontab
  adm, chat,   \* conversations: of the administrator, and with each reseller's bot
  todo,        \* rest of the script of each process
  late,        \* history: accounts tagged while the tags were being read
  others,      \* history: accounts of others there when the bot last looked, and since
  presses, crashes

vars == <<row, pending, svc, acct, granted, crontab, adm, chat, todo, late, others, presses, crashes>>
table == <<row, pending, svc, granted, crontab>>
talk == <<adm, chat>>

Quiet == [step |-> "none", user |-> "none", sel |-> {}, tunnel |-> "none"]
Blank == [step |-> "none", user |-> "none", sel |-> {}, rid |-> "none", cr |-> "none"]
NoRow == [is |-> "none", due |-> FALSE, max |-> 0, code |-> FALSE, tgid |-> 0, tunnels |-> {}]
\* Resellers may have been set up before.
Init ==
  /\ row \in [Rids -> {NoRow} \cup Settings] /\ pending = {}
  /\ svc = [r \in Rids |-> row[r] # NoRow]
  /\ acct = [u \in Users |-> NoAccount]
  /\ granted = {} /\ crontab = TRUE
  /\ adm = Blank /\ chat = [r \in Rids |-> [c \in Chats |-> Quiet]]
  /\ todo = [p \in Procs |-> <<>>] /\ late = {} /\ others = [r \in Rids |-> {}]
  /\ presses = 0 /\ crashes = 0

Here(u) == acct[u] # NoAccount
Listed(r) == row[r].is \in {"on", "off"}
Tagged(r) == {u \in Users : Here(u) /\ acct[u].owner = r}
Idle(p) == todo[p] = <<>>
Goes(p, name) == ~Idle(p) /\ Head(todo[p])[1] = name
Then(p, script) == todo' = [todo EXCEPT ![p] = script \o Tail(@)]
Pending(name, r) == \E p \in Procs : \E i \in 1..Len(todo[p]) :
                      todo[p][i][1] = name /\ todo[p][i][2] = r
\* Accounts about to be tagged, anew or after a renewal.
Untagged(r) == {u \in Users : \E p \in Procs : \E i \in 1..Len(todo[p]) :
                  todo[p][i][1] = "tag" /\ todo[p][i][2] = r /\ todo[p][i][3] = u}
\* The bot of a reseller reads the meta files, for what it does next.
Looks(p) == others' = [r \in Rids |->
  IF r = p THEN {u \in Users : Here(u) /\ acct[u].owner # r} ELSE others[r]]

-----------------------------------------------------------------------------
\* Commands.

\* create_user refuses a name in use, and the update ends there; the meta file
\* is written later, whoever may have taken the name meanwhile.
New == [owner |-> Admin, by |-> Admin]
Create(p) ==
  /\ Goes(p, "create")
  /\ LET u == Head(todo[p])[2] IN
       IF Here(u) THEN todo' = [todo EXCEPT ![p] = <<>>] ELSE Then(p, <<<<"write", u>>>>)
  /\ Looks(p) /\ UNCHANGED <<table, acct, talk, late, presses, crashes>>
WriteMeta(p) ==
  /\ Goes(p, "write") /\ Then(p, <<>>)
  /\ acct' = [acct EXCEPT ![Head(todo[p])[2]] = New]
  /\ UNCHANGED <<table, talk, late, others, presses, crashes>>

\* _meta_set(user, "reseller", rid): nothing if the account is gone.
Tag(p) ==
  /\ Goes(p, "tag") /\ Then(p, <<>>)
  /\ LET r == Head(todo[p])[2]  u == Head(todo[p])[3] IN
       /\ acct' = IF Here(u) THEN [acct EXCEPT ![u].owner = r] ELSE acct
       /\ late' = IF Pending("unserve", r) THEN late \cup {u} ELSE late
  /\ UNCHANGED <<table, talk, others, presses, crashes>>

\* Each name that was chosen; the bot of a reseller looks at the owner first.
\* Mutant: it looked when it made the list.
MayDeleteListed(who, u) == Here(u)
MayDelete(who, u) == Here(u) /\ (who = Admin \/ acct[u].owner = who)
Delete(p) ==
  /\ Goes(p, "delete")
  /\ LET who == Head(todo[p])[2]  S == Head(todo[p])[3] IN
       \/ S = {} /\ Then(p, <<>>)
       \/ \E u \in S : Then(p, IF MayDelete(who, u)
            THEN <<<<"remove", who, S \ {u}, u, "delete">>>> ELSE <<<<"delete", who, S \ {u}>>>>)
  /\ Looks(p) /\ UNCHANGED <<table, acct, talk, late, presses, crashes>>

\* delete_user, whoever may have the name by now.
Remove(p) ==
  /\ Goes(p, "remove")
  /\ LET who == Head(todo[p])[2]  S == Head(todo[p])[3]  u == Head(todo[p])[4] IN
       /\ Then(p, <<<<Head(todo[p])[5], who, S>>>>)
       /\ acct' = [acct EXCEPT ![u] = NoAccount]
       /\ others' = [r \in Rids |-> others[r] \ {u}]
  /\ UNCHANGED <<table, talk, late, presses, crashes>>

\* Quota or expiry of the accounts chosen.
Change(p) ==
  /\ Goes(p, "change")
  /\ LET who == Head(todo[p])[2]  S == Head(todo[p])[3] IN
       \E u \in S :
         /\ acct' = IF Here(u) THEN [acct EXCEPT ![u].by = who] ELSE acct
         /\ Then(p, IF S = {u} THEN <<>> ELSE <<<<"change", who, S \ {u}>>>>)
  /\ UNCHANGED <<table, talk, late, others, presses, crashes>>

\* The directory is listed once; each name then has its owner read.
Purge(p) ==
  /\ Goes(p, "purge")
  /\ Then(p, <<<<"sweep", Head(todo[p])[2], {u \in Users : Here(u)}>>>>)
  /\ UNCHANGED <<table, acct, talk, late, others, presses, crashes>>
Sweep(p) ==
  /\ Goes(p, "sweep")
  /\ LET r == Head(todo[p])[2]  S == Head(todo[p])[3] IN
       \/ S = {} /\ Then(p, <<>>)
       \/ \E u \in S : Then(p, IF u \in Tagged(r)
            THEN <<<<"remove", r, S \ {u}, u, "sweep">>>> ELSE <<<<"sweep", r, S \ {u}>>>>)
  /\ UNCHANGED <<table, acct, talk, late, others, presses, crashes>>

\* reseller_create_service and reseller_remove_service: the bot is stopped in
\* whatever it was doing, and forgets its conversations.
Serve(p) ==
  /\ Goes(p, "serve") /\ Then(p, <<>>)
  /\ svc' = [svc EXCEPT ![Head(todo[p])[2]] = TRUE]
  /\ UNCHANGED <<row, pending, acct, granted, crontab, talk, late, others, presses, crashes>>
Unserve(p) ==
  /\ Goes(p, "unserve")
  /\ LET r == Head(todo[p])[2] IN
       /\ svc' = [svc EXCEPT ![r] = FALSE]
       /\ todo' = [todo EXCEPT ![p] = Tail(@), ![r] = <<>>]
       /\ chat' = [chat EXCEPT ![r] = [c \in Chats |-> Quiet]]
       /\ late' = late \cup Untagged(r)
  /\ UNCHANGED <<row, pending, acct, granted, crontab, adm, others, presses, crashes>>

\* reseller_delete; it fails while the cleanup holds the database.
Drop(p) ==
  /\ Goes(p, "drop") /\ Then(p, <<>>)
  /\ row' = IF pending = {} THEN [row EXCEPT ![Head(todo[p])[2]] = [NoRow EXCEPT !.is = "gone"]] ELSE row
  /\ UNCHANGED <<pending, svc, acct, granted, crontab, talk, late, others, presses, crashes>>

-----------------------------------------------------------------------------
\* reseller_cleanup_expired.  The expired are read once, and the rows are
\* committed once, after the last of them.

\* Mutant: the bot is removed first.
CleanServiceFirst(r) == <<<<"unserve", r>>, <<"purge", r>>, <<"off", r>>>>
Clean(r) == <<<<"purge", r>>, <<"unserve", r>>, <<"off", r>>>>
Expired(r) == row[r].is = "on" /\ row[r].due

Cleanup ==
  /\ crontab /\ Idle("cron") /\ \E r \in Rids : Expired(r)
  /\ todo' = [todo EXCEPT !["cron"] = <<<<"clean", {r \in Rids : Expired(r)}>>>>]
  /\ UNCHANGED <<table, acct, talk, late, others, presses, crashes>>
\* Mutant: nothing is committed.
CleanNextForgets ==
  /\ Goes("cron", "clean")
  /\ LET S == Head(todo["cron"])[2] IN
       \/ \E r \in S : Then("cron", Clean(r) \o <<<<"clean", S \ {r}>>>>) /\ UNCHANGED <<row, pending>>
       \/ S = {} /\ Then("cron", <<>>) /\ pending' = {} /\ UNCHANGED row
  /\ UNCHANGED <<svc, acct, granted, crontab, talk, late, others, presses, crashes>>
CleanNext ==
  /\ Goes("cron", "clean")
  /\ LET S == Head(todo["cron"])[2] IN
       \/ \E r \in S : Then("cron", Clean(r) \o <<<<"clean", S \ {r}>>>>) /\ UNCHANGED <<row, pending>>
       \/ /\ S = {} /\ Then("cron", <<>>) /\ pending' = {}
          /\ row' = [r \in Rids |-> IF r \in pending /\ Listed(r) THEN [row[r] EXCEPT !.is = "off"] ELSE row[r]]
  /\ UNCHANGED <<svc, acct, granted, crontab, talk, late, others, presses, crashes>>
SetInactive ==
  /\ Goes("cron", "off") /\ Then("cron", <<>>)
  /\ pending' = pending \cup {Head(todo["cron"])[2]}
  /\ UNCHANGED <<row, svc, acct, granted, crontab, talk, late, others, presses, crashes>>

-----------------------------------------------------------------------------
\* The bot of the administrator.  A text goes to "step" first: what the wizard
\* of a new reseller asks, it is told only when no step is left from before.

Press(to) ==
  /\ Idle("admin") /\ presses < MaxPresses /\ presses' = presses + 1 /\ adm' = to
  /\ UNCHANGED <<acct, chat, late, others, crashes>>
Ask(to) == Press(to) /\ UNCHANGED <<table, todo>>
Runs(script) == todo' = [todo EXCEPT !["admin"] = script]

PressCreate == Ask([adm EXCEPT !.step = "cr_user"])
\* Renew, and Lock or Info.
PressUser(step) == Ask([adm EXCEPT !.step = step])
\* Delete, and Set Quota or Renew Bulk: the answer is a choice of the list shown.
PressNumbers(step) ==
  LET users == {u \in Users : Here(u)} IN
    Ask(IF users = {} THEN Blank ELSE [adm EXCEPT !.step = step, !.sel = users])
PressEdit(step, r) == Listed(r) /\ Ask([adm EXCEPT !.step = step, !.rid = r])
PressNewReseller == Ask([adm EXCEPT !.cr = "asking"])

\* The row first, its service next.
PressDone(r, settings) ==
  /\ adm.cr = "ready" /\ row[r].is = "none" /\ pending = {}
  /\ Press([adm EXCEPT !.cr = "none"])
  /\ row' = [row EXCEPT ![r] = settings]
  /\ Runs(<<<<"serve", r>>>>)
  /\ UNCHANGED <<pending, svc, granted, crontab>>
PressToggle(r) ==
  /\ Listed(r) /\ pending = {} /\ Press(adm)
  /\ row' = [row EXCEPT ![r].is = IF @ = "on" THEN "off" ELSE "on"]
  /\ UNCHANGED <<pending, svc, granted, crontab, todo>>
PressDelete(r) ==
  /\ Listed(r) /\ Press(adm)
  /\ Runs(<<<<"purge", r>>, <<"unserve", r>>, <<"drop", r>>>>)
  /\ UNCHANGED table

Says(to) == /\ Idle("admin") /\ adm' = to
            /\ UNCHANGED <<chat, presses, crashes, late, others>>
Answers(to) == Says(to) /\ UNCHANGED <<table, acct, todo>>

\* The days, the password and the quota are asked in turn, and decide nothing.
TextName(u) == adm.step = "cr_user" /\ ~Here(u) /\ Answers([adm EXCEPT !.step = "cr_quota", !.user = u])
TextTerms ==
  /\ adm.step = "cr_quota" /\ Says(Blank) /\ Runs(<<<<"create", adm.user>>>>)
  /\ UNCHANGED <<table, acct>>
TextRenew(u) == adm.step = "renew_user"
  /\ Answers(IF Here(u) THEN [adm EXCEPT !.step = "renew_days", !.user = u] ELSE Blank)
TextDays ==
  /\ adm.step = "renew_days" /\ Says(Blank) /\ Runs(<<<<"change", Admin, {adm.user}>>>>)
  /\ UNCHANGED <<table, acct>>
TextNumbers ==
  /\ adm.step \in {"del_choose", "set_quota_val"} /\ Says(Blank)
  /\ \E S \in (SUBSET adm.sel) \ {{}} :
       Runs(<<<<IF adm.step = "del_choose" THEN "delete" ELSE "change", Admin, S>>>>)
  /\ UNCHANGED <<table, acct>>
\* Info and Lock forget everything.  The button Lock then offers is answered
\* with the name "y:<user>", of no account: nothing is ever locked.
TextForgets == adm.step = "lock_user" /\ Answers(Blank)

\* Max Users, or Data Quota, which no code but the display reads.  A reseller
\* deleted since is an error, and the step stays.
TextEdit(max) ==
  /\ adm.step = "edit_maxu" /\ Listed(adm.rid) /\ pending = {} /\ Says(Blank)
  /\ row' = [row EXCEPT ![adm.rid].max = max]
  /\ UNCHANGED <<pending, svc, granted, crontab, acct, todo>>
TextCode(code) ==
  /\ adm.step = "edit_code" /\ (Listed(adm.rid) => pending = {}) /\ Says(Blank)
  /\ row' = IF Listed(adm.rid) THEN [row EXCEPT ![adm.rid].code = code] ELSE row
  /\ UNCHANGED <<pending, svc, granted, crontab, acct, todo>>
\* reseller_extend_expiry counts from the old date, which may be long past, and
\* activates the reseller, whose bot may have been removed.
TextExtend ==
  /\ adm.step = "extend_reseller" /\ (Listed(adm.rid) => pending = {}) /\ Says(Blank)
  /\ \E due \in {FALSE, row[adm.rid].due} :
       row' = IF Listed(adm.rid) THEN [row EXCEPT ![adm.rid].is = "on", ![adm.rid].due = due] ELSE row
  /\ UNCHANGED <<pending, svc, granted, crontab, acct, todo>>
\* Seven questions, from the name to the data quota.
TextWizard == adm.step = "none" /\ adm.cr = "asking" /\ Answers([adm EXCEPT !.cr = "ready"])

-----------------------------------------------------------------------------
\* The bot of a reseller.  Every update reads the row first; the access code is
\* the one question whose answer it takes from anybody.

MayEnter(r, c) == row[r].is = "on" /\ ~row[r].due /\ row[r].tgid \in {0, c}
NeedsCode(r, c) == row[r].code /\ row[r].tgid = 0 /\ <<r, c>> \notin granted
Auth(r, c) == MayEnter(r, c) /\ ~NeedsCode(r, c)

Update(r, c, to) ==
  /\ svc[r] /\ Idle(r) /\ chat' = [chat EXCEPT ![r][c] = to]
  /\ UNCHANGED <<row, pending, svc, crontab, adm, crashes>>
Reads(r, c, to) == Auth(r, c) /\ Update(r, c, to) /\ UNCHANGED granted
Asks(r, c, to) ==
  /\ Reads(r, c, to) /\ presses < MaxPresses /\ presses' = presses + 1
  /\ UNCHANGED <<acct, todo, late, others>>

AskCode(r, c) ==
  /\ MayEnter(r, c) /\ NeedsCode(r, c) /\ chat[r][c].step # "r_access"
  /\ Update(r, c, [chat[r][c] EXCEPT !.step = "r_access"])
  /\ UNCHANGED <<granted, acct, todo, late, others, presses>>
RightCode(r, c) ==
  /\ chat[r][c].step = "r_access" /\ Listed(r) /\ row[r].code
  /\ Update(r, c, [chat[r][c] EXCEPT !.step = "none"])
  /\ granted' = granted \cup {<<r, c>>}
  /\ UNCHANGED <<acct, todo, late, others, presses>>

PressTunnel(r, c, t) == t \in row[r].tunnels
  /\ Asks(r, c, [chat[r][c] EXCEPT !.step = "r_user", !.tunnel = t])
PressMine(r, c, step) == Asks(r, c, [chat[r][c] EXCEPT !.step = step])
PressDeleteMine(r, c) ==
  Asks(r, c, IF Tagged(r) = {} THEN Quiet ELSE [chat[r][c] EXCEPT !.step = "r_del_choose", !.sel = Tagged(r)])

At(r, c, step) == chat[r][c].step = step /\ UNCHANGED presses
Onward(r, c, to) == Reads(r, c, to) /\ UNCHANGED <<acct, todo, late, others>>

MineName(r, c, u) == At(r, c, "r_user") /\ ~Here(u)
  /\ Onward(r, c, [chat[r][c] EXCEPT !.step = "r_quota", !.user = u])

\* do_create_reseller.  The accounts are counted before the new one is created,
\* and it is tagged after.  The button of the tunnel xray asks for vmess, vless
\* or trojan, and none of these is a tunnel a reseller can be allowed.
\* Mutant: the limit itself is not yet too many.
FullPast(r) == Cardinality(Tagged(r)) > row[r].max
Full(r) == Cardinality(Tagged(r)) >= row[r].max
Allowed(r, t) == t \in row[r].tunnels \ {"xray"}
MineTerms(r, c) ==
  /\ At(r, c, "r_quota") /\ Reads(r, c, Quiet)
  /\ LET m == chat[r][c] IN
       todo' = IF Full(r) \/ ~Allowed(r, m.tunnel) THEN todo
               ELSE [todo EXCEPT ![r] = <<<<"create", m.user>>, <<"tag", r, m.user, row[r].max>>>>]
  /\ late' = late \cup Untagged(r)
  /\ UNCHANGED <<acct, others>>

MineNumbers(r, c) ==
  /\ At(r, c, "r_del_choose") /\ Reads(r, c, Quiet)
  /\ \E S \in (SUBSET chat[r][c].sel) \ {{}} : todo' = [todo EXCEPT ![r] = <<<<"delete", r, S>>>>]
  /\ UNCHANGED <<acct, late, others>>

\* To renew, the name is asked, then the days, and then the owner is checked.
\* For a quota, the owner is checked as soon as the name is known.
MineRenew(r, c, u) == At(r, c, "r_renew_user")
  /\ Onward(r, c, IF Here(u) THEN [chat[r][c] EXCEPT !.step = "r_renew_days", !.user = u] ELSE Quiet)
MineDays(r, c) ==
  /\ At(r, c, "r_renew_days") /\ Reads(r, c, Quiet)
  /\ LET u == chat[r][c].user IN
       todo' = IF u \in Tagged(r) THEN [todo EXCEPT ![r] = <<<<"change", r, {u}>>>>] ELSE todo
  /\ Looks(r) /\ UNCHANGED <<acct, late>>
MineQuota(r, c, u) == At(r, c, "r_setquota_user")
  /\ Onward(r, c, IF u \in Tagged(r) THEN [chat[r][c] EXCEPT !.step = "r_setquota_val", !.user = u] ELSE Quiet)
MineQuotaValue(r, c) ==
  /\ At(r, c, "r_setquota_val") /\ Reads(r, c, Quiet)
  /\ LET u == chat[r][c].user IN
       acct' = IF Here(u) THEN [acct EXCEPT ![u].by = r] ELSE acct
  /\ UNCHANGED <<todo, late, others>>

-----------------------------------------------------------------------------
\* The panel, the days and the machine.

\* renew_user writes the meta file anew and then puts the reseller back.
PanelRenew(u) ==
  /\ Idle("panel") /\ Here(u) /\ presses < MaxPresses /\ presses' = presses + 1
  /\ acct' = [acct EXCEPT ![u] = New]
  /\ todo' = IF acct[u].owner = Admin THEN todo
             ELSE [todo EXCEPT !["panel"] = <<<<"tag", acct[u].owner, u, 0>>>>]
  /\ UNCHANGED <<table, talk, late, others, crashes>>

\* uninstall_telegram_bot, then install_telegram_bot: the table is gone and its
\* ids begin again, while the accounts keep their tags and the access codes
\* their files; the crontab line goes and does not come back.  Not while the
\* cleanup runs.
Reinstall ==
  /\ Idle("cron") /\ presses < MaxPresses /\ presses' = presses + 1
  /\ row' = [r \in Rids |-> NoRow] /\ svc' = [r \in Rids |-> FALSE] /\ crontab' = FALSE
  /\ adm' = Blank /\ chat' = [r \in Rids |-> [c \in Chats |-> Quiet]]
  /\ todo' = [p \in Procs |-> IF p = "panel" THEN todo[p] ELSE <<>>]
  /\ late' = late \cup UNION {Tagged(r) \cup Untagged(r) : r \in Rids}
  /\ UNCHANGED <<pending, acct, granted, others, crashes>>

Expire(r) ==
  /\ Listed(r) /\ ~row[r].due /\ row' = [row EXCEPT ![r].due = TRUE]
  /\ UNCHANGED <<pending, svc, granted, crontab, acct, talk, todo, late, others, presses, crashes>>

\* A process dies; systemd restarts the bots.  What the cleanup has not
\* committed is not done.
Crash(p) ==
  /\ ~Idle(p) /\ crashes < MaxCrashes /\ crashes' = crashes + 1
  /\ todo' = [todo EXCEPT ![p] = <<>>]
  /\ adm' = IF p = "admin" THEN Blank ELSE adm
  /\ chat' = IF p \in Rids THEN [chat EXCEPT ![p] = [c \in Chats |-> Quiet]] ELSE chat
  /\ pending' = IF p = "cron" THEN {} ELSE pending
  /\ UNCHANGED <<row, svc, granted, crontab, acct, late, others, presses>>

AdminBot ==
  \/ PressCreate \/ PressNewReseller \/ TextTerms \/ TextDays \/ TextNumbers \/ TextForgets
  \/ \E step \in {"renew_user", "lock_user"} : PressUser(step)
  \/ \E step \in {"del_choose", "set_quota_val"} : PressNumbers(step)
  \/ \E u \in Users : TextName(u) \/ TextRenew(u)
  \/ \E r \in Rids : PressToggle(r) \/ PressDelete(r)
       \/ \E step \in {"edit_maxu", "edit_code", "extend_reseller"} : PressEdit(step, r)
       \/ \E settings \in Settings : PressDone(r, settings)
  \/ \E max \in Limits : TextEdit(max)
  \/ \E code \in BOOLEAN : TextCode(code)
  \/ TextExtend \/ TextWizard
AsksOwner(r) == \E c \in Chats :
  \/ PressDeleteMine(r, c) \/ MineTerms(r, c) \/ MineNumbers(r, c) \/ MineDays(r, c)
  \/ \E t \in Tunnels : PressTunnel(r, c, t)
  \/ \E step \in {"r_renew_user", "r_setquota_user"} : PressMine(r, c, step)
  \/ \E u \in Users : MineName(r, c, u) \/ MineRenew(r, c, u) \/ MineQuota(r, c, u)
ResellerBot(r) ==
  \/ AsksOwner(r)
  \/ \E c \in Chats : AskCode(r, c) \/ RightCode(r, c) \/ MineQuotaValue(r, c)
Command(p) ==
  \/ Create(p) \/ WriteMeta(p) \/ Tag(p) \/ Delete(p) \/ Remove(p) \/ Change(p) \/ Purge(p) \/ Sweep(p)
  \/ Serve(p) \/ Unserve(p) \/ Drop(p)
Cron == CleanNext \/ SetInactive \/ Command("cron")

Next ==
  \/ AdminBot \/ \E r \in Rids : ResellerBot(r)
  \/ \E p \in Procs : Command(p) \/ Crash(p)
  \/ Cleanup \/ CleanNext \/ SetInactive
  \/ \E u \in Users : PanelRenew(u)
  \/ Reinstall \/ \E r \in Rids : Expire(r)

\* Every script goes on, and cron starts the cleanup every day.
Fairness == WF_vars(Cleanup) /\ WF_vars(Cron) /\ \A p \in Procs : WF_vars(Command(p))
Spec == Init /\ [][Next]_vars /\ Fairness

-----------------------------------------------------------------------------
\* Properties.

\* "Max users: your ceiling" (RESELLER_HELP): the bot counts, creates and tags in
\* three steps, and yet never tags one account more than the limit it has read;
\* a renewal in the panel, which takes the tag off meanwhile, may add one.
WithinLimit == [][\A r \in Rids : Tag(r) =>
  Cardinality(Tagged(r)' \ late') <= Head(todo[r])[4]]_vars

\* "You manage only YOUR accounts" (RESELLER_HELP): no step of a reseller's bot
\* creates over, tags, renews or deletes an account of somebody else that was
\* there when the bot last looked.  Two things it may do to one: change the quota
\* of an account it had at the message before (MineQuotaValue), and take over,
\* renew or delete one that came between its look and its act, of which the code
\* makes no single step.
OwnAccountsOnly == [][\A r \in Rids : AsksOwner(r) \/ Command(r) =>
  \A u \in others[r] : acct'[u] = acct[u]]_vars

\* "Reseller + all their users deleted" (callback_handler): when the bot of a
\* reseller has been removed, none of its accounts is left, but those that were
\* tagged while they were being looked for.
RemovedLeavesNoAccount == \A r \in Rids : ~svc[r] => Tagged(r) \subseteq late

\* "Expired resellers auto-deactivated daily by cron" (callback_handler), as long
\* as cron has the line.
ExpiredIsCleaned == \A r \in Rids : (Expired(r) /\ crontab) ~> ~(Expired(r) /\ crontab)
=============================================================================
