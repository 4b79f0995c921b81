----------------------------- MODULE ZivpnPanel -----------------------------
(***************************************************************************)
(* The zivpn accounts of the panel (install2.py), the files they live in   *)
(* and the server they configure, one administrator's call at a time:      *)
(* every operation runs to its end before the next one starts, beside a    *)
(* server that counts, flushes and dies at any moment between two of them. *)
(*                                                                         *)
(* An account is keyed by its login and counted by its password.  Its data *)
(* is spread over its meta file, the registry of issued passwords, the     *)
(* quarantine, config.json, quota-state.json and its mirror, the hourly    *)
(* backups, and the memory of the server.  The properties say that these   *)
(* copies tell one story about who is served, who is counted and who owns  *)
(* a password.                                                             *)
(*                                                                         *)
(* Data is counted in units of which a quota is a small number.            *)
(***************************************************************************)
EXTENDS Naturals, FiniteSetsExt

CONSTANTS
  Users, Passwords,
  None,          \* no login, no password
  Quotas,        \* quotas an account may have; 0 is none
  MaxCount,      \* bound: units counted on one password
  MaxDamage      \* bound: times quota-state.json becomes unreadable

ASSUME QuotasAssumption == Quotas \subseteq Nat
ASSUME BoundsAssumption == MaxCount \in Nat /\ MaxDamage \in Nat

VARIABLES
  live,          \* logins that have a meta file
  meta,          \* their fields
  registry,      \* issued-passwords.txt
  quarantine,    \* quarantine.json: password -> login
  conf,          \* auth.config and quota of config.json
  state, bak,    \* quota-state.json and its mirror
  backups,       \* passwords that appear in some hourly backup
  proc,          \* the server process
  floor,         \* history: what was last flushed for an account
  damages

vars == <<live, meta, registry, quarantine, conf, state, bak, backups, proc, floor, damages>>

Zero == [p \in Passwords |-> 0]
Blank == [pass |-> None, quota |-> 0, expired |-> FALSE,
          locked |-> FALSE, quotaHit |-> FALSE, expLock |-> FALSE, total |-> 0, last |-> 0]

\* Keys of the "used" and "quotas" sections of a state file; 0 is an absent
\* key of "used".
NoKeys == [ok |-> TRUE, used |-> Zero, quotas |-> {}]
Mentions(f, p) == f.used[p] > 0 \/ p \in f.quotas

Owned == {meta[u].pass : u \in live}

-----------------------------------------------------------------------------
\* What zivpn_apply wants in config.json: the active accounts, and the largest
\* quota of those that share a password.
\* Mutant: locked accounts stay in the list.
ActiveIgnoresLock(lv, mt) == {u \in lv : ~mt[u].expired}

Active(lv, mt) == {u \in lv : ~mt[u].expired /\ ~mt[u].locked}

Wanted(lv, mt) ==
  [auth  |-> {mt[u].pass : u \in Active(lv, mt)},
   quota |-> [p \in Passwords |->
                Max({0} \cup {mt[u].quota : u \in {v \in Active(lv, mt) : mt[v].pass = p}})]]

Limited(c) == {p \in Passwords : c.quota[p] > 0}

\* The server as it starts: an empty password list is fatal; the counters are
\* loaded, from the mirror if need be, when some account has a quota.
Down == [up |-> FALSE, conf |-> [auth |-> {}, quota |-> Zero], mem |-> Zero]

Started(c, st, bk) ==
  IF c.auth = {} THEN Down
  ELSE [up |-> TRUE, conf |-> c,
        mem |-> IF Limited(c) = {} THEN Zero ELSE IF st.ok THEN st.used ELSE bk.used]

\* Mutant: a changed config.json is not followed by a restart.
ApplyWithoutRestart(lv, mt, st, bk, bounce) ==
  /\ live' = lv /\ meta' = mt /\ state' = st /\ bak' = bk
  /\ conf' = Wanted(lv, mt)
  /\ proc' = IF bounce THEN Started(Wanted(lv, mt), st, bk) ELSE proc

\* The end of every operation: zivpn_apply rewrites config.json and restarts
\* the server if that changed a byte; bounce is an operation that stopped the
\* server before and starts it again after.
Apply(lv, mt, st, bk, bounce) ==
  LET c == Wanted(lv, mt) IN
    /\ live' = lv /\ meta' = mt /\ state' = st /\ bak' = bk
    /\ conf' = c
    /\ proc' = IF bounce \/ c # conf THEN Started(c, st, bk) ELSE proc

\* An operation on one account that only rewrites its meta file.
ApplyMeta(u, fields) == Apply(live, [meta EXCEPT ![u] = fields], state, bak, FALSE)

Quarantined(q, u) == [q EXCEPT ![meta[u].pass] = u]
Released(q, u) == [p \in Passwords |-> IF q[p] = u THEN None ELSE q[p]]

\* _zivpn_forget_password: an unreadable state file is left alone, and so is
\* then the mirror.
Forgotten(f, p) == [f EXCEPT !.used[p] = 0, !.quotas = @ \ {p}]
StateWithout(p) == IF state.ok THEN Forgotten(state, p) ELSE state
\* Mutant: the mirror keeps the key.
BakKept(p) == bak
BakWithout(p) == IF state.ok /\ Mentions(state, p) THEN Forgotten(state, p) ELSE bak

\* Mutant: only the quotas section is renamed.
RenamedQuotas(f, old, new) ==
  [f EXCEPT !.quotas = IF old \in @ THEN (@ \ {old}) \cup {new} ELSE @]

\* _zivpn_migrate_state_key renames the key, section by section, unless the
\* new one is taken.
Renamed(f, old, new) ==
  [ok |-> TRUE,
   used |-> IF f.used[new] = 0 THEN [f.used EXCEPT ![new] = f.used[old], ![old] = 0] ELSE f.used,
   quotas |-> IF old \in f.quotas /\ new \notin f.quotas
                THEN (f.quotas \ {old}) \cup {new} ELSE f.quotas]

\* get_zivpn_traffic: the raw counter, read from an unreadable file as 0, is
\* projected on the lifetime total; a decrease is taken for a reset.
Raw(m) == IF state.ok THEN state.used[m.pass] ELSE 0
\* Mutant: the last value seen is not remembered.
SyncedForgetsLast(m) == [m EXCEPT !.total = @ + Raw(m)]
Synced(m) ==
  [m EXCEPT !.total = @ + (IF Raw(m) >= m.last THEN Raw(m) - m.last ELSE Raw(m)),
            !.last = Raw(m)]

\* _zivpn_sync_usage refreshes every account.
AllSynced == [u \in Users |-> IF u \in live THEN Synced(meta[u]) ELSE meta[u]]

\* zivpn_state_restore: an unreadable state file is replaced by its mirror.
Repaired == IF state.ok THEN state ELSE bak

\* issued-passwords.txt, and the hourly backups without one password.
Issued(p) == registry \cup {p}
Freed(p) == registry \ {p}
Seeded == registry \cup Owned
BackupsWithout(p) == backups \ {p}

-----------------------------------------------------------------------------
Init ==
  /\ live = {} /\ meta = [u \in Users |-> Blank]
  /\ registry = {} /\ quarantine = [p \in Passwords |-> None]
  /\ conf = Wanted({}, [u \in Users |-> Blank])
  /\ state = NoKeys /\ bak = NoKeys /\ backups = {}
  /\ proc = Down
  /\ floor = [u \in Users |-> 0]
  /\ damages = 0

\* A password still registered is given out again only when neither the state
\* nor the mirror nor the quarantine mentions it.  In doubt (an unreadable
\* file) it is refused.
HasResiduals(p) ==
  ~state.ok \/ Mentions(state, p) \/ Mentions(bak, p) \/ quarantine[p] # None

Create(u, p, q) ==
  /\ u \notin live /\ p \notin Owned
  /\ p \in registry => ~HasResiduals(p)
  /\ registry' = Issued(p)
  /\ backups' = IF p \in registry THEN BackupsWithout(p) ELSE backups
  /\ Apply(live \cup {u}, [meta EXCEPT ![u] = [Blank EXCEPT !.pass = p, !.quota = q]],
           state, bak, FALSE)
  /\ floor' = [floor EXCEPT ![u] = 0]
  /\ UNCHANGED <<quarantine, damages>>

\* The server, if it runs, is stopped before the purge and started after it.
Delete(u) ==
  /\ u \in live
  /\ LET p == meta[u].pass IN
       /\ Apply(live \ {u}, [meta EXCEPT ![u] = Blank], StateWithout(p), BakWithout(p), proc.up)
       /\ quarantine' = [Released(quarantine, u) EXCEPT ![p] = None]
       /\ registry' = Freed(p)
       /\ backups' = BackupsWithout(p)
  /\ floor' = [floor EXCEPT ![u] = 0]
  /\ UNCHANGED damages

\* delete_user on an identity without meta file: a counter nobody owns, or a
\* quarantine entry whose login is gone.
DeleteOrphan(p) ==
  /\ p \notin Owned
  /\ \/ quarantine[p] = None /\ state.ok /\ Mentions(state, p)
     \/ quarantine[p] # None /\ quarantine[p] \notin live
  /\ Apply(live, meta, StateWithout(p), BakWithout(p), proc.up)
  /\ quarantine' = [quarantine EXCEPT ![p] = None]
  /\ registry' = Freed(p)
  /\ backups' = BackupsWithout(p)
  /\ UNCHANGED <<floor, damages>>

\* Mutant: the new password is not compared with those in use or registered.
ChangePasswordUnchecked(u, new) ==
  /\ u \in live /\ new # meta[u].pass
  /\ Apply(live, [meta EXCEPT ![u].pass = new], state, bak, proc.up)
  /\ registry' = (registry \cup {new}) \ {meta[u].pass}
  /\ backups' = backups \ {meta[u].pass}
  /\ UNCHANGED <<quarantine, floor, damages>>

\* The counter follows the account to its new password, which must be nobody's
\* and not registered; the old one is released.
ChangePassword(u, new) ==
  /\ u \in live /\ new # meta[u].pass
  /\ new \notin Owned /\ new \notin registry
  /\ LET old == meta[u].pass
         moves == state.ok /\ Mentions(state, old)
         st == IF moves THEN Renamed(state, old, new) ELSE state
     IN /\ Apply(live, [meta EXCEPT ![u].pass = new], st, IF moves THEN st ELSE bak, proc.up)
        /\ registry' = (registry \cup {new}) \ {old}
        /\ backups' = BackupsWithout(old)
  /\ UNCHANGED <<quarantine, floor, damages>>

Renew(u) ==
  /\ u \in live
  /\ ApplyMeta(u, IF meta[u].locked /\ meta[u].expLock
                    THEN [meta[u] EXCEPT !.expired = FALSE, !.expLock = FALSE, !.locked = FALSE]
                    ELSE [meta[u] EXCEPT !.expired = FALSE])
  /\ UNCHANGED <<registry, quarantine, backups, floor, damages>>

SetQuota(u, q) ==
  /\ u \in live
  /\ ApplyMeta(u, IF meta[u].quotaHit
                    THEN [meta[u] EXCEPT !.quota = q, !.quotaHit = FALSE, !.locked = FALSE]
                    ELSE [meta[u] EXCEPT !.quota = q])
  /\ quarantine' = Released(quarantine, u)
  /\ UNCHANGED <<registry, backups, floor, damages>>

Lock(u) ==
  /\ u \in live
  /\ ApplyMeta(u, [meta[u] EXCEPT !.locked = TRUE])
  /\ quarantine' = Quarantined(quarantine, u)
  /\ UNCHANGED <<registry, backups, floor, damages>>

Unlock(u) ==
  /\ u \in live
  /\ ApplyMeta(u, [meta[u] EXCEPT !.locked = FALSE])
  /\ quarantine' = Released(quarantine, u)
  /\ UNCHANGED <<registry, backups, floor, damages>>

\* zivpn_block_users: an account that is locked already is only quarantined.
Block(u, reason) ==
  /\ u \in live
  /\ IF meta[u].locked
       THEN UNCHANGED <<live, meta, state, bak, conf, proc>>
       ELSE ApplyMeta(u, [meta[u] EXCEPT !.locked = TRUE,
                                         !.quotaHit = @ \/ reason = "quota",
                                         !.expLock = @ \/ reason = "expired"])
  /\ quarantine' = Quarantined(quarantine, u)
  /\ UNCHANGED <<registry, backups, floor, damages>>

Unblock(u) ==
  /\ u \in live
  /\ ApplyMeta(u, [meta[u] EXCEPT !.locked = FALSE, !.quotaHit = FALSE, !.expLock = FALSE])
  /\ quarantine' = Released(quarantine, u)
  /\ UNCHANGED <<registry, backups, floor, damages>>

-----------------------------------------------------------------------------
\* The crons.

\* quota_enforce on one account, after the refresh of its total.
Exhausted(m) == m.quota > 0 /\ m.total >= m.quota

Enforced(m) ==
  IF m.expired
    THEN IF m.locked THEN m ELSE [m EXCEPT !.locked = TRUE, !.expLock = TRUE]
  ELSE IF Exhausted(m) /\ ~m.locked
    THEN [m EXCEPT !.quotaHit = TRUE, !.locked = TRUE]
  ELSE IF m.locked /\ m.quotaHit /\ ~Exhausted(m)
    THEN [m EXCEPT !.quotaHit = FALSE, !.locked = FALSE]
  ELSE m

QuotaEnforce ==
  /\ live # {}
  /\ LET new == [u \in Users |-> IF u \in live THEN Enforced(AllSynced[u]) ELSE meta[u]]
         lockedNow == {u \in live : new[u].locked /\ ~meta[u].locked}
         freedNow == {u \in live : meta[u].locked /\ ~new[u].locked}
     IN /\ IF lockedNow \cup freedNow # {}
             THEN Apply(live, new, state, bak, FALSE)
             ELSE meta' = new /\ UNCHANGED <<live, state, bak, conf, proc>>
        /\ quarantine' = [p \in Passwords |->
             IF \E u \in lockedNow : new[u].pass = p
               THEN CHOOSE u \in lockedNow : new[u].pass = p
             ELSE IF quarantine[p] \in freedNow THEN None ELSE quarantine[p]]
  /\ UNCHANGED <<registry, backups, floor, damages>>

\* zivpn_quota_guard: start the server, seed the registry, refresh the totals,
\* repair an unreadable state from the mirror, and apply if the configuration
\* does not match the accounts.  (Its placeholder for an empty list needs a
\* server that runs with one.)  After an apply it holds back for ten minutes.
Guard ==
  LET running == IF proc.up THEN proc ELSE Started(conf, state, bak)
      wanted == Wanted(live, meta)
  IN /\ running.up
     /\ registry' = Seeded
     /\ meta' = AllSynced
     /\ state' = Repaired
     /\ \E cooldown \in BOOLEAN :
          IF Limited(wanted) # {} /\ ~cooldown /\ conf # wanted
            THEN conf' = wanted /\ proc' = Started(wanted, Repaired, bak)
            ELSE proc' = running /\ UNCHANGED conf
     /\ UNCHANGED <<live, quarantine, bak, backups, floor, damages>>

\* --zivpn-sync-usage, and --zivpn-status, which shows what it refreshes.
SyncUsage ==
  /\ meta' = AllSynced
  /\ UNCHANGED <<live, registry, quarantine, conf, state, bak, backups, proc, floor, damages>>

\* --zivpn-state-restore, beside a server that keeps its own memory.
Restore ==
  /\ state' = Repaired
  /\ UNCHANGED <<live, meta, registry, quarantine, conf, bak, backups, proc, floor, damages>>

\* The hourly copy of the state.
Backup ==
  /\ backups' = backups \cup (IF state.ok THEN {p \in Passwords : Mentions(state, p)} ELSE {})
                        \cup {p \in Passwords : Mentions(bak, p)}
  /\ UNCHANGED <<live, meta, registry, quarantine, conf, state, bak, proc, floor, damages>>

-----------------------------------------------------------------------------
\* The server and the world.

\* Log on a password that has a quota.
Use(p) ==
  /\ proc.up /\ p \in proc.conf.auth \cap Limited(proc.conf)
  /\ proc.mem[p] < MaxCount
  /\ proc' = [proc EXCEPT !.mem[p] = @ + 1]
  /\ UNCHANGED <<live, meta, registry, quarantine, conf, state, bak, backups, floor, damages>>

Flush ==
  /\ proc.up /\ Limited(proc.conf) # {}
  /\ state' = [ok |-> TRUE, used |-> proc.mem, quotas |-> Limited(proc.conf)]
  /\ bak' = state'
  /\ floor' = [u \in Users |-> IF u \in live THEN proc.mem[meta[u].pass] ELSE 0]
  /\ UNCHANGED <<live, meta, registry, quarantine, conf, backups, proc, damages>>

\* The server dies and systemd restarts it.
ServerRestart ==
  /\ proc.up
  /\ proc' = Started(conf, state, bak)
  /\ UNCHANGED <<live, meta, registry, quarantine, conf, state, bak, backups, floor, damages>>

\* The expiry date of an account passes.
Expire(u) ==
  /\ u \in live /\ ~meta[u].expired
  /\ meta' = [meta EXCEPT ![u].expired = TRUE]
  /\ UNCHANGED <<live, registry, quarantine, conf, state, bak, backups, proc, floor, damages>>

DamageState ==
  /\ damages < MaxDamage /\ state.ok
  /\ state' = [state EXCEPT !.ok = FALSE]
  /\ damages' = damages + 1
  /\ UNCHANGED <<live, meta, registry, quarantine, conf, bak, backups, proc, floor>>

AccountCall(u) ==
  \/ \E p \in Passwords, q \in Quotas : Create(u, p, q)
  \/ \E p \in Passwords : ChangePassword(u, p)
  \/ Delete(u) \/ Renew(u) \/ Lock(u) \/ Unlock(u) \/ Unblock(u)
  \/ \E q \in Quotas : SetQuota(u, q)
  \/ \E r \in {"manual", "quota", "expired"} : Block(u, r)

Next ==
  \/ \E u \in Users : AccountCall(u) \/ Expire(u)
  \/ \E p \in Passwords : DeleteOrphan(p) \/ Use(p)
  \/ QuotaEnforce \/ Guard \/ SyncUsage \/ Restore \/ Backup \/ Flush \/ ServerRestart \/ DamageState

Spec == Init /\ [][Next]_vars

-----------------------------------------------------------------------------
StateFiles == [ok : BOOLEAN, used : [Passwords -> Nat], quotas : SUBSET Passwords]
Confs == [auth : SUBSET Passwords, quota : [Passwords -> Nat]]

\* Every file and the process have their type, and a running server has read
\* the configuration that is on disk, which lists somebody.
TypeOK ==
  /\ live \subseteq Users
  /\ meta \in [Users -> [pass : Passwords \cup {None}, quota : Quotas \cup {0}, expired : BOOLEAN,
                         locked : BOOLEAN, quotaHit : BOOLEAN, expLock : BOOLEAN,
                         total : Nat, last : Nat]]
  /\ registry \subseteq Passwords /\ backups \subseteq Passwords
  /\ quarantine \in [Passwords -> Users \cup {None}]
  /\ conf \in Confs /\ state \in StateFiles /\ bak \in StateFiles
  /\ proc \in [up : BOOLEAN, conf : Confs, mem : [Passwords -> Nat]]
  /\ floor \in [Users -> Nat] /\ damages \in 0..MaxDamage
  /\ proc.up => proc.conf = conf /\ conf.auth # {}

\* The configuration serves exactly whom the accounts say: no locked account
\* gets in, no account in order is turned away, and nobody else is listed.  An
\* account that expired since the last call may still be there.
ServedAsDecided ==
  /\ \A u \in live :
       /\ meta[u].locked => meta[u].pass \notin conf.auth
       /\ ~meta[u].locked /\ ~meta[u].expired =>
            meta[u].pass \in conf.auth /\ conf.quota[meta[u].pass] = meta[u].quota
  /\ conf.auth \subseteq Owned

\* A password in use has one owner and is registered, whatever was renamed,
\* released and given out again (CONTRAT_QUOTA.md, principle 2).
PasswordHasOneOwner ==
  /\ \A u, v \in live : meta[u].pass = meta[v].pass => u = v
  /\ Owned \subseteq registry

\* A password that was released can be given out without a check, so no
\* counter of it is left: not in the state, the mirror, a backup or the memory
\* of the server.  (Unless the state file was unreadable: the purge then
\* fails silently.)
ReleasedLeavesNoCounter == damages = 0 => \A p \in Passwords \ registry :
  ~Mentions(state, p) /\ ~Mentions(bak, p) /\ p \notin backups /\ proc.mem[p] = 0

\* An account keeps what was flushed for it through every change of password,
\* lock, quota and restart (CONTRAT_QUOTA.md, principle 3), as long as the
\* state file stays readable: the purge and the renaming give up silently.
CounterFollowsAccount == damages = 0 => \A u \in live :
  /\ state.used[meta[u].pass] >= floor[u] /\ bak.used[meta[u].pass] >= floor[u]
  /\ proc.up /\ Limited(proc.conf) # {} => proc.mem[meta[u].pass] >= floor[u]

\* The lifetime total of an account is the part of its counter the panel has
\* seen, never more (CONTRAT_QUOTA.md, principle 5: the panel only projects);
\* an unreadable state file counts as zero, and is billed again once repaired.
BilledOnce == damages = 0 => \A u \in live :
  meta[u].total = meta[u].last /\ meta[u].total <= state.used[meta[u].pass]

=============================================================================
