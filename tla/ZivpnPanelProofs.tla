-------------------------- MODULE ZivpnPanelProofs --------------------------
(***************************************************************************)
(* For any number of accounts and passwords: whatever is created, renamed, *)
(* deleted and seeded, a password in use has one owner and is registered,  *)
(* even while quota-state.json is unreadable, and config.json serves       *)
(* exactly whom the accounts say.                                          *)
(***************************************************************************)
EXTENDS ZivpnPanel, TLAPS

\* The meta files, as far as they say who owns a password: each has the field,
\* and that of a live account names a password.
MetaOK ==
  /\ live \subseteq Users
  /\ DOMAIN meta = Users
  /\ \A u \in Users : "pass" \in DOMAIN meta[u]
  /\ \A u \in live : meta[u].pass \in Passwords

OwnerInv == MetaOK /\ PasswordHasOneOwner

LEMMA OwnerInit == Init => OwnerInv
BY DEF Init, OwnerInv, MetaOK, PasswordHasOneOwner, Owned, Blank

\* A step that changes neither the set of accounts nor a password, and
\* removes nothing from the registry.
LEMMA OwnerSame ==
  ASSUME OwnerInv, live' = live, DOMAIN meta' = Users,
         \A u \in Users : "pass" \in DOMAIN meta'[u],
         \A u \in live : meta'[u].pass = meta[u].pass,
         registry \subseteq registry'
  PROVE  OwnerInv'
BY DEF OwnerInv, MetaOK, PasswordHasOneOwner, Owned

LEMMA CreateKeeps ==
  ASSUME OwnerInv, NEW u \in Users, NEW p \in Passwords, NEW q \in Quotas, Create(u, p, q)
  PROVE  OwnerInv'
<1>1. /\ live' = live \cup {u}
      /\ meta' = [meta EXCEPT ![u] = [Blank EXCEPT !.pass = p, !.quota = q]]
      /\ registry' = registry \cup {p}
      /\ u \notin live /\ p \notin Owned
  BY DEF Create, Apply, Issued
<1>2. /\ meta'[u].pass = p /\ "pass" \in DOMAIN meta'[u]
      /\ \A v \in live : meta'[v] = meta[v]
  BY <1>1 DEF OwnerInv, MetaOK, Blank
<1>3. MetaOK'
  BY <1>1, <1>2 DEF OwnerInv, MetaOK
<1>4. \A v \in live : meta[v].pass # p
  BY <1>1 DEF Owned
<1>5. PasswordHasOneOwner'
  BY <1>1, <1>2, <1>4 DEF OwnerInv, PasswordHasOneOwner, Owned
<1> QED
  BY <1>3, <1>5 DEF OwnerInv

LEMMA DeleteKeeps ==
  ASSUME OwnerInv, NEW u \in Users, Delete(u)
  PROVE  OwnerInv'
<1>1. /\ u \in live
      /\ live' = live \ {u}
      /\ meta' = [meta EXCEPT ![u] = Blank]
      /\ registry' = registry \ {meta[u].pass}
  BY DEF Delete, Apply, Freed
<1>2. \A v \in live' : v \in live /\ v # u /\ meta'[v] = meta[v]
  BY <1>1 DEF OwnerInv, MetaOK
<1>3. MetaOK'
  BY <1>1, <1>2 DEF OwnerInv, MetaOK, Blank
<1>4. \A v \in live' : meta[v].pass # meta[u].pass
  BY <1>1, <1>2 DEF OwnerInv, PasswordHasOneOwner
<1>5. PasswordHasOneOwner'
  BY <1>1, <1>2, <1>4 DEF OwnerInv, PasswordHasOneOwner, Owned
<1> QED
  BY <1>3, <1>5 DEF OwnerInv

LEMMA DeleteOrphanKeeps ==
  ASSUME OwnerInv, NEW p \in Passwords, DeleteOrphan(p)
  PROVE  OwnerInv'
<1>1. p \notin Owned /\ live' = live /\ meta' = meta /\ registry' = registry \ {p}
  BY DEF DeleteOrphan, Apply, Freed
<1> QED
  BY <1>1 DEF OwnerInv, MetaOK, PasswordHasOneOwner, Owned

LEMMA ChangePasswordKeeps ==
  ASSUME OwnerInv, NEW u \in Users, NEW p \in Passwords, ChangePassword(u, p)
  PROVE  OwnerInv'
<1>1. /\ u \in live /\ p # meta[u].pass /\ p \notin Owned
      /\ live' = live
      /\ meta' = [meta EXCEPT ![u].pass = p]
      /\ registry' = (registry \cup {p}) \ {meta[u].pass}
  BY DEF ChangePassword, Apply
<1>2. /\ DOMAIN meta' = Users
      /\ \A v \in live \ {u} : meta'[v] = meta[v]
  BY <1>1 DEF OwnerInv, MetaOK
<1>3. meta'[u].pass = p /\ "pass" \in DOMAIN meta'[u]
  BY <1>1 DEF OwnerInv, MetaOK
<1>4. MetaOK'
  BY <1>1, <1>2, <1>3 DEF OwnerInv, MetaOK
<1>5. \A v \in live \ {u} : meta[v].pass # meta[u].pass /\ meta[v].pass # p
  BY <1>1 DEF OwnerInv, PasswordHasOneOwner, Owned
<1>6. PasswordHasOneOwner'
  BY <1>1, <1>2, <1>3, <1>5 DEF OwnerInv, PasswordHasOneOwner, Owned
<1> QED
  BY <1>4, <1>6 DEF OwnerInv
\* Synced and Enforced keep the password of an account.
LEMMA SyncedPass ==
  ASSUME NEW a, "pass" \in DOMAIN a
  PROVE  "pass" \in DOMAIN Synced(a) /\ Synced(a).pass = a.pass
BY DEF Synced

LEMMA EnforcedPass ==
  ASSUME NEW a, "pass" \in DOMAIN a
  PROVE  "pass" \in DOMAIN Enforced(a) /\ Enforced(a).pass = a.pass
BY DEF Enforced

LEMMA AllSyncedPass ==
  ASSUME OwnerInv, NEW u \in Users
  PROVE  "pass" \in DOMAIN AllSynced[u] /\ AllSynced[u].pass = meta[u].pass
BY SyncedPass DEF AllSynced, OwnerInv, MetaOK

\* Calls that rewrite the fields of one account.
LEMMA ApplyMetaKeeps ==
  ASSUME OwnerInv, NEW u \in Users, NEW fields, ApplyMeta(u, fields),
         "pass" \in DOMAIN fields, fields.pass = meta[u].pass,
         registry' = registry
  PROVE  OwnerInv'
<1>1. live' = live /\ meta' = [meta EXCEPT ![u] = fields]
  BY DEF ApplyMeta, Apply
<1>2. /\ DOMAIN meta' = Users
      /\ \A v \in Users : "pass" \in DOMAIN meta'[v] /\ meta'[v].pass = meta[v].pass
  BY <1>1 DEF OwnerInv, MetaOK
<1> QED
  BY <1>1, <1>2, OwnerSame DEF OwnerInv, MetaOK

LEMMA AccountCallKeeps ==
  ASSUME OwnerInv, NEW u \in Users, AccountCall(u)
  PROVE  OwnerInv'
<1>0. "pass" \in DOMAIN meta[u]
  BY DEF OwnerInv, MetaOK
<1>1. CASE \E p \in Passwords, q \in Quotas : Create(u, p, q)
  BY <1>1, CreateKeeps
<1>2. CASE \E p \in Passwords : ChangePassword(u, p)
  BY <1>2, ChangePasswordKeeps
<1>3. CASE Delete(u)
  BY <1>3, DeleteKeeps
<1>4. CASE Renew(u)
  BY <1>0, <1>4, ApplyMetaKeeps DEF Renew
<1>5. CASE Lock(u)
  BY <1>0, <1>5, ApplyMetaKeeps DEF Lock
<1>6. CASE Unlock(u)
  BY <1>0, <1>6, ApplyMetaKeeps DEF Unlock
<1>7. CASE Unblock(u)
  BY <1>0, <1>7, ApplyMetaKeeps DEF Unblock
<1>8. CASE \E q \in Quotas : SetQuota(u, q)
  BY <1>0, <1>8, ApplyMetaKeeps DEF SetQuota
<1>9. CASE \E r \in {"manual", "quota", "expired"} : Block(u, r)
  <2>1. PICK r \in {"manual", "quota", "expired"} : Block(u, r)
    BY <1>9
  <2>2. CASE meta[u].locked
    BY <2>1, <2>2, OwnerSame DEF Block, OwnerInv, MetaOK
  <2>3. CASE ~meta[u].locked
    BY <1>0, <2>1, <2>3, ApplyMetaKeeps DEF Block
  <2> QED
    BY <2>2, <2>3
<1> QED
  BY <1>1, <1>2, <1>3, <1>4, <1>5, <1>6, <1>7, <1>8, <1>9 DEF AccountCall

LEMMA QuotaEnforceKeeps ==
  ASSUME OwnerInv, QuotaEnforce
  PROVE  OwnerInv'
<1> DEFINE new == [u \in Users |-> IF u \in live THEN Enforced(AllSynced[u]) ELSE meta[u]]
<1>1. live' = live /\ meta' = new /\ registry' = registry
  BY DEF QuotaEnforce, Apply
<1>2. \A u \in Users : "pass" \in DOMAIN new[u] /\ new[u].pass = meta[u].pass
  <2> TAKE u \in Users
  <2>1. "pass" \in DOMAIN AllSynced[u] /\ AllSynced[u].pass = meta[u].pass
    BY AllSyncedPass
  <2> QED
    BY <2>1, EnforcedPass DEF OwnerInv, MetaOK
<1> QED
  BY <1>1, <1>2, OwnerSame DEF OwnerInv, MetaOK

LEMMA GuardKeeps ==
  ASSUME OwnerInv, Guard
  PROVE  OwnerInv'
<1>1. /\ live' = live
      /\ meta' = AllSynced
      /\ registry \subseteq registry'
  BY DEF Guard, Seeded
<1>2. \A u \in Users : "pass" \in DOMAIN meta'[u] /\ meta'[u].pass = meta[u].pass
  BY <1>1, AllSyncedPass
<1>3. DOMAIN meta' = Users
  BY <1>1 DEF AllSynced
<1> QED
  BY <1>1, <1>2, <1>3, OwnerSame DEF OwnerInv, MetaOK

LEMMA SyncUsageKeeps ==
  ASSUME OwnerInv, SyncUsage
  PROVE  OwnerInv'
<1>1. live' = live /\ meta' = AllSynced /\ registry' = registry
  BY DEF SyncUsage
<1>2. \A u \in Users : "pass" \in DOMAIN meta'[u] /\ meta'[u].pass = meta[u].pass
  BY <1>1, AllSyncedPass
<1>3. DOMAIN meta' = Users
  BY <1>1 DEF AllSynced
<1> QED
  BY <1>1, <1>2, <1>3, OwnerSame DEF OwnerInv, MetaOK

\* Every step keeps the owners: a password leaves the registry only with its
\* only owner, and enters a meta file only when nobody has it.
LEMMA OwnerStep == OwnerInv /\ [Next]_vars => OwnerInv'
<1> SUFFICES ASSUME OwnerInv, [Next]_vars PROVE OwnerInv'
  OBVIOUS
<1>1. CASE \E u \in Users : AccountCall(u)
  BY <1>1, AccountCallKeeps
<1>2. CASE \E u \in Users : Expire(u)
  <2>1. PICK u \in Users : Expire(u)
    BY <1>2
  <2>2. \A v \in Users : "pass" \in DOMAIN meta'[v] /\ meta'[v].pass = meta[v].pass
    BY <2>1 DEF Expire, OwnerInv, MetaOK
  <2> QED
    BY <2>1, <2>2, OwnerSame DEF Expire, OwnerInv, MetaOK
<1>3. CASE \E p \in Passwords : DeleteOrphan(p)
  BY <1>3, DeleteOrphanKeeps
<1>4. CASE QuotaEnforce
  BY <1>4, QuotaEnforceKeeps
<1>5. CASE Guard
  BY <1>5, GuardKeeps
<1>6. CASE SyncUsage
  BY <1>6, SyncUsageKeeps
<1>7. CASE UNCHANGED <<live, meta, registry>>
  BY <1>7, OwnerSame DEF OwnerInv, MetaOK
<1> QED
  BY <1>1, <1>2, <1>3, <1>4, <1>5, <1>6, <1>7
  DEF Next, vars, Use, Restore, Backup, Flush, ServerRestart, DamageState

\* A password in use has one owner and is registered (CONTRAT_QUOTA.md,
\* principle 2), for any number of accounts and passwords and however often
\* quota-state.json becomes unreadable.
THEOREM OneOwner == Spec => []PasswordHasOneOwner
<1>1. Spec => []OwnerInv
  BY OwnerInit, OwnerStep, PTL DEF Spec
<1> QED
  BY <1>1, PTL DEF OwnerInv

-----------------------------------------------------------------------------
\* Types, and who is served.

MetaRecs == [pass : Passwords \cup {None}, quota : Quotas \cup {0}, expired : BOOLEAN,
             locked : BOOLEAN, quotaHit : BOOLEAN, expLock : BOOLEAN,
             total : Nat, last : Nat]
Procs == [up : BOOLEAN, conf : Confs, mem : [Passwords -> Nat]]
Current(p, c) == p.up => p.conf = c /\ c.auth # {}

\* The part of TypeOK that zivpn_apply writes, and the rest.
Core ==
  /\ live \subseteq Users /\ meta \in [Users -> MetaRecs]
  /\ conf \in Confs /\ state \in StateFiles /\ bak \in StateFiles
  /\ proc \in Procs /\ Current(proc, conf)
Rest ==
  /\ registry \subseteq Passwords /\ backups \subseteq Passwords
  /\ quarantine \in [Passwords -> Users \cup {None}]
  /\ floor \in [Users -> Nat] /\ damages \in 0..MaxDamage

LEMMA TypeParts == TypeOK <=> Core /\ Rest
BY DEF TypeOK, Core, Rest, MetaRecs, Procs, Current

\* Accounts in which no two share a password.
Accounts(lv, mt) ==
  /\ lv \subseteq Users /\ mt \in [Users -> MetaRecs]
  /\ \A u \in lv : mt[u].pass \in Passwords
  /\ \A u, v \in lv : mt[u].pass = mt[v].pass => u = v
Serves(lv, mt, c) ==
  /\ \A u \in lv :
       /\ mt[u].locked => mt[u].pass \notin c.auth
       /\ ~mt[u].locked /\ ~mt[u].expired =>
            mt[u].pass \in c.auth /\ c.quota[mt[u].pass] = mt[u].quota
  /\ c.auth \subseteq {mt[u].pass : u \in lv}

LEMMA ServesIsServed == ServedAsDecided <=> Serves(live, meta, conf)
BY DEF ServedAsDecided, Serves, Owned

LEMMA MaxOfOne ==
  ASSUME NEW q \in Nat
  PROVE  Max({0} \cup {}) = 0 /\ Max({0} \cup {q}) = q
<1>1. \A S : Max(S) = CHOOSE x \in S : \A y \in S : x >= y
  BY DEF Max
<1>2. (CHOOSE x \in {0} \cup {} : \A y \in {0} \cup {} : x >= y) = 0
  OBVIOUS
<1>3. (CHOOSE x \in {0} \cup {q} : \A y \in {0} \cup {q} : x >= y) = q
  <2>1. \E x \in {0} \cup {q} : \A y \in {0} \cup {q} : x >= y
    OBVIOUS
  <2>2. \A x \in {0} \cup {q} : (\A y \in {0} \cup {q} : x >= y) => x = q
    OBVIOUS
  <2> QED
    BY <2>1, <2>2
<1> QED
  BY <1>1, <1>2, <1>3

\* The configuration zivpn_apply computes: a password has at most one active
\* owner, so its quota is that of the owner.
LEMMA WantedServes ==
  ASSUME NEW lv, NEW mt, Accounts(lv, mt)
  PROVE  Wanted(lv, mt) \in Confs /\ Serves(lv, mt, Wanted(lv, mt))
<1> DEFINE w == Wanted(lv, mt)
           Of(p) == {mt[u].quota : u \in {v \in Active(lv, mt) : mt[v].pass = p}}
<1>1. /\ w.auth = {mt[u].pass : u \in Active(lv, mt)}
      /\ w.quota = [p \in Passwords |-> Max({0} \cup Of(p))]
      /\ w = [auth |-> w.auth, quota |-> w.quota]
  BY DEF Wanted
<1>2. \A u \in lv : mt[u] \in MetaRecs /\ mt[u].quota \in Nat /\ mt[u].pass \in Passwords
  <2> TAKE u \in lv
  <2>1. mt[u] \in MetaRecs /\ mt[u].pass \in Passwords
    BY DEF Accounts
  <2>2. mt[u].quota \in Quotas \cup {0}
    BY <2>1 DEF MetaRecs
  <2>3. \A x \in Quotas \cup {0} : x \in Nat
    BY QuotasAssumption
  <2>4. mt[u].quota \in Nat
    <3> HIDE DEF w, Of
    <3> QED
      BY <2>2, <2>3
  <2> QED
    BY <2>1, <2>4
<1>3. Active(lv, mt) \subseteq lv
  BY DEF Active
<1>4. \A u \in Active(lv, mt) : Of(mt[u].pass) = {mt[u].quota}
  BY <1>3 DEF Accounts
<1>5. \A u \in Active(lv, mt) : w.quota[mt[u].pass] = mt[u].quota
  <2> TAKE u \in Active(lv, mt)
  <2>1. mt[u].pass \in Passwords /\ mt[u].quota \in Nat
    BY <1>2, <1>3
  <2>2. w.quota[mt[u].pass] = Max({0} \cup Of(mt[u].pass))
    BY <1>1, <2>1
  <2>3. Of(mt[u].pass) = {mt[u].quota}
    BY <1>4
  <2>4. Max({0} \cup {mt[u].quota}) = mt[u].quota
    BY <2>1, MaxOfOne
  <2> HIDE DEF w, Of
  <2> QED
    BY <2>2, <2>3, <2>4
<1>6. \A p \in Passwords : w.quota[p] \in Nat
  <2> SUFFICES ASSUME NEW p \in Passwords PROVE w.quota[p] \in Nat
    OBVIOUS
  <2>1. CASE \E u \in Active(lv, mt) : mt[u].pass = p
    BY <2>1, <1>2, <1>3, <1>5
  <2>2. CASE ~\E u \in Active(lv, mt) : mt[u].pass = p
    <3>1. Of(p) = {}
      BY <2>2
    <3>2. w.quota[p] = Max({0} \cup {})
      BY <3>1, <1>1
    <3> QED
      BY <3>2, MaxOfOne
  <2> QED
    BY <2>1, <2>2
<1>7. w.auth \subseteq Passwords
  BY <1>1, <1>2, <1>3
<1>8. w \in Confs
  <2>1. w.quota \in [Passwords -> Nat]
    BY <1>1, <1>6
  <2> HIDE DEF w
  <2> QED
    BY <1>1, <1>7, <2>1 DEF Confs
<1>9. \A u \in lv : mt[u].locked => mt[u].pass \notin w.auth
  BY <1>1, <1>3 DEF Accounts, Active
<1>10. \A u \in lv : ~mt[u].locked /\ ~mt[u].expired => u \in Active(lv, mt)
  BY DEF Active
<1> HIDE DEF w, Of
<1>11. Serves(lv, mt, w)
  BY <1>1, <1>3, <1>5, <1>9, <1>10 DEF Serves
<1> QED
  BY <1>8, <1>11 DEF w

LEMMA StartedType ==
  ASSUME NEW c \in Confs, NEW st \in StateFiles, NEW bk \in StateFiles
  PROVE  Started(c, st, bk) \in Procs /\ Current(Started(c, st, bk), c)
<1>1. Zero \in [Passwords -> Nat]
  BY DEF Zero
<1>2. st.used \in [Passwords -> Nat] /\ bk.used \in [Passwords -> Nat]
  BY DEF StateFiles
<1>3. [auth |-> {}, quota |-> Zero] \in Confs
  BY <1>1 DEF Confs
<1> QED
  BY <1>1, <1>2, <1>3 DEF Started, Down, Procs, Current

\* Every operation ends with zivpn_apply: the configuration is then what the
\* accounts say, and a server that runs has read it.
LEMMA ApplyServes ==
  ASSUME Core, OwnerInv', NEW lv, NEW mt \in [Users -> MetaRecs],
         NEW st \in StateFiles, NEW bk \in StateFiles, NEW bounce,
         Apply(lv, mt, st, bk, bounce)
  PROVE  (Core /\ ServedAsDecided)'
<1>1. live' = lv /\ meta' = mt /\ state' = st /\ bak' = bk /\ conf' = Wanted(lv, mt)
  BY DEF Apply
<1>2. Accounts(lv, mt)
  BY <1>1 DEF OwnerInv, MetaOK, PasswordHasOneOwner, Accounts
<1>3. conf' \in Confs /\ Serves(lv, mt, conf')
  BY <1>1, <1>2, WantedServes
<1>4. proc' = Started(conf', st, bk) \/ (proc' = proc /\ conf' = conf)
  BY <1>1 DEF Apply
<1>5. proc' \in Procs /\ Current(proc', conf')
  BY <1>3, <1>4, StartedType DEF Core
<1>6. Core'
  BY <1>1, <1>2, <1>3, <1>5 DEF Core, Accounts
<1>7. ServedAsDecided'
  BY <1>1, <1>3, ServesIsServed DEF ServedAsDecided, Serves, Owned
<1> QED
  BY <1>6, <1>7

\* Steps that leave the configuration alone, and of the accounts what it is made
\* of, or let one expire.
LEMMA SameServed ==
  ASSUME Core, ServedAsDecided, live' = live, conf' = conf,
         \A u \in live : /\ meta'[u].pass = meta[u].pass
                         /\ meta'[u].quota = meta[u].quota
                         /\ meta'[u].locked = meta[u].locked
                         /\ meta[u].expired => meta'[u].expired
  PROVE  ServedAsDecided'
BY DEF ServedAsDecided, Owned

\* What the operations write into the files.
LEMMA FilesType ==
  ASSUME Core, Rest, OwnerInv, NEW p \in Passwords
  PROVE  /\ StateWithout(p) \in StateFiles /\ BakWithout(p) \in StateFiles
         /\ Repaired \in StateFiles /\ Freed(p) \subseteq Passwords
         /\ BackupsWithout(p) \subseteq Passwords
         /\ \A q \in Passwords : Renamed(state, p, q) \in StateFiles
<1>1. \A f \in StateFiles : Forgotten(f, p) \in StateFiles
  BY DEF Forgotten, StateFiles
<1>2. state \in StateFiles /\ bak \in StateFiles
  BY DEF Core
<1>3. \A q \in Passwords : Renamed(state, p, q) \in StateFiles
  <2> SUFFICES ASSUME NEW q \in Passwords PROVE Renamed(state, p, q) \in StateFiles
    OBVIOUS
  <2>1. state.used \in [Passwords -> Nat] /\ state.quotas \subseteq Passwords
    BY <1>2 DEF StateFiles
  <2> QED
    BY <2>1 DEF Renamed, StateFiles
<1> QED
  BY <1>1, <1>2, <1>3 DEF StateWithout, BakWithout, Repaired, Freed, BackupsWithout, Rest

LEMMA ReleasedType ==
  ASSUME Rest, NEW u \in Users
  PROVE  Released(quarantine, u) \in [Passwords -> Users \cup {None}]
BY DEF Rest, Released

LEMMA QuarantinedType ==
  ASSUME Rest, NEW u \in Users
  PROVE  Quarantined(quarantine, u) \in [Passwords -> Users \cup {None}]
BY DEF Rest, Quarantined

\* Refreshing the totals changes nothing else.
LEMMA SyncedType ==
  ASSUME Core, OwnerInv, NEW u \in live
  PROVE  /\ Synced(meta[u]) \in MetaRecs
         /\ Synced(meta[u]).pass = meta[u].pass /\ Synced(meta[u]).quota = meta[u].quota
         /\ Synced(meta[u]).locked = meta[u].locked /\ Synced(meta[u]).expired = meta[u].expired
<1>1. meta[u] \in MetaRecs /\ meta[u].pass \in Passwords
  BY DEF Core, OwnerInv, MetaOK
<1>2. Raw(meta[u]) \in Nat
  BY <1>1 DEF Raw, Core, StateFiles
<1>3. \A a, b \in Nat : [meta[u] EXCEPT !.total = a, !.last = b] \in MetaRecs
  BY <1>1 DEF MetaRecs
<1>4. meta[u].total + (IF Raw(meta[u]) >= meta[u].last THEN Raw(meta[u]) - meta[u].last
                                                      ELSE Raw(meta[u])) \in Nat
  BY <1>1, <1>2 DEF MetaRecs
<1> QED
  BY <1>1, <1>2, <1>3, <1>4 DEF Synced, MetaRecs

LEMMA AllSyncedType ==
  ASSUME Core, OwnerInv
  PROVE  /\ AllSynced \in [Users -> MetaRecs]
         /\ \A u \in live : /\ AllSynced[u].pass = meta[u].pass
                            /\ AllSynced[u].quota = meta[u].quota
                            /\ AllSynced[u].locked = meta[u].locked
                            /\ AllSynced[u].expired = meta[u].expired
<1>1. live \subseteq Users /\ \A u \in Users : meta[u] \in MetaRecs
  BY DEF Core
<1> QED
  BY <1>1, SyncedType DEF AllSynced

\* quota_enforce on one account.
LEMMA EnforcedType ==
  ASSUME NEW a \in MetaRecs
  PROVE  /\ Enforced(a) \in MetaRecs
         /\ Enforced(a).pass = a.pass /\ Enforced(a).quota = a.quota
         /\ Enforced(a).expired = a.expired
BY DEF Enforced, MetaRecs

-----------------------------------------------------------------------------
ServedInv == Core /\ Rest /\ OwnerInv /\ ServedAsDecided

LEMMA ServedInit == Init => ServedInv
<1> SUFFICES ASSUME Init PROVE ServedInv
  OBVIOUS
<1>1. Zero \in [Passwords -> Nat]
  BY DEF Zero
<1>2. NoKeys \in StateFiles
  BY <1>1 DEF NoKeys, StateFiles
<1>3. Blank \in MetaRecs
  BY DEF Blank, MetaRecs
<1>4. Accounts({}, meta)
  BY <1>3 DEF Init, Accounts
<1>5. conf \in Confs
  BY <1>4, WantedServes DEF Init
<1>6. Serves(live, meta, conf)
  BY <1>4, WantedServes DEF Init
<1>7. Down \in Procs /\ ~Down.up
  BY <1>1 DEF Down, Procs, Confs
<1>8. Core
  BY <1>2, <1>3, <1>5, <1>7 DEF Init, Core, Current
<1>9. Rest
  BY BoundsAssumption DEF Init, Rest
<1> QED
  BY <1>6, <1>8, <1>9, OwnerInit, ServesIsServed DEF ServedInv

\* Calls that rewrite the fields of one account.
LEMMA ApplyMetaServes ==
  ASSUME ServedInv, OwnerInv', NEW u \in Users, NEW fields \in MetaRecs, ApplyMeta(u, fields)
  PROVE  (Core /\ ServedAsDecided)'
<1>1. [meta EXCEPT ![u] = fields] \in [Users -> MetaRecs]
  BY DEF ServedInv, Core
<1>2. state \in StateFiles /\ bak \in StateFiles
  BY DEF ServedInv, Core
<1> QED
  BY <1>1, <1>2, ApplyServes DEF ApplyMeta, ServedInv

LEMMA AccountCallServes ==
  ASSUME ServedInv, OwnerInv', NEW u \in Users, AccountCall(u)
  PROVE  (Core /\ Rest /\ ServedAsDecided)'
<1>1. /\ meta \in [Users -> MetaRecs] /\ meta[u] \in MetaRecs
      /\ state \in StateFiles /\ bak \in StateFiles /\ Core /\ Rest /\ OwnerInv
  BY DEF ServedInv, Core
<1>2. u \in live => meta[u].pass \in Passwords
  BY <1>1 DEF OwnerInv, MetaOK
<1>3. ASSUME NEW p \in Passwords, NEW q \in Quotas, Create(u, p, q)
      PROVE  (Core /\ Rest /\ ServedAsDecided)'
  <2>1. [Blank EXCEPT !.pass = p, !.quota = q] \in MetaRecs
    BY DEF Blank, MetaRecs
  <2>2. [meta EXCEPT ![u] = [Blank EXCEPT !.pass = p, !.quota = q]] \in [Users -> MetaRecs]
    BY <1>1, <2>1
  <2>3. (Core /\ ServedAsDecided)'
    BY <1>1, <1>3, <2>2, ApplyServes DEF Create
  <2>4. Rest'
    BY <1>1, <1>3, FilesType DEF Create, Issued, Rest
  <2> QED
    BY <2>3, <2>4
<1>4. ASSUME NEW p \in Passwords, ChangePassword(u, p)
      PROVE  (Core /\ Rest /\ ServedAsDecided)'
  <2> DEFINE old == meta[u].pass
             moves == state.ok /\ Mentions(state, old)
             st == IF moves THEN Renamed(state, old, p) ELSE state
             bk == IF moves THEN st ELSE bak
  <2>1. u \in live /\ Apply(live, [meta EXCEPT ![u].pass = p], st, bk, proc.up)
    BY <1>4 DEF ChangePassword
  <2>2. old \in Passwords
    BY <2>1, <1>2
  <2>3. st \in StateFiles /\ bk \in StateFiles
    BY <1>1, <2>2, FilesType
  <2>4. [meta EXCEPT ![u].pass = p] \in [Users -> MetaRecs]
    BY <1>1 DEF MetaRecs
  <2> HIDE DEF st, bk
  <2>5. (Core /\ ServedAsDecided)'
    BY <1>1, <2>1, <2>3, <2>4, ApplyServes
  <2>6. Rest'
    BY <1>1, <1>4, <2>2, FilesType DEF ChangePassword, Rest
  <2> QED
    BY <2>5, <2>6
<1>5. CASE Delete(u)
  <2>1. /\ u \in live
        /\ Apply(live \ {u}, [meta EXCEPT ![u] = Blank], StateWithout(meta[u].pass),
                 BakWithout(meta[u].pass), proc.up)
    BY <1>5 DEF Delete
  <2>2. [meta EXCEPT ![u] = Blank] \in [Users -> MetaRecs]
    BY <1>1 DEF Blank, MetaRecs
  <2>3. (Core /\ ServedAsDecided)'
    BY <1>1, <1>2, <2>1, <2>2, FilesType, ApplyServes
  <2>4. Rest'
    BY <1>1, <1>2, <1>5, FilesType, ReleasedType DEF Delete, Rest
  <2> QED
    BY <2>3, <2>4
<1>6. CASE Renew(u)
  <2>1. PICK f \in MetaRecs : ApplyMeta(u, f)
    BY <1>1, <1>6 DEF Renew, MetaRecs
  <2> QED
    BY <1>1, <1>6, <2>1, ApplyMetaServes DEF Renew, Rest
<1>7. CASE Lock(u)
  <2>1. [meta[u] EXCEPT !.locked = TRUE] \in MetaRecs
    BY <1>1 DEF MetaRecs
  <2> QED
    BY <1>1, <1>7, <2>1, ApplyMetaServes, QuarantinedType DEF Lock, Rest
<1>8. CASE Unlock(u)
  <2>1. [meta[u] EXCEPT !.locked = FALSE] \in MetaRecs
    BY <1>1 DEF MetaRecs
  <2> QED
    BY <1>1, <1>8, <2>1, ApplyMetaServes, ReleasedType DEF Unlock, Rest
<1>9. CASE Unblock(u)
  <2>1. [meta[u] EXCEPT !.locked = FALSE, !.quotaHit = FALSE, !.expLock = FALSE] \in MetaRecs
    BY <1>1 DEF MetaRecs
  <2> QED
    BY <1>1, <1>9, <2>1, ApplyMetaServes, ReleasedType DEF Unblock, Rest
<1>10. ASSUME NEW q \in Quotas, SetQuota(u, q)
       PROVE  (Core /\ Rest /\ ServedAsDecided)'
  <2>1. PICK f \in MetaRecs : ApplyMeta(u, f)
    BY <1>1, <1>10 DEF SetQuota, MetaRecs
  <2> QED
    BY <1>1, <1>10, <2>1, ApplyMetaServes, ReleasedType DEF SetQuota, Rest
<1>11. ASSUME NEW r \in {"manual", "quota", "expired"}, Block(u, r)
       PROVE  (Core /\ Rest /\ ServedAsDecided)'
  <2>1. Rest'
    BY <1>1, <1>11, QuarantinedType DEF Block, Rest
  <2>2. CASE meta[u].locked
    <3>1. UNCHANGED <<live, meta, state, bak, conf, proc>>
      BY <1>11, <2>2 DEF Block
    <3> QED
      BY <2>1, <3>1 DEF ServedInv, Core, ServedAsDecided, Owned
  <2>3. CASE ~meta[u].locked
    <3>1. PICK f \in MetaRecs : ApplyMeta(u, f)
      BY <1>1, <1>11, <2>3 DEF Block, MetaRecs
    <3> QED
      BY <2>1, <3>1, ApplyMetaServes
  <2> QED
    BY <2>2, <2>3
<1> QED
  BY <1>3, <1>4, <1>5, <1>6, <1>7, <1>8, <1>9, <1>10, <1>11 DEF AccountCall

LEMMA QuotaEnforceServes ==
  ASSUME ServedInv, OwnerInv', QuotaEnforce
  PROVE  (Core /\ Rest /\ ServedAsDecided)'
<1> DEFINE new == [u \in Users |-> IF u \in live THEN Enforced(AllSynced[u]) ELSE meta[u]]
           lockedNow == {u \in live : new[u].locked /\ ~meta[u].locked}
           freedNow == {u \in live : meta[u].locked /\ ~new[u].locked}
<1>1. /\ Core /\ Rest /\ OwnerInv /\ live \subseteq Users
      /\ \A u \in Users : meta[u] \in MetaRecs
  BY DEF ServedInv, Core
<1>2. /\ AllSynced \in [Users -> MetaRecs]
      /\ \A u \in live : /\ AllSynced[u].pass = meta[u].pass
                         /\ AllSynced[u].quota = meta[u].quota
                         /\ AllSynced[u].locked = meta[u].locked
                         /\ AllSynced[u].expired = meta[u].expired
  BY <1>1, AllSyncedType
<1>3. new \in [Users -> MetaRecs]
  BY <1>1, <1>2, EnforcedType
<1>4. \A u \in live : new[u] = Enforced(AllSynced[u])
  BY <1>1
<1>5. ASSUME lockedNow \cup freedNow # {} PROVE (Core /\ ServedAsDecided)'
  <2>1. Apply(live, new, state, bak, FALSE)
    BY <1>5 DEF QuotaEnforce
  <2>2. state \in StateFiles /\ bak \in StateFiles
    BY <1>1 DEF Core
  <2> HIDE DEF new
  <2> QED
    BY <1>1, <1>3, <2>1, <2>2, ApplyServes
<1>6. ASSUME lockedNow \cup freedNow = {} PROVE (Core /\ ServedAsDecided)'
  <2>1. meta' = new /\ UNCHANGED <<live, state, bak, conf, proc>>
    BY <1>6 DEF QuotaEnforce
  <2>2. \A u \in live : (new[u].locked <=> meta[u].locked)
    BY <1>6
  <2>3. \A u \in live : new[u].locked = meta[u].locked
    <3> TAKE u \in live
    <3>1. new[u].locked \in BOOLEAN /\ meta[u].locked \in BOOLEAN
      BY <1>1, <1>3 DEF MetaRecs
    <3> QED
      BY <2>2, <3>1
  <2>4. \A u \in live : /\ new[u].pass = meta[u].pass /\ new[u].quota = meta[u].quota
                        /\ new[u].expired = meta[u].expired
    BY <1>1, <1>2, <1>4, EnforcedType
  <2> HIDE DEF new
  <2>5. Core'
    BY <1>1, <1>3, <2>1 DEF Core
  <2> QED
    BY <1>1, <2>1, <2>3, <2>4, <2>5, SameServed DEF ServedInv
<1>7. Rest'
  <2>1. quarantine' \in [Passwords -> Users \cup {None}]
    <3>1. quarantine' = [p \in Passwords |->
             IF \E u \in lockedNow : new[u].pass = p
               THEN CHOOSE u \in lockedNow : new[u].pass = p
             ELSE IF quarantine[p] \in freedNow THEN None ELSE quarantine[p]]
      BY DEF QuotaEnforce
    <3>2. lockedNow \subseteq Users
      BY <1>1
    <3> HIDE DEF lockedNow, freedNow, new
    <3>3. \A p \in Passwords : (\E u \in lockedNow : new[u].pass = p) =>
            (CHOOSE u \in lockedNow : new[u].pass = p) \in Users
      BY <3>2
    <3> QED
      BY <1>1, <3>1, <3>3 DEF Rest
  <2> QED
    BY <1>1, <2>1 DEF QuotaEnforce, Rest
<1> QED
  BY <1>5, <1>6, <1>7

\* The guard applies what the accounts said before it refreshed their totals.
LEMMA GuardServes ==
  ASSUME ServedInv, OwnerInv', Guard
  PROVE  (Core /\ Rest /\ ServedAsDecided)'
<1> DEFINE running == IF proc.up THEN proc ELSE Started(conf, state, bak)
           wanted == Wanted(live, meta)
<1>1. /\ Core /\ Rest /\ OwnerInv /\ ServedAsDecided
      /\ conf \in Confs /\ state \in StateFiles /\ bak \in StateFiles
      /\ proc \in Procs /\ Current(proc, conf)
  BY DEF ServedInv, Core
<1>2. /\ live' = live /\ meta' = AllSynced /\ state' = Repaired /\ bak' = bak
      /\ registry' = Seeded /\ UNCHANGED <<quarantine, backups, floor, damages>>
      /\ \/ conf' = wanted /\ proc' = Started(wanted, Repaired, bak)
         \/ proc' = running /\ conf' = conf
  BY DEF Guard
<1>3. Accounts(live, meta)
  BY <1>1 DEF Core, OwnerInv, MetaOK, PasswordHasOneOwner, Accounts
<1>4. wanted \in Confs /\ Serves(live, meta, wanted)
  BY <1>3, WantedServes
<1>5. Repaired \in StateFiles
  BY <1>1 DEF Repaired
<1>6. running \in Procs /\ Current(running, conf)
  BY <1>1, StartedType
<1>7. Started(wanted, Repaired, bak) \in Procs /\ Current(Started(wanted, Repaired, bak), wanted)
  BY <1>1, <1>4, <1>5, StartedType
<1> HIDE DEF running, wanted
<1>8. conf' \in Confs /\ proc' \in Procs /\ Current(proc', conf')
  BY <1>1, <1>2, <1>4, <1>6, <1>7
<1>9. Core'
  BY <1>1, <1>2, <1>5, <1>8, AllSyncedType DEF Core
<1>10. Rest'
  BY <1>1, <1>2 DEF Rest, Seeded, Owned, OwnerInv, MetaOK
<1>11. Serves(live, meta, conf')
  BY <1>1, <1>2, <1>4, ServesIsServed
<1>12. ServedAsDecided'
  BY <1>1, <1>2, <1>11, AllSyncedType DEF ServedAsDecided, Serves, Owned
<1> QED
  BY <1>9, <1>10, <1>12

\* The server, which reads the configuration and never writes it.
LEMMA ServerServes ==
  ASSUME ServedInv,
         \/ \E p \in Passwords : Use(p)
         \/ Flush \/ ServerRestart \/ DamageState \/ Restore \/ Backup
  PROVE  (Core /\ Rest /\ ServedAsDecided)'
<1>1. /\ Core /\ Rest /\ OwnerInv /\ ServedAsDecided /\ live \subseteq Users
      /\ conf \in Confs /\ state \in StateFiles /\ bak \in StateFiles
      /\ proc \in Procs /\ Current(proc, conf)
  BY DEF ServedInv, Core
<1>2. UNCHANGED <<live, meta, conf>>
  BY DEF Use, Flush, ServerRestart, DamageState, Restore, Backup
<1>3. ServedAsDecided'
  BY <1>1, <1>2, SameServed
<1>4. ASSUME NEW p \in Passwords, Use(p) PROVE (Core /\ Rest)'
  <2>1. proc' = [proc EXCEPT !.mem[p] = @ + 1]
        /\ UNCHANGED <<state, bak, registry, quarantine, backups, floor, damages>>
    BY <1>4 DEF Use
  <2>2. proc' \in Procs /\ proc'.up = proc.up /\ proc'.conf = proc.conf
    BY <1>1, <2>1 DEF Procs
  <2> QED
    BY <1>1, <1>2, <2>1, <2>2 DEF Core, Rest, Current
<1>5. CASE Flush
  <2>1. /\ state' = [ok |-> TRUE, used |-> proc.mem, quotas |-> Limited(proc.conf)]
        /\ bak' = state'
        /\ floor' = [u \in Users |-> IF u \in live THEN proc.mem[meta[u].pass] ELSE 0]
        /\ UNCHANGED <<proc, registry, quarantine, backups, damages>>
    BY <1>5 DEF Flush
  <2>2. state' \in StateFiles
    BY <1>1, <2>1 DEF StateFiles, Procs, Limited
  <2>3. floor' \in [Users -> Nat]
    BY <1>1, <2>1 DEF Procs, OwnerInv, MetaOK
  <2> QED
    BY <1>1, <1>2, <1>3, <2>1, <2>2, <2>3 DEF Core, Rest
<1>6. CASE ServerRestart
  BY <1>1, <1>2, <1>3, <1>6, StartedType DEF ServerRestart, Core, Rest
<1>7. CASE DamageState
  <2>1. /\ state' = [state EXCEPT !.ok = FALSE] /\ damages < MaxDamage /\ damages' = damages + 1
        /\ UNCHANGED <<registry, quarantine, bak, backups, proc, floor>>
    BY <1>7 DEF DamageState
  <2>2. state' \in StateFiles
    BY <1>1, <2>1 DEF StateFiles
  <2>3. damages' \in 0..MaxDamage
    BY <1>1, <2>1, BoundsAssumption DEF Rest
  <2> QED
    BY <1>1, <1>2, <1>3, <2>1, <2>2, <2>3 DEF Core, Rest
<1>8. CASE Restore \/ Backup
  BY <1>1, <1>2, <1>3, <1>8 DEF Restore, Repaired, Backup, Core, Rest
<1> QED
  BY <1>3, <1>4, <1>5, <1>6, <1>7, <1>8

LEMMA ServedStep == ServedInv /\ [Next]_vars => ServedInv'
<1> SUFFICES ASSUME ServedInv, [Next]_vars PROVE (Core /\ Rest /\ ServedAsDecided)'
  BY OwnerStep DEF ServedInv
<1>1. OwnerInv'
  BY OwnerStep DEF ServedInv
<1>2. CASE \E u \in Users : AccountCall(u)
  BY <1>1, <1>2, AccountCallServes
<1>3. ASSUME NEW u \in Users, Expire(u) PROVE (Core /\ Rest /\ ServedAsDecided)'
  <2>1. /\ u \in live /\ meta' = [meta EXCEPT ![u].expired = TRUE]
        /\ UNCHANGED <<live, registry, quarantine, conf, state, bak, backups, proc, floor, damages>>
    BY <1>3 DEF Expire
  <2>2. meta \in [Users -> MetaRecs] /\ live \subseteq Users
    BY DEF ServedInv, Core
  <2>3. /\ meta' \in [Users -> MetaRecs]
        /\ \A v \in live : /\ meta'[v].pass = meta[v].pass
                           /\ meta'[v].quota = meta[v].quota
                           /\ meta'[v].locked = meta[v].locked
                           /\ meta[v].expired => meta'[v].expired
    BY <2>1, <2>2 DEF MetaRecs
  <2>4. Core' /\ Rest'
    BY <2>1, <2>3 DEF ServedInv, Core, Rest
  <2> QED
    BY <2>1, <2>3, <2>4, SameServed DEF ServedInv
<1>4. ASSUME NEW p \in Passwords, DeleteOrphan(p) PROVE (Core /\ Rest /\ ServedAsDecided)'
  <2>1. Core /\ Rest /\ OwnerInv /\ meta \in [Users -> MetaRecs]
    BY DEF ServedInv, Core
  <2>2. (Core /\ ServedAsDecided)'
    BY <1>1, <1>4, <2>1, FilesType, ApplyServes DEF DeleteOrphan
  <2>3. Rest'
    BY <1>4, <2>1, FilesType DEF DeleteOrphan, Rest
  <2> QED
    BY <2>2, <2>3
<1>5. CASE QuotaEnforce
  BY <1>1, <1>5, QuotaEnforceServes
<1>6. CASE Guard
  BY <1>1, <1>6, GuardServes
<1>7. CASE SyncUsage
  <2>1. /\ meta' = AllSynced
        /\ UNCHANGED <<live, registry, quarantine, conf, state, bak, backups, proc, floor, damages>>
    BY <1>7 DEF SyncUsage
  <2>2. Core' /\ Rest'
    BY <2>1, AllSyncedType DEF ServedInv, Core, Rest
  <2> QED
    BY <2>1, <2>2, AllSyncedType, SameServed DEF ServedInv
<1>8. CASE UNCHANGED vars
  BY <1>8 DEF vars, ServedInv, Core, Rest, ServedAsDecided, Owned
<1> QED
  BY <1>2, <1>3, <1>4, <1>5, <1>6, <1>7, <1>8, ServerServes DEF Next

\* Every file and the process keep their type, and a running server has read
\* the configuration that is on disk.
THEOREM TypeCorrect == Spec => []TypeOK
<1>1. ServedInv => TypeOK
  BY TypeParts DEF ServedInv
<1> QED
  BY <1>1, ServedInit, ServedStep, PTL DEF Spec

\* config.json serves exactly whom the accounts say, after every call and cron,
\* for any number of accounts, passwords and quotas.
THEOREM Served == Spec => []ServedAsDecided
<1>1. ServedInv => ServedAsDecided
  BY DEF ServedInv
<1> QED
  BY <1>1, ServedInit, ServedStep, PTL DEF Spec
-----------------------------------------------------------------------------
(***************************************************************************)
(* The counters: as long as quota-state.json stays readable, a released    *)
(* password leaves no counter behind, an account keeps the counter flushed *)
(* for it, and usage is billed once.                                       *)
(***************************************************************************)

\* A quota is only ever set on a password that is served.
Listed == Limited(conf) \subseteq conf.auth

\* The counters of a server: what it loaded and counted since, or nothing.
Counts(pr, st) ==
  IF pr.up /\ Limited(pr.conf) # {} THEN \A p \in Passwords : pr.mem[p] >= st.used[p]
  ELSE pr.mem = Zero
\* A password that is not registered has no counter in a file or the server.
NoTrace(st, reg, bks) ==
  \A p \in Passwords \ reg : ~Mentions(st, p) /\ p \notin bks
NoMemory(pr, reg) == \A p \in Passwords \ reg : pr.mem[p] = 0
\* An account against its counter.
Follows(lv, mt, st, fl) ==
  \A u \in lv : /\ st.used[mt[u].pass] >= fl[u]
                /\ mt[u].total = mt[u].last /\ mt[u].total <= st.used[mt[u].pass]

Books ==
  /\ state.ok /\ bak = state
  /\ Counts(proc, state) /\ NoMemory(proc, registry)
  /\ NoTrace(state, registry, backups)
  /\ Follows(live, meta, state, floor)

CounterInv == ServedInv /\ Listed /\ (damages = 0 => Books)

-----------------------------------------------------------------------------
LEMMA WantedListed ==
  ASSUME NEW lv, NEW mt, Accounts(lv, mt)
  PROVE  Limited(Wanted(lv, mt)) \subseteq Wanted(lv, mt).auth
<1> DEFINE w == Wanted(lv, mt)
           Of(p) == {mt[u].quota : u \in {v \in Active(lv, mt) : mt[v].pass = p}}
<1>1. /\ w.auth = {mt[u].pass : u \in Active(lv, mt)}
      /\ w.quota = [p \in Passwords |-> Max({0} \cup Of(p))]
  BY DEF Wanted
<1>2. ASSUME NEW p \in Passwords, p \notin w.auth PROVE w.quota[p] = 0
  <2>1. Of(p) = {}
    BY <1>1, <1>2
  <2>2. w.quota[p] = Max({0} \cup {})
    BY <1>1, <2>1
  <2> QED
    BY <2>2, MaxOfOne
<1> QED
  BY <1>2 DEF Limited

\* A server that starts has loaded the state file, if it reads it at all.
LEMMA StartedBooks ==
  ASSUME NEW c \in Confs, NEW st \in StateFiles, NEW bk, st.ok, NEW reg,
         \A p \in Passwords \ reg : st.used[p] = 0
  PROVE  Counts(Started(c, st, bk), st) /\ NoMemory(Started(c, st, bk), reg)
<1>1. st.used \in [Passwords -> Nat]
  BY DEF StateFiles
<1>2. \A p \in Passwords : Zero[p] = 0
  BY DEF Zero
<1> QED
  BY <1>1, <1>2 DEF Started, Down, Counts, NoMemory

LEMMA InvParts ==
  ASSUME CounterInv
  PROVE  /\ Core /\ Rest /\ OwnerInv /\ ServedAsDecided /\ Listed
         /\ live \subseteq Users /\ meta \in [Users -> MetaRecs]
         /\ \A u \in live : meta[u].pass \in Passwords /\ meta[u].pass \in registry
         /\ conf \in Confs /\ state \in StateFiles /\ bak \in StateFiles
         /\ proc \in Procs /\ Current(proc, conf)
         /\ state.used \in [Passwords -> Nat] /\ state.quotas \subseteq Passwords
         /\ floor \in [Users -> Nat] /\ damages \in Nat
<1>1. Core /\ Rest /\ OwnerInv /\ ServedAsDecided /\ Listed
  BY DEF CounterInv, ServedInv
<1>2. \A u \in live : meta[u].pass \in Passwords /\ meta[u].pass \in registry
  BY <1>1 DEF OwnerInv, MetaOK, PasswordHasOneOwner, Owned
<1> QED
  BY <1>1, <1>2 DEF Core, Rest, StateFiles

\* zivpn_apply: the server is restarted, or runs on with a state file and a
\* registry that only grew.
LEMMA ApplyBooks ==
  ASSUME CounterInv, ServedInv', Books, NEW lv, NEW mt, NEW st, NEW bounce \in BOOLEAN,
         Apply(lv, mt, st, st, bounce), st.ok,
         \A p \in Passwords \ registry' : st.used[p] = 0,
         \/ bounce \/ ~proc.up
         \/ st = state /\ registry \subseteq registry'
  PROVE  /\ state'.ok /\ bak' = state'
         /\ Counts(proc', state') /\ NoMemory(proc', registry')
<1>1. live' = lv /\ meta' = mt /\ state' = st /\ bak' = st /\ conf' = Wanted(lv, mt)
  BY DEF Apply
<1>2. proc' = Started(conf', st, st) \/ (proc' = proc /\ conf' = conf /\ ~bounce)
  BY <1>1 DEF Apply
<1>3. st \in StateFiles /\ conf' \in Confs
  BY <1>1 DEF ServedInv, Core
<1>4. CASE proc' = Started(conf', st, st)
  BY <1>1, <1>3, <1>4, StartedBooks
<1>5. CASE proc' = proc /\ conf' = conf /\ ~bounce
  <2>1. CASE ~proc.up
    <3>1. proc.mem = Zero
      BY <2>1 DEF Books, Counts
    <3>2. \A p \in Passwords : Zero[p] = 0
      BY DEF Zero
    <3> QED
      BY <1>1, <1>5, <2>1, <3>1, <3>2 DEF Counts, NoMemory
  <2>2. CASE st = state /\ registry \subseteq registry'
    BY <1>1, <1>5, <2>2 DEF Books, Counts, NoMemory
  <2> QED
    BY <1>5, <2>1, <2>2
<1> QED
  BY <1>2, <1>4, <1>5

\* An operation that leaves the state file alone and adds nothing to the
\* backups; what it writes of an account keeps the password and the totals.
LEMMA QuietApply ==
  ASSUME CounterInv, ServedInv', Books,
         NEW lv, NEW mt, Apply(lv, mt, state, bak, FALSE),
         registry \subseteq registry', backups' \subseteq backups,
         Follows(lv, mt, state, floor')
  PROVE  Books'
<1>1. live' = lv /\ meta' = mt /\ state' = state
  BY DEF Apply
<1>2. Apply(lv, mt, state, state, FALSE) /\ state.ok
  BY DEF Books
<1>3. \A p \in Passwords \ registry' : state.used[p] = 0
  <2>1. \A p \in Passwords \ registry' : ~(state.used[p] > 0) /\ state.used[p] \in Nat
    BY InvParts DEF Books, NoTrace, Mentions
  <2> QED
    BY <2>1
<1>4. NoTrace(state', registry', backups')
  BY <1>1 DEF Books, NoTrace
<1>5. /\ state'.ok /\ bak' = state'
      /\ Counts(proc', state') /\ NoMemory(proc', registry')
  BY <1>2, <1>3, ApplyBooks
<1> QED
  BY <1>1, <1>4, <1>5 DEF Books

LEMMA ApplyMetaBooks ==
  ASSUME CounterInv, ServedInv', Books,
         NEW u \in Users, NEW fields, ApplyMeta(u, fields),
         fields.pass = meta[u].pass, fields.total = meta[u].total, fields.last = meta[u].last,
         UNCHANGED <<registry, backups, floor>>
  PROVE  Books'
<1>1. \A v \in live : /\ [meta EXCEPT ![u] = fields][v].pass = meta[v].pass
                      /\ [meta EXCEPT ![u] = fields][v].total = meta[v].total
                      /\ [meta EXCEPT ![u] = fields][v].last = meta[v].last
  BY InvParts
<1>2. Follows(live, [meta EXCEPT ![u] = fields], state, floor')
  BY <1>1 DEF Books, Follows
<1> QED
  BY <1>2, QuietApply DEF ApplyMeta

LEMMA CreateBooks ==
  ASSUME CounterInv, ServedInv', Books,
         NEW u \in Users, NEW p \in Passwords, NEW q \in Quotas, Create(u, p, q)
  PROVE  Books'
<1> DEFINE m == [Blank EXCEPT !.pass = p, !.quota = q]
           mt == [meta EXCEPT ![u] = m]
<1>1. /\ Apply(live \cup {u}, mt, state, bak, FALSE)
      /\ floor' = [floor EXCEPT ![u] = 0] /\ u \notin live
      /\ registry' = registry \cup {p} /\ backups' \subseteq backups
  BY DEF Create, Issued, BackupsWithout
<1>2. m.pass = p /\ m.total = 0 /\ m.last = 0
  BY DEF Blank
<1>3. state.used[p] \in Nat
  BY InvParts
<1>4. mt[u] = m /\ floor'[u] = 0 /\ \A v \in live : mt[v] = meta[v] /\ floor'[v] = floor[v]
  BY <1>1, InvParts
<1> HIDE DEF m, mt
<1>5. Follows(live \cup {u}, mt, state, floor')
  BY <1>2, <1>3, <1>4 DEF Books, Follows
<1> QED
  BY <1>1, <1>5, QuietApply

\* What forgetting a password leaves.
LEMMA ForgottenBooks ==
  ASSUME CounterInv, Books, NEW p \in Passwords
  PROVE  /\ StateWithout(p) = Forgotten(state, p) /\ BakWithout(p) = Forgotten(state, p)
         /\ Forgotten(state, p).ok
         /\ Forgotten(state, p).used[p] = 0 /\ p \notin Forgotten(state, p).quotas
         /\ \A r \in Passwords \ {p} :
              /\ Forgotten(state, p).used[r] = state.used[r]
              /\ Mentions(Forgotten(state, p), r) => Mentions(state, r)
<1>1. state \in StateFiles /\ state.used \in [Passwords -> Nat] /\ state.ok /\ bak = state
  BY InvParts DEF Books
<1>2. ASSUME ~Mentions(state, p) PROVE Forgotten(state, p) = state
  <2>1. state.used[p] \in Nat /\ ~(state.used[p] > 0) /\ p \notin state.quotas
    BY <1>1, <1>2 DEF Mentions
  <2>2. state.used[p] = 0
    BY <2>1
  <2>3. [state.used EXCEPT ![p] = 0] = state.used /\ state.quotas \ {p} = state.quotas
    BY <1>1, <2>1, <2>2
  <2> QED
    BY <1>1, <2>3 DEF Forgotten, StateFiles
<1>3. /\ Forgotten(state, p).ok = state.ok
      /\ Forgotten(state, p).used = [state.used EXCEPT ![p] = 0]
      /\ Forgotten(state, p).quotas = state.quotas \ {p}
  BY <1>1 DEF Forgotten, StateFiles
<1>4. StateWithout(p) = Forgotten(state, p) /\ BakWithout(p) = Forgotten(state, p)
  BY <1>1, <1>2 DEF StateWithout, BakWithout
<1> QED
  BY <1>1, <1>3, <1>4 DEF Mentions

\* The password of a deleted account, or of nobody, is forgotten everywhere and
\* released; those who stay have others.
LEMMA ForgetBooks ==
  ASSUME CounterInv, ServedInv', Books, NEW p \in Passwords, NEW lv, NEW mt,
         Apply(lv, mt, StateWithout(p), BakWithout(p), proc.up),
         registry' = Freed(p), backups' = BackupsWithout(p),
         \A u \in lv : /\ u \in live /\ mt[u] = meta[u] /\ floor'[u] = floor[u]
                       /\ meta[u].pass # p
  PROVE  Books'
<1> DEFINE st == Forgotten(state, p)
<1>1. Apply(lv, mt, st, st, proc.up) /\ proc.up \in BOOLEAN /\ st.ok
  BY ForgottenBooks, InvParts DEF Procs
<1>2. live' = lv /\ meta' = mt /\ state' = st
  BY <1>1 DEF Apply
<1>3. \A r \in Passwords \ registry' : ~Mentions(st, r) /\ r \notin backups' /\ st.used[r] = 0
  <2> SUFFICES ASSUME NEW r \in Passwords \ registry'
               PROVE  ~Mentions(st, r) /\ r \notin backups' /\ st.used[r] = 0
    OBVIOUS
  <2>1. CASE r = p
    <3>1. st.used[p] = 0 /\ p \notin st.quotas
      BY ForgottenBooks
    <3> HIDE DEF st
    <3> QED
      BY <2>1, <3>1 DEF Mentions, BackupsWithout
  <2>2. CASE r # p
    <3>1. r \notin registry
      BY <2>2 DEF Freed
    <3>2. ~Mentions(state, r) /\ r \notin backups
      BY <3>1 DEF Books, NoTrace
    <3>3. ~Mentions(st, r) /\ st.used[r] = state.used[r]
      BY <2>2, <3>2, ForgottenBooks
    <3>4. state.used[r] \in Nat /\ ~(state.used[r] > 0)
      BY <3>2, InvParts DEF Mentions
    <3> HIDE DEF st
    <3> QED
      BY <3>2, <3>3, <3>4 DEF BackupsWithout
  <2> QED
    BY <2>1, <2>2
<1>4. \A u \in lv : st.used[meta[u].pass] = state.used[meta[u].pass]
  BY ForgottenBooks, InvParts
<1> HIDE DEF st
<1>5. /\ state'.ok /\ bak' = state'
      /\ Counts(proc', state') /\ NoMemory(proc', registry')
  BY <1>1, <1>3, ApplyBooks
<1>6. Follows(live', meta', state', floor')
  BY <1>2, <1>4 DEF Books, Follows
<1>7. NoTrace(state', registry', backups')
  BY <1>2, <1>3 DEF NoTrace
<1> QED
  BY <1>5, <1>6, <1>7 DEF Books

LEMMA DeleteBooks ==
  ASSUME CounterInv, ServedInv', Books, NEW u \in Users, Delete(u)
  PROVE  Books'
<1> DEFINE p == meta[u].pass
           lv == live \ {u}
           mt == [meta EXCEPT ![u] = Blank]
<1>1. /\ u \in live
      /\ Apply(lv, mt, StateWithout(p), BakWithout(p), proc.up)
      /\ registry' = Freed(p) /\ backups' = BackupsWithout(p)
      /\ floor' = [floor EXCEPT ![u] = 0]
  BY DEF Delete
<1>2. \A v \in lv : /\ v \in live /\ mt[v] = meta[v]
                    /\ floor'[v] = floor[v] /\ meta[v].pass # p
  BY <1>1, InvParts DEF OwnerInv, PasswordHasOneOwner
<1>3. p \in Passwords
  BY <1>1, InvParts
<1> HIDE DEF p, lv, mt
<1> QED
  BY <1>1, <1>2, <1>3, ForgetBooks

LEMMA DeleteOrphanBooks ==
  ASSUME CounterInv, ServedInv', Books, NEW p \in Passwords, DeleteOrphan(p)
  PROVE  Books'
BY ForgetBooks DEF DeleteOrphan, Owned

\* What renaming a key to an unused one leaves, or a key that is not there.
LEMMA RenamedBooks ==
  ASSUME CounterInv, Books, NEW old \in Passwords, NEW p \in Passwords, p # old,
         p \notin registry, NEW st,
         st = IF state.ok /\ Mentions(state, old) THEN Renamed(state, old, p) ELSE state
  PROVE  /\ st.ok /\ st.used[old] = 0 /\ st.used[p] = state.used[old]
         /\ ~Mentions(st, old)
         /\ \A r \in Passwords \ {old, p} :
              st.used[r] = state.used[r] /\ (Mentions(st, r) => Mentions(state, r))
<1>1. state \in StateFiles /\ state.used \in [Passwords -> Nat] /\ state.ok
  BY InvParts DEF Books
<1>2. ~Mentions(state, p)
  BY DEF Books, NoTrace
<1>3. state.used[p] = 0 /\ p \notin state.quotas
  <2>1. state.used[p] \in Nat /\ ~(state.used[p] > 0) /\ p \notin state.quotas
    BY <1>1, <1>2 DEF Mentions
  <2> QED
    BY <2>1
<1>4. CASE Mentions(state, old)
  <2>1. /\ st.ok = TRUE
        /\ st.used = [state.used EXCEPT ![p] = state.used[old], ![old] = 0]
        /\ st.quotas = IF old \in state.quotas THEN (state.quotas \ {old}) \cup {p}
                                               ELSE state.quotas
    BY <1>1, <1>3, <1>4 DEF Renamed
  <2> QED
    BY <1>1, <2>1 DEF Mentions
<1>5. CASE ~Mentions(state, old)
  <2>1. state.used[old] \in Nat /\ ~(state.used[old] > 0)
    BY <1>1, <1>5 DEF Mentions
  <2>2. st = state /\ state.used[old] = 0
    BY <1>5, <2>1
  <2> QED
    BY <1>1, <1>3, <1>5, <2>2
<1> QED
  BY <1>4, <1>5

LEMMA ChangePasswordBooks ==
  ASSUME CounterInv, ServedInv', Books,
         NEW u \in Users, NEW p \in Passwords, ChangePassword(u, p)
  PROVE  Books'
<1> DEFINE old == meta[u].pass
           moves == state.ok /\ Mentions(state, old)
           st == IF moves THEN Renamed(state, old, p) ELSE state
           mt == [meta EXCEPT ![u].pass = p]
<1>1. /\ u \in live /\ p # old /\ p \notin Owned /\ p \notin registry
      /\ Apply(live, mt, st, IF moves THEN st ELSE bak, proc.up)
      /\ registry' = (registry \cup {p}) \ {old} /\ backups' = BackupsWithout(old)
      /\ floor' = floor
  BY DEF ChangePassword
<1>2. Apply(live, mt, st, st, proc.up) /\ proc.up \in BOOLEAN /\ old \in Passwords
  BY <1>1, InvParts DEF Books, Procs
<1>3. /\ st.ok /\ st.used[old] = 0 /\ st.used[p] = state.used[old]
      /\ ~Mentions(st, old)
      /\ \A r \in Passwords \ {old, p} :
           st.used[r] = state.used[r] /\ (Mentions(st, r) => Mentions(state, r))
  BY <1>1, <1>2, RenamedBooks
<1>4. /\ mt[u].pass = p /\ mt[u].total = meta[u].total /\ mt[u].last = meta[u].last
      /\ \A v \in live \ {u} : mt[v] = meta[v] /\ meta[v].pass \in Passwords \ {old, p}
  BY <1>1, InvParts DEF OwnerInv, PasswordHasOneOwner, Owned, MetaRecs
<1> HIDE DEF st, mt, old
<1>5. live' = live /\ meta' = mt /\ state' = st
  BY <1>2 DEF Apply
<1>6. \A r \in Passwords \ registry' : ~Mentions(st, r) /\ r \notin backups' /\ st.used[r] = 0
  <2> SUFFICES ASSUME NEW r \in Passwords \ registry'
               PROVE  ~Mentions(st, r) /\ r \notin backups' /\ st.used[r] = 0
    OBVIOUS
  <2>1. CASE r = old
    BY <1>1, <1>3, <2>1 DEF BackupsWithout
  <2>2. CASE r # old
    <3>1. r \notin registry /\ r # p
      BY <1>1, <2>2
    <3>2. ~Mentions(state, r) /\ r \notin backups
      BY <3>1 DEF Books, NoTrace
    <3>3. ~Mentions(st, r) /\ st.used[r] = state.used[r]
      BY <1>3, <2>2, <3>1, <3>2
    <3>4. state.used[r] \in Nat /\ ~(state.used[r] > 0)
      BY <3>2, InvParts DEF Mentions
    <3> QED
      BY <1>1, <3>2, <3>3, <3>4 DEF BackupsWithout
  <2> QED
    BY <2>1, <2>2
<1>7. /\ state'.ok /\ bak' = state'
      /\ Counts(proc', state') /\ NoMemory(proc', registry')
  BY <1>2, <1>3, <1>6, ApplyBooks
<1>8. Follows(live', meta', state', floor')
  <2>1. /\ state.used[old] >= floor[u] /\ meta[u].total = meta[u].last
        /\ meta[u].total <= state.used[old]
    BY <1>1 DEF Books, Follows, old
  <2>2. \A v \in live \ {u} : st.used[meta[v].pass] = state.used[meta[v].pass]
    BY <1>3, <1>4
  <2> QED
    BY <1>1, <1>3, <1>4, <1>5, <2>1, <2>2 DEF Books, Follows
<1>9. NoTrace(state', registry', backups')
  BY <1>5, <1>6 DEF NoTrace
<1> QED
  BY <1>7, <1>8, <1>9 DEF Books

LEMMA AccountCallBooks ==
  ASSUME CounterInv, ServedInv', Books, NEW u \in Users, AccountCall(u)
  PROVE  Books'
<1>0. meta[u] \in MetaRecs
  BY InvParts
<1>1. CASE \E p \in Passwords, q \in Quotas : Create(u, p, q)
  BY <1>1, CreateBooks
<1>2. CASE \E p \in Passwords : ChangePassword(u, p)
  BY <1>2, ChangePasswordBooks
<1>3. CASE Delete(u)
  BY <1>3, DeleteBooks
<1>4. CASE Renew(u)
  BY <1>0, <1>4, ApplyMetaBooks DEF Renew, MetaRecs
<1>5. CASE Lock(u)
  BY <1>0, <1>5, ApplyMetaBooks DEF Lock, MetaRecs
<1>6. CASE Unlock(u)
  BY <1>0, <1>6, ApplyMetaBooks DEF Unlock, MetaRecs
<1>7. CASE Unblock(u)
  BY <1>0, <1>7, ApplyMetaBooks DEF Unblock, MetaRecs
<1>8. CASE \E q \in Quotas : SetQuota(u, q)
  BY <1>0, <1>8, ApplyMetaBooks DEF SetQuota, MetaRecs
<1>9. CASE \E r \in {"manual", "quota", "expired"} : Block(u, r)
  <2>1. PICK r \in {"manual", "quota", "expired"} : Block(u, r)
    BY <1>9
  <2>2. CASE meta[u].locked
    BY <2>1, <2>2 DEF Block, Books
  <2>3. CASE ~meta[u].locked
    BY <1>0, <2>1, <2>3, ApplyMetaBooks DEF Block, MetaRecs
  <2> QED
    BY <2>2, <2>3
<1> QED
  BY <1>1, <1>2, <1>3, <1>4, <1>5, <1>6, <1>7, <1>8, <1>9 DEF AccountCall

-----------------------------------------------------------------------------
\* A refreshed total is the counter itself.
LEMMA SyncedBooks ==
  ASSUME CounterInv, Books, NEW u \in live
  PROVE  /\ AllSynced[u] \in MetaRecs /\ AllSynced[u].pass = meta[u].pass
         /\ AllSynced[u].total = state.used[meta[u].pass]
         /\ AllSynced[u].last = state.used[meta[u].pass]
<1>1. /\ u \in Users /\ meta[u] \in MetaRecs /\ Core /\ OwnerInv
      /\ state.used[meta[u].pass] \in Nat
  BY InvParts
<1>2. /\ meta[u].total \in Nat /\ meta[u].total = meta[u].last
      /\ meta[u].total <= state.used[meta[u].pass] /\ state.ok
  BY <1>1 DEF Books, Follows, MetaRecs
<1>3. Raw(meta[u]) = state.used[meta[u].pass]
  BY <1>2 DEF Raw
<1>4. AllSynced[u] = Synced(meta[u])
  BY <1>1 DEF AllSynced
<1>5. meta[u].total + (IF Raw(meta[u]) >= meta[u].last THEN Raw(meta[u]) - meta[u].last
                                                      ELSE Raw(meta[u]))
      = state.used[meta[u].pass]
  BY <1>1, <1>2, <1>3
<1> QED
  BY <1>1, <1>3, <1>4, <1>5, SyncedType DEF Synced, MetaRecs

LEMMA SyncedFollows ==
  ASSUME CounterInv, Books, NEW mt,
         \A u \in live : /\ mt[u].pass = AllSynced[u].pass
                         /\ mt[u].total = AllSynced[u].total /\ mt[u].last = AllSynced[u].last
  PROVE  Follows(live, mt, state, floor)
<1>1. \A u \in live : state.used[meta[u].pass] \in Nat /\ state.used[meta[u].pass] >= floor[u]
  BY InvParts DEF Books, Follows
<1> QED
  BY <1>1, SyncedBooks DEF Follows

LEMMA EnforcedTotals ==
  ASSUME NEW a \in MetaRecs
  PROVE  Enforced(a).pass = a.pass /\ Enforced(a).total = a.total /\ Enforced(a).last = a.last
BY DEF Enforced, MetaRecs

LEMMA QuotaEnforceBooks ==
  ASSUME CounterInv, ServedInv', Books, QuotaEnforce
  PROVE  Books'
<1> DEFINE new == [u \in Users |-> IF u \in live THEN Enforced(AllSynced[u]) ELSE meta[u]]
<1>1. /\ \/ Apply(live, new, state, bak, FALSE)
         \/ meta' = new /\ UNCHANGED <<live, state, bak, conf, proc>>
      /\ UNCHANGED <<registry, backups, floor>>
  BY DEF QuotaEnforce
<1>2. \A u \in live : /\ new[u].pass = AllSynced[u].pass
                      /\ new[u].total = AllSynced[u].total /\ new[u].last = AllSynced[u].last
  BY InvParts, SyncedBooks, EnforcedTotals
<1> HIDE DEF new
<1>3. Follows(live, new, state, floor)
  BY <1>2, SyncedFollows
<1>4. CASE Apply(live, new, state, bak, FALSE)
  BY <1>1, <1>3, <1>4, QuietApply
<1>5. CASE meta' = new /\ UNCHANGED <<live, state, bak, conf, proc>>
  BY <1>1, <1>3, <1>5 DEF Books
<1> QED
  BY <1>1, <1>4, <1>5

LEMMA LoadedBooks ==
  ASSUME CounterInv, Books, NEW c \in Confs
  PROVE  Counts(Started(c, state, bak), state) /\ NoMemory(Started(c, state, bak), registry)
<1>1. \A p \in Passwords \ registry : state.used[p] = 0
  <2>1. \A p \in Passwords \ registry : ~(state.used[p] > 0) /\ state.used[p] \in Nat
    BY InvParts DEF Books, NoTrace, Mentions
  <2> QED
    BY <2>1
<1> QED
  BY <1>1, InvParts, StartedBooks DEF Books

LEMMA GuardBooks ==
  ASSUME CounterInv, ServedInv', Books, Guard
  PROVE  Books'
<1> DEFINE running == IF proc.up THEN proc ELSE Started(conf, state, bak)
           wanted == Wanted(live, meta)
<1>1. /\ live' = live /\ meta' = AllSynced /\ state' = state /\ bak' = bak
      /\ registry' = Seeded /\ UNCHANGED <<backups, floor>>
      /\ proc' = Started(wanted, state, bak) \/ proc' = running
  BY DEF Guard, Books, Repaired
<1>2. registry \subseteq registry'
  BY <1>1 DEF Seeded
<1>3. Accounts(live, meta)
  BY InvParts DEF OwnerInv, PasswordHasOneOwner, Accounts
<1>4. wanted \in Confs /\ conf \in Confs
  BY <1>3, WantedServes, InvParts
<1>5. Counts(proc', state) /\ NoMemory(proc', registry)
  <2>1. Counts(proc, state) /\ NoMemory(proc, registry)
    BY DEF Books
  <2>2. \A c \in Confs : Counts(Started(c, state, bak), state)
                         /\ NoMemory(Started(c, state, bak), registry)
    BY LoadedBooks
  <2> HIDE DEF wanted
  <2> QED
    BY <1>1, <1>4, <2>1, <2>2
<1>6. Follows(live, AllSynced, state, floor)
  BY SyncedFollows
<1> QED
  BY <1>1, <1>2, <1>5, <1>6 DEF Books, NoTrace, NoMemory

LEMMA ServerBooks ==
  ASSUME CounterInv, ServedInv', damages' = 0, Books,
         \/ \E p \in Passwords : Use(p)
         \/ Flush \/ ServerRestart \/ DamageState \/ Restore \/ Backup
  PROVE  Books'
<1>1. /\ live \subseteq Users /\ proc \in Procs /\ Current(proc, conf) /\ conf \in Confs
      /\ Limited(conf) \subseteq conf.auth /\ conf.auth \subseteq registry
      /\ state.used \in [Passwords -> Nat] /\ state.ok /\ bak = state
      /\ \A u \in live : meta[u].pass \in Passwords
  BY InvParts DEF Books, Listed, ServedAsDecided, OwnerInv, PasswordHasOneOwner
<1>2. proc.mem \in [Passwords -> Nat]
  BY <1>1 DEF Procs
<1>3. ASSUME NEW p \in Passwords, Use(p) PROVE Books'
  <2>1. /\ proc.up /\ p \in proc.conf.auth /\ p \in Limited(proc.conf)
        /\ proc' = [proc EXCEPT !.mem[p] = @ + 1]
        /\ UNCHANGED <<live, meta, registry, state, bak, backups, floor>>
    BY <1>3 DEF Use
  <2>2. /\ proc'.up = proc.up /\ proc'.conf = proc.conf
        /\ proc'.mem = [proc.mem EXCEPT ![p] = @ + 1]
    BY <1>1, <2>1 DEF Procs
  <2>3. p \in registry
    BY <1>1, <2>1 DEF Current
  <2>4. \A r \in Passwords : proc.mem[r] >= state.used[r]
    BY <2>1 DEF Books, Counts
  <2>5. \A r \in Passwords : proc'.mem[r] >= state.used[r] /\ (r # p => proc'.mem[r] = proc.mem[r])
    BY <1>1, <1>2, <2>2, <2>4
  <2>6. Counts(proc', state)
    BY <2>1, <2>2, <2>5 DEF Counts
  <2>7. NoMemory(proc', registry)
    BY <2>3, <2>5 DEF Books, NoMemory
  <2> QED
    BY <2>1, <2>6, <2>7 DEF Books
<1>4. CASE Flush
  <2>1. /\ proc.up /\ Limited(proc.conf) # {}
        /\ state' = [ok |-> TRUE, used |-> proc.mem, quotas |-> Limited(proc.conf)]
        /\ bak' = state'
        /\ floor' = [u \in Users |-> IF u \in live THEN proc.mem[meta[u].pass] ELSE 0]
        /\ UNCHANGED <<live, meta, registry, proc, backups>>
    BY <1>4 DEF Flush
  <2>2. state'.ok /\ state'.used = proc.mem /\ state'.quotas = Limited(proc.conf)
    BY <2>1
  <2>3. \A r \in Passwords : proc.mem[r] >= state.used[r] /\ proc.mem[r] \in Nat
    BY <1>2, <2>1 DEF Books, Counts
  <2>4. Counts(proc', state')
    BY <2>1, <2>2, <2>3 DEF Counts
  <2>5. NoTrace(state', registry', backups')
    <3>1. \A r \in Passwords \ registry : r \notin Limited(proc.conf) /\ ~(proc.mem[r] > 0)
      BY <1>1, <2>1 DEF Current, Books, NoMemory
    <3> QED
      BY <2>1, <2>2, <3>1 DEF Books, NoTrace, Mentions
  <2>6. Follows(live', meta', state', floor')
    <3>1. \A u \in live : /\ floor'[u] = proc.mem[meta[u].pass]
                          /\ meta[u].total \in Nat /\ state.used[meta[u].pass] \in Nat
      BY <1>1, <2>1, InvParts DEF MetaRecs
    <3> QED
      BY <1>1, <2>1, <2>2, <2>3, <3>1 DEF Books, Follows
  <2> QED
    BY <2>1, <2>2, <2>4, <2>5, <2>6 DEF Books
<1>5. CASE ServerRestart
  BY <1>1, <1>5, LoadedBooks DEF ServerRestart, Books
<1>6. CASE DamageState
  BY <1>6, InvParts DEF DamageState
<1>7. CASE Restore
  BY <1>1, <1>7 DEF Restore, Repaired, Books
<1>8. CASE Backup
  <2>1. NoTrace(state, registry, backups')
    BY <1>1, <1>8 DEF Backup, Books, NoTrace
  <2> QED
    BY <1>8, <2>1 DEF Backup, Books
<1> QED
  BY <1>3, <1>4, <1>5, <1>6, <1>7, <1>8

LEMMA ListedStep ==
  ASSUME CounterInv, ServedInv', [Next]_vars
  PROVE  Listed'
<1>1. ASSUME NEW lv, NEW mt, NEW st, NEW bk, NEW b, Apply(lv, mt, st, bk, b)
      PROVE  Listed'
  <2>1. live' = lv /\ meta' = mt /\ conf' = Wanted(lv, mt)
    BY <1>1 DEF Apply
  <2>2. Accounts(lv, mt)
    BY <2>1 DEF ServedInv, Core, OwnerInv, MetaOK, PasswordHasOneOwner, Accounts
  <2> QED
    BY <2>1, <2>2, WantedListed DEF Listed
<1>2. CASE UNCHANGED conf
  BY <1>2 DEF CounterInv, Listed
<1>3. CASE conf' = Wanted(live, meta)
  <2>1. Accounts(live, meta)
    BY InvParts DEF OwnerInv, PasswordHasOneOwner, Accounts
  <2> QED
    BY <1>3, <2>1, WantedListed DEF Listed
<1>4. CASE \E u \in Users : AccountCall(u)
  BY <1>1, <1>2, <1>4
  DEF AccountCall, Create, ChangePassword, Delete, Renew, Lock, Unlock, Unblock, SetQuota,
      Block, ApplyMeta
<1>5. CASE \E p \in Passwords : DeleteOrphan(p)
  BY <1>1, <1>5 DEF DeleteOrphan
<1>6. CASE QuotaEnforce
  BY <1>1, <1>2, <1>6 DEF QuotaEnforce
<1>7. CASE Guard
  BY <1>2, <1>3, <1>7 DEF Guard
<1> QED
  BY <1>2, <1>4, <1>5, <1>6, <1>7
  DEF Next, vars, Expire, Use, SyncUsage, Restore, Backup, Flush, ServerRestart, DamageState

LEMMA CounterInit == Init => CounterInv
<1> SUFFICES ASSUME Init PROVE CounterInv
  OBVIOUS
<1>1. /\ live = {} /\ meta = [u \in Users |-> Blank] /\ registry = {}
      /\ conf = Wanted({}, meta)
      /\ state = NoKeys /\ bak = NoKeys /\ backups = {} /\ proc = Down
  BY DEF Init
<1>2. ServedInv
  BY ServedInit
<1>3. Listed
  BY <1>1, <1>2, WantedListed
  DEF Listed, ServedInv, Core, OwnerInv, PasswordHasOneOwner, MetaOK, Accounts
<1>4. \A p \in Passwords : Zero[p] = 0
  BY DEF Zero
<1>5. Books
  BY <1>1, <1>4 DEF Books, NoKeys, Down, Counts, NoMemory, NoTrace, Mentions, Follows
<1> QED
  BY <1>2, <1>3, <1>5 DEF CounterInv

LEMMA CounterStep == CounterInv /\ [Next]_vars => CounterInv'
<1> SUFFICES ASSUME CounterInv, [Next]_vars PROVE CounterInv'
  OBVIOUS
<1>1. ServedInv'
  BY ServedStep DEF CounterInv
<1>2. Listed'
  BY <1>1, ListedStep
<1>3. ASSUME damages' = 0 PROVE Books'
  <2>1. damages = 0 \/ DamageState
    BY <1>3 DEF Next, vars, AccountCall, Create, ChangePassword, Delete, Renew, Lock, Unlock,
       Unblock, SetQuota, Block, DeleteOrphan, QuotaEnforce, Guard, Expire, Use, SyncUsage,
       Restore, Backup, Flush, ServerRestart
  <2>2. Books
    BY <1>3, <2>1, InvParts DEF DamageState, CounterInv
  <2>3. CASE \E u \in Users : AccountCall(u)
    BY <1>1, <2>2, <2>3, AccountCallBooks
  <2>4. CASE \E u \in Users : Expire(u)
    <3>1. PICK u \in Users : Expire(u)
      BY <2>4
    <3>2. \A v \in live : /\ meta'[v].pass = meta[v].pass
                          /\ meta'[v].total = meta[v].total /\ meta'[v].last = meta[v].last
      BY <3>1, InvParts DEF Expire, MetaRecs
    <3> QED
      BY <2>2, <3>1, <3>2 DEF Expire, Books, Follows
  <2>5. CASE \E p \in Passwords : DeleteOrphan(p)
    BY <1>1, <2>2, <2>5, DeleteOrphanBooks
  <2>6. CASE QuotaEnforce
    BY <1>1, <2>2, <2>6, QuotaEnforceBooks
  <2>7. CASE Guard
    BY <1>1, <2>2, <2>7, GuardBooks
  <2>8. CASE SyncUsage
    <3>1. Follows(live, AllSynced, state, floor)
      BY <2>2, SyncedFollows
    <3> QED
      BY <2>2, <2>8, <3>1 DEF SyncUsage, Books
  <2>9. CASE UNCHANGED vars
    BY <2>2, <2>9 DEF vars, Books
  <2> QED
    BY <1>1, <1>3, <2>2, <2>3, <2>4, <2>5, <2>6, <2>7, <2>8, <2>9, ServerBooks DEF Next
<1> QED
  BY <1>1, <1>2, <1>3 DEF CounterInv

-----------------------------------------------------------------------------
\* A password that was released has no counter left in the state file, its
\* mirror, a backup or the memory of the server, as long as quota-state.json
\* stayed readable: it can be given out again without a check.
THEOREM NoCounterLeft == Spec => []ReleasedLeavesNoCounter
<1>1. CounterInv => ReleasedLeavesNoCounter
  BY DEF CounterInv, Books, NoTrace, NoMemory, ReleasedLeavesNoCounter
<1> QED
  BY <1>1, CounterInit, CounterStep, PTL DEF Spec

\* An account keeps what was flushed for it, in both files and in the server,
\* through every change of password, lock, quota and restart.
THEOREM Followed == Spec => []CounterFollowsAccount
<1>1. ASSUME CounterInv PROVE CounterFollowsAccount
  <2>1. ASSUME Books, NEW u \in live
        PROVE  /\ state.used[meta[u].pass] >= floor[u] /\ bak.used[meta[u].pass] >= floor[u]
               /\ proc.up /\ Limited(proc.conf) # {} => proc.mem[meta[u].pass] >= floor[u]
    <3>1. /\ meta[u].pass \in Passwords /\ floor[u] \in Nat /\ state.used[meta[u].pass] \in Nat
          /\ proc.mem[meta[u].pass] \in Nat
      BY <1>1, InvParts DEF Procs
    <3> QED
      BY <2>1, <3>1 DEF Books, Counts, Follows
  <2> QED
    BY <1>1, <2>1 DEF CounterInv, CounterFollowsAccount
<1> QED
  BY <1>1, CounterInit, CounterStep, PTL DEF Spec

\* The lifetime total of an account is the part of its counter the panel has
\* seen: usage is billed once.
THEOREM Billed == Spec => []BilledOnce
<1>1. CounterInv => BilledOnce
  BY DEF CounterInv, Books, Follows, BilledOnce
<1> QED
  BY <1>1, CounterInit, CounterStep, PTL DEF Spec

=============================================================================
