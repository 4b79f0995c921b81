----------------------------- MODULE ZivpnUsage -----------------------------
(***************************************************************************)
(* What one zivpn account has used, as the panel computes it                *)
(* (get_zivpn_traffic) and acts on it (quota_enforce), when the crons       *)
(* --quota-enforce of kighmu and of kighmu-bot, --zivpn-quota-guard and the *)
(* calls of an administrator run at the same time.  Each access to the meta *)
(* file of the account or to quota-state.json is a step: single fields are  *)
(* written under the lock of the account, the values were read before.      *)
(* Fields read one right after another are read in one step.  Accounts do   *)
(* not expire here, and have a quota.                                       *)
(*                                                                          *)
(* The other accounts only matter in that the state file is unreadable      *)
(* while the purge of one of them rewrites it in place.                     *)
(***************************************************************************)
EXTENDS Naturals, FiniteSets

CONSTANTS
  Enforcers, Guards, Admins,   \* the processes
  Quotas,                      \* the quotas the account may have, in units
  MaxBusy,                     \* bound: processes that run at once
  MaxCount,                    \* bound: units counted by the server
  MaxEvents                    \* bound: calls of the administrators and
                               \* rewritings of the state file together

ASSUME QuotasAssumption == Quotas \subseteq Nat \ {0}
ASSUME BoundsAssumption == {MaxBusy, MaxCount, MaxEvents} \subseteq Nat

Procs == Enforcers \cup Guards \cup Admins

VARIABLES
  quota, locked, quotaHit, total, last,   \* fields of the meta file
  counter, readable,                      \* the account in quota-state.json
  mem,                                    \* and in the memory of the server
  frame,                                  \* what each process does and has read
  events                                  \* calls and rewritings so far

meta == <<quota, locked, quotaHit, total, last>>
server == <<counter, readable, mem>>
vars == <<meta, server, frame, events>>

Idle == [job |-> "none", at |-> "idle", phase |-> "none", raw |-> 0, stored |-> 0, last |-> 0,
         quota |-> 0, used |-> 0,
         keep |-> [quota |-> 0, locked |-> FALSE, quotaHit |-> FALSE, total |-> 0, last |-> 0]]

Init ==
  /\ quota \in Quotas
  /\ locked = FALSE /\ quotaHit = FALSE /\ total = 0 /\ last = 0
  /\ counter = 0 /\ readable = TRUE /\ mem = 0
  /\ frame = [p \in Procs |-> Idle]
  /\ events = 0

At(p, label) == frame[p].at = label
Goto(p, label) == frame' = [frame EXCEPT ![p].at = label]
End(p) == frame' = [frame EXCEPT ![p] = Idle]

MayStart(p) ==
  At(p, "idle") /\ Cardinality({q \in Procs : ~At(q, "idle")}) < MaxBusy

-----------------------------------------------------------------------------
\* get_zivpn_traffic: three reads and up to three writes.

Start(p) ==
  /\ p \in Enforcers \cup Guards /\ MayStart(p)
  /\ frame' = [frame EXCEPT ![p] =
       [Idle EXCEPT !.job = IF p \in Guards THEN "guard" ELSE "enforce",
                    !.phase = "sync", !.at = "raw"]]
  /\ UNCHANGED meta

ReadRaw(p) ==
  /\ At(p, "raw")
  /\ frame' = [frame EXCEPT ![p].raw = IF readable THEN counter ELSE 0, ![p].at = "stored"]
  /\ UNCHANGED meta

ReadStored(p) ==
  /\ At(p, "stored")
  /\ frame' = [frame EXCEPT ![p].stored = total, ![p].at = "last"]
  /\ UNCHANGED meta

ReadLast(p) ==
  /\ At(p, "last")
  /\ frame' = [frame EXCEPT ![p].last = last, ![p].at = "total"]
  /\ UNCHANGED meta

\* A counter below the one last seen is taken for a reset.
Growth(f) == IF f.raw >= f.last THEN f.raw - f.last ELSE f.raw

AddGrowth(p) ==
  /\ At(p, "total")
  /\ LET f == frame[p] IN
       /\ total' = IF Growth(f) > 0 THEN f.stored + Growth(f) ELSE total
       /\ frame' = [frame EXCEPT ![p].stored = @ + Growth(f), ![p].last = 0, ![p].at = "remember"]
  /\ UNCHANGED <<quota, locked, quotaHit, last>>

Result(f) == IF f.stored > f.raw THEN f.stored ELSE f.raw

\* Back to the caller: the first refresh is for display, the second decides
\* whether to lock, the third whether to free.
Return(f) ==
  LET g == [f EXCEPT !.raw = 0, !.stored = 0] IN
    CASE f.phase = "recheck" -> [g EXCEPT !.used = Result(f), !.at = "release"]
      [] f.phase = "enforce" -> [g EXCEPT !.used = Result(f), !.at = "judge"]
      [] f.job = "enforce"   -> [g EXCEPT !.phase = "enforce", !.at = "quota"]
      [] OTHER -> Idle

Remember(p) ==
  /\ At(p, "remember")
  /\ last' = frame[p].raw
  /\ frame' = [frame EXCEPT ![p] =
       IF @.stored = 0 /\ @.raw > 0 THEN [@ EXCEPT !.at = "seed"] ELSE Return(@)]
  /\ UNCHANGED <<quota, locked, quotaHit, total>>

Seed(p) ==
  /\ At(p, "seed")
  /\ frame' = [frame EXCEPT ![p] =
       IF total = 0 THEN [@ EXCEPT !.at = "plant", !.stored = frame[p].raw] ELSE Return(@)]
  /\ UNCHANGED meta

Plant(p) ==
  /\ At(p, "plant")
  /\ total' = frame[p].raw
  /\ frame' = [frame EXCEPT ![p] = Return(@)]
  /\ UNCHANGED <<quota, locked, quotaHit, last>>

TrafficStep(p) ==
  \/ Start(p) \/ ReadRaw(p) \/ ReadStored(p) \/ ReadLast(p)
  \/ AddGrowth(p) \/ Remember(p) \/ Seed(p) \/ Plant(p)

-----------------------------------------------------------------------------
\* quota_enforce: lock an account that has reached its quota, and free one
\* that was locked for it and is below again.

\* The quota is read before the traffic is.
ReadQuota(p) ==
  /\ At(p, "quota")
  /\ frame' = [frame EXCEPT ![p].quota = quota, ![p].at = "raw"]
  /\ UNCHANGED meta

Judge(p) ==
  /\ At(p, "judge")
  /\ frame' = [frame EXCEPT ![p].used = 0,
       ![p].at = IF frame[p].used >= frame[p].quota /\ ~locked THEN "hit" ELSE "recheck"]
  /\ UNCHANGED meta

Hit(p) ==
  /\ At(p, "hit")
  /\ quotaHit' = TRUE
  /\ Goto(p, "cut")
  /\ UNCHANGED <<quota, locked, total, last>>

Cut(p) ==
  /\ At(p, "cut")
  /\ locked' = TRUE
  /\ Goto(p, "recheck")
  /\ UNCHANGED <<quota, quotaHit, total, last>>

Recheck(p) ==
  /\ At(p, "recheck")
  /\ frame' = [frame EXCEPT ![p] =
       IF locked /\ quotaHit THEN [@ EXCEPT !.phase = "recheck", !.at = "raw"] ELSE Idle]
  /\ UNCHANGED meta

\* Mutant: an account at its quota is freed.
ReleaseAtQuota(p) ==
  /\ At(p, "release")
  /\ IF frame[p].used <= frame[p].quota
       THEN quotaHit' = FALSE /\ frame' = [frame EXCEPT ![p].used = 0, ![p].at = "restore"]
       ELSE UNCHANGED quotaHit /\ End(p)
  /\ UNCHANGED <<quota, locked, total, last>>

Release(p) ==
  /\ At(p, "release")
  /\ IF frame[p].used < frame[p].quota
       THEN quotaHit' = FALSE /\ frame' = [frame EXCEPT ![p].used = 0, ![p].at = "restore"]
       ELSE UNCHANGED quotaHit /\ End(p)
  /\ UNCHANGED <<quota, locked, total, last>>

Restore(p) ==
  /\ At(p, "restore")
  /\ locked' = FALSE
  /\ End(p)
  /\ UNCHANGED <<quota, quotaHit, total, last>>

EnforceStep(p) ==
  ReadQuota(p) \/ Judge(p) \/ Hit(p) \/ Cut(p) \/ Recheck(p) \/ Release(p) \/ Restore(p)

-----------------------------------------------------------------------------
\* Calls of an administrator.

Lock(p) ==
  /\ At(p, "lock")
  /\ locked' = TRUE
  /\ End(p)
  /\ UNCHANGED <<quota, quotaHit, total, last>>

Unlock(p) ==
  /\ At(p, "unlock")
  /\ locked' = FALSE
  /\ End(p)
  /\ UNCHANGED <<quota, quotaHit, total, last>>

\* set_user_quota, which frees an account locked for its quota.
SetQuota(p) ==
  /\ At(p, "setquota")
  /\ quota' \in Quotas
  /\ Goto(p, "washit")
  /\ UNCHANGED <<locked, quotaHit, total, last>>

WasHit(p) ==
  /\ At(p, "washit")
  /\ IF quotaHit THEN quotaHit' = FALSE /\ Goto(p, "unlock") ELSE UNCHANGED quotaHit /\ End(p)
  /\ UNCHANGED <<quota, locked, total, last>>

\* renew_user writes the meta file anew and then puts back, one by one, the
\* fields it had read.  A field that was never set is not put back, one that
\* was set to 0 is.
Keep(p) ==
  /\ At(p, "renew")
  /\ frame' = [frame EXCEPT ![p].at = "rewrite", ![p].keep =
       [quota |-> quota, locked |-> locked, quotaHit |-> quotaHit, total |-> total, last |-> last]]
  /\ UNCHANGED meta

Rewrite(p) ==
  /\ At(p, "rewrite")
  /\ locked' = FALSE /\ quotaHit' = FALSE /\ total' = 0 /\ last' = 0
  /\ quota' = frame[p].keep.quota
  /\ Goto(p, "puthit")

PutBack(p) ==
  LET k == frame[p].keep IN
    /\ \/ /\ At(p, "puthit") /\ quotaHit' \in IF k.quotaHit THEN {TRUE} ELSE {FALSE, quotaHit}
          /\ Goto(p, "putlock") /\ UNCHANGED <<locked, total, last>>
       \/ /\ At(p, "putlock") /\ locked' \in IF k.locked THEN {TRUE} ELSE {FALSE, locked}
          /\ Goto(p, "puttotal") /\ UNCHANGED <<quotaHit, total, last>>
       \/ /\ At(p, "puttotal") /\ total' = IF k.total > 0 THEN k.total ELSE total
          /\ Goto(p, "putlast") /\ UNCHANGED <<locked, quotaHit, last>>
       \/ /\ At(p, "putlast") /\ last' \in IF k.last > 0 THEN {k.last} ELSE {0, last}
          /\ End(p) /\ UNCHANGED <<locked, quotaHit, total>>
    /\ UNCHANGED quota

CallStep(p) ==
  Lock(p) \/ Unlock(p) \/ SetQuota(p) \/ WasHit(p) \/ Keep(p) \/ Rewrite(p) \/ PutBack(p)

StartCall(p) ==
  /\ p \in Admins /\ MayStart(p) /\ events < MaxEvents
  /\ events' = events + 1
  /\ \E job \in {"lock", "unlock", "setquota", "renew"} :
       frame' = [frame EXCEPT ![p] = [Idle EXCEPT !.job = job, !.at = job]]
  /\ UNCHANGED <<meta, server>>

-----------------------------------------------------------------------------
\* The server counts and saves; the purge of another account truncates the
\* state file and writes it again.

Use ==
  /\ mem < MaxCount /\ mem' = mem + 1
  /\ UNCHANGED <<meta, counter, readable, frame, events>>

Flush ==
  /\ counter' = mem /\ readable' = TRUE
  /\ UNCHANGED <<meta, mem, frame, events>>

Tear ==
  /\ readable /\ events < MaxEvents
  /\ readable' = FALSE /\ events' = events + 1
  /\ UNCHANGED <<meta, counter, mem, frame>>

TearEnds ==
  /\ ~readable /\ readable' = TRUE
  /\ UNCHANGED <<meta, counter, mem, frame, events>>

Step(p) ==
  /\ TrafficStep(p) \/ EnforceStep(p) \/ CallStep(p)
  /\ UNCHANGED <<server, events>>

Next ==
  \/ \E p \in Procs : Step(p) \/ StartCall(p)
  \/ Use \/ Flush \/ Tear \/ TearEnds

Spec == Init /\ [][Next]_vars

\* Cron starts its commands for ever, processes are scheduled, the saver ticks.
Fairness == (\A p \in Procs : WF_vars(Step(p))) /\ WF_vars(Flush) /\ WF_vars(TearEnds)

FairSpec == Spec /\ Fairness

-----------------------------------------------------------------------------
\* Quotas are enforced on what the counter says, whatever two crons of one
\* minute lose or add twice in the total by overwriting each other's fields and
\* whoever interferes: an account whose counter stays at its quota is locked in
\* the end, and for good.
ExhaustedIsLocked == <>[](counter >= quota) => <>[]locked

=============================================================================
