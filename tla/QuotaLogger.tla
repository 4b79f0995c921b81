----------------------------- MODULE QuotaLogger ----------------------------
(***************************************************************************)
(* The byte counters of the zivpn server (QuotaTrafficLogger), the two     *)
(* files that persist them, the periodic saver, and the process around     *)
(* them, which is only ever killed: the server installs no signal handler, *)
(* so a stop is a crash.                                                   *)
(*                                                                         *)
(* Every method holds one mutex, and a save under it writes two files one  *)
(* after the other.  A call is therefore a critical section with a stage;  *)
(* a crash, a failing write or a damaged file can come between any two of  *)
(* its stages.  The files are replaced by rename, so a write is atomic.    *)
(***************************************************************************)
EXTENDS Naturals, FiniteSets

CONSTANTS
  Ids,          \* passwords seen by the server
  NoQuota,      \* "no entry in the quota map"
  Quota,        \* the quota section of the configuration, in bytes
  Sizes,        \* bytes of one Log call
  DamageKinds,  \* what a damaged state file may look like
  MaxInitial,   \* bound: bytes counted by an earlier run of the server
  MaxCounted,   \* bound: bytes counted per identity
  MaxFaults,    \* bound: crashes, failed writes and damaged files
  MaxMonth      \* bound: calendar months that pass

ASSUME IdsAssumption == IsFiniteSet(Ids)
ASSUME QuotaAssumption == NoQuota \notin Nat /\ Quota \in [Ids -> Nat \cup {NoQuota}]
ASSUME SizesAssumption == Sizes \subseteq Nat \ {0}
ASSUME DamageAssumption == DamageKinds \subseteq {"torn", "bare"}
ASSUME BoundsAssumption == {MaxInitial, MaxCounted, MaxFaults, MaxMonth} \subseteq Nat

VARIABLES
  up,        \* the server process runs
  clock,     \* the calendar month
  month,     \* q.Month, the month the logger believes in
  used,      \* q.Used; an absent key reads as 0
  main, bak, \* quota-state.json and its .bak mirror
  call,      \* the call inside the mutex
  stage,     \* how far it is
  wrote,     \* the save in progress has replaced main
  floor,     \* history: the counters at the last save that returned nil
  ceil,      \* history: the largest value a copy of them has had since then
  passed,    \* history: counted bytes that Log let through
  excused,   \* history: counted bytes that a reset or a crash took away
  faults     \* history: faults so far

vars == <<up, clock, month, used, main, bak, call, stage, wrote,
          floor, ceil, passed, excused, faults>>

Zero == [i \in Ids |-> 0]
Counters == [Ids -> Nat]

\* "torn": unreadable, unparsable or with a wrong checksum.  "bare": valid
\* JSON with neither "version" nor "used" ({} or null): version 0 needs no
\* checksum and Used stays nil.
FileKinds == {"missing", "torn", "bare", "ok"}
Files == [kind : FileKinds, used : Counters]
Unusable(k) == [kind |-> k, used |-> Zero]
Saved(u) == [kind |-> "ok", used |-> u]

Readable(f) == f.kind \in {"bare", "ok"}
Damaged(f) == f.kind \in {"torn", "bare"}

\* Mutant: no mirror at load.
LoadedMainOnly == IF Readable(main) THEN main.used ELSE Zero

\* load: the main file, else the mirror, else nothing.
Loaded == IF Readable(main) THEN main.used
          ELSE IF Readable(bak) THEN bak.used ELSE Zero

Idle == [op |-> "none"]
LogCalls == [op : {"log"}, id : Ids, n : Sizes]
ResetCalls == [op : {"reset"}, ids : {Ids} \cup {{i} : i \in Ids}]
SaveCall == [op |-> "save"]
ReadCall == [op |-> "read"]
Calls == LogCalls \cup ResetCalls \cup {SaveCall, ReadCall}

Stages == {"free", "rollMain", "rollBak", "body", "saveMain", "saveBak"}

-----------------------------------------------------------------------------
\* A first installation, an upgrade from a binary that wrote no mirror, or
\* the files of a previous run.
Init ==
  /\ up = FALSE
  /\ clock = 0 /\ month = 0
  /\ \E u \in [Ids -> 0..MaxInitial] :
       \/ main = Unusable("missing") /\ bak = Unusable("missing")
          /\ floor = Zero /\ ceil = Zero
       \/ main = Saved(u) /\ bak = Unusable("missing")
          /\ floor = Zero /\ ceil = u
       \/ main = Saved(u) /\ bak = Saved(u) /\ floor = u /\ ceil = u
  /\ used = floor
  /\ call = Idle /\ stage = "free" /\ wrote = FALSE
  /\ passed = Zero /\ excused = Zero
  /\ faults = 0

\* fillTrafficLogger builds the logger, which loads the counters.
Boot ==
  /\ ~up
  /\ up' = TRUE
  /\ used' = Loaded
  /\ month' = clock
  /\ excused' = [i \in Ids |-> excused[i] +
                   (IF used[i] > Loaded[i] THEN used[i] - Loaded[i] ELSE 0)]
  /\ UNCHANGED <<clock, main, bak, call, stage, wrote, floor, ceil, passed, faults>>

\* Mutant: the monthly reset the logger once had.
EnterMonthlyReset(c) ==
  /\ up /\ stage = "free"
  /\ c.op = "log" => used[c.id] + excused[c.id] + c.n <= MaxCounted
  /\ call' = c /\ stage' = "body" /\ month' = clock
  /\ used' = IF month # clock THEN Zero ELSE used
  /\ UNCHANGED <<up, clock, main, bak, wrote, floor, ceil, passed, excused, faults>>

\* Every call but ResetUsage first rolls the month over, which saves.
Enter(c) ==
  /\ up /\ stage = "free"
  /\ c.op = "log" => used[c.id] + excused[c.id] + c.n <= MaxCounted
  /\ call' = c
  /\ IF c.op # "reset" /\ month # clock
       THEN stage' = "rollMain" /\ month' = clock
       ELSE stage' = "body" /\ UNCHANGED month
  /\ UNCHANGED <<up, clock, used, main, bak, wrote, floor, ceil, passed, excused, faults>>

WriteMain(ok) ==
  /\ stage \in {"rollMain", "saveMain"}
  /\ ok \/ faults < MaxFaults
  /\ main' = IF ok THEN Saved(used) ELSE main
  /\ wrote' = ok
  /\ faults' = IF ok THEN faults ELSE faults + 1
  /\ stage' = IF stage = "rollMain" THEN "rollBak" ELSE "saveBak"
  /\ UNCHANGED <<up, clock, month, used, bak, call, floor, ceil, passed, excused>>

\* Mutant: the mirror is not written.
WriteBakSkipped(ok) ==
  /\ stage \in {"rollBak", "saveBak"} /\ ok
  /\ IF wrote THEN floor' = used /\ ceil' = used ELSE UNCHANGED <<floor, ceil>>
  /\ IF stage = "rollBak" THEN stage' = "body" /\ UNCHANGED call
                          ELSE stage' = "free" /\ call' = Idle
  /\ UNCHANGED <<up, clock, month, used, main, bak, wrote, passed, excused, faults>>

\* The mirror is written whether or not the main file was; the save returns
\* nil when both were.
WriteBak(ok) ==
  /\ stage \in {"rollBak", "saveBak"}
  /\ ok \/ faults < MaxFaults
  /\ bak' = IF ok THEN Saved(used) ELSE bak
  /\ faults' = IF ok THEN faults ELSE faults + 1
  /\ IF ok /\ wrote THEN floor' = used /\ ceil' = used ELSE UNCHANGED <<floor, ceil>>
  /\ IF stage = "rollBak" THEN stage' = "body" /\ UNCHANGED call
                          ELSE stage' = "free" /\ call' = Idle
  /\ UNCHANGED <<up, clock, month, used, main, wrote, passed, excused>>

Leave == stage' = "free" /\ call' = Idle

\* Mutant: the quota is compared before the bytes are charged.
AllowedBeforeCharge(i, u) == Quota[i] = 0 \/ used[i] <= Quota[i]

\* The verdict of Log: at the quota is still allowed, and 0 is no limit.
Allowed(i, u) == Quota[i] = 0 \/ u <= Quota[i]

LogBody ==
  /\ stage = "body" /\ call.op = "log"
  /\ IF Quota[call.id] = NoQuota
       THEN UNCHANGED <<used, ceil, passed>>
       ELSE LET u == used[call.id] + call.n IN
              /\ used' = [used EXCEPT ![call.id] = u]
              /\ ceil' = [ceil EXCEPT ![call.id] = IF u > @ THEN u ELSE @]
              /\ passed' = IF Allowed(call.id, u)
                             THEN [passed EXCEPT ![call.id] = @ + call.n] ELSE passed
  /\ Leave
  /\ UNCHANGED <<up, clock, month, main, bak, wrote, floor, excused, faults>>

\* Mutant: a save that writes nothing.
SaveBodyNothing ==
  /\ stage = "body" /\ call.op = "save"
  /\ Leave
  /\ UNCHANGED <<up, clock, month, used, main, bak, wrote, floor, ceil,
                 passed, excused, faults>>

SaveBody ==
  /\ stage = "body" /\ call.op = "save"
  /\ stage' = "saveMain"
  /\ UNCHANGED <<up, clock, month, used, main, bak, call, wrote, floor, ceil,
                 passed, excused, faults>>

\* UsedNow and Usage.
ReadBody ==
  /\ stage = "body" /\ call.op = "read"
  /\ Leave
  /\ UNCHANGED <<up, clock, month, used, main, bak, wrote, floor, ceil,
                 passed, excused, faults>>

\* Mutant: every reset is a reset of all.
ResetBodyEverything ==
  /\ stage = "body" /\ call.op = "reset"
  /\ used' = Zero
  /\ floor' = [i \in Ids |-> IF i \in call.ids THEN 0 ELSE floor[i]]
  /\ excused' = [i \in Ids |-> excused[i] + (IF i \in call.ids THEN used[i] ELSE 0)]
  /\ stage' = "saveMain"
  /\ UNCHANGED <<up, clock, month, main, bak, call, wrote, ceil, passed, faults>>

\* The error of the save that ends a reset is ignored.
ResetBody ==
  /\ stage = "body" /\ call.op = "reset"
  /\ used' = [i \in Ids |-> IF i \in call.ids THEN 0 ELSE used[i]]
  /\ floor' = [i \in Ids |-> IF i \in call.ids THEN 0 ELSE floor[i]]
  /\ excused' = [i \in Ids |-> excused[i] + (IF i \in call.ids THEN used[i] ELSE 0)]
  /\ stage' = "saveMain"
  /\ UNCHANGED <<up, clock, month, main, bak, call, wrote, ceil, passed, faults>>

-----------------------------------------------------------------------------
\* The environment.

\* Mutant: the mutex survives the process.
CrashKeepsLock ==
  /\ up /\ faults < MaxFaults
  /\ up' = FALSE /\ faults' = faults + 1
  /\ UNCHANGED <<clock, month, used, main, bak, call, stage, wrote, floor, ceil, passed, excused>>

\* kill, systemctl stop, panic, power loss: at any point of a call.
Crash ==
  /\ up /\ faults < MaxFaults
  /\ up' = FALSE
  /\ Leave
  /\ faults' = faults + 1
  /\ UNCHANGED <<clock, month, used, main, bak, wrote, floor, ceil, passed, excused>>

\* A disk error or a manual edit spoils one file while the other is sound.
DamageMain(k) ==
  /\ main.kind = "ok" /\ ~Damaged(bak) /\ faults < MaxFaults
  /\ main' = Unusable(k)
  /\ faults' = faults + 1
  /\ UNCHANGED <<up, clock, month, used, bak, call, stage, wrote, floor, ceil, passed, excused>>

DamageBak(k) ==
  /\ bak.kind = "ok" /\ ~Damaged(main) /\ faults < MaxFaults
  /\ bak' = Unusable(k)
  /\ faults' = faults + 1
  /\ UNCHANGED <<up, clock, month, used, main, call, stage, wrote, floor, ceil, passed, excused>>

MonthPasses ==
  /\ clock < MaxMonth
  /\ clock' = clock + 1
  /\ UNCHANGED <<up, month, used, main, bak, call, stage, wrote, floor, ceil,
                 passed, excused, faults>>

Step == (\E ok \in BOOLEAN : WriteMain(ok) \/ WriteBak(ok))
        \/ LogBody \/ SaveBody \/ ReadBody \/ ResetBody

Next == Boot \/ (\E c \in Calls : Enter(c)) \/ Step
        \/ Crash \/ MonthPasses
        \/ (\E k \in DamageKinds : DamageMain(k) \/ DamageBak(k))

Spec == Init /\ [][Next]_vars

\* systemd restarts the service; a call that holds the mutex finishes; the
\* saver's ticker fires for ever and Go's mutex starves nobody, so the saver
\* gets in however often the relays take the lock.
Fairness == WF_vars(Boot) /\ WF_vars(Step) /\ SF_vars(Enter(SaveCall))

FairSpec == Spec /\ Fairness

-----------------------------------------------------------------------------
\* Every variable of the logger and of its files has its type, and the mutex is
\* held exactly while a call of the running process is inside it.
TypeOK ==
  /\ up \in BOOLEAN /\ wrote \in BOOLEAN
  /\ clock \in Nat /\ month \in Nat /\ faults \in Nat
  /\ used \in Counters /\ floor \in Counters /\ ceil \in Counters
  /\ passed \in Counters /\ excused \in Counters
  /\ main \in Files /\ bak \in Files
  /\ call \in Calls \cup {Idle} /\ stage \in Stages
  /\ stage = "free" <=> call = Idle
  /\ ~up => stage = "free"

\* No crash, failed write or single unreadable file takes a counter below what
\* the last successful save fixed, and none brings it above what it has been
\* since: the mirror and the order of the two writes exist for this.  It
\* covers both what the process holds and what the next one would load.
CountersBracketed == \A i \in Ids :
  /\ floor[i] <= used[i] /\ used[i] <= ceil[i]
  /\ floor[i] <= Loaded[i] /\ Loaded[i] <= ceil[i]

\* A password never gets more bytes through than its quota, counting as fresh
\* only what a reset forgave or a crash lost: the counter is charged before
\* the bytes are let through and denied bytes stay charged.
QuotaEnforced == \A i \in Ids :
  Quota[i] \notin {0, NoQuota} => passed[i] <= Quota[i] + excused[i]

\* What was counted reaches both files in the end: the saver goes on for ever
\* and failures do not.
EventuallyDurable == []<>(up /\ floor = used)

Abstract == INSTANCE DurableCounter
              WITH Ids <- Ids, used <- used, floor <- floor, ceil <- ceil

\* The logger with its lock, its files and its crashes is the durable counter
\* that forgets only what no save confirmed.
ImplementsDurableCounter == Abstract!Spec
=============================================================================
