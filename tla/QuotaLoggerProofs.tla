-------------------------- MODULE QuotaLoggerProofs -------------------------
(***************************************************************************)
(* Theorems about the quota logger, for every set of passwords, every      *)
(* quota and every bound.                                                  *)
(***************************************************************************)
EXTENDS QuotaLogger, TLAPS

\* What the two files hold, in relation to the history of confirmed saves.
Bracketed(f) == \A i \in Ids : floor[i] <= f.used[i] /\ f.used[i] <= ceil[i]

FileSound(f) ==
  /\ f.kind \in {"ok", "torn", "missing"}
  /\ f.kind = "ok" => Bracketed(f)
  /\ f.kind = "missing" => floor = Zero

FilesInv ==
  /\ \A i \in Ids : floor[i] <= used[i] /\ used[i] <= ceil[i]
  /\ FileSound(main) /\ FileSound(bak)
  /\ ~(Damaged(main) /\ Damaged(bak))
  /\ stage \in {"rollBak", "saveBak"} /\ wrote =>
       main.kind # "missing" /\ (main.kind = "ok" => main.used = used)

\* Every byte let through is still charged or was excused.
ChargeInv == \A i \in Ids : passed[i] <= used[i] + excused[i]

-----------------------------------------------------------------------------
\* The shape of the disjuncts of Next, named once for the case splits.

LEMMA ZeroType == Zero \in Counters
  BY DEF Zero, Counters

LEMMA LoadedType == ASSUME TypeOK PROVE Loaded \in Counters
  BY ZeroType DEF TypeOK, Loaded, Files

LEMMA CallShapes ==
  /\ \A c \in LogCalls : c.op = "log" /\ c.id \in Ids /\ c.n \in Sizes
  /\ \A c \in ResetCalls : c.op = "reset" /\ c.ids \subseteq Ids
  /\ SaveCall.op = "save" /\ ReadCall.op = "read" /\ Idle.op = "none"
  /\ Idle \notin Calls
  BY DEF LogCalls, ResetCalls, SaveCall, ReadCall, Idle, Calls

\* The call in a body stage is of the kind its op says.
LEMMA CallOf ==
  ASSUME TypeOK
  PROVE  /\ call.op = "log" => call.id \in Ids /\ call.n \in Nat \ {0}
         /\ call.op = "reset" => call.ids \subseteq Ids
  <1>1. CASE call \in LogCalls
    BY <1>1, CallShapes, SizesAssumption
  <1>2. CASE call \in ResetCalls
    BY <1>2, CallShapes
  <1>3. CASE call \in {SaveCall, ReadCall, Idle}
    BY <1>3, CallShapes
  <1> QED
    BY <1>1, <1>2, <1>3 DEF TypeOK, Calls

LEMMA InitType == Init => TypeOK
  <1> SUFFICES ASSUME Init PROVE TypeOK
    OBVIOUS
  <1>1. \A u \in [Ids -> 0..MaxInitial] : u \in Counters
    BY BoundsAssumption DEF Counters
  <1>2. main \in Files /\ bak \in Files /\ floor \in Counters /\ ceil \in Counters
    BY <1>1, ZeroType DEF Init, Files, Unusable, Saved, FileKinds
  <1> QED
    BY <1>2, ZeroType DEF Init, TypeOK, Stages

\* TypeOK is inductive, one step per action.
LEMMA StepType == TypeOK /\ [Next]_vars => TypeOK'
  <1> SUFFICES ASSUME TypeOK, [Next]_vars PROVE TypeOK'
    OBVIOUS
  <1>1. CASE Boot
    BY <1>1, LoadedType DEF Boot, TypeOK, Counters
  <1>2. ASSUME NEW c \in Calls, Enter(c) PROVE TypeOK'
    BY <1>2, CallShapes DEF Enter, TypeOK, Stages
  <1>3. ASSUME NEW ok \in BOOLEAN, WriteMain(ok) PROVE TypeOK'
    BY <1>3 DEF WriteMain, TypeOK, Stages, Files, FileKinds, Saved
  <1>4. ASSUME NEW ok \in BOOLEAN, WriteBak(ok) PROVE TypeOK'
    BY <1>4, CallShapes DEF WriteBak, TypeOK, Stages, Files, FileKinds, Saved
  <1>5. CASE LogBody
    <2>1. call.id \in Ids /\ call.n \in Nat
      BY <1>5, CallOf DEF LogBody
    <2>2. used' \in Counters /\ ceil' \in Counters /\ passed' \in Counters
      BY <1>5, <2>1 DEF LogBody, TypeOK, Counters
    <2> QED
      BY <1>5, <2>2 DEF LogBody, Leave, TypeOK, Stages
  <1>6. CASE SaveBody
    BY <1>6 DEF SaveBody, TypeOK, Stages
  <1>7. CASE ReadBody
    BY <1>7 DEF ReadBody, Leave, TypeOK, Stages
  <1>8. CASE ResetBody
    <2>1. used' \in Counters /\ floor' \in Counters /\ excused' \in Counters
      BY <1>8 DEF ResetBody, TypeOK, Counters
    <2> QED
      BY <1>8, <2>1 DEF ResetBody, TypeOK, Stages
  <1>9. CASE Crash
    <2>1. stage' = "free" /\ call' = Idle /\ up' = FALSE /\ faults' \in Nat
      BY <1>9 DEF Crash, Leave, TypeOK
    <2>2. UNCHANGED <<clock, month, used, main, bak, wrote, floor, ceil, passed, excused>>
      BY <1>9 DEF Crash
    <2> QED
      BY <2>1, <2>2 DEF TypeOK, Stages
  <1>10. ASSUME NEW k \in DamageKinds, DamageMain(k) \/ DamageBak(k) PROVE TypeOK'
    BY <1>10, DamageAssumption, ZeroType
       DEF DamageMain, DamageBak, TypeOK, Files, FileKinds, Unusable
  <1>11. CASE MonthPasses
    BY <1>11 DEF MonthPasses, TypeOK
  <1>12. CASE UNCHANGED vars
    BY <1>12 DEF vars, TypeOK
  <1> QED
    BY <1>1, <1>2, <1>3, <1>4, <1>5, <1>6, <1>7, <1>8, <1>9, <1>10, <1>11, <1>12
       DEF Next, Step

\* Type correctness, and the mutex discipline TypeOK includes.
THEOREM TypeCorrect == Spec => []TypeOK
  BY InitType, StepType, PTL DEF Spec

-----------------------------------------------------------------------------
\* Enforcement.  That a denied byte is still charged and a let-through byte is
\* charged first makes the count bound the bytes; excused accounts for what a
\* reset or a crash took from the count.

EnforceInv == ChargeInv /\ QuotaEnforced

LEMMA InitEnforce == Init => EnforceInv
  <1> SUFFICES ASSUME Init PROVE EnforceInv
    OBVIOUS
  <1>1. passed = Zero /\ excused = Zero /\ used \in Counters
    BY InitType DEF Init, TypeOK
  <1> QED
    BY <1>1, QuotaAssumption DEF EnforceInv, ChargeInv, QuotaEnforced, Zero, Counters

LEMMA StepEnforce == TypeOK /\ EnforceInv /\ [Next]_vars => EnforceInv'
  <1> SUFFICES ASSUME TypeOK, EnforceInv, [Next]_vars PROVE EnforceInv'
    OBVIOUS
  <1>1. CASE UNCHANGED <<used, passed, excused>>
    BY <1>1 DEF EnforceInv, ChargeInv, QuotaEnforced
  <1>2. CASE Boot
    <2>1. \A i \in Ids : /\ passed'[i] = passed[i]
                         /\ excused[i] <= excused'[i]
                         /\ used[i] + excused[i] <= used'[i] + excused'[i]
                         /\ {used[i], used'[i], excused[i], excused'[i], passed[i]} \subseteq Nat
      BY <1>2, LoadedType DEF Boot, TypeOK, Counters
    <2> QED
      BY <2>1, QuotaAssumption DEF EnforceInv, ChargeInv, QuotaEnforced
  <1>3. CASE ResetBody
    <2>1. \A i \in Ids : /\ passed'[i] = passed[i]
                         /\ excused[i] <= excused'[i]
                         /\ used[i] + excused[i] = used'[i] + excused'[i]
                         /\ {used[i], used'[i], excused[i], excused'[i], passed[i]} \subseteq Nat
      BY <1>3 DEF ResetBody, TypeOK, Counters
    <2> QED
      BY <2>1, QuotaAssumption DEF EnforceInv, ChargeInv, QuotaEnforced
  <1>4. CASE LogBody
    <2> DEFINE j == call.id
               u == used[j] + call.n
    <2>1. j \in Ids /\ call.n \in Nat
      BY <1>4, CallOf DEF LogBody
    <2>2. CASE Quota[j] = NoQuota
      BY <1>4, <2>2, <1>1 DEF LogBody
    <2>3. CASE Quota[j] # NoQuota
      <3>1. used' = [used EXCEPT ![j] = u] /\ excused' = excused
        BY <1>4, <2>3 DEF LogBody
      <3>2. passed' = IF Allowed(j, u) THEN [passed EXCEPT ![j] = @ + call.n] ELSE passed
        BY <1>4, <2>3 DEF LogBody
      <3>3. \A i \in Ids : {used[i], excused[i], passed[i]} \subseteq Nat
        BY DEF TypeOK, Counters
      <3>4. ChargeInv'
        BY <3>1, <3>2, <3>3, <2>1 DEF EnforceInv, ChargeInv, TypeOK, Counters
      <3>5. ASSUME NEW i \in Ids, Quota[i] \notin {0, NoQuota}
            PROVE  passed'[i] <= Quota[i] + excused'[i]
        <4>1. Quota[i] \in Nat /\ passed[i] <= Quota[i] + excused[i]
          BY <3>5, QuotaAssumption DEF EnforceInv, QuotaEnforced
        <4>2. CASE i = j /\ Allowed(j, u)
          <5>1. u <= Quota[i]
            BY <4>2, <3>5 DEF Allowed
          <5>2. passed'[i] <= used'[i] + excused'[i] /\ used'[i] = u
            BY <3>4, <3>1, <4>2 DEF ChargeInv, TypeOK, Counters
          <5>3. passed'[i] \in Nat /\ excused'[i] \in Nat /\ u \in Nat
            BY <3>1, <3>2, <3>3, <2>1, <4>2 DEF TypeOK, Counters
          <5> QED
            BY <5>1, <5>2, <5>3, <4>1
        <4>3. CASE ~(i = j /\ Allowed(j, u))
          BY <4>1, <4>3, <3>1, <3>2, <2>1 DEF TypeOK, Counters
        <4> QED
          BY <4>2, <4>3
      <3> QED
        BY <3>4, <3>5 DEF EnforceInv, QuotaEnforced
    <2> QED
      BY <2>2, <2>3
  <1> QED
    BY <1>1, <1>2, <1>3, <1>4
       DEF Next, Step, Enter, WriteMain, WriteBak, SaveBody, ReadBody, Crash,
           DamageMain, DamageBak, MonthPasses, vars

\* No password gets more bytes through than its quota and what a reset or a
\* crash excused, whatever is damaged and whenever the process dies.
THEOREM QuotaSafe == Spec => []QuotaEnforced
  <1>1. TypeOK /\ EnforceInv /\ [Next]_vars => (TypeOK /\ EnforceInv)'
    BY StepType, StepEnforce
  <1>2. EnforceInv => QuotaEnforced
    BY DEF EnforceInv
  <1> QED
    BY <1>1, <1>2, InitType, InitEnforce, PTL DEF Spec

-----------------------------------------------------------------------------
\* Persistence.

LEMMA InitFiles == Init => FilesInv
  <1> SUFFICES ASSUME Init PROVE FilesInv
    OBVIOUS
  <1>1. PICK u \in [Ids -> 0..MaxInitial] :
          \/ main = Unusable("missing") /\ bak = Unusable("missing")
             /\ floor = Zero /\ ceil = Zero
          \/ main = Saved(u) /\ bak = Unusable("missing") /\ floor = Zero /\ ceil = u
          \/ main = Saved(u) /\ bak = Saved(u) /\ floor = u /\ ceil = u
    BY DEF Init
  <1>2. \A i \in Ids : u[i] \in Nat
    BY BoundsAssumption
  <1> QED
    BY <1>1, <1>2 DEF Init, FilesInv, FileSound, Bracketed, Damaged, Unusable, Saved, Zero

\* A boot loads a sound value, whichever file it comes from.
LEMMA LoadSound ==
  ASSUME TypeOK, FilesInv
  PROVE  \A i \in Ids : floor[i] <= Loaded[i] /\ Loaded[i] <= ceil[i]
  <1>1. CASE main.kind = "ok"
    BY <1>1 DEF FilesInv, FileSound, Bracketed, Loaded, Readable
  <1>2. CASE main.kind # "ok" /\ bak.kind = "ok"
    BY <1>2 DEF FilesInv, FileSound, Bracketed, Loaded, Readable
  <1>3. CASE main.kind # "ok" /\ bak.kind # "ok"
    <2>1. floor = Zero
      BY <1>3 DEF FilesInv, FileSound, Damaged
    <2>2. Loaded = Zero
      BY <1>3 DEF FilesInv, FileSound, Loaded, Readable
    <2> QED
      BY <2>1, <2>2 DEF Zero, TypeOK, Counters
  <1> QED
    BY <1>1, <1>2, <1>3

LEMMA StepFiles ==
  ASSUME "bare" \notin DamageKinds
  PROVE  TypeOK /\ FilesInv /\ [Next]_vars => FilesInv'
  <1> SUFFICES ASSUME TypeOK, FilesInv, [Next]_vars PROVE FilesInv'
    OBVIOUS
  <1> USE DEF FilesInv, FileSound
  <1>1. \A i \in Ids : {floor[i], used[i], ceil[i]} \subseteq Nat
    BY DEF TypeOK, Counters
  <1>2. CASE Boot
    <2>1. \A i \in Ids : floor[i] <= used'[i] /\ used'[i] <= ceil[i]
      BY <1>2, LoadSound DEF Boot
    <2>2. stage = "free"
      BY <1>2 DEF Boot, TypeOK
    <2> QED
      BY <1>2, <2>1, <2>2 DEF Boot, Bracketed, Damaged
  <1>3. ASSUME NEW c \in Calls, Enter(c) PROVE FilesInv'
    BY <1>3 DEF Enter, Bracketed, Damaged
  <1>4. ASSUME NEW ok \in BOOLEAN, WriteMain(ok) PROVE FilesInv'
    <2>1. CASE ok
      BY <1>4, <2>1 DEF WriteMain, Saved, Bracketed, Damaged
    <2>2. CASE ~ok
      BY <1>4, <2>2 DEF WriteMain, Bracketed, Damaged
    <2> QED
      BY <2>1, <2>2
  <1>5. ASSUME NEW ok \in BOOLEAN, WriteBak(ok) PROVE FilesInv'
    <2>1. CASE ok /\ wrote
      BY <1>5, <2>1, <1>1 DEF WriteBak, Saved, Bracketed, Damaged
    <2>2. CASE ok /\ ~wrote
      BY <1>5, <2>2 DEF WriteBak, Saved, Bracketed, Damaged
    <2>3. CASE ~ok
      BY <1>5, <2>3 DEF WriteBak, Bracketed, Damaged
    <2> QED
      BY <2>1, <2>2, <2>3
  <1>6. CASE LogBody
    <2>1. call.id \in Ids /\ call.n \in Nat
      BY <1>6, CallOf DEF LogBody
    <2>2. \A i \in Ids : /\ used[i] <= used'[i] /\ used'[i] <= ceil'[i]
                         /\ ceil[i] <= ceil'[i] /\ floor'[i] = floor[i]
                         /\ {used'[i], ceil'[i]} \subseteq Nat
      BY <1>6, <2>1, <1>1 DEF LogBody, TypeOK, Counters
    <2>3. main' = main /\ bak' = bak /\ floor' = floor /\ stage' = "free"
      BY <1>6 DEF LogBody, Leave
    <2>4. \A i \in Ids : {main.used[i], bak.used[i]} \subseteq Nat
      BY DEF TypeOK, Files, Counters
    <2>5. \A f \in {main, bak} : Bracketed(f) => Bracketed(f)'
      BY <2>2, <2>3, <2>4, <1>1 DEF Bracketed
    <2> QED
      BY <2>2, <2>3, <2>5, <1>1 DEF Damaged
  <1>7. CASE SaveBody
    BY <1>7 DEF SaveBody, Bracketed, Damaged
  <1>8. CASE ReadBody
    BY <1>8 DEF ReadBody, Leave, Bracketed, Damaged
  <1>9. CASE ResetBody
    <2>1. \A i \in Ids : /\ floor'[i] <= used'[i] /\ used'[i] <= used[i]
                         /\ floor'[i] <= floor[i] /\ ceil'[i] = ceil[i]
                         /\ {used'[i], floor'[i]} \subseteq Nat
      BY <1>9, <1>1 DEF ResetBody
    <2>2. main' = main /\ bak' = bak /\ stage' = "saveMain"
      BY <1>9 DEF ResetBody
    <2>3. \A i \in Ids : {main.used[i], bak.used[i]} \subseteq Nat
      BY DEF TypeOK, Files, Counters
    <2>4. \A f \in {main, bak} : Bracketed(f) => Bracketed(f)'
      BY <2>1, <2>2, <2>3, <1>1 DEF Bracketed
    <2>5. floor = Zero => floor' = Zero
      BY <1>9 DEF ResetBody, Zero
    <2> QED
      BY <2>1, <2>2, <2>4, <2>5, <1>1 DEF Damaged
  <1>10. CASE Crash
    BY <1>10 DEF Crash, Leave, Bracketed, Damaged
  <1>11. ASSUME NEW k \in DamageKinds, DamageMain(k) PROVE FilesInv'
    <2>1. k = "torn"
      BY DamageAssumption
    <2> QED
      BY <1>11, <2>1 DEF DamageMain, Unusable, Bracketed, Damaged
  <1>12. ASSUME NEW k \in DamageKinds, DamageBak(k) PROVE FilesInv'
    <2>1. k = "torn"
      BY DamageAssumption
    <2> QED
      BY <1>12, <2>1 DEF DamageBak, Unusable, Bracketed, Damaged
  <1>13. CASE MonthPasses
    BY <1>13 DEF MonthPasses, Bracketed, Damaged
  <1>14. CASE UNCHANGED vars
    BY <1>14 DEF vars, Bracketed, Damaged
  <1> QED
    BY <1>2, <1>3, <1>4, <1>5, <1>6, <1>7, <1>8, <1>9, <1>10, <1>11, <1>12,
       <1>13, <1>14 DEF Next, Step

\* As long as a damaged file is one that the loader can tell is damaged, no
\* crash, failed write or single damaged file loses what a save confirmed.
THEOREM Durable ==
  ASSUME "bare" \notin DamageKinds PROVE Spec => []CountersBracketed
  <1>1. TypeOK /\ FilesInv /\ [Next]_vars => (TypeOK /\ FilesInv)'
    BY StepType, StepFiles
  <1>2. TypeOK /\ FilesInv => CountersBracketed
    BY LoadSound DEF FilesInv, CountersBracketed
  <1> QED
    BY <1>1, <1>2, InitType, InitFiles, PTL DEF Spec

-----------------------------------------------------------------------------
\* Refinement.

LEMMA InitRefines == Init => Abstract!Init
  BY InitType, InitFiles DEF Abstract!Init, FilesInv, TypeOK, Counters

LEMMA StepRefines ==
  ASSUME TypeOK, FilesInv, [Next]_vars
  PROVE  [Abstract!Next]_(Abstract!vars)
  <1> USE DEF Abstract!vars, Abstract!Next
  <1>1. CASE UNCHANGED <<used, floor, ceil>>
    BY <1>1
  <1>2. CASE Boot
    <2>1. Abstract!Restart
      BY <1>2, LoadSound, LoadedType DEF Boot, Abstract!Restart, Counters
    <2> QED
      BY <2>1
  <1>3. ASSUME NEW ok \in BOOLEAN, WriteBak(ok) PROVE [Abstract!Next]_(Abstract!vars)
    BY <1>3 DEF WriteBak, Abstract!Confirm
  <1>4. CASE LogBody
    <2>1. call.id \in Ids /\ call.n \in Nat \ {0}
      BY <1>4, CallOf DEF LogBody
    <2>2. CASE Quota[call.id] = NoQuota
      BY <1>4, <2>2, <1>1 DEF LogBody
    <2>3. CASE Quota[call.id] # NoQuota
      <3>1. Abstract!Count(call.id)
        BY <1>4, <2>1, <2>3 DEF LogBody, Abstract!Count, TypeOK, Counters
      <3> QED
        BY <3>1, <2>1
    <2> QED
      BY <2>2, <2>3
  <1>5. CASE ResetBody
    <2>1. call.ids \in SUBSET Ids
      BY <1>5, CallOf DEF ResetBody
    <2>2. Abstract!Forget(call.ids)
      BY <1>5 DEF ResetBody, Abstract!Forget
    <2> QED
      BY <2>1, <2>2
  <1> QED
    BY <1>1, <1>2, <1>3, <1>4, <1>5
       DEF Next, Step, Enter, WriteMain, SaveBody, ReadBody, Crash,
           DamageMain, DamageBak, MonthPasses, vars

\* The logger, its lock, its two files and its crashes implement the durable
\* counter.
THEOREM Refinement ==
  ASSUME "bare" \notin DamageKinds PROVE Spec => ImplementsDurableCounter
  <1>1. TypeOK /\ FilesInv /\ [Next]_vars => (TypeOK /\ FilesInv)'
    BY StepType, StepFiles
  <1>2. TypeOK /\ FilesInv /\ [Next]_vars => [Abstract!Next]_(Abstract!vars)
    BY StepRefines
  <1> QED
    BY <1>1, <1>2, InitType, InitFiles, InitRefines, PTL
       DEF Spec, ImplementsDurableCounter, Abstract!Spec
=============================================================================
