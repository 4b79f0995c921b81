----------------------------- MODULE LicenceProofs -----------------------------
(***************************************************************************)
(* Nothing runs on a key the seller has not made, and nothing that is       *)
(* licensed is removed.  The invariant IInv ties every copy of a licence    *)
(* (in the tables, in a token, on the machine) to its being issued, the     *)
(* clock on file to the last contact, and the questions to a missing token. *)
(***************************************************************************)
EXTENDS Licence, TLAPS

Backed == (Open \/ file # NoFile \/ row # NoRow \/ sold # NoRow \/ tokens # {}) => issued
ClockIsContact == clock = contact
AsksWithoutFile == Asking => file = NoFile
IInv == TypeOK /\ Backed /\ ClockIsContact /\ AsksWithoutFile

\* What is assumed of the constants.
LEMMA Constants == MaxDay \in Nat /\ Grace \in Nat /\ MaxTroubles \in Nat /\ MaxSales \in Nat
  BY BoundsAssumption

\* The values that the actions write have their types.
LEMMA Values ==
  /\ 0 \in Days /\ Days \subseteq Dates /\ Never \in Dates /\ Dates \subseteq Nat
  /\ NoRow \in Rows /\ NoFile \in Files /\ NoDay \in Days \cup {NoDay}
  /\ \A d \in Dates, k \in {"signed", "plain"} : [kind |-> k, exp |-> d] \in Files
  /\ \A d \in Dates, s \in {"ACTIVE", "INACTIVE"} : [status |-> s, exp |-> d] \in Rows
<1>1. 0 \in Days /\ Days \subseteq Dates /\ Never \in Dates /\ Dates \subseteq Nat
  BY Constants DEF Days, Dates, Never
<1>2. NoRow \in Rows /\ NoFile \in Files /\ NoDay \in Days \cup {NoDay}
  BY DEF Rows, Files
<1>3. \A d \in Dates, k \in {"signed", "plain"} : [kind |-> k, exp |-> d] \in Files
  BY DEF Files
<1>4. \A d \in Dates, s \in {"ACTIVE", "INACTIVE"} : [status |-> s, exp |-> d] \in Rows
  BY DEF Rows
<1>5. QED
  BY <1>1, <1>2, <1>3, <1>4

\* Every row there is has a date and a status.
LEMMA RowTyped ==
  ASSUME NEW r \in Rows, r # NoRow
  PROVE  /\ r.exp \in Dates /\ r.status \in {"ACTIVE", "INACTIVE"}
         /\ \A d \in Dates : [r EXCEPT !.exp = d] \in Rows
         /\ \A s \in {"ACTIVE", "INACTIVE"} : [r EXCEPT !.status = s] \in Rows
  BY DEF Rows

\* The initial state satisfies the invariant.
LEMMA InitInv == Init => IInv
<1> SUFFICES ASSUME Init PROVE IInv
  OBVIOUS
<1>1. TypeOK
  <2>1. procs \in [Procs -> Stages]
    BY DEF Init, Stages
  <2>2. 0 \in 0..MaxTroubles /\ 0 \in 0..MaxSales
    BY Constants
  <2>3. QED
    BY <2>1, <2>2, Values DEF Init, TypeOK
<1>2. procs["menu"] = "off"
  BY DEF Init, Procs
<1>3. Backed /\ ClockIsContact /\ AsksWithoutFile
  BY <1>2 DEF Init, Backed, ClockIsContact, AsksWithoutFile, Open, Asking
<1>4. QED
  BY <1>1, <1>3 DEF IInv

\* What a step writes to the processes and to the budget.
LEMMA DoesTyped ==
  ASSUME TypeOK, NEW p \in Procs, NEW s \in Stages, Does(p, s)
  PROVE  /\ procs' \in [Procs -> Stages] /\ procs'[p] = s
         /\ \A q \in Procs : q # p => procs'[q] = procs[q]
  BY DEF TypeOK, Does
LEMMA FailsTyped ==
  ASSUME TypeOK, NEW f, Fails(f)
  PROVE  /\ f \in BOOLEAN /\ faults' \in 0..MaxTroubles
         /\ f <=> faults' > faults
<1>1. f \in BOOLEAN /\ faults \in 0..MaxTroubles /\ upsets \in 0..MaxTroubles
  BY DEF Fails, TypeOK
<1>2. CASE f
  BY <1>1, <1>2, Constants DEF Fails
<1>3. CASE ~f
  BY <1>1, <1>3, Constants DEF Fails
<1>4. QED
  BY <1>1, <1>2, <1>3

\* The acts of the seller keep the invariant.
LEMMA SellerInv == IInv /\ Seller => IInv'
<1> SUFFICES ASSUME IInv, Seller PROVE IInv'
  OBVIOUS
<1> USE DEF IInv
<1>s. Sells => sales' \in 0..MaxSales
  BY Constants DEF Sells, TypeOK
<1>1. CASE Create
  <2>1. PICK d \in Dates : Writes([status |-> "ACTIVE", exp |-> d])
    BY <1>1 DEF Create
  <2>2. TypeOK'
    BY <1>1, <1>s, <2>1, Values DEF Create, Writes, client, units, TypeOK
  <2>3. QED
    BY <1>1, <2>2 DEF Create, client, Backed, ClockIsContact, AsksWithoutFile, Open, Asking
<1>2. CASE Renew
  <2>1. PICK d \in Dates : Writes([status |-> "ACTIVE", exp |-> d])
    BY <1>2 DEF Renew
  <2>2. TypeOK'
    BY <1>2, <1>s, <2>1, Values DEF Renew, Writes, client, units, TypeOK
  <2>3. QED
    BY <1>2, <2>2 DEF Renew, client, Backed, ClockIsContact, AsksWithoutFile, Open, Asking
<1>3. CASE Toggle
  <2>1. sold \in Rows /\ sold # NoRow
    BY <1>3 DEF Toggle, TypeOK
  <2>2. [sold EXCEPT !.status = IF @ = "ACTIVE" THEN "INACTIVE" ELSE "ACTIVE"] \in Rows
    BY <2>1, RowTyped
  <2>3. TypeOK'
    BY <1>3, <1>s, <2>2 DEF Toggle, Writes, client, units, TypeOK
  <2>4. QED
    BY <1>3, <2>1, <2>3 DEF Toggle, client, Backed, ClockIsContact, AsksWithoutFile, Open, Asking
<1>4. CASE AutoExpire
  <2>1. sold \in Rows /\ sold # NoRow
    BY <1>4 DEF AutoExpire, TypeOK, NoRow
  <2>2. [sold EXCEPT !.status = "INACTIVE"] \in Rows
    BY <2>1, RowTyped
  <2>3. TypeOK'
    BY <1>4, <2>2 DEF AutoExpire, Writes, client, units, TypeOK
  <2>4. QED
    BY <1>4, <2>1, <2>3 DEF AutoExpire, client, Backed, ClockIsContact, AsksWithoutFile, Open, Asking
<1>5. CASE Sign
  <2>1. sold \in Rows /\ sold # NoRow
    BY <1>5 DEF Sign, TypeOK, NoRow
  <2>2. TypeOK'
    BY <1>5, <1>s, <2>1, RowTyped DEF Sign, client, units, TypeOK
  <2>3. QED
    BY <1>5, <2>1, <2>2 DEF Sign, client, Backed, ClockIsContact, AsksWithoutFile, Open, Asking
<1>6. CASE Tick
  <2>1. today' \in Days
    BY <1>6, Constants DEF Tick, TypeOK, Days
  <2>2. TypeOK'
    BY <1>6, <2>1 DEF Tick, units, history, budget, TypeOK
  <2>3. QED
    BY <1>6, <2>2 DEF Tick, history, Backed, ClockIsContact, AsksWithoutFile, Open, Asking
<1>7. QED
  BY <1>1, <1>2, <1>3, <1>4, <1>5, <1>6 DEF Seller

\* What a removal and an open menu do to the questions.
LEMMA StageTyped ==
  /\ {"off", "ask1", "ask2", "ask3", "open", "online", "boot", "tunnels", "licence", "units",
       "rest"} \subseteq Stages
  /\ "menu" \in Procs /\ "timer" \in Procs /\ "cron" \in Procs /\ "command" \in Procs
  BY DEF Stages, Removal, Procs

\* A process other than the menu, or the menu once it has decided, leaves the
\* invariant to the variables it writes.
LEMMA Elsewhere ==
  ASSUME TypeOK, NEW p \in Procs, NEW s \in Stages \ {"open", "ask1", "ask2", "ask3"}, Does(p, s)
  PROVE  (Open' => Open) /\ (Asking' => Asking)
<1>1. CASE p = "menu"
  BY <1>1, DoesTyped DEF Open, Asking
<1>2. CASE p # "menu"
  BY <1>2, DoesTyped, StageTyped DEF Open, Asking
<1>3. QED
  BY <1>1, <1>2

\* Starting the menu keeps the invariant.
LEMMA StartMenuInv == IInv /\ StartMenu => IInv'
<1> SUFFICES ASSUME IInv, StartMenu PROVE IInv'
  OBVIOUS
<1> USE DEF IInv
<1>1. PICK f1, f2 \in BOOLEAN :
        /\ Fails(f1 \/ f2)
        /\ IF ~Readable(file, f1)
           THEN file' = NoFile /\ Does("menu", "ask1")
           ELSE /\ IF Past(file.exp) \/ f2 \/ ~Licensed(row)
                   THEN Removes("menu") ELSE Does("menu", "open")
                /\ UNCHANGED file
  BY DEF StartMenu, Verify
<1>2. faults' \in 0..MaxTroubles
  BY <1>1, FailsTyped
<1>3. left' \subseteq Parts /\ cron' \in BOOLEAN /\ timer' \in {"none", "on", "off"}
  BY DEF StartMenu, SelfInstall, TypeOK, Parts
<1>4. CASE ~Readable(file, f1)
  <2>1. Does("menu", "ask1") /\ file' = NoFile
    BY <1>1, <1>4
  <2>2. procs' \in [Procs -> Stages] /\ procs'["menu"] = "ask1"
    BY <2>1, StageTyped, DoesTyped
  <2>3. TypeOK'
    BY <1>2, <1>3, <2>1, <2>2, Values DEF StartMenu, seller, history, TypeOK
  <2>4. QED
    BY <2>1, <2>2, <2>3 DEF StartMenu, seller, history, Backed, ClockIsContact, AsksWithoutFile, Open, Asking
<1>5. CASE Readable(file, f1)
  <2>1. file # NoFile
    BY <1>5 DEF Readable, Verified, Fallback, NoFile
  <2>2. procs' \in [Procs -> Stages] /\ procs'["menu"] \in {"open", "tunnels"} /\ UNCHANGED file
    BY <1>1, <1>5, StageTyped, DoesTyped DEF Removes
  <2>3. TypeOK'
    BY <1>2, <1>3, <2>2 DEF StartMenu, seller, history, TypeOK
  <2>4. QED
    BY <2>1, <2>2, <2>3 DEF StartMenu, seller, history, Backed, ClockIsContact, AsksWithoutFile, Open, Asking
<1>6. QED
  BY <1>4, <1>5

\* Answers to the three questions keep it: a row is put there, or a key taken,
\* only for what the seller has signed or has in its table.
LEMMA AnswersInv == IInv /\ (AnswerToken \/ AnswerKey) => IInv'
<1> SUFFICES ASSUME IInv, AnswerToken \/ AnswerKey PROVE IInv'
  OBVIOUS
<1> USE DEF IInv
<1>a. Asking /\ file = NoFile
  BY DEF AnswerToken, AnswerKey, AsksWithoutFile
<1>r. ASSUME Refused
      PROVE  /\ procs' \in [Procs -> Stages] /\ UNCHANGED <<file, row, sold>>
             /\ procs'["menu"] \in {"ask2", "ask3", "off"}
  <2> DEFINE s == CASE procs["menu"] = "ask1" -> "ask2"
                    [] procs["menu"] = "ask2" -> "ask3" [] OTHER -> "off"
  <2>1. s \in {"ask2", "ask3", "off"} /\ Does("menu", s)
    BY <1>r DEF Refused
  <2>2. QED
    BY <1>r, <2>1, StageTyped, DoesTyped DEF Refused
<1>1. CASE AnswerToken
  <2>1. PICK f \in [kind : {"signed", "plain"}, exp : Dates], f1, f2 \in BOOLEAN :
          /\ f.kind = "signed" => f.exp \in tokens
          /\ Fails(f1 \/ f2)
          /\ IF ~Readable(f, f1) THEN Refused
             ELSE IF Past(f.exp) THEN Removes("menu") /\ UNCHANGED <<file, row, sold>>
             ELSE /\ Activated(f, IF f2 THEN {"open", "off"} ELSE {"open"})
                  /\ IF row = NoRow /\ ~f2 THEN SetRow([status |-> "ACTIVE", exp |-> f.exp])
                                           ELSE UNCHANGED <<row, sold>>
    BY <1>1 DEF AnswerToken
  <2>2. faults' \in 0..MaxTroubles
    BY <2>1, FailsTyped
  <2>3. UNCHANGED <<today, shared, tokens, server, clock, units, left, history, upsets, sales>>
    BY <1>1 DEF AnswerToken
  <2>4. CASE ~Readable(f, f1)
    <3>1. TypeOK'
      BY <1>r, <2>1, <2>2, <2>3, <2>4 DEF TypeOK, units, history
    <3>2. QED
      BY <1>a, <1>r, <2>1, <2>3, <2>4, <3>1 DEF history, Backed, ClockIsContact, AsksWithoutFile, Open, Asking
  <2>5. CASE Readable(f, f1) /\ Past(f.exp)
    <3>1. procs' \in [Procs -> Stages] /\ procs'["menu"] = "tunnels" /\ UNCHANGED <<file, row, sold>>
      BY <2>1, <2>5, StageTyped, DoesTyped DEF Removes
    <3>2. TypeOK'
      BY <2>2, <2>3, <3>1 DEF TypeOK, units, history
    <3>3. QED
      BY <2>3, <3>1, <3>2 DEF history, Backed, ClockIsContact, AsksWithoutFile, Open, Asking
  <2>6. CASE Readable(f, f1) /\ ~Past(f.exp)
    <3>1. issued
      BY <2>1, <2>6, <1>a DEF Readable, Verified, Fallback, Licensed, Backed, NoRow
    <3>2. procs' \in [Procs -> Stages] /\ procs'["menu"] \in {"open", "off"} /\ file' = f
      <4>1. file' = f /\ \E x \in {"open", "off"} : Does("menu", x)
        BY <2>1, <2>6 DEF Activated
      <4>2. QED
        BY <4>1, StageTyped, DoesTyped
    <3>3. row' \in Rows /\ sold' \in Rows /\ f \in Files
      <4>1. f.exp \in Dates /\ f \in Files
        BY DEF Files
      <4>2. [status |-> "ACTIVE", exp |-> f.exp] \in Rows
        BY <4>1, Values
      <4>3. QED
        BY <2>1, <2>6, <4>1, <4>2 DEF SetRow, TypeOK
    <3>4. TypeOK'
      BY <2>2, <2>3, <3>2, <3>3 DEF TypeOK, units, history
    <3>5. QED
      BY <2>3, <3>1, <3>2, <3>4 DEF history, Backed, ClockIsContact, AsksWithoutFile, Open, Asking
  <2>7. QED
    BY <2>4, <2>5, <2>6
<1>2. CASE AnswerKey
  <2>1. PICK f \in BOOLEAN :
          /\ Fails(f)
          /\ IF ~f /\ KeyAccepted
             THEN Activated([kind |-> "plain", exp |-> row.exp], {"open"}) /\ UNCHANGED <<row, sold>>
             ELSE IF ~f /\ row # NoRow THEN Removes("menu") /\ UNCHANGED <<file, row, sold>>
             ELSE Refused
    BY <1>2 DEF AnswerKey
  <2>2. faults' \in 0..MaxTroubles
    BY <2>1, FailsTyped
  <2>3. UNCHANGED <<today, shared, tokens, server, clock, units, left, history, upsets, sales>>
    BY <1>2 DEF AnswerKey
  <2>4. CASE ~f /\ KeyAccepted
    <3>1. row \in Rows /\ row # NoRow /\ issued
      BY <2>4 DEF KeyAccepted, TypeOK, Backed
    <3>2. [kind |-> "plain", exp |-> row.exp] \in Files
      BY <3>1, RowTyped, Values
    <3>3. /\ procs' \in [Procs -> Stages] /\ procs'["menu"] = "open"
          /\ file' \in Files /\ UNCHANGED <<row, sold>>
      BY <2>1, <2>4, <3>2, StageTyped, DoesTyped DEF Activated
    <3>4. TypeOK'
      BY <2>2, <2>3, <3>3 DEF TypeOK, units, history
    <3>5. QED
      BY <2>3, <3>1, <3>3, <3>4 DEF history, Backed, ClockIsContact, AsksWithoutFile, Open, Asking
  <2>5. CASE ~f /\ ~KeyAccepted /\ row # NoRow
    <3>1. procs' \in [Procs -> Stages] /\ procs'["menu"] = "tunnels" /\ UNCHANGED <<file, row, sold>>
      BY <2>1, <2>5, StageTyped, DoesTyped DEF Removes
    <3>2. TypeOK'
      BY <2>2, <2>3, <3>1 DEF TypeOK, units, history
    <3>3. QED
      BY <2>3, <3>1, <3>2 DEF history, Backed, ClockIsContact, AsksWithoutFile, Open, Asking
  <2>6. CASE f \/ (~KeyAccepted /\ row = NoRow)
    <3>1. Refused
      BY <2>1, <2>6 DEF KeyAccepted
    <3>2. TypeOK'
      BY <1>r, <2>2, <2>3, <3>1 DEF TypeOK, units, history
    <3>3. QED
      BY <1>a, <1>r, <2>3, <3>1, <3>2 DEF history, Backed, ClockIsContact, AsksWithoutFile, Open, Asking
  <2>7. QED
    BY <2>4, <2>5, <2>6
<1>3. QED
  BY <1>1, <1>2

\* So do the other acts in the menu.
LEMMA OpenInv == IInv /\ (UseBot \/ Leave) => IInv'
<1> SUFFICES ASSUME IInv, UseBot \/ Leave PROVE IInv'
  OBVIOUS
<1> USE DEF IInv
<1>1. CASE UseBot
  <2>1. TypeOK'
    BY <1>1 DEF UseBot, seller, budget, TypeOK, Parts
  <2>2. QED
    BY <1>1, <2>1 DEF UseBot, seller, Backed, ClockIsContact, AsksWithoutFile, Open, Asking
<1>2. CASE Leave
  <2>1. PICK s \in {"off", "tunnels"} : Does("menu", s)
    BY <1>2 DEF Leave, Removes
  <2>2. procs' \in [Procs -> Stages] /\ (Open' => Open) /\ (Asking' => Asking)
    BY <2>1, StageTyped, DoesTyped, Elsewhere
  <2>3. TypeOK'
    BY <1>2, <2>2 DEF Leave, seller, units, history, budget, TypeOK
  <2>4. QED
    BY <1>2, <2>2, <2>3 DEF Leave, seller, history, Backed, ClockIsContact, AsksWithoutFile
<1>3. QED
  BY <1>1, <1>2

\* A check of the watchdog ends, goes online or removes, and fails at most.
LEMMA CheckDoes ==
  ASSUME TypeOK, NEW p \in Procs, Check(p)
  PROVE  /\ faults' \in 0..MaxTroubles
         /\ \E s \in {"off", "online", "tunnels"} : Does(p, s)
<1>1. PICK f1, f2, f3 \in BOOLEAN :
        /\ Fails(f1 \/ f2 \/ f3)
        /\ \/ Does(p, "off")
           \/ Removes(p)
           \/ Does(p, IF f2 \/ f3 \/ ~server THEN "off" ELSE "online")
  BY DEF Check
<1>2. faults' \in 0..MaxTroubles
  BY <1>1, FailsTyped
<1>3. QED
  BY <1>1, <1>2 DEF Removes

\* The watchdogs and the commands keep the invariant.
LEMMA WatchdogInv == IInv /\ (TimerFires \/ CronStarts \/ Commands) => IInv'
<1> SUFFICES ASSUME IInv, TimerFires \/ CronStarts \/ Commands PROVE IInv'
  OBVIOUS
<1> USE DEF IInv
<1>1. /\ faults' \in 0..MaxTroubles /\ upsets' \in 0..MaxTroubles
      /\ \E p \in Procs, s \in {"off", "online", "tunnels"} : Does(p, s)
  <2>1. CASE TimerFires
    BY <2>1, StageTyped, CheckDoes DEF TimerFires, TypeOK
  <2>2. CASE CronStarts
    BY <2>2, StageTyped, CheckDoes DEF CronStarts, TypeOK
  <2>3. CASE CheckinCommand
    <3>1. PICK f \in BOOLEAN : Fails(f) /\ Does("command", "online")
      BY <2>3 DEF CheckinCommand
    <3>2. QED
      BY <2>3, <3>1, FailsTyped, StageTyped DEF CheckinCommand, TypeOK
  <2>4. CASE UninstallCommand
    <3>1. Does("command", "tunnels") /\ faults' = faults
      BY <2>4 DEF UninstallCommand, Removes
    <3>2. upsets' \in 0..MaxTroubles
      BY <2>4, Constants DEF UninstallCommand, TypeOK
    <3>3. QED
      BY <3>1, <3>2, StageTyped DEF TypeOK
  <2>5. QED
    BY <2>1, <2>2, <2>3, <2>4 DEF Commands
<1>2. procs' \in [Procs -> Stages] /\ (Open' => Open) /\ (Asking' => Asking)
  BY <1>1, StageTyped, DoesTyped, Elsewhere
<1>3. UNCHANGED <<seller, row, file, clock, units, left, history, sales>>
  BY DEF TimerFires, CronStarts, Commands, CheckinCommand, UninstallCommand
<1>4. TypeOK'
  BY <1>1, <1>2, <1>3 DEF seller, units, history, TypeOK
<1>5. QED
  BY <1>2, <1>3, <1>4 DEF seller, history, Backed, ClockIsContact, AsksWithoutFile

\* So does the answer of the server, or its silence.
LEMMA CheckinInv == ASSUME NEW p \in Procs PROVE IInv /\ Checkin(p) => IInv'
<1> SUFFICES ASSUME IInv, Checkin(p) PROVE IInv'
  OBVIOUS
<1> USE DEF IInv
<1>1. \E s \in {"off", "tunnels"} : Does(p, s)
  BY DEF Checkin, Offline, AnswersActive, AnswersRevoked, Removes
<1>2. procs' \in [Procs -> Stages] /\ (Open' => Open) /\ (Asking' => Asking)
  BY <1>1, StageTyped, DoesTyped, Elsewhere
<1>3. clock' \in Days \cup {NoDay} /\ contact' = clock'
  BY DEF Checkin, Offline, AnswersActive, AnswersRevoked, Since, history, TypeOK, ClockIsContact
<1>4. row' \in Rows /\ (row' # NoRow => row # NoRow) /\ faults' \in 0..MaxTroubles
  <2>1. CASE AnswersActive(p)
    <3>1. PICK f \in BOOLEAN :
            /\ Fails(f)
            /\ row' = IF f \/ row = NoRow THEN row ELSE [row EXCEPT !.exp = sold.exp]
      BY <2>1 DEF AnswersActive
    <3>2. sold.exp \in Dates
      <4>1. sold.status = "ACTIVE" /\ sold \in Rows
        BY <2>1 DEF AnswersActive, TypeOK
      <4>2. NoRow.status = "absent"
        BY DEF NoRow
      <4>3. QED
        BY <4>1, <4>2, RowTyped
    <3>3. QED
      BY <3>1, <3>2, FailsTyped, RowTyped DEF TypeOK
  <2>2. CASE Offline(p) \/ AnswersRevoked(p)
    BY <2>2 DEF Offline, AnswersRevoked, budget, TypeOK
  <2>3. QED
    BY <2>1, <2>2 DEF Checkin
<1>5. UNCHANGED <<seller, file, units, left, issued, cut, upsets, sales>>
  BY DEF Checkin, Offline, AnswersActive, AnswersRevoked, history, budget
<1>6. TypeOK'
  BY <1>2, <1>3, <1>4, <1>5 DEF seller, units, TypeOK
<1>7. QED
  BY <1>2, <1>3, <1>4, <1>5, <1>6 DEF seller, Backed, ClockIsContact, AsksWithoutFile

\* So do the steps of a removal, and a reboot.
LEMMA RemovingInv == ASSUME NEW p \in Procs PROVE IInv /\ Removing(p) => IInv'
<1> SUFFICES ASSUME IInv, Removing(p) PROVE IInv'
  OBVIOUS
<1> USE DEF IInv
<1>1. CASE RemoveTunnels(p)
  <2>1. procs' \in [Procs -> Stages] /\ (Open' => Open) /\ (Asking' => Asking)
    BY <1>1, StageTyped, DoesTyped, Elsewhere DEF RemoveTunnels
  <2>2. TypeOK'
    BY <1>1, <2>1 DEF RemoveTunnels, seller, history, budget, TypeOK
  <2>3. QED
    BY <1>1, <2>1, <2>2 DEF RemoveTunnels, seller, history, Backed, ClockIsContact, AsksWithoutFile
<1>2. CASE RemoveLicence(p)
  <2>1. procs' \in [Procs -> Stages] /\ (Open' => Open) /\ (Asking' => Asking)
    BY <1>2, StageTyped, DoesTyped, Elsewhere DEF RemoveLicence
  <2>2. TypeOK'
    BY <1>2, <2>1, Values DEF RemoveLicence, SetRow, units, history, budget, TypeOK
  <2>3. QED
    BY <1>2, <2>1, <2>2 DEF RemoveLicence, SetRow, history, Backed, ClockIsContact, AsksWithoutFile
<1>3. CASE RemoveUnits(p)
  <2>1. /\ procs' \in [Procs -> Stages]
        /\ procs'["menu"] = procs["menu"] \/ procs'["menu"] = "rest"
    BY <1>3, StageTyped DEF RemoveUnits, Stopped, TypeOK
  <2>2. TypeOK'
    BY <1>3, <2>1 DEF RemoveUnits, seller, history, budget, TypeOK
  <2>3. QED
    BY <1>3, <2>1, <2>2 DEF RemoveUnits, seller, history, Backed, ClockIsContact, AsksWithoutFile, Open, Asking
<1>4. CASE RemoveRest(p)
  <2>1. procs' \in [Procs -> Stages] /\ procs'["menu"] = "off"
    BY <1>4, StageTyped DEF RemoveRest
  <2>2. TypeOK'
    BY <1>4, <2>1, Values DEF RemoveRest, budget, TypeOK
  <2>3. QED
    BY <1>4, <2>1, <2>2 DEF RemoveRest, Backed, ClockIsContact, AsksWithoutFile, Open, Asking
<1>5. QED
  BY <1>1, <1>2, <1>3, <1>4 DEF Removing
LEMMA RebootInv == IInv /\ Reboot => IInv'
<1> SUFFICES ASSUME IInv, Reboot PROVE IInv'
  OBVIOUS
<1> USE DEF IInv
<1>1. procs' \in [Procs -> Stages] /\ procs'["menu"] = "off"
  BY StageTyped DEF Reboot
<1>2. upsets' \in 0..MaxTroubles
  BY Constants DEF Reboot, TypeOK
<1>3. TypeOK'
  BY <1>1, <1>2 DEF Reboot, seller, units, TypeOK
<1>4. QED
  BY <1>1, <1>3 DEF Reboot, seller, Backed, ClockIsContact, AsksWithoutFile, Open, Asking

\* The invariant is inductive.
LEMMA StepInv == IInv /\ [Next]_vars => IInv'
<1> SUFFICES ASSUME IInv, [Next]_vars PROVE IInv'
  OBVIOUS
<1>1. CASE Next
  BY <1>1, SellerInv, StartMenuInv, AnswersInv, OpenInv, WatchdogInv, CheckinInv, RemovingInv, RebootInv
     DEF Next, Menu
<1>2. CASE UNCHANGED vars
  BY <1>2 DEF vars, IInv, TypeOK, Backed, ClockIsContact, AsksWithoutFile, Open, Asking
<1>3. QED
  BY <1>1, <1>2
LEMMA Inductive == Spec => []IInv
  BY InitInv, StepInv, PTL DEF Spec

\* The variables keep their types, for every number of days and troubles.
THEOREM TypeCorrect == Spec => []TypeOK
<1>1. IInv => TypeOK
  BY DEF IInv
<1>2. QED
  BY <1>1, Inductive, PTL

\* The panel never runs on a key the seller has not made: rows that the panel
\* puts in its own table come from signed tokens (_verify_license).
THEOREM OnlyIssuedRuns == Spec => []RunsOnlyIssued
<1>1. IInv => RunsOnlyIssued
  BY DEF IInv, Backed, RunsOnlyIssued
<1>2. QED
  BY <1>1, Inductive, PTL

\* Who begins a removal: the process that a step moves there.
LEMMA OnlyMover ==
  ASSUME TypeOK, NEW p \in Procs, NEW q \in Procs, NEW s \in Stages, Does(q, s), Begins(p)
  PROVE  p = q /\ s \in Removal
  BY DoesTyped DEF Begins

\* A check removes no licence that is active and not past.
LEMMA CheckKeeps ==
  ASSUME TypeOK, Valid, NEW p \in Procs, NEW q \in Procs, Check(q)
  PROVE  ~Begins(p)
<1>1. PICK f1, f2, f3 \in BOOLEAN :
        \/ Does(q, "off")
        \/ Past(file.exp) \/ ~(f2 \/ Licensed(row))
        \/ Does(q, IF f2 \/ f3 \/ ~server THEN "off" ELSE "online")
  BY DEF Check
<1>2. \E s \in {"off", "online"} : Does(q, s)
  BY <1>1 DEF Valid
<1>3. QED
  BY <1>2, StageTyped, OnlyMover DEF Removal

\* What a step needs to begin the removal of a valid panel.
Excused(p) ==
  \/ Asked(p)
  \/ p = "menu" /\ faults' > faults
  \/ Revoked \/ GraceIsOver
LEMMA StepKeeps ==
  ASSUME IInv, [Next]_vars, NEW p \in Procs, Begins(p), Valid
  PROVE  Excused(p)
<1> USE DEF IInv
<1>1. procs' # procs
  BY DEF Begins
<1>2. CASE Seller
  BY <1>1, <1>2 DEF Seller, Create, Renew, Toggle, AutoExpire, Sign, Tick, client
<1>3. CASE StartMenu
  <2>1. PICK f1, f2 \in BOOLEAN :
          /\ Fails(f1 \/ f2)
          /\ IF ~Readable(file, f1)
             THEN file' = NoFile /\ Does("menu", "ask1")
             ELSE /\ IF Past(file.exp) \/ f2 \/ ~Licensed(row)
                     THEN Removes("menu") ELSE Does("menu", "open")
                  /\ UNCHANGED file
    BY <1>3 DEF StartMenu, Verify
  <2>2. f2 /\ p = "menu"
    BY <2>1, StageTyped, OnlyMover DEF Valid, Removes, Removal
  <2>3. faults' > faults
    BY <2>1, <2>2, FailsTyped
  <2>4. QED
    BY <2>2, <2>3 DEF Excused
<1>4. CASE AnswerToken \/ AnswerKey
  BY <1>4 DEF AnswerToken, AnswerKey, AsksWithoutFile, Valid
<1>5. CASE UseBot \/ Leave
  <2>1. Leave
    BY <1>1, <1>5 DEF UseBot
  <2>2. p = "menu"
    BY <2>1, StageTyped, OnlyMover DEF Leave, Removes
  <2>3. QED
    BY <2>1, <2>2 DEF Leave, Excused, Asked
<1>6. CASE TimerFires
  BY <1>6, CheckKeeps, StageTyped DEF TimerFires
<1>7. CASE CronStarts
  BY <1>7, CheckKeeps, StageTyped, OnlyMover DEF CronStarts, Removal
<1>8. CASE Commands
  <2>1. CASE CheckinCommand
    BY <2>1, StageTyped, OnlyMover DEF CheckinCommand, Removal
  <2>2. CASE UninstallCommand
    BY <2>2, StageTyped, OnlyMover DEF UninstallCommand, Removes, Asked, Excused
  <2>3. QED
    BY <1>8, <2>1, <2>2 DEF Commands
<1>9. CASE \E q \in Procs : Checkin(q)
  <2>1. PICK q \in Procs : Checkin(q)
    BY <1>9
  <2>2. CASE Offline(q)
    <3>1. today - Since > Grace
      BY <2>2, StageTyped, OnlyMover, Constants DEF Offline, Removal, Since, TypeOK, Days, NoDay
    <3>2. clock # NoDay /\ Since = contact
      BY <3>1, Constants DEF Since, ClockIsContact, TypeOK, Days
    <3>3. QED
      BY <2>2, <3>1, <3>2 DEF Offline, GraceIsOver, Excused, ClockIsContact
  <2>3. CASE AnswersActive(q)
    BY <2>3, StageTyped, OnlyMover DEF AnswersActive, Removal
  <2>4. CASE AnswersRevoked(q)
    BY <2>4 DEF AnswersRevoked, Revoked, Excused
  <2>5. QED
    BY <2>1, <2>2, <2>3, <2>4 DEF Checkin
<1>10. CASE \E q \in Procs : Removing(q)
  <2>1. PICK q \in Procs : Removing(q)
    BY <1>10
  <2>2. procs[q] \in Removal
    BY <2>1 DEF Removing, RemoveTunnels, RemoveLicence, RemoveUnits, RemoveRest, Removal
  <2>3. \A r \in Procs : r = q \/ procs'[r] \in {procs[r], "off"}
    BY <2>1, StageTyped, DoesTyped
       DEF Removing, RemoveTunnels, RemoveLicence, RemoveUnits, Stopped, RemoveRest, TypeOK
  <2>4. QED
    BY <2>2, <2>3 DEF Begins, Removal
<1>11. CASE Reboot
  BY <1>11 DEF Reboot, Begins, Removal
<1>12. CASE UNCHANGED vars
  BY <1>1, <1>12 DEF vars
<1>13. QED
  BY <1>2, <1>3, <1>4, <1>5, <1>6, <1>7, <1>8, <1>9, <1>10, <1>11, <1>12 DEF Next, Menu

\* A panel with a valid licence is removed only on request, when the menu cannot
\* read the table, when its seller has revoked it, or once the days of grace
\* since the last contact are over.
THEOREM ValidStays == Spec => ValidIsKept
<1>1. IInv /\ [Next]_vars =>
        [\A p \in Procs : Begins(p) /\ Valid =>
           \/ Asked(p)
           \/ p = "menu" /\ faults' > faults
           \/ Revoked \/ GraceIsOver]_vars
  BY StepKeeps DEF Excused
<1>2. QED
  BY <1>1, Inductive, PTL DEF Spec, ValidIsKept
===============================================================================
