--------------------------- MODULE PanelBotsProofs ---------------------------
(***************************************************************************)
(* For any number of resellers, accounts and Telegram users: what the      *)
(* scripts of the bots, the cleanup and the panel can be at any time, and  *)
(* from this that the bot of a reseller touches its own accounts only,     *)
(* that it tags no more of them than its limit, and that a removed         *)
(* reseller leaves no account behind.                                      *)
(***************************************************************************)
EXTENDS PanelBots, SequenceTheorems, FiniteSetTheorems, TLAPS

Names == Users \cup {"none"}
Rows == [is : {"none", "on", "off", "gone"}, due : BOOLEAN, max : Limits \cup {0},
         code : BOOLEAN, tgid : Chats \cup {0}, tunnels : SUBSET Tunnels]
Accounts == [owner : Rids \cup {Admin}, by : Rids \cup {Admin}]
AdmSteps == {"none", "cr_user", "cr_quota", "renew_user", "renew_days", "lock_user", "del_choose",
             "set_quota_val", "edit_maxu", "edit_code", "extend_reseller"}
AdmTalks == [step : AdmSteps, user : Names, sel : SUBSET Users, rid : Rids \cup {"none"},
             cr : {"none", "asking", "ready"}]
Steps == {"none", "r_access", "r_user", "r_quota", "r_renew_user", "r_renew_days",
          "r_setquota_user", "r_setquota_val", "r_del_choose"}
Talks == [step : Steps, user : Names, sel : SUBSET Users, tunnel : Tunnels \cup {"none"}]

TypeOK ==
  /\ row \in [Rids -> Rows] /\ pending \subseteq Rids /\ svc \in [Rids -> BOOLEAN]
  /\ acct \in [Users -> {NoAccount} \cup Accounts]
  /\ granted \subseteq Rids \X Chats /\ crontab \in BOOLEAN
  /\ adm \in AdmTalks
  /\ chat \in [Rids -> [Chats -> Talks]]
  /\ DOMAIN todo = Procs /\ late \subseteq Names
  /\ presses \in Nat /\ crashes \in Nat

\* What a process may have left to do.
MineScript(r, s) ==
  \/ s = <<>>
  \/ \E u \in Names, n \in Limits \cup {0} :
       \/ s = <<<<"create", u>>, <<"tag", r, u, n>>>>
       \/ s = <<<<"write", u>>, <<"tag", r, u, n>>>>
       \/ s = <<<<"tag", r, u, n>>>>
  \/ \E S \in SUBSET Users :
       \/ s = <<<<"delete", r, S>>>> \/ s = <<<<"change", r, S>>>>
       \/ \E u \in Users : s = <<<<"remove", r, S, u, "delete">>>>
AdminScript(s) ==
  \/ s = <<>>
  \/ \E u \in Names : s = <<<<"create", u>>>> \/ s = <<<<"write", u>>>>
  \/ \E S \in SUBSET Names :
       \/ s = <<<<"delete", Admin, S>>>> \/ s = <<<<"change", Admin, S>>>>
       \/ \E u \in Names : s = <<<<"remove", Admin, S, u, "delete">>>>
  \/ \E r \in Rids :
       \/ s = <<<<"serve", r>>>>
       \/ s = <<<<"purge", r>>, <<"unserve", r>>, <<"drop", r>>>>
       \/ \E S \in SUBSET Users :
            \/ s = <<<<"sweep", r, S>>, <<"unserve", r>>, <<"drop", r>>>>
            \/ \E u \in Users : s = <<<<"remove", r, S, u, "sweep">>, <<"unserve", r>>, <<"drop", r>>>>
       \/ s = <<<<"unserve", r>>, <<"drop", r>>>>
       \/ s = <<<<"drop", r>>>>
CronScript(s) ==
  \/ s = <<>>
  \/ \E C \in SUBSET Rids :
       \/ s = <<<<"clean", C>>>>
       \/ \E r \in Rids :
            \/ s = <<<<"purge", r>>, <<"unserve", r>>, <<"off", r>>, <<"clean", C>>>>
            \/ \E S \in SUBSET Users :
                 \/ s = <<<<"sweep", r, S>>, <<"unserve", r>>, <<"off", r>>, <<"clean", C>>>>
                 \/ \E u \in Users :
                      s = <<<<"remove", r, S, u, "sweep">>, <<"unserve", r>>, <<"off", r>>, <<"clean", C>>>>
            \/ s = <<<<"unserve", r>>, <<"off", r>>, <<"clean", C>>>>
            \/ s = <<<<"off", r>>, <<"clean", C>>>>
PanelScript(s) == s = <<>> \/ \E r \in Rids, u \in Users : s = <<<<"tag", r, u, 0>>>>

Script(p, s) ==
  /\ p \in Rids => MineScript(p, s)
  /\ p = "admin" => AdminScript(s)
  /\ p = "cron" => CronScript(s)
  /\ p = "panel" => PanelScript(s)
Scripts == \A p \in Procs : Script(p, todo[p])

TagIn(s, r, u) == \E i \in 1..Len(s) : s[i][1] = "tag" /\ s[i][2] = r /\ s[i][3] = u
\* Accounts of a reseller whose tag a renewal has taken off and will put back.
Renewing(r) == {u \in Users : TagIn(todo["panel"], r, u)}

\* A reseller without a bot has no account, and gets none, but late ones.
Gone == \A r \in Rids : ~svc[r] => Tagged(r) \cup Untagged(r) \subseteq late
\* What a removal has not looked at yet is on its list, or about to go, or late.
Wipes(p) == Goes(p, "remove") /\ Head(todo[p])[5] = "sweep"
SweptBy(p) ==
  /\ Goes(p, "sweep") => Tagged(Head(todo[p])[2]) \subseteq late \cup Head(todo[p])[3]
  /\ Wipes(p) => Tagged(Head(todo[p])[2]) \subseteq late \cup Head(todo[p])[3] \cup {Head(todo[p])[4]}
  /\ Goes(p, "unserve") => Tagged(Head(todo[p])[2]) \subseteq late
Swept == SweptBy("admin") /\ SweptBy("cron")
\* A bot that is about to tag an account has room for it.
Crowd(r) == (Tagged(r) \cup Renewing(r)) \ late
Room == \A r \in Rids : \A i \in 1..Len(todo[r]) :
  todo[r][i][1] = "tag" => Cardinality(Crowd(r) \ {todo[r][i][3]}) < todo[r][i][4]

BotInv == TypeOK /\ Scripts /\ Gone /\ Swept /\ Room

\* A process has no tag to put that it did not have before, and begins neither
\* to sweep nor to remove a bot.
TagsLeft(p) == \A i \in 1..Len(todo'[p]) :
  todo'[p][i][1] = "tag" => \E j \in 1..Len(todo[p]) : todo[p][j] = todo'[p][i]
Removing(p) == Goes(p, "sweep") \/ Wipes(p) \/ Goes(p, "unserve")
Wiping(c) == c[1] \in {"sweep", "unserve"} \/ (c[1] = "remove" /\ c[5] = "sweep")
Calm(p) == TagsLeft(p) /\ (Removing(p)' => todo'[p] = todo[p])

-----------------------------------------------------------------------------
\* Sequences of one to four commands.

LEMMA Tails ==
  /\ \A a : Tail(<<a>>) = <<>>
  /\ \A a, b : Tail(<<a, b>>) = <<b>>
  /\ \A a, b, c : Tail(<<a, b, c>>) = <<b, c>>
  /\ \A a, b, c, d : Tail(<<a, b, c, d>>) = <<b, c, d>>
<1> SUFFICES ASSUME NEW a, NEW b, NEW c, NEW d
             PROVE  /\ Tail(<<a>>) = <<>>
                    /\ Tail(<<a, b>>) = <<b>>
                    /\ Tail(<<a, b, c>>) = <<b, c>>
                    /\ Tail(<<a, b, c, d>>) = <<b, c, d>>
  OBVIOUS
<1> DEFINE S == {a, b, c, d}
<1>1. Tail(<<a>>) = <<>>
  OBVIOUS
<1>2. Tail(<<a, b>>) = <<b>>
  <2>1. <<b>> \in Seq(S) /\ Tail(<<a, b>>) \in Seq(S)
    OBVIOUS
  <2>2. Len(Tail(<<a, b>>)) = 1 /\ Len(<<b>>) = 1 /\ Tail(<<a, b>>)[1] = b
    OBVIOUS
  <2> QED BY <2>1, <2>2, SeqEqual
<1>3. Tail(<<a, b, c>>) = <<b, c>>
  <2>1. <<b, c>> \in Seq(S) /\ Tail(<<a, b, c>>) \in Seq(S)
    OBVIOUS
  <2>2. Len(Tail(<<a, b, c>>)) = 2 /\ Len(<<b, c>>) = 2
    OBVIOUS
  <2>3. \A i \in 1..2 : Tail(<<a, b, c>>)[i] = <<b, c>>[i]
    OBVIOUS
  <2> HIDE DEF S
  <2> QED BY <2>1, <2>2, <2>3, SeqEqual
<1>4. Tail(<<a, b, c, d>>) = <<b, c, d>>
  <2>1. <<b, c, d>> \in Seq(S) /\ Tail(<<a, b, c, d>>) \in Seq(S)
    OBVIOUS
  <2>2. Len(Tail(<<a, b, c, d>>)) = 3 /\ Len(<<b, c, d>>) = 3
    OBVIOUS
  <2>3. \A i \in 1..3 : Tail(<<a, b, c, d>>)[i] = <<b, c, d>>[i]
    OBVIOUS
  <2> HIDE DEF S
  <2> QED BY <2>1, <2>2, <2>3, SeqEqual
<1> QED BY <1>1, <1>2, <1>3, <1>4

LEMMA Concats ==
  /\ <<>> \o <<>> = <<>>
  /\ \A a : <<a>> \o <<>> = <<a>> /\ <<>> \o <<a>> = <<a>>
  /\ \A a, b : <<a>> \o <<b>> = <<a, b>> /\ <<>> \o <<a, b>> = <<a, b>>
  /\ \A a, b, c : <<a>> \o <<b, c>> = <<a, b, c>> /\ <<>> \o <<a, b, c>> = <<a, b, c>>
  /\ \A a, b, c, d : <<a>> \o <<b, c, d>> = <<a, b, c, d>>
  /\ \A a, b, c, d : (<<a, b, c>> \o <<d>>) \o <<>> = <<a, b, c, d>>
<1>1. /\ <<>> \o <<>> = <<>>
      /\ \A a : <<a>> \o <<>> = <<a>> /\ <<>> \o <<a>> = <<a>>
      /\ \A a, b : <<>> \o <<a, b>> = <<a, b>>
      /\ \A a, b, c : <<>> \o <<a, b, c>> = <<a, b, c>>
  OBVIOUS
<1>2. ASSUME NEW a, NEW b
      PROVE  <<a>> \o <<b>> = <<a, b>>
  <2> DEFINE S == {a, b}
  <2>1. <<a>> \o <<b>> \in Seq(S) /\ <<a, b>> \in Seq(S)
    OBVIOUS
  <2>2. Len(<<a>> \o <<b>>) = 2 /\ Len(<<a, b>>) = 2
    OBVIOUS
  <2>3. \A i \in 1..2 : (<<a>> \o <<b>>)[i] = <<a, b>>[i]
    OBVIOUS
  <2> HIDE DEF S
  <2> QED BY <2>1, <2>2, <2>3, SeqEqual
<1>3. ASSUME NEW a, NEW b, NEW c
      PROVE  <<a>> \o <<b, c>> = <<a, b, c>>
  <2> DEFINE S == {a, b, c}
  <2>1. <<a>> \o <<b, c>> \in Seq(S) /\ <<a, b, c>> \in Seq(S)
    OBVIOUS
  <2>2. Len(<<a>> \o <<b, c>>) = 3 /\ Len(<<a, b, c>>) = 3
    OBVIOUS
  <2>3. \A i \in 1..3 : (<<a>> \o <<b, c>>)[i] = <<a, b, c>>[i]
    OBVIOUS
  <2> HIDE DEF S
  <2> QED BY <2>1, <2>2, <2>3, SeqEqual
<1>4. ASSUME NEW a, NEW b, NEW c, NEW d
      PROVE  <<a>> \o <<b, c, d>> = <<a, b, c, d>>
  <2> DEFINE S == {a, b, c, d}
  <2>1. <<a>> \o <<b, c, d>> \in Seq(S) /\ <<a, b, c, d>> \in Seq(S)
    OBVIOUS
  <2>2. Len(<<a>> \o <<b, c, d>>) = 4 /\ Len(<<a, b, c, d>>) = 4
    OBVIOUS
  <2>3. \A i \in 1..4 : (<<a>> \o <<b, c, d>>)[i] = <<a, b, c, d>>[i]
    OBVIOUS
  <2> HIDE DEF S
  <2> QED BY <2>1, <2>2, <2>3, SeqEqual
<1>5. ASSUME NEW a, NEW b, NEW c, NEW d
      PROVE  (<<a, b, c>> \o <<d>>) \o <<>> = <<a, b, c, d>>
  <2> DEFINE S == {a, b, c, d}
  <2>1. (<<a, b, c>> \o <<d>>) \o <<>> \in Seq(S) /\ <<a, b, c, d>> \in Seq(S)
    OBVIOUS
  <2>2. Len((<<a, b, c>> \o <<d>>) \o <<>>) = 4 /\ Len(<<a, b, c, d>>) = 4
    OBVIOUS
  <2>3. \A i \in 1..4 : ((<<a, b, c>> \o <<d>>) \o <<>>)[i] = <<a, b, c, d>>[i]
    OBVIOUS
  <2> HIDE DEF S
  <2> QED BY <2>1, <2>2, <2>3, SeqEqual
<1> QED BY <1>1, <1>2, <1>3, <1>4, <1>5

-----------------------------------------------------------------------------
\* The scripts, by the command that is next.

LEMMA Creating ==
  ASSUME Scripts, NEW p \in Procs, Goes(p, "create") \/ Goes(p, "write")
  PROVE  \E u \in Names, name \in {"create", "write"} :
           /\ Goes(p, name)
           /\ \/ p = "admin" /\ todo[p] = <<<<name, u>>>>
              \/ p \in Rids /\ \E n \in Limits \cup {0} :
                   todo[p] = <<<<name, u>>, <<"tag", p, u, n>>>>
<1>1. ~CronScript(todo[p]) /\ ~PanelScript(todo[p])
  BY DEF CronScript, PanelScript, Goes, Idle
<1>2. CASE p = "admin"
  <2>1. AdminScript(todo[p])
    BY <1>2 DEF Scripts, Script, Procs
  <2> QED BY <1>2, <2>1 DEF AdminScript, Goes, Idle
<1>3. CASE p \in Rids
  <2>1. MineScript(p, todo[p])
    BY <1>3 DEF Scripts, Script, Procs
  <2> QED BY <1>3, <2>1 DEF MineScript, Goes, Idle, Names
<1> QED BY <1>1, <1>2, <1>3 DEF Scripts, Script, Procs

LEMMA Tagging ==
  ASSUME Scripts, NEW p \in Procs, Goes(p, "tag")
  PROVE  \/ p \in Rids /\ \E u \in Names, n \in Limits \cup {0} : todo[p] = <<<<"tag", p, u, n>>>>
         \/ p = "panel" /\ \E r \in Rids, u \in Users : todo[p] = <<<<"tag", r, u, 0>>>>
<1>1. ~CronScript(todo[p]) /\ ~AdminScript(todo[p])
  BY DEF CronScript, AdminScript, Goes, Idle
<1>2. CASE p = "panel"
  <2>1. PanelScript(todo[p])
    BY <1>2 DEF Scripts, Script, Procs
  <2> QED BY <1>2, <2>1 DEF PanelScript, Goes, Idle
<1>3. CASE p \in Rids
  <2>1. MineScript(p, todo[p])
    BY <1>3 DEF Scripts, Script, Procs
  <2> QED BY <1>3, <2>1 DEF MineScript, Goes, Idle
<1> QED BY <1>1, <1>2, <1>3 DEF Scripts, Script, Procs

LEMMA Deleting ==
  ASSUME Scripts, NEW p \in Procs, NEW name \in {"delete", "change"}, Goes(p, name)
  PROVE  \E S \in SUBSET Names :
           \/ p = "admin" /\ todo[p] = <<<<name, Admin, S>>>>
           \/ p \in Rids /\ S \subseteq Users /\ todo[p] = <<<<name, p, S>>>>
<1>1. ~CronScript(todo[p]) /\ ~PanelScript(todo[p])
  BY DEF CronScript, PanelScript, Goes, Idle
<1>2. CASE p = "admin"
  <2>1. AdminScript(todo[p])
    BY <1>2 DEF Scripts, Script, Procs
  <2> QED BY <1>2, <2>1 DEF AdminScript, Goes, Idle
<1>3. CASE p \in Rids
  <2>1. MineScript(p, todo[p])
    BY <1>3 DEF Scripts, Script, Procs
  <2>2. PICK S \in SUBSET Users : todo[p] = <<<<name, p, S>>>>
    BY <2>1 DEF MineScript, Goes, Idle
  <2>3. S \in SUBSET Names
    BY DEF Names
  <2> QED BY <1>3, <2>2, <2>3
<1> QED BY <1>1, <1>2, <1>3 DEF Scripts, Script, Procs

\* An account that is going, of the chosen or of a removed reseller.
LEMMA RemovingOne ==
  ASSUME Scripts, NEW p \in Procs, Goes(p, "remove"), ~Wipes(p)
  PROVE  \E S \in SUBSET Names, u \in Names :
           \/ p = "admin" /\ todo[p] = <<<<"remove", Admin, S, u, "delete">>>>
           \/ p \in Rids /\ S \subseteq Users /\ todo[p] = <<<<"remove", p, S, u, "delete">>>>
<1>0. todo[p] # <<>> /\ Head(todo[p])[1] = "remove" /\ Head(todo[p])[5] # "sweep"
  BY DEF Goes, Idle, Wipes
<1>1. ~CronScript(todo[p]) /\ ~PanelScript(todo[p])
  BY <1>0 DEF CronScript, PanelScript
<1>2. CASE p = "admin"
  <2>1. AdminScript(todo[p])
    BY <1>2 DEF Scripts, Script, Procs
  <2> QED BY <1>0, <1>2, <2>1 DEF AdminScript
<1>3. CASE p \in Rids
  <2>1. MineScript(p, todo[p])
    BY <1>3 DEF Scripts, Script, Procs
  <2>2. PICK S \in SUBSET Users, u \in Users : todo[p] = <<<<"remove", p, S, u, "delete">>>>
    BY <1>0, <2>1 DEF MineScript
  <2>3. S \in SUBSET Names /\ u \in Names
    BY DEF Names
  <2> QED BY <1>3, <2>2, <2>3
<1> QED BY <1>1, <1>2, <1>3 DEF Scripts, Script, Procs

\* Removing a reseller: by the administrator, and by the cleanup.
AdminRemoves(s, r) ==
  \/ s = <<<<"purge", r>>, <<"unserve", r>>, <<"drop", r>>>>
  \/ \E S \in SUBSET Users :
       \/ s = <<<<"sweep", r, S>>, <<"unserve", r>>, <<"drop", r>>>>
       \/ \E u \in Users : s = <<<<"remove", r, S, u, "sweep">>, <<"unserve", r>>, <<"drop", r>>>>
  \/ s = <<<<"unserve", r>>, <<"drop", r>>>>
CronRemoves(s, r, C) ==
  \/ s = <<<<"purge", r>>, <<"unserve", r>>, <<"off", r>>, <<"clean", C>>>>
  \/ \E S \in SUBSET Users :
       \/ s = <<<<"sweep", r, S>>, <<"unserve", r>>, <<"off", r>>, <<"clean", C>>>>
       \/ \E u \in Users :
            s = <<<<"remove", r, S, u, "sweep">>, <<"unserve", r>>, <<"off", r>>, <<"clean", C>>>>
  \/ s = <<<<"unserve", r>>, <<"off", r>>, <<"clean", C>>>>
Removes(p, r) ==
  \/ p = "admin" /\ AdminRemoves(todo[p], r)
  \/ p = "cron" /\ \E C \in SUBSET Rids : CronRemoves(todo[p], r, C)
LEMMA RemovingScript ==
  ASSUME Scripts, NEW p \in Procs, Goes(p, "purge") \/ Removing(p)
  PROVE  \E r \in Rids : Removes(p, r)
<1>1. ~MineScript(p, todo[p]) /\ ~PanelScript(todo[p])
  BY DEF MineScript, PanelScript, Goes, Idle, Removing, Wipes
<1>2. p \in {"admin", "cron"}
  BY <1>1 DEF Scripts, Script, Procs
<1> DEFINE name == Head(todo[p])[1]
<1>a. /\ todo[p] # <<>> /\ name \in {"purge", "sweep", "unserve", "remove"}
      /\ name = "remove" => Head(todo[p])[5] = "sweep"
  BY DEF Goes, Idle, Removing, Wipes
<1>3. CASE p = "admin"
  <2>1. AdminScript(todo[p])
    BY <1>3 DEF Scripts, Script, Procs
  <2>2. \A r, u, S : /\ todo[p] # <<<<"remove", Admin, S, u, "delete">>>> /\ todo[p] # <<<<"create", u>>>> /\ todo[p] # <<<<"write", u>>>>
                     /\ todo[p] # <<<<"delete", Admin, S>>>> /\ todo[p] # <<<<"change", Admin, S>>>>
                     /\ todo[p] # <<<<"serve", r>>>> /\ todo[p] # <<<<"drop", r>>>>
    BY <1>a
  <2> QED BY <1>a, <1>3, <2>1, <2>2, Zenon DEF AdminScript, AdminRemoves, Removes
<1>4. CASE p = "cron"
  <2>1. CronScript(todo[p])
    BY <1>4 DEF Scripts, Script, Procs
  <2>2. \A r, C : todo[p] # <<<<"clean", C>>>> /\ todo[p] # <<<<"off", r>>, <<"clean", C>>>>
    BY <1>a
  <2> QED BY <1>a, <1>4, <2>1, <2>2, Zenon DEF CronScript, CronRemoves, Removes
<1> QED BY <1>2, <1>3, <1>4

LEMMA CleaningScript ==
  ASSUME Scripts, Goes("cron", "clean") \/ Goes("cron", "off")
  PROVE  \E C \in SUBSET Rids :
           \/ todo["cron"] = <<<<"clean", C>>>>
           \/ \E r \in Rids : todo["cron"] = <<<<"off", r>>, <<"clean", C>>>>
<1>1. todo["cron"] # <<>> /\ Head(todo["cron"])[1] \in {"clean", "off"}
  BY DEF Goes, Idle
<1>2. CronScript(todo["cron"])
  BY DEF Scripts, Script, Procs
<1>3. \A r, S, u, C, x, y :
         /\ todo["cron"] # <<<<"purge", r>>, x, y, <<"clean", C>>>>
         /\ todo["cron"] # <<<<"sweep", r, S>>, x, y, <<"clean", C>>>>
         /\ todo["cron"] # <<<<"remove", r, S, u, "sweep">>, x, y, <<"clean", C>>>>
         /\ todo["cron"] # <<<<"unserve", r>>, x, <<"clean", C>>>>
  BY <1>1
<1> QED BY <1>1, <1>2, <1>3, Zenon DEF CronScript

LEMMA ServingScript ==
  ASSUME Scripts, NEW p \in Procs, Goes(p, "serve") \/ Goes(p, "drop")
  PROVE  p = "admin" /\ \E r \in Rids : todo[p] = <<<<"serve", r>>>> \/ todo[p] = <<<<"drop", r>>>>
<1>1. ~MineScript(p, todo[p]) /\ ~PanelScript(todo[p]) /\ ~CronScript(todo[p])
  BY DEF MineScript, PanelScript, CronScript, Goes, Idle
<1> QED BY <1>1 DEF Scripts, Script, AdminScript, Goes, Idle, Procs

LEMMA MaxNat == \A n \in Limits \cup {0} : n \in Nat
BY LimitsAssumption

\* One process goes on to another script.
LEMMA Moves ==
  ASSUME TypeOK, Scripts, NEW p \in Procs, NEW s, Script(p, s), todo' = [todo EXCEPT ![p] = s]
  PROVE  Scripts' /\ DOMAIN todo' = Procs /\ todo'[p] = s /\ \A q \in Procs \ {p} : todo'[q] = todo[q]
BY DEF TypeOK, Scripts

LEMMA CrowdFinite == ASSUME NEW r PROVE IsFiniteSet(Tagged(r)) /\ IsFiniteSet(Crowd(r)) /\ Crowd(r) \subseteq Users
<1>1. Tagged(r) \subseteq Users /\ Crowd(r) \subseteq Users
  BY DEF Tagged, Crowd, Renewing
<1> QED BY <1>1, UsersAssumption, FS_Subset

\* The room a bot had for an account it still has, if no account has come.
LEMMA RoomKept ==
  ASSUME BotInv, NEW r \in Rids, Crowd(r)' \subseteq Crowd(r),
         NEW i \in 1..Len(todo'[r]), todo'[r][i][1] = "tag",
         NEW j \in 1..Len(todo[r]), todo[r][j] = todo'[r][i]
  PROVE  Cardinality(Crowd(r)' \ {todo'[r][i][3]}) < todo'[r][i][4]
<1> DEFINE old == Crowd(r) \ {todo[r][j][3]}
           new == Crowd(r)' \ {todo'[r][i][3]}
<1>1. Cardinality(old) < todo[r][j][4]
  BY DEF BotInv, Room
<1>2. new \subseteq old /\ IsFiniteSet(old)
  BY CrowdFinite, FS_Subset
<1>3. Cardinality(new) <= Cardinality(old) /\ Cardinality(new) \in Nat /\ Cardinality(old) \in Nat
  BY <1>2, FS_Subset, FS_CardinalityType
<1>4. todo[r][j][4] \in Nat
  <2>1. MineScript(r, todo[r])
    BY DEF BotInv, Scripts, Script, Procs
  <2>2. todo[r][j][1] = "tag"
    OBVIOUS
  <2>3. todo[r][j][4] \in Limits \cup {0}
    BY <2>1, <2>2 DEF MineScript
  <2> HIDE DEF old, new
  <2> QED BY <2>3, MaxNat
<1> HIDE DEF old, new
<1>5. Cardinality(new) < todo[r][j][4]
  BY <1>1, <1>3, <1>4
<1> QED BY <1>5 DEF new

\* A process that stays where it is has swept what it had swept.
LEMMA SweptKept ==
  ASSUME BotInv, NEW p \in {"admin", "cron"}, todo'[p] = todo[p], late \subseteq late',
         \A r \in Rids : Pending("unserve", r) => Tagged(r)' \subseteq Tagged(r) \cup late'
  PROVE  SweptBy(p)'
<1> SUFFICES ASSUME Removing(p)'
             PROVE  SweptBy(p)'
  BY DEF SweptBy, Removing
<1> DEFINE r == Head(todo[p])[2]
<1>1. Removing(p) /\ Removing(p)' /\ p \in Procs
  BY DEF Removing, Wipes, Goes, Idle, Procs
<1>2. r \in Rids /\ \E i \in 1..Len(todo[p]) : todo[p][i][1] = "unserve" /\ todo[p][i][2] = r
  <2>1. PICK q \in Rids :
          \/ \E S \in SUBSET Users : todo[p] = <<<<"sweep", q, S>>, <<"unserve", q>>, <<"drop", q>>>>
          \/ \E S \in SUBSET Users, u \in Users :
               todo[p] = <<<<"remove", q, S, u, "sweep">>, <<"unserve", q>>, <<"drop", q>>>>
          \/ todo[p] = <<<<"unserve", q>>, <<"drop", q>>>>
          \/ \E C \in SUBSET Rids, S \in SUBSET Users :
               todo[p] = <<<<"sweep", q, S>>, <<"unserve", q>>, <<"off", q>>, <<"clean", C>>>>
          \/ \E C \in SUBSET Rids, S \in SUBSET Users, u \in Users :
               todo[p] = <<<<"remove", q, S, u, "sweep">>, <<"unserve", q>>, <<"off", q>>, <<"clean", C>>>>
          \/ \E C \in SUBSET Rids : todo[p] = <<<<"unserve", q>>, <<"off", q>>, <<"clean", C>>>>
    <3>1. todo[p] # <<>> /\ Head(todo[p])[1] # "purge"
      BY <1>1 DEF Removing, Wipes, Goes, Idle
    <3>2. PICK q \in Rids : Removes(p, q)
      BY <1>1, RemovingScript DEF BotInv
    <3> QED BY <3>1, <3>2 DEF AdminRemoves, CronRemoves, Removes
  <2>2. r = q
    BY <2>1
  <2>3. \/ 2 \in 1..Len(todo[p]) /\ todo[p][2][1] = "unserve" /\ todo[p][2][2] = q
        \/ 1 \in 1..Len(todo[p]) /\ todo[p][1][1] = "unserve" /\ todo[p][1][2] = q
    <3>1. \/ \E x : todo[p] = <<x, <<"unserve", q>>, <<"drop", q>>>>
          \/ todo[p] = <<<<"unserve", q>>, <<"drop", q>>>>
          \/ \E x, C : todo[p] = <<x, <<"unserve", q>>, <<"off", q>>, <<"clean", C>>>>
          \/ \E C : todo[p] = <<<<"unserve", q>>, <<"off", q>>, <<"clean", C>>>>
      BY <2>1, Zenon
    <3>2. ASSUME NEW x, todo[p] = <<x, <<"unserve", q>>, <<"drop", q>>>>
          PROVE  2 \in 1..Len(todo[p]) /\ todo[p][2][1] = "unserve" /\ todo[p][2][2] = q
      BY <3>2
    <3>3. ASSUME NEW x, NEW C, todo[p] = <<x, <<"unserve", q>>, <<"off", q>>, <<"clean", C>>>>
          PROVE  2 \in 1..Len(todo[p]) /\ todo[p][2][1] = "unserve" /\ todo[p][2][2] = q
      BY <3>3
    <3>4. ASSUME NEW C, \/ todo[p] = <<<<"unserve", q>>, <<"drop", q>>>>
                        \/ todo[p] = <<<<"unserve", q>>, <<"off", q>>, <<"clean", C>>>>
          PROVE  1 \in 1..Len(todo[p]) /\ todo[p][1][1] = "unserve" /\ todo[p][1][2] = q
      BY <3>4
    <3> QED BY <3>1, <3>2, <3>3, <3>4
  <2> QED BY <2>2, <2>3
<1>3. Tagged(r)' \subseteq Tagged(r) \cup late'
  BY <1>1, <1>2 DEF Pending
<1>4. SweptBy(p)
  BY DEF BotInv, Swept
<1> QED BY <1>3, <1>4 DEF SweptBy, Wipes, Goes, Idle

\* A step after which no process has a tag to put that it had not, no account
\* has come to a reseller, and no bot is gone.
LEMMA LeftStep ==
  ASSUME BotInv, TypeOK', Scripts', late \subseteq late',
         \A r \in Rids : (svc[r] => svc'[r]) /\ Tagged(r)' \subseteq Tagged(r),
         \A p \in Procs : TagsLeft(p), Swept'
  PROVE  BotInv'
<1>1. \A p \in Procs : \A r, u : TagIn(todo[p], r, u)' => TagIn(todo[p], r, u)
  BY DEF TagsLeft, TagIn
<1>2. \A r \in Rids : Untagged(r)' \subseteq Untagged(r) /\ Renewing(r)' \subseteq Renewing(r)
  <2> SUFFICES ASSUME NEW r \in Rids
               PROVE  Untagged(r)' \subseteq Untagged(r) /\ Renewing(r)' \subseteq Renewing(r)
    OBVIOUS
  <2>1. Untagged(r) = {u \in Users : \E p \in Procs : TagIn(todo[p], r, u)}
    BY DEF Untagged, TagIn
  <2>2. Untagged(r)' = {u \in Users : \E p \in Procs : TagIn(todo[p], r, u)'}
    BY DEF Untagged, TagIn
  <2>3. "panel" \in Procs
    BY DEF Procs
  <2> QED BY <1>1, <2>1, <2>2, <2>3 DEF Renewing
<1>3. Gone'
  BY <1>2 DEF BotInv, Gone, TypeOK
<1>4. Room'
  <2> SUFFICES ASSUME NEW r \in Rids, NEW i \in 1..Len(todo'[r]), todo'[r][i][1] = "tag"
               PROVE  Cardinality(Crowd(r)' \ {todo'[r][i][3]}) < todo'[r][i][4]
    BY DEF Room
  <2>1. PICK j \in 1..Len(todo[r]) : todo[r][j] = todo'[r][i]
    BY DEF TagsLeft, Procs
  <2>2. Crowd(r)' \subseteq Crowd(r)
    BY <1>2 DEF Crowd
  <2> QED BY <2>1, <2>2, RoomKept
<1> QED BY <1>3, <1>4 DEF BotInv

LEMMA CalmStep ==
  ASSUME BotInv, TypeOK', Scripts', late \subseteq late',
         \A r \in Rids : (svc[r] => svc'[r]) /\ Tagged(r)' \subseteq Tagged(r),
         \A p \in Procs : Calm(p)
  PROVE  BotInv'
<1>1. ASSUME NEW p \in {"admin", "cron"}
      PROVE  SweptBy(p)'
  <2>1. p \in Procs
    BY DEF Procs
  <2>2. CASE Removing(p)'
    BY <2>1, <2>2, SweptKept DEF Calm
  <2>3. CASE ~Removing(p)'
    BY <2>3 DEF SweptBy, Removing
  <2> QED BY <2>2, <2>3
<1>2. Swept'
  BY <1>1 DEF Swept
<1>3. \A p \in Procs : TagsLeft(p)
  BY DEF Calm
<1> QED BY <1>2, <1>3, LeftStep

-----------------------------------------------------------------------------
\* The conversations.

LEMMA TableTypes == NoRow \in Rows /\ [NoRow EXCEPT !.is = "gone"] \in Rows /\ Settings \subseteq Rows
BY SettingsAssumption DEF NoRow, Rows

\* A row with one of its settings changed.
LEMMA RowEdits ==
  ASSUME NEW x \in Rows
  PROVE  /\ \A m \in Limits : [x EXCEPT !.max = m] \in Rows
         /\ \A b \in BOOLEAN : [x EXCEPT !.code = b] \in Rows /\ [x EXCEPT !.due = b] \in Rows
BY DEF Rows

LEMMA TalkTypes ==
  /\ Blank \in AdmTalks /\ Quiet \in Talks
  /\ \A t \in AdmTalks, x \in AdmSteps : [t EXCEPT !.step = x] \in AdmTalks
  /\ \A t \in AdmTalks, x \in {"none", "asking", "ready"} : [t EXCEPT !.cr = x] \in AdmTalks
  /\ \A t \in Talks, x \in Steps : [t EXCEPT !.step = x] \in Talks
<1>1. Blank \in AdmTalks
  BY DEF Blank, AdmTalks, Names, AdmSteps
<1>2. Quiet \in Talks
  BY DEF Quiet, Talks, Names, Steps
<1>3. \A t \in AdmTalks, x \in AdmSteps : [t EXCEPT !.step = x] \in AdmTalks
  BY DEF AdmTalks
<1>4. \A t \in AdmTalks, x \in {"none", "asking", "ready"} : [t EXCEPT !.cr = x] \in AdmTalks
  BY DEF AdmTalks
<1>5. \A t \in Talks, x \in Steps : [t EXCEPT !.step = x] \in Talks
  BY DEF Talks
<1> QED BY <1>1, <1>2, <1>3, <1>4, <1>5

LEMMA AdminSays ==
  ASSUME BotInv, UNCHANGED <<pending, svc, acct, granted, crontab, chat, todo, late, crashes>>,
         row' \in [Rids -> Rows], adm' \in AdmTalks, presses' \in Nat
  PROVE  BotInv'
<1>1. TypeOK' /\ Scripts'
  BY DEF BotInv, TypeOK, Scripts
<1>2. \A r \in Rids : Tagged(r)' = Tagged(r)
  BY DEF Tagged, Here
<1>3. \A p \in Procs : Calm(p)
  BY DEF Calm, TagsLeft
<1> QED BY <1>1, <1>2, <1>3, CalmStep

LEMMA AdminStarts ==
  ASSUME BotInv, UNCHANGED <<pending, svc, acct, granted, crontab, chat, late, crashes>>,
         row' \in [Rids -> Rows], adm' \in AdmTalks, presses' \in Nat,
         NEW s, todo' = [todo EXCEPT !["admin"] = s], AdminScript(s),
         \A i \in 1..Len(s) : s[i][1] # "tag",
         s # <<>> => ~Wiping(Head(s))
  PROVE  BotInv'
<1>1. "admin" \in Procs /\ Script("admin", s)
  BY NamesAssumption DEF Procs, Script
<1>2. /\ Scripts' /\ DOMAIN todo' = Procs /\ todo'["admin"] = s
      /\ \A q \in Procs \ {"admin"} : todo'[q] = todo[q]
  BY <1>1, Moves DEF BotInv
<1>3. TypeOK'
  BY <1>2 DEF BotInv, TypeOK
<1>4. \A r \in Rids : Tagged(r)' = Tagged(r)
  BY DEF Tagged, Here
<1>5. \A p \in Procs : Calm(p)
  BY <1>2 DEF Calm, TagsLeft, Removing, Wipes, Wiping, Goes, Idle
<1> QED BY <1>2, <1>3, <1>4, <1>5, CalmStep

LEMMA AdminPresses ==
  ASSUME BotInv, NEW to, to \in AdmTalks, Press(to)
  PROVE  adm' \in AdmTalks /\ presses' \in Nat /\ UNCHANGED <<acct, chat, late, crashes>>
BY DEF BotInv, TypeOK, Press

LEMMA AdminAsks ==
  ASSUME BotInv, NEW to, to \in AdmTalks, Ask(to)
  PROVE  BotInv'
<1>1. Press(to) /\ UNCHANGED <<table, todo>>
  BY DEF Ask
<1>2. row' \in [Rids -> Rows]
  BY <1>1 DEF BotInv, TypeOK, table
<1> QED BY <1>1, <1>2, AdminPresses, AdminSays DEF table

LEMMA AdminAnswers ==
  ASSUME BotInv, NEW to, to \in AdmTalks, Answers(to)
  PROVE  BotInv'
<1>1. /\ adm' = to /\ UNCHANGED <<chat, presses, crashes, late, table, acct, todo>>
  BY DEF Answers, Says
<1>2. row' \in [Rids -> Rows] /\ presses' \in Nat
  BY <1>1 DEF BotInv, TypeOK, table
<1> QED BY <1>1, <1>2, AdminSays DEF table

LEMMA AdminBotInv ==
  ASSUME BotInv, AdminBot
  PROVE  BotInv'
<1>a. /\ Blank \in AdmTalks
      /\ \A x \in AdmSteps : [adm EXCEPT !.step = x] \in AdmTalks
      /\ \A x \in {"none", "asking", "ready"} : [adm EXCEPT !.cr = x] \in AdmTalks
  BY TalkTypes DEF BotInv, TypeOK
<1>t. adm \in AdmTalks /\ row \in [Rids -> Rows] /\ presses \in Nat /\ adm.user \in Names /\ adm.sel \subseteq Users
  BY DEF BotInv, TypeOK, AdmTalks
<1>1. CASE PressCreate
  <2>1. [adm EXCEPT !.step = "cr_user"] \in AdmTalks
    BY <1>a DEF AdmSteps
  <2> QED BY <1>1, <2>1, AdminAsks DEF PressCreate
<1>2. CASE PressNewReseller
  <2>1. [adm EXCEPT !.cr = "asking"] \in AdmTalks
    BY <1>a DEF AdmSteps
  <2> QED BY <1>2, <2>1, AdminAsks DEF PressNewReseller
<1>3. CASE TextTerms
  <2> DEFINE s == <<<<"create", adm.user>>>>
  <2>1. /\ adm' = Blank /\ todo' = [todo EXCEPT !["admin"] = s]
        /\ UNCHANGED <<chat, presses, crashes, late, table, acct>>
    BY <1>3 DEF TextTerms, Says, Runs
  <2>2. AdminScript(s) /\ (\A i \in 1..Len(s) : s[i][1] # "tag") /\ ~Wiping(Head(s))
    BY <1>t DEF AdminScript, Wiping
  <2> HIDE DEF s
  <2> QED BY <2>1, <2>2, <1>t, <1>a, AdminStarts DEF table
<1>4. CASE TextDays
  <2> DEFINE s == <<<<"change", Admin, {adm.user}>>>>
  <2>1. /\ adm' = Blank /\ todo' = [todo EXCEPT !["admin"] = s]
        /\ UNCHANGED <<chat, presses, crashes, late, table, acct>>
    BY <1>4 DEF TextDays, Says, Runs
  <2>2. AdminScript(s) /\ (\A i \in 1..Len(s) : s[i][1] # "tag") /\ ~Wiping(Head(s))
    BY <1>t DEF AdminScript, Wiping
  <2> HIDE DEF s
  <2> QED BY <2>1, <2>2, <1>t, <1>a, AdminStarts DEF table
<1>5. CASE TextNumbers
  <2>1. PICK S \in SUBSET Users :
          Runs(<<<<IF adm.step = "del_choose" THEN "delete" ELSE "change", Admin, S>>>>)
    BY <1>5, <1>t DEF TextNumbers
  <2> DEFINE name == IF adm.step = "del_choose" THEN "delete" ELSE "change"
             s == <<<<name, Admin, S>>>>
  <2>2. /\ adm' = Blank /\ todo' = [todo EXCEPT !["admin"] = s]
        /\ UNCHANGED <<chat, presses, crashes, late, table, acct>>
    BY <1>5, <2>1 DEF TextNumbers, Says, Runs
  <2>3. AdminScript(s) /\ (\A i \in 1..Len(s) : s[i][1] # "tag") /\ ~Wiping(Head(s))
    BY DEF AdminScript, Names, Wiping
  <2> HIDE DEF s
  <2> QED BY <2>2, <2>3, <1>t, <1>a, AdminStarts DEF table
<1>6. CASE TextForgets
  BY <1>6, <1>a, AdminAnswers DEF TextForgets
<1>7. ASSUME NEW step \in {"renew_user", "lock_user"}, PressUser(step) PROVE BotInv'
  <2>1. [adm EXCEPT !.step = step] \in AdmTalks
    BY <1>a DEF AdmSteps
  <2> QED BY <1>7, <2>1, AdminAsks DEF PressUser
<1>8. ASSUME NEW step \in {"del_choose", "set_quota_val"}, PressNumbers(step) PROVE BotInv'
  <2> DEFINE users == {u \in Users : Here(u)}
             to == IF users = {} THEN Blank ELSE [adm EXCEPT !.step = step, !.sel = users]
  <2>1. Ask(to)
    BY <1>8 DEF PressNumbers
  <2>2. [adm EXCEPT !.step = step, !.sel = users] \in AdmTalks
    BY <1>t DEF AdmTalks, AdmSteps
  <2>3. to \in AdmTalks
    BY <2>2, <1>a
  <2> HIDE DEF to
  <2> QED BY <2>1, <2>3, AdminAsks
<1>9. ASSUME NEW u \in Users, TextName(u) \/ TextRenew(u) PROVE BotInv'
  <2>1. \A x \in AdmSteps : [adm EXCEPT !.step = x, !.user = u] \in AdmTalks
    BY <1>t DEF AdmTalks, Names
  <2>2. [adm EXCEPT !.step = "cr_quota", !.user = u] \in AdmTalks
    BY <2>1 DEF AdmSteps
  <2>3. (IF Here(u) THEN [adm EXCEPT !.step = "renew_days", !.user = u] ELSE Blank) \in AdmTalks
    BY <2>1, <1>a DEF AdmSteps
  <2>4. CASE TextName(u)
    BY <2>4, <2>2, AdminAnswers DEF TextName
  <2>5. CASE TextRenew(u)
    BY <2>5, <2>3, AdminAnswers DEF TextRenew
  <2> QED BY <1>9, <2>4, <2>5
<1>10. ASSUME NEW r \in Rids, PressToggle(r) PROVE BotInv'
  <2>1. row' \in [Rids -> Rows]
    BY <1>10, <1>t DEF PressToggle, Rows
  <2> QED BY <1>10, <2>1, <1>t, AdminPresses, AdminSays DEF PressToggle
<1>11. ASSUME NEW r \in Rids, PressDelete(r) PROVE BotInv'
  <2> DEFINE s == <<<<"purge", r>>, <<"unserve", r>>, <<"drop", r>>>>
  <2>1. Press(adm) /\ todo' = [todo EXCEPT !["admin"] = s] /\ UNCHANGED table
    BY <1>11 DEF PressDelete, Runs
  <2>2. AdminScript(s) /\ (\A i \in 1..Len(s) : s[i][1] # "tag") /\ ~Wiping(Head(s))
    BY DEF AdminScript, Wiping
  <2> HIDE DEF s
  <2> QED BY <2>1, <2>2, <1>t, AdminPresses, AdminStarts DEF table
<1>12. ASSUME NEW r \in Rids, NEW step \in {"edit_maxu", "edit_code", "extend_reseller"}, PressEdit(step, r)
       PROVE BotInv'
  <2>1. [adm EXCEPT !.step = step, !.rid = r] \in AdmTalks
    BY <1>t DEF AdmTalks, AdmSteps
  <2> QED BY <1>12, <2>1, AdminAsks DEF PressEdit
<1>13. ASSUME NEW r \in Rids, NEW settings \in Settings, PressDone(r, settings) PROVE BotInv'
  <2> DEFINE s == <<<<"serve", r>>>>
             to == [adm EXCEPT !.cr = "none"]
  <2>1. Press(to) /\ todo' = [todo EXCEPT !["admin"] = s] /\ UNCHANGED <<pending, svc, granted, crontab>>
    BY <1>13 DEF PressDone, Runs
  <2>2. AdminScript(s) /\ (\A i \in 1..Len(s) : s[i][1] # "tag") /\ ~Wiping(Head(s))
    BY DEF AdminScript, Wiping
  <2>3. row' \in [Rids -> Rows]
    BY <1>13, <1>t, TableTypes DEF PressDone
  <2>4. to \in AdmTalks
    BY <1>a DEF AdmSteps
  <2> HIDE DEF s, to
  <2> QED BY <2>1, <2>2, <2>3, <2>4, AdminPresses, AdminStarts
<1>14. ASSUME NEW max \in Limits, TextEdit(max) PROVE BotInv'
  <2>1. row' = [row EXCEPT ![adm.rid].max = max]
    BY <1>14 DEF TextEdit
  <2>2. row' \in [Rids -> Rows]
    BY <2>1, <1>t, RowEdits
  <2> QED BY <1>14, <2>2, <1>t, <1>a, AdminSays DEF TextEdit, Says
<1>15. ASSUME NEW code \in BOOLEAN, TextCode(code) PROVE BotInv'
  <2>1. row' = [row EXCEPT ![adm.rid].code = code] \/ row' = row
    BY <1>15 DEF TextCode
  <2>2. row' \in [Rids -> Rows]
    <3>1. CASE row' = [row EXCEPT ![adm.rid].code = code]
      BY <3>1, <1>15, <1>t, RowEdits
    <3>2. CASE row' = row
      BY <3>2, <1>t
    <3> QED BY <2>1, <3>1, <3>2
  <2> QED BY <1>15, <2>2, <1>t, <1>a, AdminSays DEF TextCode, Says
<1>16. CASE TextExtend
  <2>1. PICK due \in {FALSE, row[adm.rid].due} :
          row' = IF Listed(adm.rid) THEN [row EXCEPT ![adm.rid].is = "on", ![adm.rid].due = due] ELSE row
    BY <1>16 DEF TextExtend
  <2>2. row' \in [Rids -> Rows]
    <3>1. CASE adm.rid \in Rids
      <4>1. row[adm.rid] \in Rows /\ due \in BOOLEAN
        BY <3>1, <1>t DEF Rows
      <4> QED BY <2>1, <4>1, <1>t DEF Rows
    <3>2. CASE adm.rid \notin Rids
      BY <3>2, <2>1, <1>t
    <3> QED BY <3>1, <3>2
  <2> QED BY <1>16, <2>2, <1>t, <1>a, AdminSays DEF TextExtend, Says
<1>17. CASE TextWizard
  <2>1. [adm EXCEPT !.cr = "ready"] \in AdmTalks
    BY <1>a DEF AdmSteps
  <2> QED BY <1>17, <2>1, AdminAnswers DEF TextWizard
<1> QED
  BY <1>1, <1>2, <1>3, <1>4, <1>5, <1>6, <1>7, <1>8, <1>9, <1>10, <1>11, <1>12, <1>13, <1>14,
     <1>15, <1>16, <1>17 DEF AdminBot

\* The bot of a reseller.

LEMMA MineSays ==
  ASSUME BotInv, NEW r \in Rids, NEW c \in Chats, NEW to \in Talks, Update(r, c, to),
         UNCHANGED <<todo, late>>, granted' \subseteq Rids \X Chats, presses' \in Nat,
         acct' \in [Users -> {NoAccount} \cup Accounts], \A q \in Rids : Tagged(q)' \subseteq Tagged(q)
  PROVE  BotInv'
<1>1. TypeOK'
  BY DEF BotInv, TypeOK, Update
<1>2. Scripts'
  BY DEF BotInv, Scripts
<1>3. \A p \in Procs : Calm(p)
  BY DEF Calm, TagsLeft
<1>4. svc' = svc
  BY DEF Update
<1> QED BY <1>1, <1>2, <1>3, <1>4, CalmStep

LEMMA MineReads ==
  ASSUME BotInv, NEW r \in Rids, NEW c \in Chats, NEW to \in Talks, Asks(r, c, to) \/
         (Onward(r, c, to) /\ UNCHANGED presses)
  PROVE  BotInv'
<1>1. Update(r, c, to) /\ UNCHANGED <<acct, todo, late, granted>> /\ presses' \in Nat
  BY DEF Asks, Onward, Reads, BotInv, TypeOK
<1>2. /\ granted' \subseteq Rids \X Chats /\ acct' \in [Users -> {NoAccount} \cup Accounts]
      /\ \A q \in Rids : Tagged(q)' \subseteq Tagged(q)
  BY <1>1 DEF BotInv, TypeOK, Tagged, Here
<1> QED BY <1>1, <1>2, MineSays

\* MineTerms takes down what is to be tagged, and its account has room.
LEMMA MineTermsInv ==
  ASSUME BotInv, NEW r \in Rids, NEW c \in Chats, MineTerms(r, c)
  PROVE  BotInv'
<1> DEFINE u == chat[r][c].user
           s == <<<<"create", u>>, <<"tag", r, u, row[r].max>>>>
<1>1. /\ Update(r, c, Quiet) /\ UNCHANGED <<acct, granted, presses, svc>> /\ late' = late \cup Untagged(r)
      /\ svc[r] /\ Idle(r)
  BY DEF MineTerms, At, Reads, Update
<1>2. todo' = todo \/ (~Full(r) /\ todo' = [todo EXCEPT ![r] = s])
  BY DEF MineTerms
<1>3. u \in Names /\ row[r].max \in Limits \cup {0} /\ r \in Procs /\ "panel" \in Procs
  BY DEF BotInv, TypeOK, Talks, Rows, Procs
<1>4. Script(r, s)
  BY <1>3, NamesAssumption DEF Script, MineScript
<1>5. \A q \in Rids : Tagged(q)' = Tagged(q) /\ Untagged(q) \subseteq Users
  BY <1>1 DEF Tagged, Here, Untagged
<1>6. Scripts' /\ DOMAIN todo' = Procs
  BY <1>2, <1>3, <1>4, Moves DEF BotInv, Scripts, TypeOK
<1>7. TypeOK'
  BY <1>1, <1>5, <1>6, TalkTypes DEF BotInv, TypeOK, Update, Names
<1>8. CASE todo' = todo
  <2>1. \A p \in Procs : Calm(p)
    BY <1>8 DEF Calm, TagsLeft
  <2> QED BY <1>1, <1>5, <1>6, <1>7, <2>1, CalmStep
<1>9. CASE ~Full(r) /\ todo' = [todo EXCEPT ![r] = s]
  <2>1. todo'[r] = s /\ \A q \in Procs \ {r} : todo'[q] = todo[q]
    BY <1>3, <1>4, <1>9, Moves DEF BotInv
  <2>2. \A q \in Rids \ {r} : \A v : TagIn(todo[r], q, v)' => FALSE
    BY <2>1 DEF TagIn
  <2>3. \A q \in Rids \ {r} : Untagged(q)' \subseteq Untagged(q)
    BY <2>1, <2>2 DEF Untagged, TagIn
  <2>4. Gone'
    BY <1>1, <1>5, <2>3 DEF BotInv, Gone
  <2>5. todo'["panel"] = todo["panel"] /\ todo'["admin"] = todo["admin"] /\ todo'["cron"] = todo["cron"]
    BY <2>1, NamesAssumption DEF Procs
  <2>6. Swept'
    BY <1>1, <1>5, <2>5, SweptKept DEF Swept
  <2>7. Room'
    <3> SUFFICES ASSUME NEW q \in Rids, NEW i \in 1..Len(todo'[q]), todo'[q][i][1] = "tag"
                 PROVE  Cardinality(Crowd(q)' \ {todo'[q][i][3]}) < todo'[q][i][4]
      BY DEF Room
    <3>1. Renewing(q)' = Renewing(q) /\ Crowd(q)' \subseteq Crowd(q)
      BY <1>1, <1>5, <2>5 DEF Renewing, TagIn, Crowd
    <3>2. CASE q # r
      <4>1. todo'[q] = todo[q]
        BY <2>1, <3>2 DEF Procs
      <4> QED BY <3>1, <4>1, RoomKept
    <3>3. CASE q = r
      <4>1. Renewing(r) \subseteq Untagged(r)
        BY <1>3 DEF Renewing, Untagged, TagIn
      <4>2. Crowd(r)' \ {todo'[r][i][3]} \subseteq Tagged(r)
        BY <1>1, <1>5, <3>1, <3>3, <4>1 DEF Crowd
      <4>3. Cardinality(Crowd(r)' \ {todo'[r][i][3]}) <= Cardinality(Tagged(r))
        BY <4>2, CrowdFinite, FS_Subset
      <4>4. Cardinality(Tagged(r)) < row[r].max
        BY <1>3, <1>9, MaxNat, CrowdFinite, FS_CardinalityType DEF Full
      <4>5. i = 2 /\ todo'[r][i][4] = row[r].max
        <5>1. /\ Len(s) = 2 /\ s[1] = <<"create", u>> /\ s[2] = <<"tag", r, u, row[r].max>>
          OBVIOUS
        <5>2. s[1][1] = "create" /\ s[2][4] = row[r].max
          BY <5>1
        <5>3. i \in 1..Len(s) /\ s[i][1] = "tag" /\ todo'[r] = s
          BY <2>1, <3>3
        <5> HIDE DEF s
        <5>4. i # 1
          BY <5>2, <5>3
        <5>5. i = 2
          BY <5>1, <5>3, <5>4
        <5> QED BY <5>2, <5>3, <5>5
      <4>6. IsFiniteSet(Crowd(r)' \ {todo'[r][i][3]})
        BY <4>2, CrowdFinite, FS_Subset
      <4>7. /\ Cardinality(Crowd(r)' \ {todo'[r][i][3]}) \in Nat
            /\ Cardinality(Tagged(r)) \in Nat /\ row[r].max \in Nat
        BY <1>3, <4>6, MaxNat, CrowdFinite, FS_CardinalityType
      <4> QED BY <3>3, <4>3, <4>4, <4>5, <4>7
    <3> QED BY <3>2, <3>3
  <2> QED BY <1>6, <1>7, <2>4, <2>6, <2>7 DEF BotInv
<1> QED BY <1>2, <1>8, <1>9

LEMMA ResellerBotInv ==
  ASSUME BotInv, NEW r \in Rids, ResellerBot(r)
  PROVE  BotInv'
<1> SUFFICES ASSUME NEW c \in Chats,
                    \/ PressDeleteMine(r, c) \/ MineTerms(r, c) \/ MineNumbers(r, c) \/ MineDays(r, c)
                    \/ \E t \in Tunnels : PressTunnel(r, c, t)
                    \/ \E step \in {"r_renew_user", "r_setquota_user"} : PressMine(r, c, step)
                    \/ \E u \in Users : MineName(r, c, u) \/ MineRenew(r, c, u) \/ MineQuota(r, c, u)
                    \/ AskCode(r, c) \/ RightCode(r, c) \/ MineQuotaValue(r, c)
             PROVE  BotInv'
  BY DEF ResellerBot, AsksOwner
<1> DEFINE m == chat[r][c]
<1>a. m \in Talks /\ Quiet \in Talks /\ m.sel \subseteq Users
  BY TalkTypes DEF BotInv, TypeOK, Talks
<1>b. \A x \in Steps : [m EXCEPT !.step = x] \in Talks
  BY <1>a, TalkTypes
<1>c. \A x \in Steps, u \in Users : [m EXCEPT !.step = x, !.user = u] \in Talks
  BY <1>a DEF Talks, Names
<1>d. /\ granted \subseteq Rids \X Chats /\ presses \in Nat /\ acct \in [Users -> {NoAccount} \cup Accounts]
      /\ UNCHANGED acct => \A q \in Rids : Tagged(q)' = Tagged(q)
  BY DEF BotInv, TypeOK, Tagged, Here
<1>1. CASE PressDeleteMine(r, c)
  <2>1. [m EXCEPT !.step = "r_del_choose", !.sel = Tagged(r)] \in Talks
    BY <1>a DEF Talks, Tagged, Steps
  <2>2. PICK to \in Talks : Asks(r, c, to)
    BY <1>1, <1>a, <2>1 DEF PressDeleteMine
  <2> QED BY <2>2, MineReads
<1>2. CASE MineTerms(r, c)
  BY <1>2, MineTermsInv
<1>3. CASE MineNumbers(r, c)
  <2>1. PICK S \in SUBSET Users : todo' = [todo EXCEPT ![r] = <<<<"delete", r, S>>>>]
    BY <1>3, <1>a DEF MineNumbers
  <2> DEFINE s == <<<<"delete", r, S>>>>
  <2>2. /\ Update(r, c, Quiet) /\ UNCHANGED <<acct, late, presses, granted>>
    BY <1>3 DEF MineNumbers, At, Reads
  <2>3. Script(r, s) /\ r \in Procs
    BY NamesAssumption DEF Script, MineScript, Procs
  <2>4. /\ Scripts' /\ DOMAIN todo' = Procs /\ todo'[r] = s
        /\ \A q \in Procs \ {r} : todo'[q] = todo[q]
    BY <2>1, <2>3, Moves DEF BotInv
  <2>5. TypeOK'
    BY <1>a, <2>2, <2>4 DEF BotInv, TypeOK, Update
  <2>6. \A p \in Procs : Calm(p)
    BY <2>4 DEF Calm, TagsLeft, Removing, Wipes, Goes, Idle
  <2>7. svc' = svc
    BY <2>2 DEF Update
  <2> QED BY <1>d, <2>2, <2>4, <2>5, <2>6, <2>7, CalmStep
<1>4. CASE MineQuotaValue(r, c)
  <2> DEFINE u == m.user
  <2>1. /\ Update(r, c, Quiet) /\ UNCHANGED <<todo, late, granted, presses>>
        /\ acct' = acct \/ (Here(u) /\ acct' = [acct EXCEPT ![u].by = r])
    BY <1>4 DEF MineQuotaValue, At, Reads
  <2>2. CASE acct' = acct
    BY <1>a, <1>d, <2>1, <2>2, MineSays
  <2>3. CASE Here(u) /\ acct' = [acct EXCEPT ![u].by = r]
    <3>1. ASSUME NEW v \in Users
          PROVE  /\ acct'[v] \in {NoAccount} \cup Accounts /\ (Here(v)' => Here(v))
                 /\ Here(v)' => acct'[v].owner = acct[v].owner
      BY <1>d, <2>3 DEF Here, Accounts
    <3>2. acct' \in [Users -> {NoAccount} \cup Accounts]
      BY <1>d, <2>3, <3>1
    <3>3. \A q \in Rids : Tagged(q)' \subseteq Tagged(q)
      BY <3>1 DEF Tagged
    <3> QED BY <1>a, <1>d, <2>1, <3>2, <3>3, MineSays
  <2> QED BY <2>1, <2>2, <2>3
<1>10. CASE MineDays(r, c)
  <2> DEFINE u == m.user
             s == <<<<"change", r, {u}>>>>
  <2>1. /\ Update(r, c, Quiet) /\ UNCHANGED <<acct, late, granted, presses, svc>>
        /\ todo' = todo \/ (u \in Tagged(r) /\ todo' = [todo EXCEPT ![r] = s])
    BY <1>10 DEF MineDays, At, Reads, Update
  <2>2. CASE todo' = todo
    BY <1>a, <1>d, <2>1, <2>2, MineSays
  <2>3. CASE u \in Tagged(r) /\ todo' = [todo EXCEPT ![r] = s]
    <3>1. Script(r, s) /\ r \in Procs
      <4>1. {u} \in SUBSET Users
        BY <2>3 DEF Tagged
      <4>2. MineScript(r, s)
        BY <4>1 DEF MineScript
      <4> QED BY <4>2, NamesAssumption DEF Script, Procs
    <3>2. /\ Scripts' /\ DOMAIN todo' = Procs /\ todo'[r] = s
          /\ \A q \in Procs \ {r} : todo'[q] = todo[q]
      BY <2>3, <3>1, Moves DEF BotInv
    <3>3. TypeOK'
      BY <1>a, <2>1, <3>2 DEF BotInv, TypeOK, Update
    <3>4. \A p \in Procs : Calm(p)
      BY <3>2 DEF Calm, TagsLeft, Removing, Wipes, Goes, Idle
    <3> QED BY <1>d, <2>1, <3>2, <3>3, <3>4, CalmStep
  <2> QED BY <2>1, <2>2, <2>3
<1>5. ASSUME NEW t \in Tunnels, PressTunnel(r, c, t) PROVE BotInv'
  <2>1. [m EXCEPT !.step = "r_user", !.tunnel = t] \in Talks
    BY <1>a DEF Talks, Steps
  <2> QED BY <1>5, <2>1, MineReads DEF PressTunnel
<1>6. ASSUME NEW step \in {"r_renew_user", "r_setquota_user"}, PressMine(r, c, step) PROVE BotInv'
  <2>1. [m EXCEPT !.step = step] \in Talks
    BY <1>b DEF Steps
  <2> QED BY <1>6, <2>1, MineReads DEF PressMine
<1>7. ASSUME NEW u \in Users, MineName(r, c, u) \/ MineRenew(r, c, u) \/ MineQuota(r, c, u) PROVE BotInv'
  <2>1. \A x \in {"r_quota", "r_renew_days", "r_setquota_val"} : [m EXCEPT !.step = x, !.user = u] \in Talks
    BY <1>c DEF Steps
  <2>2. PICK to \in Talks : Onward(r, c, to) /\ UNCHANGED presses
    BY <1>7, <1>a, <2>1 DEF MineName, MineRenew, MineQuota, At
  <2> QED BY <2>2, MineReads
<1>8. CASE AskCode(r, c)
  <2>1. [m EXCEPT !.step = "r_access"] \in Talks
    BY <1>b DEF Steps
  <2> QED BY <1>8, <2>1, <1>d, MineSays DEF AskCode
<1>9. CASE RightCode(r, c)
  <2>1. [m EXCEPT !.step = "none"] \in Talks
    BY <1>b DEF Steps
  <2>2. granted' \subseteq Rids \X Chats
    BY <1>9, <1>d DEF RightCode
  <2> QED BY <1>9, <2>1, <2>2, <1>d, MineSays DEF RightCode
<1> QED BY <1>1, <1>2, <1>3, <1>4, <1>5, <1>6, <1>7, <1>8, <1>9, <1>10

-----------------------------------------------------------------------------
\* The commands.

\* A command that leaves the conversations and the table alone but for a bot
\* that comes, and after which the process has no tag it had not.
LEMMA CommandStep ==
  ASSUME BotInv, NEW p \in Procs, NEW s, todo' = [todo EXCEPT ![p] = s], Script(p, s),
         s = <<>> \/ ~Wiping(Head(s)),
         \A i \in 1..Len(s) : s[i][1] = "tag" => \E j \in 1..Len(todo[p]) : todo[p][j] = s[i],
         UNCHANGED <<granted, talk, late, presses>>, crontab' = crontab, crashes' = crashes,
         row' \in [Rids -> Rows], pending' \subseteq Rids, svc' \in [Rids -> BOOLEAN],
         acct' \in [Users -> {NoAccount} \cup Accounts],
         \A r \in Rids : (svc[r] => svc'[r]) /\ Tagged(r)' \subseteq Tagged(r)
  PROVE  BotInv'
<1>1. /\ Scripts' /\ DOMAIN todo' = Procs /\ todo'[p] = s
      /\ \A q \in Procs \ {p} : todo'[q] = todo[q]
  BY Moves DEF BotInv
<1>2. TypeOK'
  BY <1>1 DEF BotInv, TypeOK, talk
<1>3. \A q \in Procs : Calm(q)
  BY <1>1 DEF Calm, TagsLeft, Removing, Wipes, Wiping, Goes, Idle
<1> QED BY <1>1, <1>2, <1>3, CalmStep

\* What a command that changes at most the accounts leaves alone.
LEMMA TableKept ==
  ASSUME BotInv, UNCHANGED <<table, talk, late, presses, crashes>>
  PROVE  /\ UNCHANGED <<granted, talk, late, presses>> /\ crontab' = crontab /\ crashes' = crashes
         /\ row' \in [Rids -> Rows] /\ pending' \subseteq Rids /\ svc' \in [Rids -> BOOLEAN]
         /\ \A r \in Rids : svc[r] => svc'[r]
BY DEF BotInv, TypeOK, table

LEMMA CreateInv ==
  ASSUME BotInv, NEW p \in Procs, Create(p) \/ WriteMeta(p)
  PROVE  BotInv'
<1>1. PICK u \in Names, name \in {"create", "write"} :
           /\ Goes(p, name)
           /\ \/ p = "admin" /\ todo[p] = <<<<name, u>>>>
              \/ p \in Rids /\ \E n \in Limits \cup {0} :
                   todo[p] = <<<<name, u>>, <<"tag", p, u, n>>>>
  BY Creating DEF BotInv, Create, WriteMeta
<1>2. PICK rest : /\ Tail(todo[p]) = rest
                  /\ \/ p = "admin" /\ rest = <<>>
                     \/ p \in Rids /\ \E n \in Limits \cup {0} : /\ rest = <<<<"tag", p, u, n>>>>
                                                              /\ todo[p] = <<<<name, u>>, <<"tag", p, u, n>>>>
  <2>1. CASE p = "admin" /\ todo[p] = <<<<name, u>>>>
    BY <2>1, Tails
  <2>2. ASSUME p \in Rids, NEW n \in Limits \cup {0}, todo[p] = <<<<name, u>>, <<"tag", p, u, n>>>>
        PROVE  Tail(todo[p]) = <<<<"tag", p, u, n>>>>
    BY <2>2, Tails
  <2> QED BY <1>1, <2>1, <2>2
<1>3. \A i \in 1..Len(rest) : rest[i][1] = "tag" => \E j \in 1..Len(todo[p]) : todo[p][j] = rest[i]
  BY <1>2
<1>4. Script(p, <<>>) /\ Script(p, rest)
  BY <1>2, NamesAssumption DEF Script, MineScript, AdminScript, CronScript, PanelScript
<1>5. /\ UNCHANGED <<granted, talk, late, presses>> /\ crontab' = crontab /\ crashes' = crashes
      /\ row' \in [Rids -> Rows] /\ pending' \subseteq Rids /\ svc' \in [Rids -> BOOLEAN]
      /\ \A r \in Rids : svc[r] => svc'[r]
  BY TableKept DEF Create, WriteMeta
<1>6. rest = <<>> \/ ~Wiping(Head(rest))
  BY <1>2 DEF Wiping
<1>7. CASE Create(p)
  <2>1. acct' = acct /\ acct' \in [Users -> {NoAccount} \cup Accounts] /\ \A r \in Rids : Tagged(r)' = Tagged(r)
    BY <1>7 DEF Create, BotInv, TypeOK, Tagged, Here
  <2>2. name = "create" /\ Head(todo[p])[2] = u
    BY <1>1, <1>7 DEF Create, Goes
  <2>3. CASE todo' = [todo EXCEPT ![p] = <<>>]
    <3>1. \A i \in 1..Len(<<>>) : <<>>[i][1] = "tag" => \E j \in 1..Len(todo[p]) : todo[p][j] = <<>>[i]
      OBVIOUS
    <3> QED BY <1>4, <1>5, <2>1, <2>3, <3>1, CommandStep
  <2>4. CASE Then(p, <<<<"write", u>>>>)
    <3> DEFINE s == <<<<"write", u>>>> \o rest
    <3>1. todo' = [todo EXCEPT ![p] = s]
      BY <1>2, <2>4 DEF Then, BotInv, TypeOK
    <3>2. \/ p = "admin" /\ s = <<<<"write", u>>>>
          \/ p \in Rids /\ \E n \in Limits \cup {0} : s = <<<<"write", u>>, <<"tag", p, u, n>>>> /\ rest = <<<<"tag", p, u, n>>>>
      <4>1. CASE rest = <<>>
        BY <1>2, <4>1, Concats
      <4>2. ASSUME NEW n \in Limits \cup {0}, rest = <<<<"tag", p, u, n>>>>
            PROVE  s = <<<<"write", u>>, <<"tag", p, u, n>>>>
        BY <4>2, Concats
      <4> QED BY <1>2, <4>1, <4>2
    <3>3. Script(p, s)
      BY <3>2, NamesAssumption DEF Script, MineScript, AdminScript
    <3>4. ~Wiping(Head(s))
      BY <3>2 DEF Wiping
    <3>5. \A i \in 1..Len(s) : s[i][1] = "tag" => \E j \in 1..Len(todo[p]) : todo[p][j] = s[i]
      <4> SUFFICES ASSUME NEW i \in 1..Len(s), s[i][1] = "tag"
                   PROVE  1 \in 1..Len(rest) /\ rest[1] = s[i] /\ s[i][1] = "tag"
        BY <1>3
      <4> QED BY <3>2
    <3> HIDE DEF s
    <3> QED BY <1>5, <2>1, <3>1, <3>3, <3>4, <3>5, CommandStep
  <2> QED BY <1>7, <2>2, <2>3, <2>4 DEF Create
<1>8. CASE WriteMeta(p)
  <2>1. todo' = [todo EXCEPT ![p] = rest]
    <3>1. <<>> \o rest = rest
      BY <1>2, Concats
    <3> QED BY <1>2, <1>8, <3>1 DEF WriteMeta, Then, BotInv, TypeOK
  <2>2. acct' = [acct EXCEPT ![Head(todo[p])[2]] = New]
    BY <1>8 DEF WriteMeta
  <2>3. acct' \in [Users -> {NoAccount} \cup Accounts]
    BY <2>2 DEF BotInv, TypeOK, New, Accounts
  <2>4. \A r \in Rids : Tagged(r)' \subseteq Tagged(r)
    <3>1. \A v \in Users : acct'[v] = acct[v] \/ acct'[v] = New
      BY <2>2 DEF BotInv, TypeOK
    <3>2. New.owner \notin Rids
      BY NamesAssumption DEF New
    <3> QED BY <3>1, <3>2 DEF Tagged, Here
  <2> QED BY <1>3, <1>4, <1>5, <1>6, <2>1, <2>3, <2>4, CommandStep
<1> QED BY <1>7, <1>8

\* The step of a bot that puts a tag, with what WithinLimit says of it.
LEMMA TagInv ==
  ASSUME BotInv, NEW p \in Procs, Tag(p)
  PROVE  BotInv' /\ (p \in Rids => Cardinality(Tagged(p)' \ late') <= Head(todo[p])[4])
<1>1. PICK r \in Rids, u \in Names, n \in Limits \cup {0} :
         todo[p] = <<<<"tag", r, u, n>>>> /\ (p = r \/ (p = "panel" /\ p \notin Rids))
  BY Tagging, NamesAssumption DEF BotInv, Tag, Names
<1>2. /\ todo' = [todo EXCEPT ![p] = <<>>]
      /\ acct' = IF Here(u) THEN [acct EXCEPT ![u].owner = r] ELSE acct
      /\ late' = IF Pending("unserve", r) THEN late \cup {u} ELSE late
      /\ UNCHANGED <<table, talk, presses, crashes>>
  <2>1. Tail(todo[p]) = <<>> /\ Head(todo[p])[2] = r /\ Head(todo[p])[3] = u
    BY <1>1, Tails
  <2>2. <<>> \o Tail(todo[p]) = <<>>
    BY <2>1
  <2> QED BY <2>1, <2>2 DEF Tag, Then, BotInv, TypeOK
<1>3. Script(p, <<>>)
  BY DEF Script, MineScript, AdminScript, CronScript, PanelScript
<1>4. /\ Scripts' /\ DOMAIN todo' = Procs /\ todo'[p] = <<>>
      /\ \A q \in Procs \ {p} : todo'[q] = todo[q]
  BY <1>2, <1>3, Moves DEF BotInv
<1>5. ASSUME NEW v \in Users
      PROVE  /\ acct'[v] \in {NoAccount} \cup Accounts
             /\ v = u \/ acct'[v] = acct[v]
             /\ Here(v)' => acct'[v].owner = acct[v].owner \/ (v = u /\ acct'[v].owner = r)
             /\ Here(v)' => Here(v)
  BY <1>2 DEF BotInv, TypeOK, Here, Accounts
<1>6. acct' \in [Users -> {NoAccount} \cup Accounts]
  BY <1>2, <1>5 DEF BotInv, TypeOK
<1>7. TypeOK'
  BY <1>1, <1>2, <1>4, <1>6 DEF BotInv, TypeOK, table, talk, Names
<1>8. \A q \in Rids : Tagged(q)' \subseteq Tagged(q) \/ (q = r /\ Tagged(q)' \subseteq Tagged(q) \cup ({u} \cap Users))
  BY <1>5 DEF Tagged
<1>9. \A q \in Procs : TagsLeft(q)
  BY <1>4 DEF TagsLeft
<1>10. \A x \in Procs : \A q, v : TagIn(todo[x], q, v)' => TagIn(todo[x], q, v)
  BY <1>9 DEF TagsLeft, TagIn
<1>11. ASSUME NEW q \in Rids
       PROVE  Untagged(q)' \subseteq Untagged(q) /\ Renewing(q)' \subseteq Renewing(q)
  <2>1. Untagged(q) = {v \in Users : \E x \in Procs : TagIn(todo[x], q, v)}
    BY DEF Untagged, TagIn
  <2>2. Untagged(q)' = {v \in Users : \E x \in Procs : TagIn(todo[x], q, v)'}
    BY DEF Untagged, TagIn
  <2>3. "panel" \in Procs
    BY DEF Procs
  <2> QED BY <1>10, <2>1, <2>2, <2>3 DEF Renewing
<1>12. TagIn(todo[p], r, u)
  BY <1>1 DEF TagIn
<1>13. Gone'
  <2>1. svc' = svc /\ late \subseteq late'
    BY <1>2 DEF table
  <2>2. {u} \cap Users \subseteq Untagged(r)
    BY <1>12 DEF Untagged, TagIn
  <2> QED BY <1>8, <1>11, <2>1, <2>2 DEF BotInv, Gone
<1>14. Swept'
  <2>1. \A q \in Rids : Pending("unserve", q) => Tagged(q)' \subseteq Tagged(q) \cup late'
    BY <1>2, <1>8
  <2>2. p \notin {"admin", "cron"} /\ {"admin", "cron"} \subseteq Procs
    BY <1>1, NamesAssumption DEF Procs
  <2>3. todo'["admin"] = todo["admin"] /\ todo'["cron"] = todo["cron"] /\ late \subseteq late'
    BY <1>2, <1>4, <2>2
  <2> QED BY <2>1, <2>3, SweptKept DEF Swept
<1>15. Room'
  <2> SUFFICES ASSUME NEW q \in Rids, NEW i \in 1..Len(todo'[q]), todo'[q][i][1] = "tag"
               PROVE  Cardinality(Crowd(q)' \ {todo'[q][i][3]}) < todo'[q][i][4]
    BY DEF Room
  <2>1. q # p
    BY <1>4
  <2>2. todo'[q] = todo[q]
    BY <1>4, <2>1 DEF Procs
  <2>3. Tagged(q)' \subseteq Tagged(q) \cup Renewing(q)
    <3>1. CASE Tagged(q)' \subseteq Tagged(q)
      BY <3>1
    <3>2. CASE q = r /\ Tagged(q)' \subseteq Tagged(q) \cup ({u} \cap Users)
      <4>1. p = "panel"
        BY <1>1, <2>1, <3>2
      <4>2. {u} \cap Users \subseteq Renewing(q)
        BY <1>12, <3>2, <4>1 DEF Renewing
      <4> QED BY <3>2, <4>2
    <3> QED BY <1>8, <3>1, <3>2
  <2>4. Crowd(q)' \subseteq Crowd(q)
    BY <1>2, <1>11, <2>3 DEF Crowd
  <2> QED BY <2>2, <2>4, RoomKept
<1>16. ASSUME p \in Rids
       PROVE  Cardinality(Tagged(p)' \ late') <= Head(todo[p])[4]
  <2>1. p = r
    BY <1>1, <1>16
  <2> DEFINE old == Crowd(r) \ {u}
             new == Tagged(p)' \ late'
  <2>2. Cardinality(old) < n
    <3>1. 1 \in 1..Len(todo[r]) /\ todo[r][1][1] = "tag" /\ todo[r][1][3] = u /\ todo[r][1][4] = n
      <4>1. todo[r] = <<<<"tag", r, u, n>>>>
        BY <1>1, <2>1
      <4> HIDE DEF old, new
      <4> QED BY <4>1
    <3> QED BY <3>1 DEF BotInv, Room
  <2>3. new \subseteq old \cup {u}
    BY <1>2, <1>8, <2>1 DEF Crowd
  <2>4. IsFiniteSet(old) /\ u \notin old
    BY CrowdFinite, FS_Subset
  <2>5. IsFiniteSet(old \cup {u}) /\ Cardinality(old \cup {u}) = Cardinality(old) + 1
    BY <2>4, FS_AddElement
  <2>6. Cardinality(new) <= Cardinality(old \cup {u}) /\ IsFiniteSet(new)
    BY <2>3, <2>5, FS_Subset
  <2>7. Cardinality(new) \in Nat /\ Cardinality(old) \in Nat /\ n \in Nat
    BY <2>4, <2>6, FS_CardinalityType, MaxNat
  <2>8. Head(todo[p])[4] = n
    BY <1>1
  <2> HIDE DEF old, new
  <2>9. Cardinality(new) <= n
    BY <2>2, <2>5, <2>6, <2>7
  <2> QED BY <2>8, <2>9 DEF new
<1> QED BY <1>4, <1>7, <1>13, <1>14, <1>15, <1>16 DEF BotInv

\* The accounts chosen, one by one.
ListScript(p, s) ==
  LET who == IF p = "admin" THEN Admin ELSE p
      Mine == IF p = "admin" THEN Names ELSE Users
  IN \/ s = <<>>
     \/ \E S \in SUBSET Mine :
          \/ s = <<<<"delete", who, S>>>> \/ s = <<<<"change", who, S>>>>
          \/ \E u \in Mine : s = <<<<"remove", who, S, u, "delete">>>>

LEMMA ListStep ==
  ASSUME BotInv, NEW p \in Rids \cup {"admin"}, NEW s, todo' = [todo EXCEPT ![p] = s], ListScript(p, s),
         UNCHANGED <<table, talk, late, presses, crashes>>,
         acct' \in [Users -> {NoAccount} \cup Accounts],
         \A r \in Rids : Tagged(r)' \subseteq Tagged(r)
  PROVE  BotInv'
<1>1. p \in Procs /\ (p = "admin" => p \notin Rids)
  BY NamesAssumption DEF Procs
<1>2. Script(p, s)
  <2>1. CASE p = "admin"
    <3>1. AdminScript(s)
      BY <2>1 DEF ListScript, AdminScript
    <3> QED BY <1>1, <2>1, <3>1 DEF Script
  <2>2. CASE p \in Rids /\ p # "admin"
    <3>1. MineScript(p, s)
      BY <2>2 DEF ListScript, MineScript
    <3> QED BY <2>2, <3>1, NamesAssumption DEF Script
  <2> QED BY <2>1, <2>2
<1>3. (s = <<>> \/ ~Wiping(Head(s))) /\ \A i \in 1..Len(s) : s[i][1] # "tag"
  BY DEF ListScript, Wiping
<1> QED BY <1>1, <1>2, <1>3, TableKept, CommandStep

LEMMA DeleteInv ==
  ASSUME BotInv, NEW p \in Procs, Delete(p) \/ Change(p) \/ (Remove(p) /\ ~Wipes(p))
  PROVE  BotInv'
<1> DEFINE who == IF p = "admin" THEN Admin ELSE p
           Mine == IF p = "admin" THEN Names ELSE Users
<1>0. UNCHANGED <<table, talk, late, presses, crashes>> /\ acct \in [Users -> {NoAccount} \cup Accounts]
  BY DEF Delete, Change, Remove, BotInv, TypeOK
<1>1. ASSUME NEW name \in {"delete", "change"}, Goes(p, name)
      PROVE  /\ p \in Rids \cup {"admin"}
             /\ \E S \in SUBSET Mine : /\ todo[p] = <<<<name, who, S>>>> /\ Tail(todo[p]) = <<>>
                                       /\ Head(todo[p])[2] = who /\ Head(todo[p])[3] = S
  <2>1. PICK S \in SUBSET Names :
           \/ p = "admin" /\ todo[p] = <<<<name, Admin, S>>>>
           \/ p \in Rids /\ S \subseteq Users /\ todo[p] = <<<<name, p, S>>>>
    BY <1>1, Deleting DEF BotInv
  <2>2. p \in Rids \cup {"admin"} /\ S \in SUBSET Mine /\ todo[p] = <<<<name, who, S>>>>
    BY <2>1, NamesAssumption
  <2>3. Tail(todo[p]) = <<>> /\ Head(todo[p])[2] = who /\ Head(todo[p])[3] = S
    BY <2>2, Tails
  <2> QED BY <2>2, <2>3
<1>2. CASE Delete(p)
  <2>1. Goes(p, "delete") /\ acct' = acct
    BY <1>2 DEF Delete
  <2>2. PICK S \in SUBSET Mine : /\ todo[p] = <<<<"delete", who, S>>>> /\ Tail(todo[p]) = <<>>
                                /\ Head(todo[p])[2] = who /\ Head(todo[p])[3] = S
    BY <1>1, <2>1
  <2>3. \/ Then(p, <<>>)
        \/ \E u \in S : \/ Then(p, <<<<"remove", who, S \ {u}, u, "delete">>>>)
                       \/ Then(p, <<<<"delete", who, S \ {u}>>>>)
    <3> HIDE DEF who, Mine
    <3> QED BY <1>2, <2>2 DEF Delete
  <2>4. PICK s : todo' = [todo EXCEPT ![p] = s] /\ ListScript(p, s)
    <3>1. CASE Then(p, <<>>)
      BY <2>2, <3>1, Concats DEF Then, ListScript, BotInv, TypeOK
    <3>2. ASSUME NEW u \in S, Then(p, <<<<"remove", who, S \ {u}, u, "delete">>>>)
          PROVE  \E s : todo' = [todo EXCEPT ![p] = s] /\ ListScript(p, s)
      <4> DEFINE s == <<<<"remove", who, S \ {u}, u, "delete">>>>
      <4>1. ListScript(p, s)
        BY <2>2 DEF ListScript
      <4>2. s \o <<>> = s
        BY Concats
      <4> HIDE DEF s
      <4>3. todo' = [todo EXCEPT ![p] = s]
        BY <2>2, <3>2, <4>2 DEF Then, BotInv, TypeOK, s
      <4> QED BY <4>1, <4>3
    <3>3. ASSUME NEW u \in S, Then(p, <<<<"delete", who, S \ {u}>>>>)
          PROVE  \E s : todo' = [todo EXCEPT ![p] = s] /\ ListScript(p, s)
      <4> DEFINE s == <<<<"delete", who, S \ {u}>>>>
      <4>1. ListScript(p, s)
        BY <2>2 DEF ListScript
      <4>2. s \o <<>> = s
        BY Concats
      <4> HIDE DEF s
      <4>3. todo' = [todo EXCEPT ![p] = s]
        BY <2>2, <3>3, <4>2 DEF Then, BotInv, TypeOK, s
      <4> QED BY <4>1, <4>3
    <3> QED BY <2>3, <3>1, <3>2, <3>3
  <2>5. \A r \in Rids : Tagged(r)' = Tagged(r)
    BY <2>1 DEF Tagged, Here
  <2> QED BY <1>0, <1>1, <2>1, <2>4, <2>5, ListStep
<1>3. CASE Change(p)
  <2>1. Goes(p, "change")
    BY <1>3 DEF Change
  <2>2. PICK S \in SUBSET Mine : /\ todo[p] = <<<<"change", who, S>>>> /\ Tail(todo[p]) = <<>>
                                /\ Head(todo[p])[2] = who /\ Head(todo[p])[3] = S
    BY <1>1, <2>1
  <2>3. PICK u \in S : Then(p, IF S = {u} THEN <<>> ELSE <<<<"change", who, S \ {u}>>>>)
    BY <1>3, <2>2 DEF Change
  <2>4. PICK s : todo' = [todo EXCEPT ![p] = s] /\ ListScript(p, s)
    <3> DEFINE s == IF S = {u} THEN <<>> ELSE <<<<"change", who, S \ {u}>>>>
    <3>1. ListScript(p, s)
      BY <2>2 DEF ListScript
    <3>2. s \o <<>> = s
      BY Concats
    <3> HIDE DEF s
    <3>3. todo' = [todo EXCEPT ![p] = s]
      BY <2>2, <2>3, <3>2 DEF Then, BotInv, TypeOK, s
    <3> QED BY <3>1, <3>3
  <2>5. who \in Rids \cup {Admin}
    BY <1>1, <2>1
  <2>6. ASSUME NEW v \in Users
        PROVE  /\ acct'[v] \in {NoAccount} \cup Accounts
               /\ Here(v)' => Here(v) /\ acct'[v].owner = acct[v].owner
    BY <1>0, <1>3, <2>2, <2>5 DEF Change, Here, Accounts
  <2>7. acct' \in [Users -> {NoAccount} \cup Accounts] /\ \A r \in Rids : Tagged(r)' \subseteq Tagged(r)
    <3>1. DOMAIN acct' = Users /\ acct' = [v \in Users |-> acct'[v]]
      BY <1>0, <1>3 DEF Change
    <3> QED BY <2>6, <3>1 DEF Tagged
  <2> QED BY <1>0, <1>1, <2>1, <2>4, <2>7, ListStep
<1>4. CASE Remove(p) /\ ~Wipes(p)
  <2>1. PICK S \in SUBSET Names, u \in Names :
           \/ p = "admin" /\ todo[p] = <<<<"remove", Admin, S, u, "delete">>>>
           \/ p \in Rids /\ S \subseteq Users /\ todo[p] = <<<<"remove", p, S, u, "delete">>>>
    BY <1>4, RemovingOne DEF BotInv, Remove
  <2>2. p \in Rids \cup {"admin"} /\ S \in SUBSET Mine /\ todo[p] = <<<<"remove", who, S, u, "delete">>>>
    BY <2>1, NamesAssumption
  <2>3. /\ Tail(todo[p]) = <<>> /\ Head(todo[p])[2] = who /\ Head(todo[p])[3] = S
        /\ Head(todo[p])[4] = u /\ Head(todo[p])[5] = "delete"
    BY <2>2, Tails
  <2> DEFINE s == <<<<"delete", who, S>>>>
  <2>4. ListScript(p, s)
    BY <2>2 DEF ListScript
  <2>5. todo' = [todo EXCEPT ![p] = s]
    <3>1. s \o <<>> = s
      BY Concats
    <3>2. Then(p, s)
      BY <1>4, <2>3 DEF Remove
    <3> HIDE DEF s
    <3> QED BY <2>3, <3>1, <3>2 DEF Then
  <2>6. acct' = [acct EXCEPT ![u] = NoAccount]
    BY <1>4, <2>3 DEF Remove
  <2>7. acct' \in [Users -> {NoAccount} \cup Accounts] /\ \A r \in Rids : Tagged(r)' \subseteq Tagged(r)
    BY <1>0, <2>6 DEF Tagged, Here
  <2> HIDE DEF s
  <2> QED BY <1>0, <2>2, <2>4, <2>5, <2>7, ListStep
<1> QED BY <1>2, <1>3, <1>4

\* A removal that looks for the accounts, and what is left of it.
LEMMA RemovalTail ==
  ASSUME Scripts, NEW p \in Procs, Goes(p, "purge") \/ Goes(p, "sweep") \/ Wipes(p),
         NEW T \in SUBSET Users, NEW y,
         \/ y = <<"sweep", Head(todo[p])[2], T>>
         \/ \E u \in Users : y = <<"remove", Head(todo[p])[2], T, u, "sweep">>
  PROVE  LET r == Head(todo[p])[2]
             t == Tail(todo[p])
             s == <<y>> \o t
         IN /\ p \in {"admin", "cron"} /\ r \in Rids
            /\ Script(p, t) /\ t # <<>> /\ Head(t) = <<"unserve", r>> /\ <<>> \o t = t
            /\ \A i \in 1..Len(t) : t[i][1] # "tag"
            /\ Script(p, s) /\ s # <<>> /\ Head(s) = y
            /\ \A i \in 1..Len(s) : s[i][1] # "tag"
<1>x. PICK x : x = Head(todo[p])
  OBVIOUS
<1> DEFINE r == x[2]
           t == Tail(todo[p])
           s == <<y>> \o t
<1>0. y = <<"sweep", r, T>> \/ \E u \in Users : y = <<"remove", r, T, u, "sweep">>
  BY <1>x
<1>1. PICK q \in Rids : Removes(p, q)
  <2>1. Goes(p, "purge") \/ Removing(p)
    BY DEF Removing
  <2> HIDE DEF r, t, s
  <2> QED BY <2>1, RemovingScript
<1>2. todo[p] # <<>> /\ x[1] \in {"purge", "sweep", "remove"} /\ y[1] # "tag"
  BY <1>x DEF Goes, Wipes, Idle
<1>3. CASE p = "admin"
  <2>1. todo[p] = <<x, <<"unserve", q>>, <<"drop", q>>>> /\ r = q
    BY <1>x, <1>1, <1>2, <1>3 DEF AdminRemoves, Removes
  <2>2. t = <<<<"unserve", q>>, <<"drop", q>>>> /\ <<>> \o t = t
    <3>1. t = <<<<"unserve", q>>, <<"drop", q>>>>
      BY <2>1, Tails
    <3> QED BY <3>1, Concats
  <2>3. s = <<y, <<"unserve", q>>, <<"drop", q>>>>
    <3>1. <<y>> \o <<<<"unserve", q>>, <<"drop", q>>>> = <<y, <<"unserve", q>>, <<"drop", q>>>>
      BY Concats
    <3> QED BY <2>1, <2>2, <3>1
  <2> HIDE DEF s, t, r
  <2>4. Script(p, t) /\ Script(p, s)
    <3>1. AdminScript(t)
      BY <2>2 DEF AdminScript
    <3>2. AdminScript(s)
      BY <1>0, <2>1, <2>3 DEF AdminScript
    <3> QED BY <1>3, <3>1, <3>2, NamesAssumption DEF Script
  <2>5. t # <<>> /\ Head(t) = <<"unserve", q>> /\ \A i \in 1..Len(t) : t[i][1] # "tag"
    BY <2>2
  <2>6. s # <<>> /\ Head(s) = y /\ \A i \in 1..Len(s) : s[i][1] # "tag"
    BY <1>2, <2>3
  <2> QED BY <1>3, <2>1, <2>2, <2>4, <2>5, <2>6 DEF s, t, r
<1>4. CASE p = "cron"
  <2>1. PICK C \in SUBSET Rids : todo[p] = <<x, <<"unserve", q>>, <<"off", q>>, <<"clean", C>>>> /\ r = q
    <3>1. PICK C \in SUBSET Rids : CronRemoves(todo[p], q, C)
      BY <1>1, <1>4 DEF Removes
    <3>2. todo[p] = <<x, <<"unserve", q>>, <<"off", q>>, <<"clean", C>>>> /\ r = q
      BY <1>x, <1>2, <3>1 DEF CronRemoves
    <3> QED BY <3>2
  <2>2. t = <<<<"unserve", q>>, <<"off", q>>, <<"clean", C>>>> /\ <<>> \o t = t
    <3>1. t = <<<<"unserve", q>>, <<"off", q>>, <<"clean", C>>>>
      BY <2>1, Tails
    <3> QED BY <3>1, Concats
  <2>3. s = <<y, <<"unserve", q>>, <<"off", q>>, <<"clean", C>>>>
    <3>1. <<y>> \o <<<<"unserve", q>>, <<"off", q>>, <<"clean", C>>>> = <<y, <<"unserve", q>>, <<"off", q>>, <<"clean", C>>>>
      BY Concats
    <3> QED BY <2>1, <2>2, <3>1
  <2> HIDE DEF s, t, r
  <2>4. Script(p, t) /\ Script(p, s)
    <3>1. CronScript(t)
      BY <2>2 DEF CronScript
    <3>2. CronScript(s)
      BY <1>0, <2>1, <2>3 DEF CronScript
    <3> QED BY <1>4, <3>1, <3>2, NamesAssumption DEF Script
  <2>5. t # <<>> /\ Head(t) = <<"unserve", q>> /\ \A i \in 1..Len(t) : t[i][1] # "tag"
    BY <2>2
  <2>6. s # <<>> /\ Head(s) = y /\ \A i \in 1..Len(s) : s[i][1] # "tag"
    BY <1>2, <2>3
  <2> QED BY <1>4, <2>1, <2>2, <2>4, <2>5, <2>6 DEF s, t, r
<1> QED BY <1>1, <1>3, <1>4 DEF Removes

\* A removal goes on: what it has swept is its own matter, and no tag comes.
LEMMA RemovalStep ==
  ASSUME BotInv, NEW p \in {"admin", "cron"}, NEW s, todo' = [todo EXCEPT ![p] = s], Script(p, s),
         \A i \in 1..Len(s) : s[i][1] # "tag",
         UNCHANGED <<table, talk, late, presses, crashes>>,
         acct' \in [Users -> {NoAccount} \cup Accounts],
         \A r \in Rids : Tagged(r)' \subseteq Tagged(r), SweptBy(p)'
  PROVE  BotInv'
<1>1. p \in Procs /\ "admin" \in Procs /\ "cron" \in Procs
  BY DEF Procs
<1>2. /\ Scripts' /\ DOMAIN todo' = Procs /\ todo'[p] = s
      /\ \A q \in Procs \ {p} : todo'[q] = todo[q]
  BY <1>1, Moves DEF BotInv
<1>3. /\ UNCHANGED <<granted, talk, late, presses>> /\ crontab' = crontab /\ crashes' = crashes
      /\ row' \in [Rids -> Rows] /\ pending' \subseteq Rids /\ svc' \in [Rids -> BOOLEAN]
      /\ \A r \in Rids : svc[r] => svc'[r]
  BY TableKept
<1>4. TypeOK'
  BY <1>2, <1>3 DEF BotInv, TypeOK, talk
<1>5. \A q \in Procs : TagsLeft(q)
  BY <1>2 DEF TagsLeft
<1>6. ASSUME NEW q \in {"admin", "cron"}
      PROVE  SweptBy(q)'
  <2>1. CASE q = p
    BY <2>1
  <2>2. CASE q # p
    <3>1. todo'[q] = todo[q] /\ late \subseteq late'
      BY <1>1, <1>2, <1>3, <2>2
    <3> QED BY <3>1, SweptKept
  <2> QED BY <2>1, <2>2
<1>7. Swept'
  BY <1>6 DEF Swept
<1> QED BY <1>2, <1>3, <1>4, <1>5, <1>7, LeftStep

\* The list of a sweep has every account; what is taken off it goes.
LEMMA SweepInv ==
  ASSUME BotInv, NEW p \in Procs, Purge(p) \/ Sweep(p) \/ (Remove(p) /\ Wipes(p))
  PROVE  BotInv'
<1>r. PICK r : r = Head(todo[p])[2]
  OBVIOUS
<1> DEFINE t == Tail(todo[p])
           s(y) == <<y>> \o t
<1>1. UNCHANGED <<table, talk, late, presses, crashes>> /\ acct \in [Users -> {NoAccount} \cup Accounts]
  BY DEF Purge, Sweep, Remove, BotInv, TypeOK
<1>2. PICK q \in Rids : Removes(p, q)
  BY RemovingScript DEF Purge, Sweep, Removing, BotInv
<1>3. p \in {"admin", "cron"} /\ r \in Rids /\ r = q
  <2>1. Head(todo[p])[2] = q
    BY <1>2 DEF Removes, AdminRemoves, CronRemoves
  <2> QED BY <1>r, <1>2, <2>1 DEF Removes
<1>4. ASSUME NEW T \in SUBSET Users, NEW y, Then(p, <<y>>),
             acct' \in [Users -> {NoAccount} \cup Accounts],
             \A x \in Rids : Tagged(x)' \subseteq Tagged(x),
             \/ y = <<"sweep", r, T>> /\ Tagged(r)' \subseteq late \cup T
             \/ \E u \in Users : /\ y = <<"remove", r, T, u, "sweep">>
                              /\ Tagged(r)' \subseteq late \cup T \cup {u}
      PROVE  BotInv'
  <2>1. /\ Script(p, s(y)) /\ s(y) # <<>> /\ Head(s(y)) = y
        /\ \A i \in 1..Len(s(y)) : s(y)[i][1] # "tag"
    <3>1. Goes(p, "purge") \/ Goes(p, "sweep") \/ Wipes(p)
      BY DEF Purge, Sweep
    <3>2. \/ y = <<"sweep", Head(todo[p])[2], T>>
          \/ \E u \in Users : y = <<"remove", Head(todo[p])[2], T, u, "sweep">>
      BY <1>r, <1>4
    <3>3. Scripts
      BY DEF BotInv
    <3> HIDE DEF t
    <3> QED BY <1>r, <1>4, <3>1, <3>2, <3>3, RemovalTail DEF t
  <2>2. todo' = [todo EXCEPT ![p] = s(y)]
    BY <1>4 DEF Then, BotInv, TypeOK
  <2>3. todo'[p] = s(y)
    BY <2>2 DEF BotInv, TypeOK
  <2> HIDE DEF s
  <2>4. SweptBy(p)'
    BY <1>1, <1>4, <2>1, <2>3 DEF SweptBy, Wipes, Goes
  <2> QED BY <1>1, <1>3, <1>4, <2>1, <2>2, <2>4, RemovalStep
<1>5. acct' = acct => acct' \in [Users -> {NoAccount} \cup Accounts] /\ \A x \in Rids : Tagged(x)' = Tagged(x)
  BY <1>1 DEF Tagged, Here
<1>6. CASE Purge(p)
  <2> DEFINE T == {u \in Users : Here(u)}
             y == <<"sweep", r, T>>
  <2>1. Then(p, <<y>>) /\ acct' = acct
    BY <1>6, <1>r DEF Purge
  <2>2. Tagged(r)' \subseteq T
    BY <2>1 DEF Tagged, Here
  <2> QED BY <1>1, <1>4, <1>5, <2>1, <2>2
<1>7. CASE Sweep(p)
  <2> DEFINE S == Head(todo[p])[3]
  <2>1. S \in SUBSET Users /\ Goes(p, "sweep")
    <3>1. todo[p] # <<>> /\ Head(todo[p])[1] = "sweep"
      BY <1>7 DEF Sweep, Goes, Idle
    <3> QED BY <1>2, <1>7, <3>1 DEF Sweep, AdminRemoves, CronRemoves, Removes
  <2>2. Tagged(r) \subseteq late \cup S
    BY <1>3, <1>r, <2>1 DEF BotInv, Swept, SweptBy
  <2>a. acct' = acct
    BY <1>7 DEF Sweep
  <2>3. CASE Then(p, <<>>) /\ S = {}
    <3> DEFINE y == <<"sweep", r, {}>>
    <3>0. y = <<"sweep", Head(todo[p])[2], {}>> /\ {} \in SUBSET Users
      BY <1>r
    <3> HIDE DEF y
    <3>1. /\ Script(p, t) /\ t # <<>> /\ Head(t) = <<"unserve", r>> /\ <<>> \o t = t
          /\ \A i \in 1..Len(t) : t[i][1] # "tag"
      BY <1>r, <2>1, <3>0, RemovalTail DEF BotInv
    <3>3. todo' = [todo EXCEPT ![p] = t] /\ todo'[p] = t
      BY <2>3, <3>1 DEF Then, BotInv, TypeOK
    <3>5. Tagged(r)' \subseteq late'
      BY <1>1, <1>3, <1>5, <2>2, <2>3, <2>a
    <3> HIDE DEF t
    <3>6. SweptBy(p)'
      BY <1>1, <3>1, <3>3, <3>5 DEF SweptBy, Wipes, Goes
    <3> QED BY <1>1, <1>3, <1>5, <2>a, <3>1, <3>3, <3>6, RemovalStep
  <2>4. ASSUME NEW u \in S,
               \/ u \in Tagged(r) /\ Then(p, <<<<"remove", r, S \ {u}, u, "sweep">>>>)
               \/ u \notin Tagged(r) /\ Then(p, <<<<"sweep", r, S \ {u}>>>>)
        PROVE  BotInv'
    <3>1. u \in Users /\ S \ {u} \in SUBSET Users
      BY <2>1
    <3>2. u \notin Tagged(r) => Tagged(r)' \subseteq late \cup (S \ {u})
      BY <1>3, <1>5, <2>2, <2>a
    <3>3. Tagged(r)' \subseteq late \cup (S \ {u}) \cup {u}
      BY <1>3, <1>5, <2>2, <2>a
    <3> QED BY <1>4, <1>5, <2>4, <2>a, <3>1, <3>2, <3>3
  <2> QED BY <1>7, <1>r, <2>3, <2>4 DEF Sweep
<1>8. CASE Remove(p) /\ Wipes(p)
  <2>1. PICK S \in SUBSET Users, u \in Users : Head(todo[p]) = <<"remove", r, S, u, "sweep">>
    <3>1. todo[p] # <<>> /\ Head(todo[p])[1] = "remove"
      BY <1>8 DEF Remove, Goes, Idle
    <3> QED BY <1>2, <1>3, <3>1 DEF AdminRemoves, CronRemoves, Removes
  <2> DEFINE y == <<"sweep", r, S>>
  <2>a. Head(todo[p])[2] = r /\ Head(todo[p])[3] = S /\ Head(todo[p])[4] = u /\ Head(todo[p])[5] = "sweep"
    BY <2>1
  <2>2. Then(p, <<y>>) /\ acct' = [acct EXCEPT ![u] = NoAccount]
    BY <1>8, <2>a DEF Remove
  <2>3. Tagged(r) \subseteq late \cup S \cup {u}
    BY <1>3, <1>8, <2>1 DEF BotInv, Swept, SweptBy
  <2>4. /\ acct' \in [Users -> {NoAccount} \cup Accounts]
        /\ \A x \in Rids : Tagged(x)' \subseteq Tagged(x) \ {u}
    BY <1>1, <2>2 DEF Tagged, Here
  <2>5. Tagged(r)' \subseteq late \cup S
    BY <1>3, <2>3, <2>4
  <2> QED BY <1>4, <2>2, <2>4, <2>5
<1> QED BY <1>6, <1>7, <1>8

LEMMA ServeInv ==
  ASSUME BotInv, NEW p \in Procs, Serve(p) \/ Drop(p)
  PROVE  BotInv'
<1>1. PICK r \in Rids : p = "admin" /\ (todo[p] = <<<<"serve", r>>>> \/ todo[p] = <<<<"drop", r>>>>)
  BY ServingScript DEF BotInv, Serve, Drop
<1>2. Tail(todo[p]) = <<>> /\ Head(todo[p])[2] = r
  <2>1. CASE todo[p] = <<<<"serve", r>>>>
    BY <2>1, Tails
  <2>2. CASE todo[p] = <<<<"drop", r>>>>
    BY <2>2, Tails
  <2> QED BY <1>1, <2>1, <2>2
<1>3. todo' = [todo EXCEPT ![p] = <<>>]
  BY <1>2, Concats DEF Serve, Drop, Then, BotInv, TypeOK
<1>4. Script(p, <<>>)
  BY DEF Script, MineScript, AdminScript, CronScript, PanelScript
<1>5. /\ UNCHANGED <<acct, granted, talk, late, presses>> /\ crontab' = crontab /\ crashes' = crashes
      /\ pending' = pending
  BY DEF Serve, Drop
<1>6. row' \in [Rids -> Rows]
  BY TableTypes DEF Serve, Drop, BotInv, TypeOK
<1>7. svc' \in [Rids -> BOOLEAN] /\ \A q \in Rids : svc[q] => svc'[q]
  BY <1>2 DEF Serve, Drop, BotInv, TypeOK
<1>8. acct' \in [Users -> {NoAccount} \cup Accounts] /\ pending' \subseteq Rids
  BY <1>5 DEF BotInv, TypeOK
<1>9. \A q \in Rids : Tagged(q)' = Tagged(q)
  BY <1>5 DEF Tagged, Here
<1>10. \A i \in 1..Len(<<>>) : <<>>[i][1] = "tag" => \E j \in 1..Len(todo[p]) : todo[p][j] = <<>>[i]
  OBVIOUS
<1>11. UNCHANGED <<granted, talk, late, presses>>
  BY <1>5
<1> QED BY <1>3, <1>4, <1>5, <1>6, <1>7, <1>8, <1>9, <1>10, <1>11, CommandStep

\* The bot goes, and what it was about to tag is late.
LEMMA UnserveInv ==
  ASSUME BotInv, NEW p \in Procs, Unserve(p)
  PROVE  BotInv'
<1>r. PICK r : r = Head(todo[p])[2]
  OBVIOUS
<1>t. PICK t : t = Tail(todo[p])
  OBVIOUS
<1>1. todo[p] # <<>> /\ Head(todo[p])[1] = "unserve" /\ Removing(p)
  BY DEF Unserve, Goes, Idle, Removing, Wipes
<1>2. r \in Rids /\ p \in {"admin", "cron"} /\ Script(p, t)
      /\ (t = <<>> \/ ~Wiping(Head(t))) /\ \A i \in 1..Len(t) : t[i][1] # "tag"
  <2>1. PICK q \in Rids : Removes(p, q)
    BY <1>1, RemovingScript DEF BotInv
  <2>2. CASE p = "admin"
    <3>1. todo[p] = <<<<"unserve", q>>, <<"drop", q>>>>
      BY <1>1, <2>1, <2>2 DEF AdminRemoves, Removes
    <3>2. r = q /\ t = <<<<"drop", q>>>>
      BY <1>r, <1>t, <3>1, Tails
    <3>3. AdminScript(t)
      BY <3>2 DEF AdminScript
    <3> QED BY <2>2, <3>2, <3>3, NamesAssumption DEF Script, Wiping
  <2>3. CASE p = "cron"
    <3>1. PICK C \in SUBSET Rids : CronRemoves(todo[p], q, C)
      BY <2>1, <2>3 DEF Removes
    <3>2. todo[p] = <<<<"unserve", q>>, <<"off", q>>, <<"clean", C>>>>
      BY <1>1, <3>1 DEF CronRemoves
    <3>3. r = q /\ t = <<<<"off", q>>, <<"clean", C>>>>
      BY <1>r, <1>t, <3>2, Tails
    <3>4. CronScript(t)
      BY <3>3 DEF CronScript
    <3>5. Script(p, t)
      BY <2>3, <3>4, NamesAssumption DEF Script
    <3> QED BY <2>3, <3>3, <3>5 DEF Wiping
  <2> QED BY <2>1, <2>2, <2>3 DEF Removes
<1>3. /\ svc' = [svc EXCEPT ![r] = FALSE] /\ late' = late \cup Untagged(r)
      /\ chat' = [chat EXCEPT ![r] = [c \in Chats |-> Quiet]]
      /\ todo' = [todo EXCEPT ![p] = t, ![r] = <<>>]
      /\ UNCHANGED <<row, pending, acct, granted, crontab, adm, presses, crashes>>
  BY <1>r, <1>t DEF Unserve, BotInv, TypeOK
<1>4. p # r /\ r \in Procs /\ "admin" \in Procs /\ "cron" \in Procs /\ "panel" \in Procs
  BY <1>2, NamesAssumption DEF Procs
<1>5. /\ DOMAIN todo' = Procs /\ todo'[p] = t /\ todo'[r] = <<>>
      /\ \A q \in Procs \ {p, r} : todo'[q] = todo[q]
  BY <1>3, <1>4 DEF BotInv, TypeOK
<1>6. Scripts'
  <2>1. Script(r, <<>>)
    BY DEF Script, MineScript, AdminScript, CronScript, PanelScript
  <2> QED BY <1>2, <1>5, <2>1 DEF BotInv, Scripts
<1>7. \A q \in Rids : Tagged(q)' = Tagged(q) /\ Untagged(q) \subseteq Users
  BY <1>3 DEF Tagged, Here, Untagged
<1>8. TypeOK'
  BY <1>2, <1>3, <1>5, <1>7, TalkTypes DEF BotInv, TypeOK, Names
<1>9. \A q \in Procs : TagsLeft(q)
  BY <1>2, <1>5 DEF TagsLeft
<1>10. ASSUME NEW q \in Rids
       PROVE  Untagged(q)' \subseteq Untagged(q) /\ Renewing(q)' \subseteq Renewing(q)
  <2>1. \A x \in Procs : \A v : TagIn(todo[x], q, v)' => TagIn(todo[x], q, v)
    BY <1>9 DEF TagsLeft, TagIn
  <2>2. Untagged(q) = {v \in Users : \E x \in Procs : TagIn(todo[x], q, v)}
    BY DEF Untagged, TagIn
  <2>3. Untagged(q)' = {v \in Users : \E x \in Procs : TagIn(todo[x], q, v)'}
    BY DEF Untagged, TagIn
  <2> QED BY <1>4, <2>1, <2>2, <2>3 DEF Renewing
<1>11. Gone'
  <2>1. SweptBy(p) /\ Goes(p, "unserve")
    BY <1>2 DEF BotInv, Swept, Unserve
  <2>2. Tagged(r) \subseteq late
    BY <1>r, <2>1 DEF SweptBy
  <2>3. \A q \in Rids \ {r} : svc'[q] = svc[q]
    BY <1>3 DEF BotInv, TypeOK
  <2> QED BY <1>2, <1>3, <1>7, <1>10, <2>2, <2>3 DEF BotInv, Gone
<1>12. ASSUME NEW q \in {"admin", "cron"}
       PROVE  SweptBy(q)'
  <2>1. CASE q = p
    BY <1>2, <1>5, <2>1 DEF SweptBy, Wipes, Wiping, Goes, Idle
  <2>2. CASE q # p
    <3>1. todo'[q] = todo[q] /\ late \subseteq late'
      BY <1>2, <1>3, <1>4, <1>5, <2>2, NamesAssumption
    <3> QED BY <1>7, <3>1, SweptKept
  <2> QED BY <2>1, <2>2
<1>13. Room'
  <2> SUFFICES ASSUME NEW q \in Rids, NEW i \in 1..Len(todo'[q]), todo'[q][i][1] = "tag"
               PROVE  Cardinality(Crowd(q)' \ {todo'[q][i][3]}) < todo'[q][i][4]
    BY DEF Room
  <2>1. PICK j \in 1..Len(todo[q]) : todo[q][j] = todo'[q][i]
    BY <1>9 DEF TagsLeft, Procs
  <2>2. Crowd(q)' \subseteq Crowd(q)
    BY <1>3, <1>7, <1>10 DEF Crowd
  <2> QED BY <2>1, <2>2, RoomKept
<1>14. Swept'
  BY <1>12 DEF Swept
<1> QED BY <1>6, <1>8, <1>11, <1>13, <1>14 DEF BotInv

LEMMA CommandInv ==
  ASSUME BotInv, NEW p \in Procs, Command(p)
  PROVE  BotInv'
BY CreateInv, TagInv, DeleteInv, SweepInv, ServeInv, UnserveInv DEF Command

-----------------------------------------------------------------------------
\* The cleanup, the panel, the days and the machine.

LEMMA CleanupInv ==
  ASSUME BotInv, Cleanup
  PROVE  BotInv'
<1> DEFINE s == <<<<"clean", {r \in Rids : Expired(r)}>>>>
<1>1. todo' = [todo EXCEPT !["cron"] = s] /\ UNCHANGED <<table, acct, talk, late, presses, crashes>>
  BY DEF Cleanup
<1>2. Script("cron", s) /\ "cron" \in Procs
  BY NamesAssumption DEF Script, CronScript, Procs
<1>3. s # <<>> /\ ~Wiping(Head(s)) /\ \A i \in 1..Len(s) : s[i][1] # "tag"
  BY DEF Wiping
<1>4. /\ acct' \in [Users -> {NoAccount} \cup Accounts]
      /\ \A q \in Rids : Tagged(q)' = Tagged(q)
  BY <1>1 DEF BotInv, TypeOK, Tagged, Here
<1> HIDE DEF s
<1> QED BY <1>1, <1>2, <1>3, <1>4, TableKept, CommandStep

LEMMA CleanNextInv ==
  ASSUME BotInv, CleanNext \/ SetInactive
  PROVE  BotInv'
<1>1. PICK C \in SUBSET Rids :
           \/ todo["cron"] = <<<<"clean", C>>>>
           \/ \E r \in Rids : todo["cron"] = <<<<"off", r>>, <<"clean", C>>>>
  BY CleaningScript DEF BotInv, CleanNext, SetInactive
<1>2. "cron" \in Procs /\ UNCHANGED <<svc, acct, granted, crontab, talk, late, presses, crashes>>
  BY DEF Procs, CleanNext, SetInactive
<1>3. /\ acct' \in [Users -> {NoAccount} \cup Accounts] /\ svc' \in [Rids -> BOOLEAN]
      /\ \A q \in Rids : (svc[q] => svc'[q]) /\ Tagged(q)' \subseteq Tagged(q)
  BY <1>2 DEF BotInv, TypeOK, Tagged, Here
<1>4. ASSUME NEW s, CronScript(s), todo' = [todo EXCEPT !["cron"] = s],
             s = <<>> \/ ~Wiping(Head(s)), \A i \in 1..Len(s) : s[i][1] # "tag",
             row' \in [Rids -> Rows], pending' \subseteq Rids
      PROVE  BotInv'
  <2>1. Script("cron", s)
    BY <1>4, NamesAssumption DEF Script
  <2> QED BY <1>2, <1>3, <1>4, <2>1, CommandStep
<1>5. row \in [Rids -> Rows] /\ pending \subseteq Rids /\ "cron" \in DOMAIN todo
  BY <1>2 DEF BotInv, TypeOK
<1>6. CASE CleanNext
  <2>1. todo["cron"] = <<<<"clean", C>>>> /\ Tail(todo["cron"]) = <<>> /\ Head(todo["cron"])[2] = C
    <3>1. todo["cron"] = <<<<"clean", C>>>>
      BY <1>1, <1>6 DEF CleanNext, Goes, Idle
    <3> QED BY <3>1, Tails
  <2>2. ASSUME NEW r \in C, Then("cron", Clean(r) \o <<<<"clean", C \ {r}>>>>), UNCHANGED <<row, pending>>
        PROVE  BotInv'
    <3> DEFINE s == <<<<"purge", r>>, <<"unserve", r>>, <<"off", r>>, <<"clean", C \ {r}>>>>
    <3>1. (Clean(r) \o <<<<"clean", C \ {r}>>>>) \o Tail(todo["cron"]) = s
      BY <2>1, Concats DEF Clean
    <3>2. todo' = [todo EXCEPT !["cron"] = s]
      BY <1>5, <2>2, <3>1 DEF Then
    <3>3. CronScript(s)
      BY DEF CronScript
    <3>4. s # <<>> /\ ~Wiping(Head(s)) /\ \A i \in 1..Len(s) : s[i][1] # "tag"
      BY DEF Wiping
    <3>5. row' \in [Rids -> Rows] /\ pending' \subseteq Rids
      BY <1>5, <2>2
    <3> HIDE DEF s
    <3> QED BY <1>4, <3>2, <3>3, <3>4, <3>5
  <2>3. ASSUME Then("cron", <<>>), pending' = {},
               row' = [r \in Rids |-> IF r \in pending /\ Listed(r) THEN [row[r] EXCEPT !.is = "off"] ELSE row[r]]
        PROVE  BotInv'
    <3>1. todo' = [todo EXCEPT !["cron"] = <<>>]
      BY <1>5, <2>1, <2>3, Concats DEF Then
    <3>2. row' \in [Rids -> Rows]
      BY <1>5, <2>3 DEF Rows
    <3>3. CronScript(<<>>) /\ pending' \subseteq Rids /\ \A i \in 1..Len(<<>>) : <<>>[i][1] # "tag"
      BY <2>3 DEF CronScript
    <3> QED BY <1>4, <3>1, <3>2, <3>3
  <2> QED BY <1>6, <2>1, <2>2, <2>3 DEF CleanNext
<1>7. CASE SetInactive
  <2>1. PICK r \in Rids : todo["cron"] = <<<<"off", r>>, <<"clean", C>>>>
    BY <1>1, <1>7 DEF SetInactive, Goes, Idle
  <2> DEFINE s == <<<<"clean", C>>>>
  <2>2. Tail(todo["cron"]) = s /\ Head(todo["cron"])[2] = r
    BY <2>1, Tails
  <2>3. todo' = [todo EXCEPT !["cron"] = s]
    BY <1>5, <1>7, <2>2, Concats DEF SetInactive, Then
  <2>4. pending' \subseteq Rids /\ row' \in [Rids -> Rows]
    BY <1>5, <1>7, <2>2 DEF SetInactive
  <2>5. CronScript(s)
    BY DEF CronScript
  <2>6. s # <<>> /\ ~Wiping(Head(s)) /\ \A i \in 1..Len(s) : s[i][1] # "tag"
    BY DEF Wiping
  <2> HIDE DEF s
  <2> QED BY <1>4, <2>3, <2>4, <2>5, <2>6
<1> QED BY <1>6, <1>7

\* An account whose tag is taken off is late already, or of a reseller with a bot.
LEMMA PanelRenewInv ==
  ASSUME BotInv, NEW u \in Users, PanelRenew(u)
  PROVE  BotInv'
<1> DEFINE o == acct[u].owner
           s == IF o = Admin THEN <<>> ELSE <<<<"tag", o, u, 0>>>>
<1>1. /\ acct' = [acct EXCEPT ![u] = New] /\ UNCHANGED <<table, talk, late, crashes>>
      /\ presses' = presses + 1 /\ Here(u) /\ todo["panel"] = <<>>
  BY DEF PanelRenew, Idle
<1>2. acct \in [Users -> {NoAccount} \cup Accounts] /\ DOMAIN todo = Procs /\ "panel" \in Procs
  BY DEF BotInv, TypeOK, Procs
<1>3. IF o = Admin THEN s = <<>> /\ todo' = todo ELSE todo' = [todo EXCEPT !["panel"] = s]
  BY DEF PanelRenew
<1>4. o \in Rids \cup {Admin}
  BY <1>1, <1>2 DEF Here, Accounts
<1>5. Script("panel", s)
  <2>1. PanelScript(s)
    BY <1>4 DEF PanelScript
  <2> QED BY <2>1, NamesAssumption DEF Script
<1>6. /\ Scripts' /\ DOMAIN todo' = Procs /\ todo'["panel"] = s
      /\ \A q \in Procs \ {"panel"} : todo'[q] = todo[q]
  <2>1. CASE o = Admin
    BY <1>1, <1>2, <1>3, <2>1 DEF BotInv, Scripts
  <2>2. CASE o # Admin
    <3>1. todo' = [todo EXCEPT !["panel"] = s]
      BY <1>3, <2>2
    <3> HIDE DEF s
    <3> QED BY <1>2, <3>1, <1>5, Moves DEF BotInv
  <2> QED BY <2>1, <2>2
<1>7. /\ acct' \in [Users -> {NoAccount} \cup Accounts]
      /\ \A q \in Rids : Tagged(q)' \subseteq Tagged(q) \ {u}
  <2>1. New \in Accounts /\ New.owner \notin Rids
    BY NamesAssumption DEF New, Accounts
  <2>2. \A v \in Users : acct'[v] = IF v = u THEN New ELSE acct[v]
    BY <1>1, <1>2
  <2>3. \A q \in Rids : Tagged(q)' \subseteq Tagged(q) \ {u}
    BY <2>1, <2>2 DEF Tagged, Here
  <2> QED BY <1>1, <1>2, <2>1, <2>3
<1>8. TypeOK'
  BY <1>1, <1>6, <1>7 DEF BotInv, TypeOK, table, talk
<1>9. ASSUME NEW q \in Rids, NEW v, TagIn(todo["panel"], q, v)'
      PROVE  v = u /\ u \in Tagged(q)
  <2>1. TagIn(s, q, v)
    BY <1>6, <1>9 DEF TagIn
  <2>2. o # Admin
    BY <2>1 DEF TagIn
  <2>3. s = <<<<"tag", o, u, 0>>>>
    BY <2>2
  <2>4. v = u /\ o = q
    <3> HIDE DEF o, s
    <3> QED BY <2>1, <2>3 DEF TagIn
  <2> QED BY <1>1, <2>4 DEF Tagged
<1>10. ASSUME NEW q \in Rids
       PROVE  Untagged(q)' \subseteq Untagged(q) \cup Tagged(q) /\ Renewing(q)' \subseteq Tagged(q)
  <2>1. \A x \in Procs \ {"panel"} : \A v : TagIn(todo[x], q, v)' => TagIn(todo[x], q, v)
    BY <1>6 DEF TagIn
  <2>2. Untagged(q) = {v \in Users : \E x \in Procs : TagIn(todo[x], q, v)}
    BY DEF Untagged, TagIn
  <2>3. Untagged(q)' = {v \in Users : \E x \in Procs : TagIn(todo[x], q, v)'}
    BY DEF Untagged, TagIn
  <2> QED BY <1>9, <2>1, <2>2, <2>3 DEF Renewing
<1> HIDE DEF o, s
<1>11. Gone'
  BY <1>1, <1>7, <1>10 DEF BotInv, Gone, table
<1>12. Swept'
  <2>1. todo'["admin"] = todo["admin"] /\ todo'["cron"] = todo["cron"]
    BY <1>6 DEF Procs
  <2> QED BY <1>1, <1>7, <2>1, SweptKept DEF Swept
<1>13. Room'
  <2> SUFFICES ASSUME NEW q \in Rids, NEW i \in 1..Len(todo'[q]), todo'[q][i][1] = "tag"
               PROVE  Cardinality(Crowd(q)' \ {todo'[q][i][3]}) < todo'[q][i][4]
    BY DEF Room
  <2>1. todo'[q] = todo[q]
    BY <1>6, NamesAssumption DEF Procs
  <2>2. Crowd(q)' \subseteq Crowd(q)
    BY <1>1, <1>7, <1>10 DEF Crowd
  <2> QED BY <2>1, <2>2, RoomKept
<1> QED BY <1>6, <1>8, <1>11, <1>12, <1>13 DEF BotInv

LEMMA ReinstallInv ==
  ASSUME BotInv, Reinstall
  PROVE  BotInv'
<1>1. /\ row' = [r \in Rids |-> NoRow] /\ svc' = [r \in Rids |-> FALSE] /\ crontab' = FALSE
      /\ adm' = Blank /\ chat' = [r \in Rids |-> [c \in Chats |-> Quiet]] /\ presses' = presses + 1
      /\ todo' = [p \in Procs |-> IF p = "panel" THEN todo[p] ELSE <<>>]
      /\ late' = late \cup UNION {Tagged(r) \cup Untagged(r) : r \in Rids}
      /\ UNCHANGED <<pending, acct, granted, crashes>>
  BY DEF Reinstall
<1>2. \A r \in Rids : Tagged(r)' = Tagged(r) /\ Tagged(r) \subseteq Users /\ Untagged(r) \subseteq Users
  BY <1>1 DEF Tagged, Here, Untagged
<1>3. Scripts'
  <2>1. \A p : Script(p, <<>>)
    BY DEF Script, MineScript, AdminScript, CronScript, PanelScript
  <2>2. Scripts
    BY DEF BotInv
  <2> QED BY <1>1, <2>1, <2>2 DEF Scripts
<1>4. TypeOK'
  <2>1. late' \subseteq Names
    BY <1>1, <1>2 DEF BotInv, TypeOK, Names
  <2>2. row' \in [Rids -> Rows] /\ adm' \in AdmTalks
    BY <1>1, TableTypes, TalkTypes
  <2>3. chat' \in [Rids -> [Chats -> Talks]]
    BY <1>1, TalkTypes
  <2>4. svc' \in [Rids -> BOOLEAN] /\ crontab' \in BOOLEAN /\ DOMAIN todo' = Procs
    BY <1>1
  <2>5. presses' \in Nat
    BY <1>1 DEF BotInv, TypeOK
  <2>6. pending' \subseteq Rids /\ acct' \in [Users -> {NoAccount} \cup Accounts]
        /\ granted' \subseteq Rids \X Chats /\ crashes' \in Nat
    BY <1>1 DEF BotInv, TypeOK
  <2> QED BY <2>1, <2>2, <2>3, <2>4, <2>5, <2>6 DEF TypeOK
<1>5. \A r \in Rids : Untagged(r)' \subseteq Untagged(r)
  <2>1. \A x \in Procs : \A q, v : TagIn(todo[x], q, v)' => TagIn(todo[x], q, v)
    BY <1>1 DEF TagIn
  <2> QED BY <2>1 DEF Untagged, TagIn
<1>6. Gone'
  BY <1>1, <1>2, <1>5 DEF Gone
<1>7. Swept'
  <2>1. todo'["admin"] = <<>> /\ todo'["cron"] = <<>>
    BY <1>1 DEF Procs
  <2> QED BY <2>1 DEF Swept, SweptBy, Wipes, Goes, Idle
<1>8. Room'
  <2>1. \A r \in Rids : todo'[r] = <<>>
    BY <1>1, NamesAssumption DEF Procs
  <2> QED BY <2>1 DEF Room
<1> QED BY <1>3, <1>4, <1>6, <1>7, <1>8 DEF BotInv

LEMMA ExpireInv ==
  ASSUME BotInv, NEW r \in Rids, Expire(r)
  PROVE  BotInv'
<1>1. UNCHANGED <<pending, svc, granted, crontab, acct, talk, todo, late, presses, crashes>>
  BY DEF Expire
<1>2. row' \in [Rids -> Rows]
  <2>1. row' = [row EXCEPT ![r].due = TRUE] /\ row \in [Rids -> Rows]
    BY DEF Expire, BotInv, TypeOK
  <2> QED BY <2>1, RowEdits
<1>3. adm' \in AdmTalks /\ presses' \in Nat
  BY <1>1 DEF BotInv, TypeOK, talk
<1> QED BY <1>1, <1>2, <1>3, AdminSays DEF talk

LEMMA CrashInv ==
  ASSUME BotInv, NEW p \in Procs, Crash(p)
  PROVE  BotInv'
<1>1. /\ todo' = [todo EXCEPT ![p] = <<>>] /\ crashes' = crashes + 1
      /\ adm' = IF p = "admin" THEN Blank ELSE adm
      /\ chat' = IF p \in Rids THEN [chat EXCEPT ![p] = [c \in Chats |-> Quiet]] ELSE chat
      /\ pending' = IF p = "cron" THEN {} ELSE pending
      /\ UNCHANGED <<row, svc, granted, crontab, acct, late, presses>>
  BY DEF Crash
<1>2. Script(p, <<>>)
  BY DEF Script, MineScript, AdminScript, CronScript, PanelScript
<1>3. /\ Scripts' /\ DOMAIN todo' = Procs /\ todo'[p] = <<>>
      /\ \A q \in Procs \ {p} : todo'[q] = todo[q]
  BY <1>1, <1>2, Moves DEF BotInv
<1>4. adm' \in AdmTalks /\ pending' \subseteq Rids /\ crashes' \in Nat
  BY <1>1, TalkTypes DEF BotInv, TypeOK
<1>5. chat' \in [Rids -> [Chats -> Talks]]
  BY <1>1, TalkTypes DEF BotInv, TypeOK
<1>6. TypeOK'
  BY <1>1, <1>3, <1>4, <1>5 DEF BotInv, TypeOK
<1>7. \A q \in Procs : Calm(q)
  BY <1>3 DEF Calm, TagsLeft, Removing, Wipes, Goes, Idle
<1>8. \A q \in Rids : Tagged(q)' = Tagged(q)
  BY <1>1 DEF Tagged, Here
<1> QED BY <1>1, <1>3, <1>6, <1>7, <1>8, CalmStep

-----------------------------------------------------------------------------
\* The theorems.

LEMMA BotInit == Init => BotInv
<1> SUFFICES ASSUME Init
             PROVE  BotInv
  OBVIOUS
<1>1. \A p \in Procs : todo[p] = <<>>
  BY DEF Init
<1>2. Scripts
  BY <1>1 DEF Scripts, Script, MineScript, AdminScript, CronScript, PanelScript
<1>3. row \in [Rids -> Rows]
  BY TableTypes DEF Init
<1>4. TypeOK
  BY <1>3, TalkTypes DEF Init, TypeOK
<1>5. \A r : Tagged(r) = {}
  BY DEF Init, Tagged, Here
<1>6. \A r : Untagged(r) = {}
  BY <1>1 DEF Untagged
<1>7. Gone
  BY <1>5, <1>6 DEF Gone
<1>8. Swept
  BY <1>1 DEF Swept, SweptBy, Wipes, Goes, Idle, Procs
<1>9. Room
  BY <1>1 DEF Room, Procs
<1> QED BY <1>2, <1>4, <1>7, <1>8, <1>9 DEF BotInv

LEMMA BotStep == BotInv /\ [Next]_vars => BotInv'
<1> SUFFICES ASSUME BotInv, [Next]_vars
             PROVE  BotInv'
  OBVIOUS
<1>1. CASE AdminBot
  BY <1>1, AdminBotInv
<1>2. ASSUME NEW r \in Rids, ResellerBot(r) \/ Expire(r) PROVE BotInv'
  BY <1>2, ResellerBotInv, ExpireInv
<1>3. ASSUME NEW p \in Procs, Command(p) \/ Crash(p) PROVE BotInv'
  BY <1>3, CommandInv, CrashInv
<1>4. CASE Cleanup \/ CleanNext \/ SetInactive
  BY <1>4, CleanupInv, CleanNextInv
<1>5. ASSUME NEW u \in Users, PanelRenew(u) PROVE BotInv'
  BY <1>5, PanelRenewInv
<1>6. CASE Reinstall
  BY <1>6, ReinstallInv
<1>7. CASE UNCHANGED vars
  <2>1. UNCHANGED <<pending, svc, acct, granted, crontab, chat, todo, late, crashes>>
    BY <1>7 DEF vars
  <2>2. row' \in [Rids -> Rows] /\ adm' \in AdmTalks /\ presses' \in Nat
    BY <1>7 DEF vars, BotInv, TypeOK
  <2> QED BY <2>1, <2>2, AdminSays
<1> QED BY <1>1, <1>2, <1>3, <1>4, <1>5, <1>6, <1>7 DEF Next

\* At any time a process has only what its own updates can leave it to do, and
\* the values of the table, the meta files and the conversations are in range.
THEOREM BotsTyped == Spec => [](TypeOK /\ Scripts)
<1>1. BotInv => TypeOK /\ Scripts
  BY DEF BotInv
<1> QED BY BotInit, BotStep, <1>1, PTL DEF Spec

\* When the bot of a reseller has been removed, by the administrator, by the
\* cleanup or with the bots, none of its accounts is left, but those that were
\* tagged while they were being looked for.
THEOREM RemovedSafe == Spec => []RemovedLeavesNoAccount
<1>1. BotInv => RemovedLeavesNoAccount
  BY DEF BotInv, Gone, RemovedLeavesNoAccount
<1> QED BY BotInit, BotStep, <1>1, PTL DEF Spec

\* A reseller's bot counts, creates and tags in three steps, and yet tags no
\* more accounts than the limit it has read.
THEOREM LimitSafe == Spec => WithinLimit
<1>1. BotInv => \A r \in Rids : Tag(r) => Cardinality(Tagged(r)' \ late') <= Head(todo[r])[4]
  BY TagInv DEF Procs
<1>2. BotInv /\ [Next]_vars =>
        [\A r \in Rids : Tag(r) => Cardinality(Tagged(r)' \ late') <= Head(todo[r])[4]]_vars
  BY <1>1
<1> QED BY BotInit, BotStep, <1>2, PTL DEF Spec, WithinLimit

\* What the bot of a reseller is about to write, tag, renew or delete was not an
\* account of somebody else when it last looked.
Checked(r) == todo[r] # <<>> =>
  LET c == Head(todo[r]) IN
    /\ c[1] = "write" => c[2] \notin others[r]
    /\ c[1] = "tag" => c[3] \notin others[r]
    /\ c[1] = "remove" => c[4] \notin others[r]
    /\ c[1] = "change" => c[3] \cap others[r] = {}
OwnInv == others \in [Rids -> SUBSET Users] /\ \A r \in Rids : Checked(r)

\* A bot that does not go on is as safe as before.
LEMMA CheckedKept ==
  ASSUME NEW r, Checked(r), others'[r] \subseteq others[r], todo'[r] = todo[r] \/ todo'[r] = <<>>
  PROVE  Checked(r)'
BY DEF Checked

\* What a process other than the bot of a reseller leaves of what the bot has to do.
LEMMA CommandLeaves ==
  ASSUME BotInv, OwnInv, NEW p \in Procs, Command(p)
  PROVE  /\ others' \in [Rids -> SUBSET Users]
         /\ \A r \in Rids \ {p} : /\ others'[r] \subseteq others[r]
                               /\ (todo'[r] = todo[r] \/ todo'[r] = <<>>)
<1>1. DOMAIN todo = Procs /\ others \in [Rids -> SUBSET Users] /\ Rids \subseteq Procs
  BY DEF BotInv, TypeOK, OwnInv, Procs
<1>2. CASE Looks(p)
  <2>1. others' \in [Rids -> SUBSET Users] /\ \A r \in Rids \ {p} : others'[r] = others[r]
    BY <1>1, <1>2 DEF Looks
  <2>2. CASE Create(p)
    BY <1>1, <2>1, <2>2 DEF Create, Then
  <2>3. CASE Delete(p)
    BY <1>1, <2>1, <2>3 DEF Delete, Then
  <2>4. CASE ~Create(p) /\ ~Delete(p) /\ ~Unserve(p)
    <3>1. \A r \in Rids \ {p} : todo'[r] = todo[r]
      BY <1>1, <2>4 DEF Command, WriteMeta, Tag, Remove, Change, Purge, Sweep, Serve, Drop, Then
    <3> QED BY <2>1, <3>1
  <2>5. CASE Unserve(p)
    BY <1>1, <2>1, <2>5 DEF Unserve
  <2> QED BY <2>2, <2>3, <2>4, <2>5
<1>3. CASE Remove(p)
  <2>1. \A r \in Rids \ {p} : todo'[r] = todo[r]
    BY <1>1, <1>3 DEF Remove, Then
  <2>2. PICK u : others' = [r \in Rids |-> others[r] \ {u}]
    BY <1>3 DEF Remove
  <2> QED BY <1>1, <2>1, <2>2
<1>4. CASE ~Looks(p) /\ ~Remove(p)
  <2>1. others' = others
    BY <1>4 DEF Command, Create, WriteMeta, Tag, Delete, Change, Purge, Sweep, Serve, Unserve, Drop
  <2>2. CASE Unserve(p)
    BY <1>1, <2>1, <2>2 DEF Unserve
  <2>3. CASE ~Unserve(p)
    <3>1. \A r \in Rids \ {p} : todo'[r] = todo[r]
      BY <1>1, <1>4, <2>3 DEF Command, Create, Delete, WriteMeta, Tag, Change, Purge, Sweep, Serve, Drop, Then
    <3> QED BY <1>1, <2>1, <3>1
  <2> QED BY <2>2, <2>3
<1> QED BY <1>2, <1>3, <1>4

\* What the bot of a reseller goes on with.
LEMMA CommandChecks ==
  ASSUME BotInv, OwnInv, NEW r \in Rids, Command(r)
  PROVE  Checked(r)'
<1>1. /\ DOMAIN todo = Procs /\ others \in [Rids -> SUBSET Users] /\ r \in Procs /\ Checked(r)
      /\ r \notin {"admin", "cron", "panel"}
  BY NamesAssumption DEF BotInv, TypeOK, OwnInv, Procs
<1>2. CASE Create(r) \/ WriteMeta(r)
  <2>1. PICK u \in Names, n \in Limits \cup {0}, name \in {"create", "write"} :
          Goes(r, name) /\ todo[r] = <<<<name, u>>, <<"tag", r, u, n>>>>
    BY <1>1, <1>2, Creating DEF BotInv, Create, WriteMeta
  <2>2. Head(todo[r]) = <<name, u>> /\ Tail(todo[r]) = <<<<"tag", r, u, n>>>>
    BY <2>1, Tails
  <2>3. CASE Create(r)
    <3>1. others'[r] = {v \in Users : Here(v) /\ acct[v].owner # r}
      BY <2>3 DEF Create, Looks
    <3>2. CASE Here(u)
      <4>1. todo'[r] = <<>>
        BY <1>1, <2>2, <2>3, <3>2 DEF Create
      <4> QED BY <4>1 DEF Checked
    <3>3. CASE ~Here(u)
      <4>a. Head(todo[r])[2] = u
        BY <2>2
      <4>b. Then(r, <<<<"write", u>>>>)
        BY <2>3, <3>3, <4>a DEF Create
      <4>c. <<<<"write", u>>>> \o <<<<"tag", r, u, n>>>> = <<<<"write", u>>, <<"tag", r, u, n>>>>
        BY Concats
      <4>1. todo'[r] = <<<<"write", u>>, <<"tag", r, u, n>>>>
        BY <1>1, <2>2, <4>b, <4>c DEF Then
      <4> QED BY <3>1, <3>3, <4>1 DEF Checked
    <3> QED BY <3>2, <3>3
  <2>4. CASE WriteMeta(r)
    <3>1. todo'[r] = <<<<"tag", r, u, n>>>> /\ others' = others
      BY <1>1, <2>2, <2>4, Concats DEF WriteMeta, Then
    <3>2. u \notin others[r]
      <4>1. todo[r] # <<>> /\ name = "write"
        BY <2>1, <2>4 DEF WriteMeta, Goes, Idle
      <4> QED BY <1>1, <2>2, <4>1 DEF Checked
    <3> QED BY <3>1, <3>2 DEF Checked
  <2> QED BY <1>2, <2>3, <2>4
<1>3. CASE Tag(r)
  <2>1. PICK u \in Names, n \in Limits \cup {0} : todo[r] = <<<<"tag", r, u, n>>>>
    BY <1>1, <1>3, Tagging DEF BotInv, Tag
  <2>2. Tail(todo[r]) = <<>>
    BY <2>1, Tails
  <2>3. todo'[r] = <<>>
    BY <1>1, <1>3, <2>2, Concats DEF Tag, Then
  <2> QED BY <2>3 DEF Checked
<1>4. ASSUME NEW name \in {"delete", "change"}, Goes(r, name)
      PROVE  \E S : /\ todo[r] = <<<<name, r, S>>>> /\ Tail(todo[r]) = <<>>
                    /\ Head(todo[r]) = <<name, r, S>>
  <2>1. PICK S : todo[r] = <<<<name, r, S>>>>
    BY <1>1, <1>4, Deleting DEF BotInv
  <2> QED BY <2>1, Tails
<1>5. CASE Delete(r)
  <2>1. PICK S : Tail(todo[r]) = <<>> /\ Head(todo[r]) = <<"delete", r, S>>
    BY <1>4, <1>5 DEF Delete
  <2>2. \A y : <<y>> \o <<>> = <<y>>
    BY Concats
  <2>3. \/ todo'[r] = <<>>
        \/ \E u : todo'[r] = <<<<"delete", r, S \ {u}>>>>
        \/ \E u : todo'[r] = <<<<"remove", r, S \ {u}, u, "delete">>>> /\ MayDelete(r, u)
    <3>1. CASE Then(r, <<>>)
      BY <1>1, <2>1, <3>1, Concats DEF Then
    <3>2. ASSUME NEW u, Then(r, IF MayDelete(r, u) THEN <<<<"remove", r, S \ {u}, u, "delete">>>>
                                ELSE <<<<"delete", r, S \ {u}>>>>)
          PROVE  \/ todo'[r] = <<<<"delete", r, S \ {u}>>>>
                 \/ todo'[r] = <<<<"remove", r, S \ {u}, u, "delete">>>> /\ MayDelete(r, u)
      BY <1>1, <2>1, <2>2, <3>2 DEF Then
    <3>3. Head(todo[r])[2] = r /\ Head(todo[r])[3] = S
      BY <2>1
    <3>4. \/ Then(r, <<>>)
          \/ \E u : Then(r, IF MayDelete(r, u) THEN <<<<"remove", r, S \ {u}, u, "delete">>>>
                                ELSE <<<<"delete", r, S \ {u}>>>>)
      BY <1>5, <3>3, Zenon DEF Delete
    <3> QED BY <3>1, <3>2, <3>4
  <2>4. others'[r] = {v \in Users : Here(v) /\ acct[v].owner # r}
    BY <1>5 DEF Delete, Looks
  <2>5. \A u : MayDelete(r, u) /\ r # Admin => u \notin others'[r]
    BY <2>4 DEF MayDelete
  <2>6. r # Admin
    BY NamesAssumption
  <2> QED BY <2>3, <2>5, <2>6 DEF Checked
<1>6. CASE Change(r)
  <2>1. PICK S : todo[r] # <<>> /\ Tail(todo[r]) = <<>> /\ Head(todo[r]) = <<"change", r, S>>
    BY <1>4, <1>6 DEF Change
  <2>a. Head(todo[r])[2] = r /\ Head(todo[r])[3] = S
    BY <2>1
  <2>2. PICK u : Then(r, IF S = {u} THEN <<>> ELSE <<<<"change", r, S \ {u}>>>>)
    BY <1>6, <2>a DEF Change
  <2>3. todo'[r] = <<>> \/ todo'[r] = <<<<"change", r, S \ {u}>>>>
    BY <1>1, <2>1, <2>2, Concats DEF Then
  <2>4. others' = others /\ S \cap others[r] = {}
    BY <1>1, <1>6, <2>1 DEF Change, Checked
  <2> QED BY <2>3, <2>4 DEF Checked
<1>7. CASE Remove(r)
  <2>1. ~Wipes(r)
    <3>1. ~Removes(r, r)
      BY <1>1 DEF Removes
    <3>2. \A q : ~Removes(r, q)
      BY <1>1 DEF Removes
    <3> QED BY <1>1, <3>2, RemovingScript DEF BotInv, Removing
  <2>2. PICK S, u : todo[r] = <<<<"remove", r, S, u, "delete">>>>
    BY <1>1, <1>7, <2>1, RemovingOne DEF BotInv, Remove
  <2>3. Tail(todo[r]) = <<>> /\ Head(todo[r]) = <<"remove", r, S, u, "delete">>
    BY <2>2, Tails
  <2> DEFINE s == <<<<"delete", r, S>>>>
  <2>a. Head(todo[r])[2] = r /\ Head(todo[r])[3] = S /\ Head(todo[r])[5] = "delete"
    BY <2>3
  <2>b. s \o <<>> = s
    BY Concats
  <2>c. Then(r, s)
    BY <1>7, <2>a DEF Remove
  <2>4. todo'[r] = s
    <3> HIDE DEF s
    <3> QED BY <1>1, <2>3, <2>b, <2>c DEF Then
  <2> QED BY <2>4 DEF Checked
<1>8. CASE Purge(r) \/ Sweep(r) \/ Unserve(r)
  <2>1. \A q : ~Removes(r, q)
    BY <1>1 DEF Removes
  <2> QED BY <1>1, <1>8, <2>1, RemovingScript DEF BotInv, Removing, Purge, Sweep, Unserve
<1>9. CASE Serve(r) \/ Drop(r)
  BY <1>1, <1>9, ServingScript DEF BotInv, Serve, Drop
<1> QED BY <1>2, <1>3, <1>5, <1>6, <1>7, <1>8, <1>9 DEF Command

LEMMA MessageChecks ==
  ASSUME BotInv, OwnInv, NEW r \in Rids, ResellerBot(r)
  PROVE  OwnInv'
<1> SUFFICES ASSUME NEW c \in Chats,
                    \/ PressDeleteMine(r, c) \/ MineTerms(r, c) \/ MineNumbers(r, c) \/ MineDays(r, c)
                    \/ \E t \in Tunnels : PressTunnel(r, c, t)
                    \/ \E step \in {"r_renew_user", "r_setquota_user"} : PressMine(r, c, step)
                    \/ \E u \in Users : MineName(r, c, u) \/ MineRenew(r, c, u) \/ MineQuota(r, c, u)
                    \/ AskCode(r, c) \/ RightCode(r, c) \/ MineQuotaValue(r, c)
             PROVE  OwnInv'
  BY DEF ResellerBot, AsksOwner
<1>1. DOMAIN todo = Procs /\ Rids \subseteq Procs
  BY DEF BotInv, TypeOK, Procs
<1>2. others \in [Rids -> SUBSET Users] /\ \A q \in Rids : Checked(q)
  BY DEF OwnInv
<1>3. ASSUME others' = others, NEW s, todo' = todo \/ todo' = [todo EXCEPT ![r] = s],
             s # <<>> /\ Head(s)[1] \in {"create", "delete"}
      PROVE  OwnInv'
  <2>1. ASSUME NEW q \in Rids, q # r \/ todo' = todo PROVE Checked(q)'
    <3>1. todo'[q] = todo[q]
      BY <1>1, <1>3, <2>1
    <3> QED BY <1>2, <1>3, <3>1, CheckedKept
  <2>2. ASSUME todo' = [todo EXCEPT ![r] = s] PROVE Checked(r)'
    <3>1. todo'[r] = s
      BY <1>1, <2>2
    <3> QED BY <1>3, <3>1 DEF Checked
  <2> QED BY <1>2, <1>3, <2>1, <2>2 DEF OwnInv
<1>4. CASE MineTerms(r, c)
  <2> DEFINE s == <<<<"create", chat[r][c].user>>, <<"tag", r, chat[r][c].user, row[r].max>>>>
  <2>1. others' = others /\ (todo' = todo \/ todo' = [todo EXCEPT ![r] = s])
    BY <1>4 DEF MineTerms
  <2>2. s # <<>> /\ Head(s)[1] = "create"
    OBVIOUS
  <2> HIDE DEF s
  <2> QED BY <1>3, <2>1, <2>2
<1>5. CASE MineNumbers(r, c)
  <2>1. PICK S : others' = others /\ todo' = [todo EXCEPT ![r] = <<<<"delete", r, S>>>>]
    BY <1>5 DEF MineNumbers
  <2> DEFINE s == <<<<"delete", r, S>>>>
  <2>2. s # <<>> /\ Head(s)[1] = "delete"
    OBVIOUS
  <2> HIDE DEF s
  <2> QED BY <1>3, <2>1, <2>2 DEF s
<1>6. CASE MineDays(r, c)
  <2> DEFINE u == chat[r][c].user
  <2>1. todo' = todo \/ (u \in Tagged(r) /\ todo' = [todo EXCEPT ![r] = <<<<"change", r, {u}>>>>])
    BY <1>6 DEF MineDays
  <2>2. /\ others' \in [Rids -> SUBSET Users] /\ \A q \in Rids \ {r} : others'[q] = others[q]
        /\ others'[r] = {v \in Users : Here(v) /\ acct[v].owner # r}
    BY <1>2, <1>6 DEF MineDays, Looks
  <2>3. ASSUME NEW q \in Rids \ {r} PROVE Checked(q)'
    <3>1. todo'[q] = todo[q]
      BY <1>1, <2>1
    <3> QED BY <1>2, <2>2, <3>1, CheckedKept
  <2>4. todo[r] = <<>>
    BY <1>6 DEF MineDays, Reads, Update, Idle
  <2>5. Checked(r)'
    <3>1. CASE todo' = todo
      BY <2>4, <3>1 DEF Checked
    <3>2. CASE u \in Tagged(r) /\ todo' = [todo EXCEPT ![r] = <<<<"change", r, {u}>>>>]
      <4>1. todo'[r] = <<<<"change", r, {u}>>>>
        BY <1>1, <3>2
      <4>2. {u} \cap others'[r] = {}
        BY <2>2, <3>2 DEF Tagged
      <4> HIDE DEF u
      <4> QED BY <4>1, <4>2 DEF Checked
    <3> QED BY <2>1, <3>1, <3>2
  <2> QED BY <2>2, <2>3, <2>5 DEF OwnInv
<1>7. CASE ~MineTerms(r, c) /\ ~MineNumbers(r, c) /\ ~MineDays(r, c)
  <2>1. todo' = todo /\ others' = others
    BY <1>7 DEF PressDeleteMine, PressTunnel, PressMine, MineName, MineRenew, MineQuota, Asks, Onward,
                AskCode, RightCode, MineQuotaValue
  <2> QED BY <1>2, <2>1, CheckedKept DEF OwnInv
<1> QED BY <1>4, <1>5, <1>6, <1>7

LEMMA OwnStep == BotInv /\ OwnInv /\ [Next]_vars => OwnInv'
<1> SUFFICES ASSUME BotInv, OwnInv, [Next]_vars
             PROVE  OwnInv'
  OBVIOUS
<1>1. /\ DOMAIN todo = Procs /\ Rids \subseteq Procs /\ others \in [Rids -> SUBSET Users]
      /\ \A r \in Rids : Checked(r) /\ r \notin {"admin", "cron", "panel"}
  BY NamesAssumption DEF BotInv, TypeOK, OwnInv, Procs
<1>2. ASSUME others' = others, \A r \in Rids : todo'[r] = todo[r] \/ todo'[r] = <<>>
      PROVE  OwnInv'
  BY <1>1, <1>2, CheckedKept DEF OwnInv
<1>3. CASE AdminBot
  <2>1. others' = others
    BY <1>3 DEF AdminBot, PressCreate, PressNewReseller, TextTerms, TextDays, TextNumbers, TextForgets,
      PressUser, PressNumbers, TextName, TextRenew, PressToggle, PressDelete, PressEdit, PressDone,
      TextEdit, TextCode, TextExtend, TextWizard, Ask, Press, Says, Answers
  <2>2. \A r \in Rids : todo'[r] = todo[r]
    BY <1>1, <1>3 DEF AdminBot, PressCreate, PressNewReseller, TextTerms, TextDays, TextNumbers, TextForgets,
      PressUser, PressNumbers, TextName, TextRenew, PressToggle, PressDelete, PressEdit, PressDone,
      TextEdit, TextCode, TextExtend, TextWizard, Ask, Answers, Runs
  <2> QED BY <1>2, <2>1, <2>2
<1>4. ASSUME NEW r \in Rids, ResellerBot(r) PROVE OwnInv'
  BY <1>4, MessageChecks
<1>5. ASSUME NEW p \in Procs, Command(p) PROVE OwnInv'
  <2>1. /\ others' \in [Rids -> SUBSET Users]
        /\ \A r \in Rids \ {p} : /\ others'[r] \subseteq others[r]
                              /\ (todo'[r] = todo[r] \/ todo'[r] = <<>>)
    BY <1>5, CommandLeaves
  <2>2. ASSUME NEW r \in Rids \ {p} PROVE Checked(r)'
    <3>1. others'[r] \subseteq others[r] /\ (todo'[r] = todo[r] \/ todo'[r] = <<>>) /\ Checked(r)
      BY <1>1, <2>1
    <3> QED BY <3>1, CheckedKept
  <2>3. p \in Rids => Checked(p)'
    BY <1>5, CommandChecks
  <2> QED BY <2>1, <2>2, <2>3 DEF OwnInv
<1>6. ASSUME NEW p \in Procs, Crash(p) PROVE OwnInv'
  <2>1. others' = others /\ \A r \in Rids : todo'[r] = todo[r] \/ todo'[r] = <<>>
    BY <1>1, <1>6 DEF Crash
  <2> QED BY <1>2, <2>1
<1>7. CASE Cleanup \/ CleanNext \/ SetInactive \/ \E r \in Rids : Expire(r)
  <2>1. others' = others /\ \A r \in Rids : todo'[r] = todo[r]
    BY <1>1, <1>7 DEF Cleanup, CleanNext, SetInactive, Expire, Then
  <2> QED BY <1>2, <2>1
<1>8. ASSUME NEW u \in Users, PanelRenew(u) PROVE OwnInv'
  <2>1. others' = others /\ \A r \in Rids : todo'[r] = todo[r]
    BY <1>1, <1>8 DEF PanelRenew
  <2> QED BY <1>2, <2>1
<1>9. CASE Reinstall
  <2>1. others' = others /\ \A r \in Rids : todo'[r] = <<>>
    BY <1>1, <1>9 DEF Reinstall
  <2> QED BY <1>2, <2>1
<1>10. CASE UNCHANGED vars
  <2>1. others' = others /\ \A r \in Rids : todo'[r] = todo[r]
    BY <1>10 DEF vars
  <2> QED BY <1>2, <2>1
<1> QED BY <1>3, <1>4, <1>5, <1>6, <1>7, <1>8, <1>9, <1>10 DEF Next

\* No step of a reseller's bot touches an account of somebody else that was there
\* when the bot last looked, but for the quota of one it had at the message before.
THEOREM OwnSafe == Spec => OwnAccountsOnly
<1>1. ASSUME BotInv, OwnInv, NEW r \in Rids, AsksOwner(r) \/ Command(r), NEW u \in others[r]
      PROVE  acct'[u] = acct[u]
  <2>0. DOMAIN acct = Users /\ Checked(r)
    BY <1>1 DEF OwnInv, BotInv, TypeOK
  <2>1. CASE AsksOwner(r)
    BY <2>1 DEF AsksOwner, PressDeleteMine, MineTerms, MineNumbers, MineDays, PressTunnel, PressMine, MineName,
                MineRenew, MineQuota, Asks, Onward
  <2>2. CASE WriteMeta(r)
    BY <1>1, <2>0, <2>2 DEF WriteMeta, Checked, Goes, Idle
  <2>3. CASE Tag(r)
    BY <1>1, <2>0, <2>3 DEF Tag, Checked, Goes, Idle
  <2>4. CASE Remove(r)
    BY <1>1, <2>0, <2>4 DEF Remove, Checked, Goes, Idle
  <2>5. CASE Change(r)
    BY <1>1, <2>0, <2>5 DEF Change, Checked, Goes, Idle
  <2>6. CASE Create(r) \/ Delete(r) \/ Purge(r) \/ Sweep(r) \/ Serve(r) \/ Unserve(r) \/ Drop(r)
    BY <2>6 DEF Create, Delete, Purge, Sweep, Serve, Unserve, Drop
  <2> QED BY <1>1, <2>1, <2>2, <2>3, <2>4, <2>5, <2>6 DEF Command
<1>2. BotInv /\ OwnInv /\ [Next]_vars =>
        [\A r \in Rids : AsksOwner(r) \/ Command(r) => \A u \in others[r] : acct'[u] = acct[u]]_vars
  BY <1>1
<1>3. Init => OwnInv
  BY DEF Init, OwnInv, Checked, Procs
<1> QED BY BotInit, BotStep, OwnStep, <1>2, <1>3, PTL DEF Spec, OwnAccountsOnly
=============================================================================
