---------------------------- MODULE TunnelsProofs ----------------------------
(***************************************************************************)
(* For any choice of jobs, any number of them and any number of faults:    *)
(* the scripts of the installers keep the order that takes a table away    *)
(* together with its file, and the removal of everything has, at any time, *)
(* a command left for whatever is still there; and a program that is there *)
(* has the tables and services it was installed with, or a command left    *)
(* that gives them.  Four results follow: a loaded table has its file, a   *)
(* removal leaves nothing, the port range of a tunnel that runs reaches    *)
(* it, and after a full installation every tunnel runs behind its rules.   *)
(***************************************************************************)
EXTENDS Tunnels, SequenceTheorems, TLAPS

Lines == {"xray", "haproxy", "v2ray", "slowdns", "services", "dedup"}
Things == Tunnels \cup Packages \cup {"xray_config", "pem"}
Parts == Tunnels \cup Packages
Hosts ==
  [bin : SUBSET Parts, dir : SUBSET Things, unit : SUBSET Services, enabled : SUBSET Services,
   up : SUBSET Services, file : SUBSET Tables, table : SUBSET Tables, boot : SUBSET Tables,
   cron : SUBSET Lines, spared : [file : SUBSET Ranged, table : SUBSET Ranged],
   conf : {"default", "panel"}, hap : {"default", "panel"}, ns4 : {"lb", "dropbear"}, dup : BOOLEAN]

\* Every command but those of _auto_uninstall_all.
NftOps == {"nftfile", "nftload", "nftstop", "nftunlink", "nftdrop", "catchfile", "catchload"}
UnitOps == {"unit", "rmunit", "start", "stop", "restart", "restart_valid", "enable", "disable", "disable_unless_v2ray"}
Commands ==
  (NftOps \X Tables) \cup (UnitOps \X Services) \cup ({"fetch", "verify", "try"} \X Parts)
    \cup ({"dir", "rebuild", "rmdir", "wipe", "need"} \X Things) \cup ({"cron", "rmcron"} \X Lines)
    \cup {<<"conf", "panel">>, <<"ns4", "lb">>, <<"ns4", "dropbear">>, <<"cert", "xray">>, <<"drop_all", "">>}
Cmds(s) == {s[i] : i \in 1..Len(s)}

\* A table goes after its file, and is loaded from a file just written; the
\* commands a good certificate skips start nothing but a service.
DropsAfter(s) == \A i \in 1..Len(s) : s[i][1] = "nftunlink" =>
                   \E j \in (i+1)..Len(s) : s[j] = <<"nftdrop", s[i][2]>>
LoadsAfter(s) == \A i \in 2..Len(s) : s[i][1] = "nftload" => s[i-1] = <<"nftfile", s[i][2]>>
Skips(s) == \A i \in 1..Len(s) : s[i][1] = "cert" =>
              i + 2 <= Len(s) /\ s[i+1][1] = "stop" /\ s[i+2][1] = "start"
Runs(s) == s \in Seq(Commands) /\ DropsAfter(s) /\ LoadsAfter(s) /\ Skips(s)
\* A script from its beginning.
Whole(s) == Runs(s) /\ (s # <<>> => Head(s)[1] # "nftload")

Asked == {"install", "uninstall"} \X Tunnels
Functions == Asked \cup ({"configure", "repair", "domain", "rest", "auto"} \X {""})
Removes(t) == <<"uninstall", t>>
Rest == <<"rest", "">>
AutoJob == <<"auto", "">>
JobNames == {"none", "one", "install_all", "uninstall_all", "remove", "configure", "repair", "domain"}
Purging == job.name \in {"uninstall_all", "remove"}

\* What a removal may do, and what it has left to do.
PurgeOps == {"nftstop", "nftunlink", "nftdrop", "catchfile", "catchload", "stop", "disable",
             "disable_unless_v2ray", "rmunit", "wipe", "rmdir", "rmcron", "drop_all"}
PurgeFunctions == ({"uninstall"} \X Tunnels) \cup {Rest, AutoJob}
CatchOps == {"catchfile", "catchload"}
Later(Q) == UNION {Cmds(ScriptOf(Q[i][1], Q[i][2])) : i \in 1..Len(Q)}
Left == Cmds(job.script) \cup Later(job.queue)

\* The last function of _auto_uninstall_all, when the tunnels are gone.
KillUnits == <<"kill_units", "">>
WipeAll == <<"wipe_all", "">>
CrontabR == <<"crontab_r", "">>
Flush == <<"flush", "">>
RebootNow == <<"reboot", "">>
Bare == host.table = {} /\ host.file = {} /\ host.bin \subseteq {"haproxy"}
Ending ==
  /\ job = [name |-> "remove", queue |-> <<>>, script |-> job.script] /\ Bare
  /\ \/ host.enabled \subseteq {"haproxy_ssh"} /\ job.script = <<KillUnits, WipeAll, CrontabR, Flush, RebootNow>>
     \/ host.enabled = {} /\ job.script = <<WipeAll, CrontabR, Flush, RebootNow>>
     \/ host.enabled = {} /\ job.script = <<CrontabR, Flush, RebootNow>>
     \/ /\ host.enabled = {} /\ host.cron = {}
        /\ \/ job.script = <<Flush, RebootNow>>
           \/ job.script = <<RebootNow>>
           \/ job.script = <<>> /\ host.up = {} /\ watch = "idle"

Working ==
  /\ job \in [name : JobNames, queue : Seq(Functions), script : Seq(Commands)] /\ Runs(job.script)
  /\ job.name = "none" => job = NoJob
  /\ job.name = "remove" => AutoJob \in Cmds(job.queue)
  /\ \A i \in 1..Len(job.queue) : job.queue[i] = AutoJob => job.name = "remove" /\ i = Len(job.queue)
  /\ job.script # <<>> /\ Head(job.script)[1] = "nftload" => Head(job.script)[2] \in host.file

TypeOK ==
  /\ host \in Hosts /\ (Working \/ Ending)
  /\ watch \in {"idle", "look", "load", "boot", "prio", "drop", "reload", "dedupe"}
  /\ status \in {"none", "full", "purged", "removed"} /\ spoiled \in BOOLEAN
  /\ revived \subseteq Services

\* Unless a job was cut short, a table without its file is about to be dropped.
Covered == ~spoiled => \A n \in host.table \ host.file : <<"nftdrop", n>> \in Cmds(job.script)

\* A removal still has a command for whatever is there.
Remaining ==
  /\ \A n \in host.table : <<"nftdrop", n>> \in Left
  /\ \A n \in host.file : <<"nftunlink", n>> \in Left
  /\ \A b \in host.bin \ {"haproxy"} : <<"wipe", b>> \in Left
  /\ \A s \in host.enabled \ {"haproxy_ssh"} : <<"disable", s>> \in Left
  /\ \A s \in host.up \ ({"haproxy_ssh"} \cup revived) : <<"disable", s>> \in Left
  /\ "haproxy" \in host.cron => <<"rmcron", "haproxy">> \in Left
\* The catchall is written again only before udp-custom is removed.
Ordered ==
  /\ \A c \in Cmds(job.script) : c[1] \in PurgeOps
  /\ job.queue \in Seq(PurgeFunctions)
  /\ (\E c \in Cmds(job.script) : c[1] \in CatchOps) => Removes("udp_custom") \in Cmds(job.queue)
  /\ \A i \in 1..Len(job.queue) :
       job.queue[i] \in {Removes("zivpn"), Removes("hysteria")} =>
         \E k \in (i+1)..Len(job.queue) : job.queue[k] = Removes("udp_custom")
Purge == Purging /\ Working => Remaining /\ Ordered

\* What a removal leaves stays as it is until the next job.
Purged ==
  /\ status # "none" => job.name = "none"
  /\ status = "purged" =>
       /\ Bare /\ host.enabled \subseteq {"haproxy_ssh"} /\ "haproxy" \notin host.cron
       /\ host.up \subseteq {"haproxy_ssh"} \cup revived
  /\ status = "removed" => Bare /\ host.enabled = {} /\ host.cron = {} /\ host.up = {} /\ watch = "idle"

TunnelInv == TypeOK /\ Covered /\ Purge /\ Purged

-----------------------------------------------------------------------------
\* Names, and sequences of commands.

LEMMA TunnelNames ==
  Tunnels = {"dropbear", "ssl_tls", "sshws", "xray", "v2ray", "badvpn", "udp_custom", "slowdns",
             "hysteria", "zivpn"}
<1>1. Len(Order) = 10
  BY DEF Order
<1>2. /\ Order[1] = "dropbear" /\ Order[2] = "ssl_tls" /\ Order[3] = "sshws" /\ Order[4] = "xray"
      /\ Order[5] = "v2ray" /\ Order[6] = "badvpn" /\ Order[7] = "udp_custom" /\ Order[8] = "slowdns"
      /\ Order[9] = "hysteria" /\ Order[10] = "zivpn"
  BY DEF Order
<1>3. \A i \in 1..10 : i = 1 \/ i = 2 \/ i = 3 \/ i = 4 \/ i = 5 \/ i = 6 \/ i = 7 \/ i = 8 \/ i = 9 \/ i = 10
  OBVIOUS
<1> HIDE DEF Order
<1> QED BY <1>1, <1>2, <1>3 DEF Tunnels

LEMMA CmdsTuples ==
  /\ Cmds(<<>>) = {}
  /\ \A a : Cmds(<<a>>) = {a}
  /\ \A a, b : Cmds(<<a, b>>) = {a, b}
  /\ \A a, b, c : Cmds(<<a, b, c>>) = {a, b, c}
BY DEF Cmds

LEMMA CmdsJoined ==
  ASSUME NEW S, NEW s \in Seq(S), NEW t \in Seq(S)
  PROVE  s \o t \in Seq(S) /\ Cmds(s \o t) = Cmds(s) \cup Cmds(t)
<1>1. \A i \in 1..Len(s) : (s \o t)[i] = s[i]
  OBVIOUS
<1>2. \A i \in 1..Len(t) : (s \o t)[Len(s) + i] = t[i]
  OBVIOUS
<1>3. Len(s \o t) = Len(s) + Len(t) /\ s \o t \in Seq(S) /\ Len(s) \in Nat /\ Len(t) \in Nat
  OBVIOUS
<1>4. \A i \in 1..Len(s \o t) : i \in 1..Len(s) \/ (i - Len(s) \in 1..Len(t) /\ i = Len(s) + (i - Len(s)))
  BY <1>3
<1>5. Cmds(s \o t) \subseteq Cmds(s) \cup Cmds(t)
  BY <1>1, <1>2, <1>4 DEF Cmds
<1>6. Cmds(s) \subseteq Cmds(s \o t)
  <2>1. \A i \in 1..Len(s) : i \in 1..Len(s \o t)
    BY <1>3
  <2> QED BY <1>1, <2>1 DEF Cmds
<1>7. Cmds(t) \subseteq Cmds(s \o t)
  <2>1. \A i \in 1..Len(t) : Len(s) + i \in 1..Len(s \o t)
    BY <1>3
  <2> QED BY <1>2, <2>1 DEF Cmds
<1> QED BY <1>3, <1>5, <1>6, <1>7

LEMMA CmdsTail ==
  ASSUME NEW S, NEW s \in Seq(S), s # <<>>
  PROVE  Tail(s) \in Seq(S) /\ Head(s) \in S /\ Cmds(s) = {Head(s)} \cup Cmds(Tail(s))
<1>1. Tail(s) \in Seq(S) /\ Len(Tail(s)) = Len(s) - 1 /\ Head(s) = s[1] /\ Len(s) \in Nat \ {0} /\ s[1] \in S
  OBVIOUS
<1>2. \A i \in 1..Len(Tail(s)) : Tail(s)[i] = s[i+1]
  OBVIOUS
<1>3. \A i \in 1..Len(s) : i = 1 \/ (i - 1 \in 1..Len(Tail(s)) /\ s[i] = Tail(s)[i-1])
  BY <1>1, <1>2
<1>4. \A i \in 1..Len(Tail(s)) : i + 1 \in 1..Len(s)
  BY <1>1
<1>5. Cmds(s) \subseteq {Head(s)} \cup Cmds(Tail(s))
  BY <1>1, <1>3 DEF Cmds
<1>6. {Head(s)} \cup Cmds(Tail(s)) \subseteq Cmds(s)
  <2>1. Cmds(Tail(s)) \subseteq Cmds(s)
    BY <1>2, <1>4 DEF Cmds
  <2>2. Head(s) \in Cmds(s)
    BY <1>1 DEF Cmds
  <2> QED BY <2>1, <2>2
<1> QED BY <1>1, <1>5, <1>6

\* The rest of a script keeps its order.
LEMMA RunsOn ==
  ASSUME NEW s, Runs(s), NEW k \in 0..Len(s)
  PROVE  /\ Runs(SubSeq(s, k + 1, Len(s)))
         /\ Len(SubSeq(s, k + 1, Len(s))) = Len(s) - k
         /\ \A i \in 1..(Len(s) - k) : SubSeq(s, k + 1, Len(s))[i] = s[i + k]
<1> DEFINE t == SubSeq(s, k + 1, Len(s))
<1>1. s \in Seq(Commands) /\ Len(s) \in Nat /\ k \in Nat /\ k <= Len(s)
  BY DEF Runs
<1>2. t \in Seq(Commands) /\ Len(t) = Len(s) - k /\ \A i \in 1..(Len(s) - k) : t[i] = s[i + k]
  BY <1>1
<1> HIDE DEF t
<1>3. DropsAfter(t)
  <2> SUFFICES ASSUME NEW i \in 1..Len(t), t[i][1] = "nftunlink"
               PROVE  \E j \in (i+1)..Len(t) : t[j] = <<"nftdrop", t[i][2]>>
    BY DEF DropsAfter
  <2>1. i + k \in 1..Len(s) /\ t[i] = s[i + k]
    BY <1>1, <1>2
  <2>2. PICK j \in (i + k + 1)..Len(s) : s[j] = <<"nftdrop", t[i][2]>>
    BY <2>1 DEF Runs, DropsAfter
  <2>3. j - k \in (i+1)..Len(t) /\ t[j - k] = s[j - k + k] /\ j - k + k = j
    BY <1>1, <1>2, <2>2
  <2> QED BY <2>2, <2>3
<1>4. LoadsAfter(t)
  <2> SUFFICES ASSUME NEW i \in 2..Len(t), t[i][1] = "nftload"
               PROVE  t[i-1] = <<"nftfile", t[i][2]>>
    BY DEF LoadsAfter
  <2>1. i \in 1..(Len(s) - k) /\ i - 1 \in 1..(Len(s) - k) /\ i + k \in 2..Len(s) /\ (i-1) + k = (i+k) - 1
    BY <1>1, <1>2
  <2>2. t[i] = s[i + k] /\ t[i-1] = s[(i+k) - 1]
    BY <1>2, <2>1
  <2> QED BY <2>1, <2>2 DEF Runs, LoadsAfter
<1>5. Skips(t)
  <2> SUFFICES ASSUME NEW i \in 1..Len(t), t[i][1] = "cert"
               PROVE  i + 2 <= Len(t) /\ t[i+1][1] = "stop" /\ t[i+2][1] = "start"
    BY DEF Skips
  <2>1. i \in 1..(Len(s) - k) /\ i + k \in 1..Len(s) /\ t[i] = s[i + k]
    BY <1>1, <1>2
  <2>2. (i + k) + 2 <= Len(s) /\ s[(i+k)+1][1] = "stop" /\ s[(i+k)+2][1] = "start"
    BY <2>1 DEF Runs, Skips
  <2>3. i + 1 \in 1..(Len(s) - k) /\ i + 2 \in 1..(Len(s) - k) /\ i + 2 <= Len(t)
        /\ (i+1)+k = (i+k)+1 /\ (i+2)+k = (i+k)+2
    BY <1>1, <1>2, <2>1, <2>2
  <2>4. t[i+1] = s[(i+k)+1] /\ t[i+2] = s[(i+k)+2]
    BY <1>2, <2>3
  <2> QED BY <2>2, <2>3, <2>4
<1> QED BY <1>2, <1>3, <1>4, <1>5 DEF Runs, t

\* Two scripts that begin as scripts do make one.
LEMMA Joined ==
  ASSUME NEW s, NEW t, Whole(s), Whole(t)
  PROVE  Whole(s \o t)
<1> DEFINE u == s \o t
<1>1. s \in Seq(Commands) /\ t \in Seq(Commands) /\ Len(s) \in Nat /\ Len(t) \in Nat
  BY DEF Whole, Runs
<1>2. /\ u \in Seq(Commands) /\ Len(u) = Len(s) + Len(t)
      /\ \A i \in 1..Len(s) : u[i] = s[i]
      /\ \A i \in 1..Len(t) : u[i + Len(s)] = t[i]
  BY <1>1
<1> HIDE DEF u
<1>3. \A i \in 1..Len(u) : i \in 1..Len(s) \/ (i - Len(s) \in 1..Len(t) /\ u[i] = t[i - Len(s)])
  <2> SUFFICES ASSUME NEW i \in 1..Len(u), i \notin 1..Len(s)
               PROVE  i - Len(s) \in 1..Len(t) /\ u[i] = t[i - Len(s)]
    OBVIOUS
  <2>1. i - Len(s) \in 1..Len(t) /\ (i - Len(s)) + Len(s) = i
    BY <1>1, <1>2
  <2> QED BY <1>2, <2>1
<1>4. DropsAfter(u)
  <2> SUFFICES ASSUME NEW i \in 1..Len(u), u[i][1] = "nftunlink"
               PROVE  \E j \in (i+1)..Len(u) : u[j] = <<"nftdrop", u[i][2]>>
    BY DEF DropsAfter
  <2>1. CASE i \in 1..Len(s)
    <3>1. PICK j \in (i+1)..Len(s) : s[j] = <<"nftdrop", u[i][2]>>
      BY <1>2, <2>1 DEF Whole, Runs, DropsAfter
    <3>2. j \in 1..Len(s) /\ j \in (i+1)..Len(u)
      BY <1>1, <1>2, <2>1, <3>1
    <3> QED BY <1>2, <3>1, <3>2
  <2>2. CASE i \notin 1..Len(s)
    <3>1. i - Len(s) \in 1..Len(t) /\ u[i] = t[i - Len(s)]
      BY <1>3, <2>2
    <3>2. PICK j \in ((i - Len(s)) + 1)..Len(t) : t[j] = <<"nftdrop", u[i][2]>>
      BY <3>1 DEF Whole, Runs, DropsAfter
    <3>3. j \in 1..Len(t) /\ j + Len(s) \in (i+1)..Len(u)
      BY <1>1, <1>2, <3>1, <3>2
    <3> QED BY <1>2, <3>2, <3>3
  <2> QED BY <2>1, <2>2
<1>5. LoadsAfter(u)
  <2> SUFFICES ASSUME NEW i \in 2..Len(u), u[i][1] = "nftload"
               PROVE  u[i-1] = <<"nftfile", u[i][2]>>
    BY DEF LoadsAfter
  <2>1. CASE i \in 1..Len(s)
    <3>1. i \in 2..Len(s) /\ i - 1 \in 1..Len(s)
      BY <1>1, <2>1
    <3>2. u[i] = s[i] /\ u[i-1] = s[i-1]
      BY <1>2, <3>1
    <3>3. s[i][1] = "nftload" => s[i-1] = <<"nftfile", s[i][2]>>
      BY <3>1 DEF Whole, Runs, LoadsAfter
    <3> QED BY <3>2, <3>3
  <2>2. CASE i \notin 1..Len(s)
    <3>1. i - Len(s) \in 1..Len(t) /\ u[i] = t[i - Len(s)]
      BY <1>3, <2>2
    <3>2. i - Len(s) # 1
      <4>1. t # <<>> /\ Head(t)[1] # "nftload" /\ Head(t) = t[1]
        BY <1>1, <3>1 DEF Whole
      <4> QED BY <3>1, <4>1
    <3>3. i - Len(s) \in 2..Len(t) /\ (i - Len(s)) - 1 \in 1..Len(t) /\ ((i - Len(s)) - 1) + Len(s) = i - 1
      BY <1>1, <3>1, <3>2
    <3>4. u[i-1] = t[(i - Len(s)) - 1]
      BY <1>2, <3>3
    <3> QED BY <3>1, <3>3, <3>4 DEF Whole, Runs, LoadsAfter
  <2> QED BY <2>1, <2>2
<1>6. Skips(u)
  <2> SUFFICES ASSUME NEW i \in 1..Len(u), u[i][1] = "cert"
               PROVE  i + 2 <= Len(u) /\ u[i+1][1] = "stop" /\ u[i+2][1] = "start"
    BY DEF Skips
  <2>1. CASE i \in 1..Len(s)
    <3>1. i + 2 <= Len(s) /\ s[i+1][1] = "stop" /\ s[i+2][1] = "start"
      BY <1>2, <2>1 DEF Whole, Runs, Skips
    <3>2. i + 1 \in 1..Len(s) /\ i + 2 \in 1..Len(s) /\ i + 2 <= Len(u)
      BY <1>1, <1>2, <2>1, <3>1
    <3> QED BY <1>2, <3>1, <3>2
  <2>2. CASE i \notin 1..Len(s)
    <3> DEFINE k == i - Len(s)
    <3>1. k \in 1..Len(t) /\ u[i] = t[k]
      BY <1>3, <2>2
    <3>2. k + 2 <= Len(t) /\ t[k+1][1] = "stop" /\ t[k+2][1] = "start"
      BY <3>1 DEF Whole, Runs, Skips
    <3>3. /\ k + 1 \in 1..Len(t) /\ k + 2 \in 1..Len(t) /\ i + 2 <= Len(u)
          /\ (k + 1) + Len(s) = i + 1 /\ (k + 2) + Len(s) = i + 2
      BY <1>1, <1>2, <3>1, <3>2
    <3>4. u[i+1] = t[k+1] /\ u[i+2] = t[k+2]
      BY <1>2, <3>3
    <3> QED BY <3>2, <3>3, <3>4
  <2> QED BY <2>1, <2>2
<1>7. u # <<>> => Head(u)[1] # "nftload"
  <2> SUFFICES ASSUME u # <<>> PROVE Head(u)[1] # "nftload"
    OBVIOUS
  <2>1. Len(u) \in Nat \ {0} /\ Head(u) = u[1]
    BY <1>2
  <2>2. CASE s = <<>>
    <3>1. Len(s) = 0
      BY <2>2
    <3>2. 1 \in 1..Len(t) /\ u[1] = t[1]
      BY <1>1, <1>2, <1>3, <2>1, <3>1
    <3>3. t # <<>> /\ Head(t) = t[1]
      BY <1>1, <3>2
    <3> QED BY <2>1, <3>2, <3>3 DEF Whole
  <2>3. CASE s # <<>>
    <3>1. 1 \in 1..Len(s) /\ Head(s) = s[1]
      BY <1>1, <2>3
    <3> QED BY <1>2, <2>1, <2>3, <3>1 DEF Whole
  <2> QED BY <2>2, <2>3
<1> QED BY <1>2, <1>4, <1>5, <1>6, <1>7 DEF Whole, Runs, u

Plain == {c \in Commands : c[1] \notin {"nftload", "nftunlink", "cert"}}
LEMMA PlainWhole ==
  ASSUME NEW s \in Seq(Plain)
  PROVE  Whole(s)
<1>1. \A i \in 1..Len(s) : s[i] \in Plain
  OBVIOUS
<1>2. \A i \in 1..Len(s) : s[i][1] \notin {"nftload", "nftunlink", "cert"}
  BY <1>1 DEF Plain
<1>3. s \in Seq(Commands)
  <2>1. Plain \subseteq Commands
    BY DEF Plain
  <2> QED BY <2>1
<1>4. s # <<>> => 1 \in 1..Len(s) /\ Head(s) = s[1]
  OBVIOUS
<1>5. \A i \in 2..Len(s) : i \in 1..Len(s)
  BY <1>3
<1> QED BY <1>2, <1>3, <1>4, <1>5 DEF Whole, Runs, DropsAfter, LoadsAfter, Skips

LEMMA PlainJoined == \A s, t \in Seq(Plain) : s \o t \in Seq(Plain)
OBVIOUS

-----------------------------------------------------------------------------
\* The scripts.

LEMMA NameSets ==
  /\ Tables = {"dropbear", "ssl_tls", "sshws", "xray", "v2ray", "badvpn", "udp_custom", "slowdns",
               "hysteria", "zivpn", "ws_dropbear", "ws_stunnel", "catchall"}
  /\ Services = {"dropbear", "ssl_tls", "sshws", "xray", "v2ray", "badvpn", "udp_custom", "hysteria",
                 "zivpn", "ws_dropbear", "ws_stunnel", "ns4", "nv4", "haproxy", "haproxy_ssh", "dnsdist"}
  /\ Parts = {"dropbear", "ssl_tls", "sshws", "xray", "v2ray", "badvpn", "udp_custom", "slowdns",
              "hysteria", "zivpn", "haproxy", "dnsdist"}
  /\ Things = {"dropbear", "ssl_tls", "sshws", "xray", "v2ray", "badvpn", "udp_custom", "slowdns",
               "hysteria", "zivpn", "haproxy", "dnsdist", "xray_config", "pem"}
<1>1. Tables = {"dropbear", "ssl_tls", "sshws", "xray", "v2ray", "badvpn", "udp_custom", "slowdns",
                "hysteria", "zivpn", "ws_dropbear", "ws_stunnel", "catchall"}
  BY TunnelNames DEF Tables
<1>2. Services = {"dropbear", "ssl_tls", "sshws", "xray", "v2ray", "badvpn", "udp_custom", "hysteria",
                  "zivpn", "ws_dropbear", "ws_stunnel", "ns4", "nv4", "haproxy", "haproxy_ssh", "dnsdist"}
  BY TunnelNames DEF Services
<1>3. Parts = {"dropbear", "ssl_tls", "sshws", "xray", "v2ray", "badvpn", "udp_custom", "slowdns",
               "hysteria", "zivpn", "haproxy", "dnsdist"}
  BY TunnelNames DEF Parts, Packages
<1>4. Things = {"dropbear", "ssl_tls", "sshws", "xray", "v2ray", "badvpn", "udp_custom", "slowdns",
                "hysteria", "zivpn", "haproxy", "dnsdist", "xray_config", "pem"}
  BY TunnelNames DEF Things, Packages
<1> QED BY <1>1, <1>2, <1>3, <1>4

LEMMA PlainCommands ==
  /\ \A n \in Tables, op \in {"nftfile", "nftstop", "nftdrop", "catchfile", "catchload"} : <<op, n>> \in Plain
  /\ \A s \in Services, op \in UnitOps : <<op, s>> \in Plain
  /\ \A p \in Parts, op \in {"fetch", "verify", "try"} : <<op, p>> \in Plain
  /\ \A x \in Things, op \in {"dir", "rebuild", "rmdir", "wipe", "need"} : <<op, x>> \in Plain
  /\ \A l \in Lines, op \in {"cron", "rmcron"} : <<op, l>> \in Plain
  /\ <<"conf", "panel">> \in Plain /\ <<"ns4", "lb">> \in Plain /\ <<"ns4", "dropbear">> \in Plain
  /\ <<"drop_all", "">> \in Plain
<1>1. \A n \in Tables, op \in {"nftfile", "nftstop", "nftdrop", "catchfile", "catchload"} : <<op, n>> \in Plain
  BY DEF Plain, Commands, NftOps
<1>2. \A s \in Services, op \in UnitOps : <<op, s>> \in Plain
  BY DEF Plain, Commands, UnitOps
<1>3. \A p \in Parts, op \in {"fetch", "verify", "try"} : <<op, p>> \in Plain
  BY DEF Plain, Commands
<1>4. \A x \in Things, op \in {"dir", "rebuild", "rmdir", "wipe", "need"} : <<op, x>> \in Plain
  BY DEF Plain, Commands
<1>5. \A l \in Lines, op \in {"cron", "rmcron"} : <<op, l>> \in Plain
  BY DEF Plain, Commands
<1>6. /\ <<"conf", "panel">> \in Plain /\ <<"ns4", "lb">> \in Plain /\ <<"ns4", "dropbear">> \in Plain
      /\ <<"drop_all", "">> \in Plain
  <2>1. /\ <<"conf", "panel">> \in Commands /\ <<"ns4", "lb">> \in Commands
        /\ <<"ns4", "dropbear">> \in Commands /\ <<"drop_all", "">> \in Commands
    BY DEF Commands
  <2> QED BY <2>1 DEF Plain
<1> QED BY <1>1, <1>2, <1>3, <1>4, <1>5, <1>6

LEMMA WholePieces ==
  /\ \A n \in Tables : Whole(DeployNft(n)) /\ Whole(RemoveNft(n))
  /\ \A s \in Services : RunUnit(s) \in Seq(Plain) /\ EndUnit(s) \in Seq(Plain)
  /\ EnsureCatchall \in Seq(Plain) /\ SshBalancer \in Seq(Plain)
  /\ XrayConf \in Seq(Plain) /\ HaproxyConf \in Seq(Plain) /\ Whole(AcmeCert)
<1>1. ASSUME NEW n \in Tables
      PROVE  Whole(DeployNft(n))
  <2> DEFINE s == DeployNft(n)
  <2>1. /\ s[1] = <<"catchfile", n>> /\ s[2] = <<"catchload", n>>
        /\ s[3] = <<"nftfile", n>> /\ s[4] = <<"nftload", n>> /\ Len(s) = 4
        /\ Head(s) = <<"catchfile", n>>
    BY DEF DeployNft
  <2>2. s \in Seq(Commands)
    <3>1. /\ <<"catchfile", n>> \in Commands /\ <<"catchload", n>> \in Commands
          /\ <<"nftfile", n>> \in Commands /\ <<"nftload", n>> \in Commands
      BY DEF Commands, NftOps
    <3> QED BY <3>1 DEF DeployNft
  <2> HIDE DEF s
  <2>3. \A i \in 1..4 : i = 1 \/ i = 2 \/ i = 3 \/ i = 4
    OBVIOUS
  <2>4. DropsAfter(s) /\ Skips(s)
    BY <2>1, <2>3 DEF DropsAfter, Skips
  <2>5. LoadsAfter(s)
    BY <2>1 DEF LoadsAfter
  <2> QED BY <2>1, <2>2, <2>4, <2>5 DEF Whole, Runs, s
<1>2. ASSUME NEW n \in Tables
      PROVE  Whole(RemoveNft(n))
  <2> DEFINE s == RemoveNft(n)
  <2>1. /\ s[1] = <<"nftstop", n>> /\ s[2] = <<"nftunlink", n>> /\ s[3] = <<"nftdrop", n>> /\ Len(s) = 3
        /\ Head(s) = <<"nftstop", n>>
    BY DEF RemoveNft
  <2>2. s \in Seq(Commands)
    <3>1. <<"nftstop", n>> \in Commands /\ <<"nftunlink", n>> \in Commands /\ <<"nftdrop", n>> \in Commands
      BY DEF Commands, NftOps
    <3> QED BY <3>1 DEF RemoveNft
  <2> HIDE DEF s
  <2>3. \A i \in 1..3 : i = 1 \/ i = 2 \/ i = 3
    OBVIOUS
  <2>4. DropsAfter(s) /\ Skips(s)
    BY <2>1, <2>3 DEF DropsAfter, Skips
  <2>5. LoadsAfter(s)
    BY <2>1 DEF LoadsAfter
  <2> QED BY <2>1, <2>2, <2>4, <2>5 DEF Whole, Runs, s
<1>3. ASSUME NEW s \in Services
      PROVE  RunUnit(s) \in Seq(Plain) /\ EndUnit(s) \in Seq(Plain)
  <2>1. /\ <<"unit", s>> \in Plain /\ <<"enable", s>> \in Plain
        /\ <<"disable", s>> \in Plain /\ <<"rmunit", s>> \in Plain
    BY PlainCommands DEF UnitOps
  <2> QED BY <2>1 DEF RunUnit, EndUnit
<1>4. EnsureCatchall \in Seq(Plain)
  <2>1. <<"catchfile", "catchall">> \in Plain /\ <<"catchload", "catchall">> \in Plain
    BY PlainCommands, NameSets
  <2> QED BY <2>1 DEF EnsureCatchall
<1>5. SshBalancer \in Seq(Plain)
  <2>1. /\ <<"dir", "haproxy">> \in Plain
        /\ <<"unit", "haproxy_ssh">> \in Plain /\ <<"enable", "haproxy_ssh">> \in Plain
    BY PlainCommands, NameSets DEF UnitOps
  <2> QED BY <2>1 DEF SshBalancer
<1>6. XrayConf \in Seq(Plain)
  <2>1. <<"dir", "xray_config">> \in Plain
    BY PlainCommands, NameSets
  <2> QED BY <2>1 DEF XrayConf
<1>7. HaproxyConf \in Seq(Plain)
  <2>1. <<<<"need", "haproxy">>, <<"conf", "panel">>>> \in Seq(Plain)
    <3>1. <<"need", "haproxy">> \in Plain /\ <<"conf", "panel">> \in Plain
      BY PlainCommands, NameSets
    <3> QED BY <3>1
  <2> QED BY <2>1, <1>5, PlainJoined DEF HaproxyConf
<1>8. Whole(AcmeCert)
  <2> DEFINE s == AcmeCert
  <2>1. /\ s[1] = <<"cert", "xray">> /\ s[2] = <<"stop", "sshws">> /\ s[3] = <<"start", "sshws">> /\ Len(s) = 3
        /\ Head(s) = <<"cert", "xray">>
    BY DEF AcmeCert
  <2>2. s \in Seq(Commands)
    <3>1. <<"cert", "xray">> \in Commands /\ <<"stop", "sshws">> \in Commands /\ <<"start", "sshws">> \in Commands
      BY NameSets DEF Commands, UnitOps
    <3> QED BY <3>1 DEF AcmeCert
  <2> HIDE DEF s
  <2>3. \A i \in 1..3 : i = 1 \/ i = 2 \/ i = 3
    OBVIOUS
  <2>4. DropsAfter(s) /\ Skips(s)
    BY <2>1, <2>3 DEF DropsAfter, Skips
  <2>5. LoadsAfter(s)
    BY <2>1 DEF LoadsAfter
  <2> QED BY <2>1, <2>2, <2>4, <2>5 DEF Whole, Runs, s
<1> QED BY <1>1, <1>2, <1>3, <1>4, <1>5, <1>6, <1>7, <1>8

LEMMA Short ==
  /\ \A a \in Plain : Whole(<<a>>)
  /\ \A a, b \in Plain : Whole(<<a, b>>)
  /\ \A a, b, c \in Plain : Whole(<<a, b, c>>)
  /\ \A a, b, c, d \in Plain : Whole(<<a, b, c, d>>)
  /\ \A a, b, c, d, e \in Plain : Whole(<<a, b, c, d, e>>)
  /\ \A a, b, c, d, e, f, g, h \in Plain : Whole(<<a, b, c, d, e, f, g, h>>)
<1>1. ASSUME NEW a \in Plain, NEW b \in Plain, NEW c \in Plain, NEW d \in Plain,
             NEW e \in Plain, NEW f \in Plain, NEW g \in Plain, NEW h \in Plain
      PROVE  /\ <<a>> \in Seq(Plain) /\ <<a, b>> \in Seq(Plain) /\ <<a, b, c>> \in Seq(Plain)
             /\ <<a, b, c, d>> \in Seq(Plain) /\ <<a, b, c, d, e>> \in Seq(Plain)
             /\ <<a, b, c, d, e, f, g, h>> \in Seq(Plain)
  OBVIOUS
<1> QED BY <1>1, PlainWhole

LEMMA UnitsWhole == \A s \in Services : Whole(RunUnit(s)) /\ Whole(EndUnit(s))
BY WholePieces, PlainWhole

LEMMA InstallsWhole == \A t \in Tunnels : Whole(InstallScript[t])
<1>w. Whole(InstallWsProxies)
  <2>1. /\ Whole(RunUnit("ws_dropbear"))
        /\ Whole(DeployNft("ws_dropbear"))
        /\ Whole(RunUnit("ws_stunnel"))
        /\ Whole(DeployNft("ws_stunnel"))
    BY WholePieces, UnitsWhole, PlainWhole, NameSets
  <2> QED BY <2>1, Joined DEF InstallWsProxies
<1>s. Whole(XrayStarted)
  <2>1. /\ <<"restart", "haproxy">> \in Plain
        /\ <<"enable", "xray">> \in Plain
    BY PlainCommands, NameSets DEF UnitOps, Lines
  <2>2. /\ Whole(<<<<"restart", "haproxy">>, <<"enable", "xray">>>>)
    BY <2>1, Short
  <2> QED BY <2>2 DEF XrayStarted
<1>c. Whole(XrayCrons)
  <2>1. /\ <<"cron", "haproxy">> \in Plain
        /\ <<"cron", "services">> \in Plain
    BY PlainCommands, NameSets DEF UnitOps, Lines
  <2>2. /\ Whole(<<<<"cron", "haproxy">>, <<"cron", "services">>>>)
    BY <2>1, Short
  <2>3. Whole(XrayWatchdog)
    <3>1. <<"cron", "xray">> \in Plain
      BY PlainCommands DEF Lines
    <3> QED BY <3>1, Short DEF XrayWatchdog
  <2> QED BY <2>2, <2>3, Joined DEF XrayCrons
<1>1. Whole(InstallDropbear)
  <2>1. /\ <<"try", "dropbear">> \in Plain
        /\ <<"dir", "dropbear">> \in Plain
    BY PlainCommands, NameSets DEF UnitOps, Lines
  <2>2. /\ Whole(<<<<"try", "dropbear">>, <<"dir", "dropbear">>>>)
    BY <2>1, Short
  <2>3. /\ Whole(RunUnit("dropbear"))
        /\ Whole(DeployNft("dropbear"))
    BY WholePieces, UnitsWhole, PlainWhole, NameSets
  <2> QED BY <2>2, <2>3, Joined DEF InstallDropbear
<1>2. Whole(InstallSslTls)
  <2>1. /\ <<"fetch", "ssl_tls">> \in Plain
        /\ <<"verify", "ssl_tls">> \in Plain
    BY PlainCommands, NameSets DEF UnitOps, Lines
  <2>2. /\ Whole(<<<<"fetch", "ssl_tls">>, <<"verify", "ssl_tls">>>>)
    BY <2>1, Short
  <2>3. /\ Whole(RunUnit("ssl_tls"))
        /\ Whole(DeployNft("ssl_tls"))
    BY WholePieces, UnitsWhole, PlainWhole, NameSets
  <2> QED BY <2>2, <2>3, Joined DEF InstallSslTls
<1>3. Whole(InstallSshws)
  <2>1. /\ <<"fetch", "sshws">> \in Plain
        /\ <<"verify", "sshws">> \in Plain
    BY PlainCommands, NameSets DEF UnitOps, Lines
  <2>2. /\ Whole(<<<<"fetch", "sshws">>, <<"verify", "sshws">>>>)
    BY <2>1, Short
  <2>3. /\ Whole(RunUnit("sshws"))
        /\ Whole(DeployNft("sshws"))
        /\ Whole(InstallWsProxies)
    BY <1>w, WholePieces, UnitsWhole, PlainWhole, NameSets
  <2> QED BY <2>2, <2>3, Joined DEF InstallSshws
<1>4. Whole(InstallBadvpn)
  <2>1. /\ <<"fetch", "badvpn">> \in Plain
    BY PlainCommands, NameSets DEF UnitOps, Lines
  <2>2. /\ Whole(<<<<"fetch", "badvpn">>>>)
    BY <2>1, Short
  <2>3. /\ Whole(RunUnit("badvpn"))
        /\ Whole(DeployNft("badvpn"))
    BY WholePieces, UnitsWhole, PlainWhole, NameSets
  <2> QED BY <2>2, <2>3, Joined DEF InstallBadvpn
<1>5. Whole(InstallUdpCustom)
  <2>1. /\ <<"fetch", "udp_custom">> \in Plain
        /\ <<"dir", "udp_custom">> \in Plain
    BY PlainCommands, NameSets DEF UnitOps, Lines
  <2>2. /\ Whole(<<<<"fetch", "udp_custom">>, <<"dir", "udp_custom">>>>)
    BY <2>1, Short
  <2>3. /\ Whole(RunUnit("udp_custom"))
        /\ Whole(DeployNft("udp_custom"))
    BY WholePieces, UnitsWhole, PlainWhole, NameSets
  <2> QED BY <2>2, <2>3, Joined DEF InstallUdpCustom
<1>6. Whole(InstallSlowdns)
  <2>1. /\ <<"try", "dnsdist">> \in Plain
        /\ <<"dir", "slowdns">> \in Plain
        /\ <<"try", "slowdns">> \in Plain
        /\ <<"ns4", "lb">> \in Plain
        /\ <<"stop", "dnsdist">> \in Plain
        /\ <<"need", "dnsdist">> \in Plain
        /\ <<"enable", "dnsdist">> \in Plain
        /\ <<"restart", "dnsdist">> \in Plain
        /\ <<"restart", "ns4">> \in Plain
        /\ <<"restart", "nv4">> \in Plain
        /\ <<"cron", "slowdns">> \in Plain
    BY PlainCommands, NameSets DEF UnitOps, Lines
  <2>2. /\ Whole(<<<<"try", "dnsdist">>, <<"dir", "slowdns">>, <<"try", "slowdns">>>>)
        /\ Whole(<<<<"ns4", "lb">>>>)
        /\ Whole(<<<<"stop", "dnsdist">>, <<"need", "dnsdist">>>>)
        /\ Whole(<<<<"enable", "dnsdist">>, <<"restart", "dnsdist">>, <<"restart", "ns4">>,
                   <<"restart", "nv4">>, <<"cron", "slowdns">>>>)
    BY <2>1, Short
  <2>3. /\ Whole(SshBalancer)
        /\ Whole(RunUnit("ns4"))
        /\ Whole(RunUnit("nv4"))
        /\ Whole(DeployNft("slowdns"))
    BY WholePieces, UnitsWhole, PlainWhole, NameSets
  <2> QED BY <2>2, <2>3, Joined DEF InstallSlowdns
<1>7. Whole(InstallXray)
  <2>1. /\ <<"try", "haproxy">> \in Plain
        /\ <<"fetch", "xray">> \in Plain
        /\ <<"dir", "xray">> \in Plain
        /\ <<"dir", "pem">> \in Plain
        /\ <<"unit", "xray">> \in Plain
    BY PlainCommands, NameSets DEF UnitOps, Lines
  <2>2. /\ Whole(<<<<"try", "haproxy">>, <<"fetch", "xray">>, <<"dir", "xray">>>>)
        /\ Whole(<<<<"dir", "pem">>>>)
        /\ Whole(<<<<"unit", "xray">>>>)
    BY <2>1, Short
  <2>3. /\ Whole(AcmeCert)
        /\ Whole(XrayConf)
        /\ Whole(HaproxyConf)
        /\ Whole(DeployNft("xray"))
        /\ Whole(XrayStarted)
        /\ Whole(XrayCrons)
    BY <1>s, <1>c, WholePieces, UnitsWhole, PlainWhole, NameSets
  <2> QED BY <2>2, <2>3, Joined DEF InstallXray
<1>8. Whole(InstallV2ray)
  <2>1. /\ <<"fetch", "v2ray">> \in Plain
        /\ <<"dir", "v2ray">> \in Plain
        /\ <<"cron", "v2ray">> \in Plain
    BY PlainCommands, NameSets DEF UnitOps, Lines
  <2>2. /\ Whole(<<<<"fetch", "v2ray">>, <<"dir", "v2ray">>>>)
        /\ Whole(<<<<"cron", "v2ray">>>>)
    BY <2>1, Short
  <2>3. /\ Whole(DeployNft("v2ray"))
        /\ Whole(RunUnit("v2ray"))
    BY WholePieces, UnitsWhole, PlainWhole, NameSets
  <2> QED BY <2>2, <2>3, Joined DEF InstallV2ray
<1>9. Whole(InstallHysteria)
  <2>1. /\ <<"fetch", "hysteria">> \in Plain
        /\ <<"dir", "hysteria">> \in Plain
        /\ <<"unit", "hysteria">> \in Plain
        /\ <<"enable", "hysteria">> \in Plain
    BY PlainCommands, NameSets DEF UnitOps, Lines
  <2>2. /\ Whole(<<<<"fetch", "hysteria">>, <<"dir", "hysteria">>, <<"unit", "hysteria">>>>)
        /\ Whole(<<<<"enable", "hysteria">>>>)
    BY <2>1, Short
  <2>3. /\ Whole(DeployNft("hysteria"))
    BY WholePieces, UnitsWhole, PlainWhole, NameSets
  <2> QED BY <2>2, <2>3, Joined DEF InstallHysteria
<1>10. Whole(InstallZivpn)
  <2>1. /\ <<"fetch", "zivpn">> \in Plain
        /\ <<"dir", "zivpn">> \in Plain
        /\ <<"unit", "zivpn">> \in Plain
        /\ <<"enable", "zivpn">> \in Plain
    BY PlainCommands, NameSets DEF UnitOps, Lines
  <2>2. /\ Whole(<<<<"fetch", "zivpn">>, <<"dir", "zivpn">>, <<"unit", "zivpn">>>>)
        /\ Whole(<<<<"enable", "zivpn">>>>)
    BY <2>1, Short
  <2>3. /\ Whole(DeployNft("zivpn"))
        /\ Whole(EnsureCatchall)
    BY WholePieces, UnitsWhole, PlainWhole, NameSets
  <2> QED BY <2>2, <2>3, Joined DEF InstallZivpn
<1> QED BY <1>1, <1>2, <1>3, <1>4, <1>5, <1>6, <1>7, <1>8, <1>9, <1>10, TunnelNames DEF InstallScript

\* The commands of the scripts that remove a tunnel.
LEMMA JoinedCmds ==
  ASSUME NEW s, NEW t, Whole(s), Whole(t)
  PROVE  Whole(s \o t) /\ Cmds(s \o t) = Cmds(s) \cup Cmds(t)
BY CmdsJoined, Joined DEF Whole, Runs

LEMMA PiecesCmds ==
  /\ \A n : Cmds(RemoveNft(n)) = {<<"nftstop", n>>, <<"nftunlink", n>>, <<"nftdrop", n>>}
  /\ \A s : Cmds(EndUnit(s)) = {<<"disable", s>>, <<"rmunit", s>>}
  /\ Cmds(EnsureCatchall) = {<<"catchfile", "catchall">>, <<"catchload", "catchall">>}
BY CmdsTuples DEF RemoveNft, EndUnit, EnsureCatchall

LEMMA UninstallsCmds ==
  /\ Whole(UninstallDropbear)
  /\ Cmds(UninstallDropbear) = {<<"disable", "dropbear">>, <<"rmunit", "dropbear">>,
       <<"wipe", "dropbear">>, <<"nftstop", "dropbear">>, <<"nftunlink", "dropbear">>,
       <<"nftdrop", "dropbear">>}
  /\ Whole(UninstallSslTls)
  /\ Cmds(UninstallSslTls) = {<<"disable", "ssl_tls">>, <<"rmunit", "ssl_tls">>,
       <<"wipe", "ssl_tls">>, <<"nftstop", "ssl_tls">>, <<"nftunlink", "ssl_tls">>,
       <<"nftdrop", "ssl_tls">>}
  /\ Whole(UninstallSshws)
  /\ Cmds(UninstallSshws) = {<<"disable", "sshws">>, <<"rmunit", "sshws">>, <<"stop", "sshws">>,
       <<"wipe", "sshws">>, <<"nftstop", "sshws">>, <<"nftunlink", "sshws">>,
       <<"nftdrop", "sshws">>, <<"disable", "ws_dropbear">>, <<"rmunit", "ws_dropbear">>,
       <<"nftstop", "ws_dropbear">>, <<"nftunlink", "ws_dropbear">>, <<"nftdrop", "ws_dropbear">>,
       <<"disable", "ws_stunnel">>, <<"rmunit", "ws_stunnel">>, <<"nftstop", "ws_stunnel">>,
       <<"nftunlink", "ws_stunnel">>, <<"nftdrop", "ws_stunnel">>}
  /\ Whole(UninstallBadvpn)
  /\ Cmds(UninstallBadvpn) = {<<"disable", "badvpn">>, <<"rmunit", "badvpn">>,
       <<"wipe", "badvpn">>, <<"nftstop", "badvpn">>, <<"nftunlink", "badvpn">>,
       <<"nftdrop", "badvpn">>}
  /\ Whole(UninstallUdpCustom)
  /\ Cmds(UninstallUdpCustom) = {<<"disable", "udp_custom">>, <<"rmunit", "udp_custom">>,
       <<"wipe", "udp_custom">>, <<"nftstop", "udp_custom">>, <<"nftunlink", "udp_custom">>,
       <<"nftdrop", "udp_custom">>, <<"nftstop", "catchall">>, <<"nftunlink", "catchall">>,
       <<"nftdrop", "catchall">>, <<"rmcron", "dedup">>}
  /\ Whole(UninstallSlowdns)
  /\ Cmds(UninstallSlowdns) = {<<"disable", "ns4">>, <<"rmunit", "ns4">>, <<"disable", "nv4">>,
       <<"rmunit", "nv4">>, <<"disable", "dnsdist">>, <<"wipe", "slowdns">>,
       <<"rmdir", "dnsdist">>, <<"nftstop", "slowdns">>, <<"nftunlink", "slowdns">>,
       <<"nftdrop", "slowdns">>, <<"wipe", "dnsdist">>, <<"rmcron", "slowdns">>}
  /\ Whole(UninstallXray)
  /\ Cmds(UninstallXray) = {<<"disable", "xray">>, <<"disable_unless_v2ray", "haproxy">>,
       <<"wipe", "xray">>, <<"rmdir", "xray_config">>, <<"rmdir", "pem">>, <<"rmunit", "xray">>,
       <<"rmcron", "xray">>, <<"rmcron", "haproxy">>, <<"nftstop", "xray">>,
       <<"nftunlink", "xray">>, <<"nftdrop", "xray">>}
  /\ Whole(UninstallV2ray)
  /\ Cmds(UninstallV2ray) = {<<"disable", "v2ray">>, <<"wipe", "v2ray">>, <<"nftstop", "v2ray">>,
       <<"nftunlink", "v2ray">>, <<"nftdrop", "v2ray">>}
  /\ Whole(UninstallHysteria)
  /\ Cmds(UninstallHysteria) = {<<"disable", "hysteria">>, <<"rmunit", "hysteria">>,
       <<"wipe", "hysteria">>, <<"nftstop", "hysteria">>, <<"nftunlink", "hysteria">>,
       <<"nftdrop", "hysteria">>, <<"catchfile", "catchall">>, <<"catchload", "catchall">>}
  /\ Whole(UninstallZivpn)
  /\ Cmds(UninstallZivpn) = {<<"disable", "zivpn">>, <<"rmunit", "zivpn">>, <<"wipe", "zivpn">>,
       <<"nftstop", "zivpn">>, <<"nftunlink", "zivpn">>, <<"nftdrop", "zivpn">>,
       <<"catchfile", "catchall">>, <<"catchload", "catchall">>}
<1>1. Whole(UninstallDropbear) /\ Cmds(UninstallDropbear) =
        {<<"disable", "dropbear">>, <<"rmunit", "dropbear">>, <<"wipe", "dropbear">>,
         <<"nftstop", "dropbear">>, <<"nftunlink", "dropbear">>, <<"nftdrop", "dropbear">>}
  <2>1. /\ <<"wipe", "dropbear">> \in Plain
    BY PlainCommands, NameSets DEF UnitOps, Lines
  <2>2. /\ Whole(<<<<"wipe", "dropbear">>>>)
        /\ Cmds(<<<<"wipe", "dropbear">>>>) =
             {<<"wipe", "dropbear">>}
    BY <2>1, Short, CmdsTuples
  <2>3. /\ Whole(EndUnit("dropbear"))
        /\ Whole(RemoveNft("dropbear"))
    BY WholePieces, UnitsWhole, PlainWhole, NameSets
  <2>4. /\ Whole(UninstallDropbear)
        /\ Cmds(UninstallDropbear) = Cmds(EndUnit("dropbear")) \cup
               Cmds(<<<<"wipe", "dropbear">>>>) \cup Cmds(RemoveNft("dropbear"))
    BY <2>2, <2>3, JoinedCmds DEF UninstallDropbear
  <2> QED BY <2>2, <2>4, PiecesCmds
<1>2. Whole(UninstallSslTls) /\ Cmds(UninstallSslTls) =
        {<<"disable", "ssl_tls">>, <<"rmunit", "ssl_tls">>, <<"wipe", "ssl_tls">>,
         <<"nftstop", "ssl_tls">>, <<"nftunlink", "ssl_tls">>, <<"nftdrop", "ssl_tls">>}
  <2>1. /\ <<"wipe", "ssl_tls">> \in Plain
    BY PlainCommands, NameSets DEF UnitOps, Lines
  <2>2. /\ Whole(<<<<"wipe", "ssl_tls">>>>)
        /\ Cmds(<<<<"wipe", "ssl_tls">>>>) =
             {<<"wipe", "ssl_tls">>}
    BY <2>1, Short, CmdsTuples
  <2>3. /\ Whole(EndUnit("ssl_tls"))
        /\ Whole(RemoveNft("ssl_tls"))
    BY WholePieces, UnitsWhole, PlainWhole, NameSets
  <2>4. /\ Whole(UninstallSslTls)
        /\ Cmds(UninstallSslTls) = Cmds(EndUnit("ssl_tls")) \cup
               Cmds(<<<<"wipe", "ssl_tls">>>>) \cup Cmds(RemoveNft("ssl_tls"))
    BY <2>2, <2>3, JoinedCmds DEF UninstallSslTls
  <2> QED BY <2>2, <2>4, PiecesCmds
<1>3. Whole(UninstallSshws) /\ Cmds(UninstallSshws) =
        {<<"disable", "sshws">>, <<"rmunit", "sshws">>, <<"stop", "sshws">>, <<"wipe", "sshws">>,
         <<"nftstop", "sshws">>, <<"nftunlink", "sshws">>, <<"nftdrop", "sshws">>,
         <<"disable", "ws_dropbear">>, <<"rmunit", "ws_dropbear">>, <<"nftstop", "ws_dropbear">>,
         <<"nftunlink", "ws_dropbear">>, <<"nftdrop", "ws_dropbear">>,
         <<"disable", "ws_stunnel">>, <<"rmunit", "ws_stunnel">>, <<"nftstop", "ws_stunnel">>,
         <<"nftunlink", "ws_stunnel">>, <<"nftdrop", "ws_stunnel">>}
  <2>1. /\ <<"stop", "sshws">> \in Plain
        /\ <<"wipe", "sshws">> \in Plain
    BY PlainCommands, NameSets DEF UnitOps, Lines
  <2>2. /\ Whole(<<<<"stop", "sshws">>, <<"wipe", "sshws">>>>)
        /\ Cmds(<<<<"stop", "sshws">>, <<"wipe", "sshws">>>>) =
             {<<"stop", "sshws">>, <<"wipe", "sshws">>}
    BY <2>1, Short, CmdsTuples
  <2>3. /\ Whole(EndUnit("sshws"))
        /\ Whole(RemoveNft("sshws"))
        /\ Whole(EndUnit("ws_dropbear"))
        /\ Whole(RemoveNft("ws_dropbear"))
        /\ Whole(EndUnit("ws_stunnel"))
        /\ Whole(RemoveNft("ws_stunnel"))
    BY WholePieces, UnitsWhole, PlainWhole, NameSets
  <2>4. /\ Whole(UninstallSshws)
        /\ Cmds(UninstallSshws) = Cmds(EndUnit("sshws")) \cup
               Cmds(<<<<"stop", "sshws">>, <<"wipe", "sshws">>>>) \cup
               Cmds(RemoveNft("sshws")) \cup Cmds(EndUnit("ws_dropbear")) \cup
               Cmds(RemoveNft("ws_dropbear")) \cup Cmds(EndUnit("ws_stunnel")) \cup
               Cmds(RemoveNft("ws_stunnel"))
    BY <2>2, <2>3, JoinedCmds DEF UninstallSshws
  <2> QED BY <2>2, <2>4, PiecesCmds
<1>4. Whole(UninstallBadvpn) /\ Cmds(UninstallBadvpn) =
        {<<"disable", "badvpn">>, <<"rmunit", "badvpn">>, <<"wipe", "badvpn">>,
         <<"nftstop", "badvpn">>, <<"nftunlink", "badvpn">>, <<"nftdrop", "badvpn">>}
  <2>1. /\ <<"wipe", "badvpn">> \in Plain
    BY PlainCommands, NameSets DEF UnitOps, Lines
  <2>2. /\ Whole(<<<<"wipe", "badvpn">>>>)
        /\ Cmds(<<<<"wipe", "badvpn">>>>) =
             {<<"wipe", "badvpn">>}
    BY <2>1, Short, CmdsTuples
  <2>3. /\ Whole(EndUnit("badvpn"))
        /\ Whole(RemoveNft("badvpn"))
    BY WholePieces, UnitsWhole, PlainWhole, NameSets
  <2>4. /\ Whole(UninstallBadvpn)
        /\ Cmds(UninstallBadvpn) = Cmds(EndUnit("badvpn")) \cup
               Cmds(<<<<"wipe", "badvpn">>>>) \cup Cmds(RemoveNft("badvpn"))
    BY <2>2, <2>3, JoinedCmds DEF UninstallBadvpn
  <2> QED BY <2>2, <2>4, PiecesCmds
<1>5. Whole(UninstallUdpCustom) /\ Cmds(UninstallUdpCustom) =
        {<<"disable", "udp_custom">>, <<"rmunit", "udp_custom">>, <<"wipe", "udp_custom">>,
         <<"nftstop", "udp_custom">>, <<"nftunlink", "udp_custom">>, <<"nftdrop", "udp_custom">>,
         <<"nftstop", "catchall">>, <<"nftunlink", "catchall">>, <<"nftdrop", "catchall">>,
         <<"rmcron", "dedup">>}
  <2>1. /\ <<"wipe", "udp_custom">> \in Plain
        /\ <<"rmcron", "dedup">> \in Plain
    BY PlainCommands, NameSets DEF UnitOps, Lines
  <2>2. /\ Whole(<<<<"wipe", "udp_custom">>>>)
        /\ Whole(<<<<"rmcron", "dedup">>>>)
        /\ Cmds(<<<<"wipe", "udp_custom">>>>) =
             {<<"wipe", "udp_custom">>}
        /\ Cmds(<<<<"rmcron", "dedup">>>>) =
             {<<"rmcron", "dedup">>}
    BY <2>1, Short, CmdsTuples
  <2>3. /\ Whole(EndUnit("udp_custom"))
        /\ Whole(RemoveNft("udp_custom"))
        /\ Whole(RemoveNft("catchall"))
    BY WholePieces, UnitsWhole, PlainWhole, NameSets
  <2>4. /\ Whole(UninstallUdpCustom)
        /\ Cmds(UninstallUdpCustom) = Cmds(EndUnit("udp_custom")) \cup
               Cmds(<<<<"wipe", "udp_custom">>>>) \cup Cmds(RemoveNft("udp_custom")) \cup
               Cmds(RemoveNft("catchall")) \cup Cmds(<<<<"rmcron", "dedup">>>>)
    BY <2>2, <2>3, JoinedCmds DEF UninstallUdpCustom
  <2> QED BY <2>2, <2>4, PiecesCmds
<1>6. Whole(UninstallSlowdns) /\ Cmds(UninstallSlowdns) =
        {<<"disable", "ns4">>, <<"rmunit", "ns4">>, <<"disable", "nv4">>, <<"rmunit", "nv4">>,
         <<"disable", "dnsdist">>, <<"wipe", "slowdns">>, <<"rmdir", "dnsdist">>,
         <<"nftstop", "slowdns">>, <<"nftunlink", "slowdns">>, <<"nftdrop", "slowdns">>,
         <<"wipe", "dnsdist">>, <<"rmcron", "slowdns">>}
  <2>1. /\ <<"disable", "dnsdist">> \in Plain
        /\ <<"wipe", "slowdns">> \in Plain
        /\ <<"rmdir", "dnsdist">> \in Plain
        /\ <<"wipe", "dnsdist">> \in Plain
        /\ <<"rmcron", "slowdns">> \in Plain
    BY PlainCommands, NameSets DEF UnitOps, Lines
  <2>2. /\ Whole(<<<<"disable", "dnsdist">>, <<"wipe", "slowdns">>, <<"rmdir", "dnsdist">>>>)
        /\ Whole(<<<<"wipe", "dnsdist">>, <<"rmcron", "slowdns">>>>)
        /\ Cmds(<<<<"disable", "dnsdist">>, <<"wipe", "slowdns">>, <<"rmdir", "dnsdist">>>>) =
             {<<"disable", "dnsdist">>, <<"wipe", "slowdns">>, <<"rmdir", "dnsdist">>}
        /\ Cmds(<<<<"wipe", "dnsdist">>, <<"rmcron", "slowdns">>>>) =
             {<<"wipe", "dnsdist">>, <<"rmcron", "slowdns">>}
    BY <2>1, Short, CmdsTuples
  <2>3. /\ Whole(EndUnit("ns4"))
        /\ Whole(EndUnit("nv4"))
        /\ Whole(RemoveNft("slowdns"))
    BY WholePieces, UnitsWhole, PlainWhole, NameSets
  <2>4. /\ Whole(UninstallSlowdns)
        /\ Cmds(UninstallSlowdns) = Cmds(EndUnit("ns4")) \cup Cmds(EndUnit("nv4")) \cup
               Cmds(<<<<"disable", "dnsdist">>, <<"wipe", "slowdns">>, <<"rmdir", "dnsdist">>>>) \cup
               Cmds(RemoveNft("slowdns")) \cup
               Cmds(<<<<"wipe", "dnsdist">>, <<"rmcron", "slowdns">>>>)
    BY <2>2, <2>3, JoinedCmds DEF UninstallSlowdns
  <2> QED BY <2>2, <2>4, PiecesCmds
<1>7. Whole(UninstallXray) /\ Cmds(UninstallXray) =
        {<<"disable", "xray">>, <<"disable_unless_v2ray", "haproxy">>, <<"wipe", "xray">>,
         <<"rmdir", "xray_config">>, <<"rmdir", "pem">>, <<"rmunit", "xray">>,
         <<"rmcron", "xray">>, <<"rmcron", "haproxy">>, <<"nftstop", "xray">>,
         <<"nftunlink", "xray">>, <<"nftdrop", "xray">>}
  <2> DEFINE s == <<<<"disable", "xray">>, <<"disable_unless_v2ray", "haproxy">>, <<"wipe", "xray">>,
                    <<"rmdir", "xray_config">>, <<"rmdir", "pem">>, <<"rmunit", "xray">>,
                    <<"rmcron", "xray">>, <<"rmcron", "haproxy">>>>
  <2>1. /\ Len(s) = 8 /\ s[1] = <<"disable", "xray">> /\ s[2] = <<"disable_unless_v2ray", "haproxy">>
        /\ s[3] = <<"wipe", "xray">> /\ s[4] = <<"rmdir", "xray_config">> /\ s[5] = <<"rmdir", "pem">>
        /\ s[6] = <<"rmunit", "xray">> /\ s[7] = <<"rmcron", "xray">> /\ s[8] = <<"rmcron", "haproxy">>
    OBVIOUS
  <2>2. Whole(s)
    <3>1. /\ <<"disable", "xray">> \in Plain /\ <<"disable_unless_v2ray", "haproxy">> \in Plain
          /\ <<"wipe", "xray">> \in Plain /\ <<"rmdir", "xray_config">> \in Plain
          /\ <<"rmdir", "pem">> \in Plain /\ <<"rmunit", "xray">> \in Plain
          /\ <<"rmcron", "xray">> \in Plain /\ <<"rmcron", "haproxy">> \in Plain
      BY PlainCommands, NameSets DEF UnitOps, Lines
    <3> QED BY <3>1, Short
  <2>3. Whole(RemoveNft("xray"))
    BY WholePieces, NameSets
  <2>4. UninstallXray = s \o RemoveNft("xray")
    BY DEF UninstallXray
  <2> HIDE DEF s
  <2>5. \A i \in 1..8 : i = 1 \/ i = 2 \/ i = 3 \/ i = 4 \/ i = 5 \/ i = 6 \/ i = 7 \/ i = 8
    OBVIOUS
  <2>6. Cmds(s) = {s[1], s[2], s[3], s[4], s[5], s[6], s[7], s[8]}
    BY <2>1, <2>5 DEF Cmds
  <2>7. Whole(UninstallXray) /\ Cmds(UninstallXray) = Cmds(s) \cup Cmds(RemoveNft("xray"))
    BY <2>2, <2>3, <2>4, JoinedCmds
  <2> QED BY <2>1, <2>6, <2>7, PiecesCmds
<1>8. Whole(UninstallV2ray) /\ Cmds(UninstallV2ray) =
        {<<"disable", "v2ray">>, <<"wipe", "v2ray">>, <<"nftstop", "v2ray">>,
         <<"nftunlink", "v2ray">>, <<"nftdrop", "v2ray">>}
  <2>1. /\ <<"disable", "v2ray">> \in Plain
        /\ <<"wipe", "v2ray">> \in Plain
    BY PlainCommands, NameSets DEF UnitOps, Lines
  <2>2. /\ Whole(<<<<"disable", "v2ray">>, <<"wipe", "v2ray">>>>)
        /\ Cmds(<<<<"disable", "v2ray">>, <<"wipe", "v2ray">>>>) =
             {<<"disable", "v2ray">>, <<"wipe", "v2ray">>}
    BY <2>1, Short, CmdsTuples
  <2>3. /\ Whole(RemoveNft("v2ray"))
    BY WholePieces, UnitsWhole, PlainWhole, NameSets
  <2>4. /\ Whole(UninstallV2ray)
        /\ Cmds(UninstallV2ray) = Cmds(<<<<"disable", "v2ray">>, <<"wipe", "v2ray">>>>) \cup
               Cmds(RemoveNft("v2ray"))
    BY <2>2, <2>3, JoinedCmds DEF UninstallV2ray
  <2> QED BY <2>2, <2>4, PiecesCmds
<1>9. Whole(UninstallHysteria) /\ Cmds(UninstallHysteria) =
        {<<"disable", "hysteria">>, <<"rmunit", "hysteria">>, <<"wipe", "hysteria">>,
         <<"nftstop", "hysteria">>, <<"nftunlink", "hysteria">>, <<"nftdrop", "hysteria">>,
         <<"catchfile", "catchall">>, <<"catchload", "catchall">>}
  <2>1. /\ <<"wipe", "hysteria">> \in Plain
    BY PlainCommands, NameSets DEF UnitOps, Lines
  <2>2. /\ Whole(<<<<"wipe", "hysteria">>>>)
        /\ Cmds(<<<<"wipe", "hysteria">>>>) =
             {<<"wipe", "hysteria">>}
    BY <2>1, Short, CmdsTuples
  <2>3. /\ Whole(EndUnit("hysteria"))
        /\ Whole(RemoveNft("hysteria"))
        /\ Whole(EnsureCatchall)
    BY WholePieces, UnitsWhole, PlainWhole, NameSets
  <2>4. /\ Whole(UninstallHysteria)
        /\ Cmds(UninstallHysteria) = Cmds(EndUnit("hysteria")) \cup
               Cmds(<<<<"wipe", "hysteria">>>>) \cup Cmds(RemoveNft("hysteria")) \cup
               Cmds(EnsureCatchall)
    BY <2>2, <2>3, JoinedCmds DEF UninstallHysteria
  <2> QED BY <2>2, <2>4, PiecesCmds
<1>10. Whole(UninstallZivpn) /\ Cmds(UninstallZivpn) =
        {<<"disable", "zivpn">>, <<"rmunit", "zivpn">>, <<"wipe", "zivpn">>,
         <<"nftstop", "zivpn">>, <<"nftunlink", "zivpn">>, <<"nftdrop", "zivpn">>,
         <<"catchfile", "catchall">>, <<"catchload", "catchall">>}
  <2>1. /\ <<"wipe", "zivpn">> \in Plain
    BY PlainCommands, NameSets DEF UnitOps, Lines
  <2>2. /\ Whole(<<<<"wipe", "zivpn">>>>)
        /\ Cmds(<<<<"wipe", "zivpn">>>>) =
             {<<"wipe", "zivpn">>}
    BY <2>1, Short, CmdsTuples
  <2>3. /\ Whole(EndUnit("zivpn"))
        /\ Whole(RemoveNft("zivpn"))
        /\ Whole(EnsureCatchall)
    BY WholePieces, UnitsWhole, PlainWhole, NameSets
  <2>4. /\ Whole(UninstallZivpn)
        /\ Cmds(UninstallZivpn) = Cmds(EndUnit("zivpn")) \cup Cmds(<<<<"wipe", "zivpn">>>>) \cup
               Cmds(RemoveNft("zivpn")) \cup Cmds(EnsureCatchall)
    BY <2>2, <2>3, JoinedCmds DEF UninstallZivpn
  <2> QED BY <2>2, <2>4, PiecesCmds
<1> QED BY <1>1, <1>2, <1>3, <1>4, <1>5, <1>6, <1>7, <1>8, <1>9, <1>10

LEMMA UninstallsWhole == \A t \in Tunnels : Whole(UninstallScript[t])
BY UninstallsCmds, TunnelNames DEF UninstallScript

\* Every function but the last of all runs a script in order.
LEMMA ScriptsWhole ==
  /\ \A f \in Asked : Whole(ScriptOf(f[1], f[2]))
  /\ \A f \in {"configure", "repair", "domain", "rest"} : Whole(ScriptOf(f, ""))
<1>1. Whole(ConfigureSlowdns)
  <2>1. /\ <<"ns4", "dropbear">> \in Plain
        /\ <<"restart", "ns4">> \in Plain
        /\ <<"restart", "nv4">> \in Plain
        /\ <<"restart", "dnsdist">> \in Plain
    BY PlainCommands, NameSets DEF UnitOps, Lines
  <2>2. /\ Whole(<<<<"ns4", "dropbear">>, <<"restart", "ns4">>, <<"restart", "nv4">>, <<"restart", "dnsdist">>>>)
    BY <2>1, Short
  <2> QED BY <2>2 DEF ConfigureSlowdns
<1>2. Whole(RepairHaproxy)
  <2>1. /\ <<"rebuild", "pem">> \in Plain
        /\ <<"restart_valid", "haproxy">> \in Plain
    BY PlainCommands, NameSets DEF UnitOps, Lines
  <2>2. /\ Whole(<<<<"rebuild", "pem">>, <<"restart_valid", "haproxy">>>>)
    BY <2>1, Short
  <2> QED BY <2>2 DEF RepairHaproxy
<1>3. Whole(ChangeDomain)
  <2>1. /\ <<"dir", "pem">> \in Plain
        /\ <<"restart", "haproxy">> \in Plain
    BY PlainCommands, NameSets DEF UnitOps, Lines
  <2>2. /\ Whole(<<<<"dir", "pem">>>>)
        /\ Whole(<<<<"restart", "haproxy">>>>)
    BY <2>1, Short
  <2>3. /\ Whole(AcmeCert)
        /\ Whole(HaproxyConf)
    BY WholePieces, UnitsWhole, PlainWhole, NameSets
  <2> QED BY <2>2, <2>3, Joined DEF ChangeDomain
<1>4. Whole(UninstallRest)
  <2>1. /\ <<"disable", "haproxy">> \in Plain
        /\ <<"drop_all", "">> \in Plain
    BY PlainCommands, NameSets DEF UnitOps, Lines
  <2>2. /\ Whole(<<<<"disable", "haproxy">>, <<"drop_all", "">>>>)
    BY <2>1, Short
  <2> QED BY <2>2 DEF UninstallRest
<1> QED BY <1>1, <1>2, <1>3, <1>4, InstallsWhole, UninstallsWhole DEF ScriptOf, Asked

LEMMA UninstallDoes ==
  /\ \A t \in Tunnels : \A c \in Cmds(UninstallScript[t]) :
       c[1] \in PurgeOps /\ (c[1] \in CatchOps => t \in {"zivpn", "hysteria"})
  /\ \A n \in Tables : \E t \in Tunnels :
       <<"nftunlink", n>> \in Cmds(UninstallScript[t]) /\ <<"nftdrop", n>> \in Cmds(UninstallScript[t])
  /\ \A b \in Parts \ {"haproxy"} : \E t \in Tunnels : <<"wipe", b>> \in Cmds(UninstallScript[t])
  /\ \A s \in Services \ {"haproxy", "haproxy_ssh"} :
       \E t \in Tunnels : <<"disable", s>> \in Cmds(UninstallScript[t])
  /\ <<"rmcron", "haproxy">> \in Cmds(UninstallScript["xray"])
  /\ Cmds(UninstallRest) = {<<"disable", "haproxy">>, <<"drop_all", "">>}
<1>1. /\ UninstallScript["dropbear"] = UninstallDropbear /\ UninstallScript["ssl_tls"] = UninstallSslTls
      /\ UninstallScript["sshws"] = UninstallSshws /\ UninstallScript["xray"] = UninstallXray
      /\ UninstallScript["v2ray"] = UninstallV2ray /\ UninstallScript["badvpn"] = UninstallBadvpn
      /\ UninstallScript["udp_custom"] = UninstallUdpCustom /\ UninstallScript["slowdns"] = UninstallSlowdns
      /\ UninstallScript["hysteria"] = UninstallHysteria /\ UninstallScript["zivpn"] = UninstallZivpn
  BY DEF UninstallScript
<1>2. ASSUME NEW t \in Tunnels, NEW c \in Cmds(UninstallScript[t])
      PROVE  c[1] \in PurgeOps /\ (c[1] \in CatchOps => t \in {"zivpn", "hysteria"})
  <2>1. CASE t = "dropbear"
    BY <1>1, <1>2, <2>1, UninstallsCmds DEF PurgeOps, CatchOps
  <2>2. CASE t = "ssl_tls"
    BY <1>1, <1>2, <2>2, UninstallsCmds DEF PurgeOps, CatchOps
  <2>3. CASE t = "sshws"
    BY <1>1, <1>2, <2>3, UninstallsCmds DEF PurgeOps, CatchOps
  <2>4. CASE t = "xray"
    BY <1>1, <1>2, <2>4, UninstallsCmds DEF PurgeOps, CatchOps
  <2>5. CASE t = "v2ray"
    BY <1>1, <1>2, <2>5, UninstallsCmds DEF PurgeOps, CatchOps
  <2>6. CASE t = "badvpn"
    BY <1>1, <1>2, <2>6, UninstallsCmds DEF PurgeOps, CatchOps
  <2>7. CASE t = "udp_custom"
    BY <1>1, <1>2, <2>7, UninstallsCmds DEF PurgeOps, CatchOps
  <2>8. CASE t = "slowdns"
    BY <1>1, <1>2, <2>8, UninstallsCmds DEF PurgeOps, CatchOps
  <2>9. CASE t \in {"zivpn", "hysteria"}
    BY <1>1, <1>2, <2>9, UninstallsCmds DEF PurgeOps
  <2> QED BY <2>1, <2>2, <2>3, <2>4, <2>5, <2>6, <2>7, <2>8, <2>9, TunnelNames
<1>3. ASSUME NEW n \in Tables
      PROVE  \E t \in Tunnels : /\ <<"nftunlink", n>> \in Cmds(UninstallScript[t])
                               /\ <<"nftdrop", n>> \in Cmds(UninstallScript[t])
  <2>1. CASE n \in Tunnels
    <3>1. <<"nftunlink", n>> \in Cmds(UninstallScript[n]) /\ <<"nftdrop", n>> \in Cmds(UninstallScript[n])
      BY <1>1, <2>1, UninstallsCmds, TunnelNames
    <3> QED BY <2>1, <3>1
  <2>2. CASE n \in {"ws_dropbear", "ws_stunnel"}
    <3>1. <<"nftunlink", n>> \in Cmds(UninstallSshws) /\ <<"nftdrop", n>> \in Cmds(UninstallSshws)
      BY <2>2, UninstallsCmds
    <3> QED BY <1>1, <3>1, TunnelNames
  <2>3. CASE n = "catchall"
    <3>1. <<"nftunlink", n>> \in Cmds(UninstallUdpCustom) /\ <<"nftdrop", n>> \in Cmds(UninstallUdpCustom)
      BY <2>3, UninstallsCmds
    <3> QED BY <1>1, <3>1, TunnelNames
  <2> QED BY <2>1, <2>2, <2>3 DEF Tables
<1>4. ASSUME NEW b \in Parts \ {"haproxy"}
      PROVE  \E t \in Tunnels : <<"wipe", b>> \in Cmds(UninstallScript[t])
  <2>1. CASE b \in Tunnels
    <3>1. <<"wipe", b>> \in Cmds(UninstallScript[b])
      BY <1>1, <2>1, UninstallsCmds, TunnelNames
    <3> QED BY <2>1, <3>1
  <2>2. CASE b = "dnsdist"
    <3>1. <<"wipe", b>> \in Cmds(UninstallSlowdns)
      BY <2>2, UninstallsCmds
    <3> QED BY <1>1, <3>1, TunnelNames
  <2> QED BY <2>1, <2>2 DEF Parts, Packages
<1>5. ASSUME NEW s \in Services \ {"haproxy", "haproxy_ssh"}
      PROVE  \E t \in Tunnels : <<"disable", s>> \in Cmds(UninstallScript[t])
  <2>1. CASE s \in Tunnels \ {"slowdns"}
    <3>1. <<"disable", s>> \in Cmds(UninstallScript[s])
      BY <1>1, <2>1, UninstallsCmds, TunnelNames
    <3> QED BY <2>1, <3>1
  <2>2. CASE s \in {"ws_dropbear", "ws_stunnel"}
    <3>1. <<"disable", s>> \in Cmds(UninstallSshws)
      BY <2>2, UninstallsCmds
    <3> QED BY <1>1, <3>1, TunnelNames
  <2>3. CASE s \in {"ns4", "nv4", "dnsdist"}
    <3>1. <<"disable", s>> \in Cmds(UninstallSlowdns)
      BY <2>3, UninstallsCmds
    <3> QED BY <1>1, <3>1, TunnelNames
  <2> QED BY <2>1, <2>2, <2>3 DEF Services
<1>6. <<"rmcron", "haproxy">> \in Cmds(UninstallScript["xray"])
  BY <1>1, UninstallsCmds
<1>7. Cmds(UninstallRest) = {<<"disable", "haproxy">>, <<"drop_all", "">>}
  BY CmdsTuples DEF UninstallRest
<1> QED BY <1>2, <1>3, <1>4, <1>5, <1>6, <1>7

-----------------------------------------------------------------------------
\* Queues.

LEMMA RemovesApart ==
  /\ \A t, u : Removes(t) = Removes(u) => t = u
  /\ \A t : Removes(t) # Rest /\ Removes(t) # AutoJob
  /\ Rest # AutoJob /\ Rest \in PurgeFunctions /\ AutoJob \in PurgeFunctions
  /\ \A t \in Tunnels : Removes(t) \in PurgeFunctions
BY DEF Removes, Rest, AutoJob, PurgeFunctions

\* The queue of a removal: every tunnel, with udp-custom after those that write
\* the catchall, then the rest.
FullQueue(Q) ==
  /\ Q \in Seq(PurgeFunctions)
  /\ \A t \in Tunnels : Removes(t) \in Cmds(Q)
  /\ Rest \in Cmds(Q)
  /\ \A i \in 1..Len(Q) : Q[i] \in {Removes("zivpn"), Removes("hysteria")} =>
       \E k \in (i+1)..Len(Q) : Q[k] = Removes("udp_custom")
  /\ \A i \in 1..Len(Q) : Q[i] = Rest => \A j \in (i+1)..Len(Q) : Q[j] = AutoJob

LEMMA Appended ==
  ASSUME NEW S, NEW F \in Seq(S), NEW x \in S
  PROVE  /\ F \o <<x>> \in Seq(S) /\ Len(F \o <<x>>) = Len(F) + 1 /\ (F \o <<x>>)[Len(F) + 1] = x
         /\ \A i \in 1..Len(F) : (F \o <<x>>)[i] = F[i]
OBVIOUS

LEMMA RemovalOrder ==
  /\ UninstallOrder[1] = "zivpn" /\ UninstallOrder[2] = "hysteria" /\ UninstallOrder[3] = "slowdns"
  /\ UninstallOrder[4] = "udp_custom" /\ UninstallOrder[5] = "badvpn" /\ UninstallOrder[6] = "v2ray"
  /\ UninstallOrder[7] = "xray" /\ UninstallOrder[8] = "sshws" /\ UninstallOrder[9] = "ssl_tls"
  /\ UninstallOrder[10] = "dropbear" /\ Len(UninstallOrder) = 10
BY DEF UninstallOrder

LEMMA QueueFull ==
  ASSUME NEW V \in Seq(PurgeFunctions), Len(V) >= 11, V[11] = Rest,
         \A i \in 1..10 : V[i] = Removes(UninstallOrder[i]),
         \A i \in 12..Len(V) : V[i] = AutoJob
  PROVE  FullQueue(V)
<1>1. \A i \in 1..11 : i \in 1..Len(V)
  OBVIOUS
<1>2. \A i \in 1..11 : V[i] \in Cmds(V)
  BY <1>1 DEF Cmds
<1>3. ASSUME NEW t \in Tunnels
      PROVE  Removes(t) \in Cmds(V)
  <2>1. PICK i \in 1..10 : UninstallOrder[i] = t
    BY RemovalOrder, TunnelNames
  <2>2. i \in 1..11 /\ V[i] = Removes(t)
    BY <2>1
  <2> QED BY <1>2, <2>2
<1>4. ASSUME NEW i \in 1..Len(V), V[i] \in {Removes("zivpn"), Removes("hysteria")}
      PROVE  \E k \in (i+1)..Len(V) : V[k] = Removes("udp_custom")
  <2>1. i # 11 /\ i \notin 12..Len(V)
    BY <1>4, RemovesApart
  <2>3. i \in 1..10
    BY <2>1
  <2>4. UninstallOrder[i] \in {"zivpn", "hysteria"}
    BY <1>4, <2>3, RemovesApart
  <2>5. i = 1 \/ i = 2 \/ i = 3 \/ i = 4 \/ i = 5 \/ i = 6 \/ i = 7 \/ i = 8 \/ i = 9 \/ i = 10
    BY <2>3
  <2>6. i = 1 \/ i = 2
    BY <2>4, <2>5, RemovalOrder
  <2>7. 4 \in (i+1)..Len(V)
    BY <2>6
  <2>8. V[4] = Removes("udp_custom")
    BY RemovalOrder
  <2> QED BY <2>7, <2>8
<1>5. Rest \in Cmds(V)
  BY <1>2
<1>6. ASSUME NEW i \in 1..Len(V), V[i] = Rest, NEW j \in (i+1)..Len(V)
      PROVE  V[j] = AutoJob
  <2>1. i \notin 1..10
    BY <1>6, RemovesApart
  <2>2. j \in 12..Len(V)
    BY <2>1
  <2> QED BY <2>2
<1> QED BY <1>3, <1>4, <1>5, <1>6 DEF FullQueue

LEMMA RemovalQueues ==
  /\ FullQueue(UninstallAll) /\ \A i \in 1..Len(UninstallAll) : UninstallAll[i] # AutoJob
  /\ FullQueue(UninstallAll \o <<AutoJob>>) /\ AutoJob \in Cmds(UninstallAll \o <<AutoJob>>)
  /\ \A i \in 1..Len(UninstallAll \o <<AutoJob>>) :
       (UninstallAll \o <<AutoJob>>)[i] = AutoJob => i = Len(UninstallAll \o <<AutoJob>>)
<1>1. PICK F : F = [i \in 1..10 |-> Removes(UninstallOrder[i])]
  OBVIOUS
<1>2. \A i \in 1..10 : UninstallOrder[i] \in Tunnels
  <2>1. \A i \in 1..10 : i = 1 \/ i = 2 \/ i = 3 \/ i = 4 \/ i = 5 \/ i = 6 \/ i = 7 \/ i = 8 \/ i = 9 \/ i = 10
    OBVIOUS
  <2> QED BY <2>1, RemovalOrder, TunnelNames
<1>3. F \in Seq(PurgeFunctions) /\ Len(F) = 10 /\ \A i \in 1..10 : F[i] = Removes(UninstallOrder[i])
  BY <1>1, <1>2, RemovesApart
<1>4. PICK U : U = UninstallAll
  OBVIOUS
<1>5. U = F \o <<Rest>>
  BY <1>1, <1>4, RemovalOrder DEF UninstallAll, Removes, Rest
<1>6. Rest \in PurgeFunctions /\ AutoJob \in PurgeFunctions
  BY RemovesApart
<1>7. /\ U \in Seq(PurgeFunctions) /\ Len(U) = 11 /\ U[11] = Rest
      /\ \A i \in 1..10 : U[i] = Removes(UninstallOrder[i])
  <2>1. /\ U \in Seq(PurgeFunctions) /\ Len(U) = Len(F) + 1 /\ U[Len(F) + 1] = Rest
        /\ \A i \in 1..Len(F) : U[i] = F[i]
    <3>1. F \in Seq(PurgeFunctions)
      BY <1>3
    <3>2. /\ F \o <<Rest>> \in Seq(PurgeFunctions) /\ Len(F \o <<Rest>>) = Len(F) + 1
          /\ (F \o <<Rest>>)[Len(F) + 1] = Rest
          /\ \A i \in 1..Len(F) : (F \o <<Rest>>)[i] = F[i]
      BY <3>1, <1>6, Appended
    <3> QED BY <3>2, <1>5, Zenon
  <2> QED BY <1>3, <2>1
<1>8. PICK Q : Q = U \o <<AutoJob>>
  OBVIOUS
<1>9. /\ Q \in Seq(PurgeFunctions) /\ Len(Q) = 12 /\ Q[12] = AutoJob /\ \A i \in 1..11 : Q[i] = U[i]
  <2>1. /\ Q \in Seq(PurgeFunctions) /\ Len(Q) = Len(U) + 1 /\ Q[Len(U) + 1] = AutoJob
        /\ \A i \in 1..Len(U) : Q[i] = U[i]
    <3>1. U \in Seq(PurgeFunctions)
      BY <1>7
    <3>2. /\ U \o <<AutoJob>> \in Seq(PurgeFunctions) /\ Len(U \o <<AutoJob>>) = Len(U) + 1
          /\ (U \o <<AutoJob>>)[Len(U) + 1] = AutoJob
          /\ \A i \in 1..Len(U) : (U \o <<AutoJob>>)[i] = U[i]
      BY <3>1, <1>6, Appended
    <3> QED BY <3>2, <1>8, Zenon
  <2> QED BY <1>7, <2>1
<1>10. \A i \in 1..11 : U[i] # AutoJob
  <2>1. \A i \in 1..11 : i \in 1..10 \/ i = 11
    OBVIOUS
  <2> QED BY <1>7, <2>1, RemovesApart
<1>11. FullQueue(U)
  <2>1. 12..Len(U) = {}
    BY <1>7
  <2> QED BY <1>7, <2>1, QueueFull
<1>12. FullQueue(Q)
  <2>1. \A i \in 12..Len(Q) : i = 12
    BY <1>9
  <2>2. Q[11] = Rest
    BY <1>7, <1>9
  <2>3. \A i \in 1..10 : Q[i] = Removes(UninstallOrder[i])
    <3>1. \A i \in 1..10 : i \in 1..11
      OBVIOUS
    <3> QED BY <1>7, <1>9, <3>1, Zenon
  <2>4. Q \in Seq(PurgeFunctions) /\ Len(Q) >= 11
    BY <1>9
  <2>5. \A i \in 12..Len(Q) : Q[i] = AutoJob
    BY <1>9, <2>1
  <2> QED BY <2>2, <2>3, <2>4, <2>5, QueueFull
<1>13. AutoJob \in Cmds(Q)
  BY <1>9 DEF Cmds
<1>14. \A i \in 1..Len(U) : U[i] # AutoJob
  BY <1>7, <1>10
<1>15. \A i \in 1..Len(Q) : Q[i] = AutoJob => i = Len(Q)
  <2>1. \A i \in 1..Len(Q) : i \in 1..11 \/ i = 12
    BY <1>9
  <2> QED BY <1>9, <1>10, <2>1
<1> QED BY <1>4, <1>8, <1>11, <1>12, <1>13, <1>14, <1>15

-----------------------------------------------------------------------------
\* One command of a script.

LEMMA QueueTail ==
  ASSUME NEW S, NEW Q \in Seq(S), Q # <<>>
  PROVE  /\ Tail(Q) \in Seq(S) /\ Head(Q) \in S /\ Cmds(Q) = {Head(Q)} \cup Cmds(Tail(Q))
         /\ Len(Tail(Q)) = Len(Q) - 1 /\ Len(Q) \in Nat \ {0}
         /\ Q[1] = Head(Q) /\ \A i \in 1..Len(Tail(Q)) : Tail(Q)[i] = Q[i+1]
         /\ Later(Q) = Cmds(ScriptOf(Head(Q)[1], Head(Q)[2])) \cup Later(Tail(Q))
<1>1. /\ Tail(Q) \in Seq(S) /\ Len(Tail(Q)) = Len(Q) - 1 /\ Len(Q) \in Nat \ {0}
      /\ Q[1] = Head(Q) /\ \A i \in 1..Len(Tail(Q)) : Tail(Q)[i] = Q[i+1]
  OBVIOUS
<1>2. Head(Q) \in S /\ Cmds(Q) = {Head(Q)} \cup Cmds(Tail(Q))
  BY CmdsTail
<1> DEFINE C(f) == Cmds(ScriptOf(f[1], f[2]))
<1>3. \A P : Later(P) = UNION {C(P[i]) : i \in 1..Len(P)}
  BY DEF Later
<1> HIDE DEF C
<1>4. \A i \in 1..Len(Q) : i = 1 \/ (i - 1 \in 1..Len(Tail(Q)) /\ Q[i] = Tail(Q)[i-1])
  BY <1>1
<1>5. \A i \in 1..Len(Tail(Q)) : i + 1 \in 1..Len(Q) /\ Tail(Q)[i] = Q[i+1]
  BY <1>1
<1>6. Later(Q) \subseteq C(Head(Q)) \cup Later(Tail(Q))
  <2> SUFFICES ASSUME NEW x, NEW i \in 1..Len(Q), x \in C(Q[i])
               PROVE  x \in C(Head(Q)) \cup Later(Tail(Q))
    BY <1>3
  <2>1. CASE i = 1
    BY <1>1, <2>1
  <2>2. CASE i # 1
    <3>1. i - 1 \in 1..Len(Tail(Q)) /\ x \in C(Tail(Q)[i-1])
      BY <1>4, <2>2
    <3> QED BY <1>3, <3>1
  <2> QED BY <2>1, <2>2
<1>7. C(Head(Q)) \subseteq Later(Q)
  <2>1. 1 \in 1..Len(Q)
    BY <1>1
  <2> QED BY <1>1, <1>3, <2>1
<1>8. Later(Tail(Q)) \subseteq Later(Q)
  <2> SUFFICES ASSUME NEW x, NEW i \in 1..Len(Tail(Q)), x \in C(Tail(Q)[i])
               PROVE  x \in Later(Q)
    BY <1>3
  <2>1. i + 1 \in 1..Len(Q) /\ x \in C(Q[i+1])
    BY <1>5
  <2> QED BY <1>3, <2>1
<1>9. Later(Q) = C(Head(Q)) \cup Later(Tail(Q))
  BY <1>6, <1>7, <1>8
<1> QED BY <1>1, <1>2, <1>9 DEF C

\* While a command is there, the panel is at work.
LEMMA Advances ==
  ASSUME Working, job.script # <<>>, Advance
  PROVE  /\ job.name # "none" /\ job'.name = job.name /\ job'.queue = job.queue
         /\ job'.script = Tail(job.script)
         /\ job' \in [name : JobNames, queue : Seq(Functions), script : Seq(Commands)]
         /\ Head(job.script) \in Commands /\ Cmds(job.script) = {Head(job.script)} \cup Cmds(job'.script)
         /\ Left = {Head(job.script)} \cup Left' /\ Runs(job'.script)
         /\ job'.script # <<>> /\ Head(job'.script)[1] = "nftload" =>
              Head(job.script) = <<"nftfile", Head(job'.script)[2]>>
<1> DEFINE s == job.script
           t == Tail(s)
<1>1. /\ job \in [name : JobNames, queue : Seq(Functions), script : Seq(Commands)]
      /\ s \in Seq(Commands) /\ s # <<>> /\ Runs(s)
  BY DEF Working
<1>2. job.name # "none"
  BY <1>1 DEF Working, NoJob
<1>3. /\ t \in Seq(Commands) /\ Head(s) \in Commands /\ Cmds(s) = {Head(s)} \cup Cmds(t)
  BY <1>1, CmdsTail
<1>4. /\ job'.name = job.name /\ job'.queue = job.queue /\ job'.script = t
      /\ job' \in [name : JobNames, queue : Seq(Functions), script : Seq(Commands)]
  BY <1>1, <1>3 DEF Advance
<1>5. 1 \in 0..Len(s) /\ t = SubSeq(s, 1 + 1, Len(s))
  BY <1>1
<1>6. Runs(t) /\ Len(t) = Len(s) - 1 /\ \A i \in 1..(Len(s) - 1) : t[i] = s[i + 1]
  <2>1. 1 \in 0..Len(s) /\ Runs(s)
    BY <1>1, <1>5
  <2>2. /\ Runs(SubSeq(s, 1 + 1, Len(s))) /\ Len(SubSeq(s, 1 + 1, Len(s))) = Len(s) - 1
        /\ \A i \in 1..(Len(s) - 1) : SubSeq(s, 1 + 1, Len(s))[i] = s[i + 1]
    BY <2>1, RunsOn
  <2> QED BY <1>5, <2>2, Zenon
<1>7. t # <<>> /\ Head(t)[1] = "nftload" => Head(s) = <<"nftfile", Head(t)[2]>>
  <2> SUFFICES ASSUME t # <<>>, Head(t)[1] = "nftload"
               PROVE  Head(s) = <<"nftfile", Head(t)[2]>>
    OBVIOUS
  <2>1. 1 \in 1..(Len(s) - 1) /\ Head(t) = t[1] /\ Head(s) = s[1] /\ 2 \in 2..Len(s)
    BY <1>1, <1>3, <1>6
  <2>2. t[1] = s[2]
    BY <1>6, <2>1
  <2>3. s[2][1] = "nftload" => s[2 - 1] = <<"nftfile", s[2][2]>>
    BY <1>1, <2>1 DEF Runs, LoadsAfter
  <2> QED BY <2>1, <2>2, <2>3
<1>8. Left = {Head(s)} \cup Left'
  BY <1>3, <1>4 DEF Left
<1> QED BY <1>2, <1>3, <1>4, <1>6, <1>7, <1>8

LEMMA WorkingKept ==
  ASSUME Working, job.script # <<>>, Advance,
         Head(job.script)[1] = "nftfile" => Head(job.script)[2] \in host'.file
  PROVE  Working'
<1>1. job'.script # <<>> /\ Head(job'.script)[1] = "nftload" => Head(job'.script)[2] \in host'.file
  BY Advances
<1>2. job'.name # "none" /\ job' \in [name : JobNames, queue : Seq(Functions), script : Seq(Commands)]
      /\ job'.name = job.name /\ job'.queue = job.queue /\ Runs(job'.script)
  BY Advances
<1>3. /\ job.name = "remove" => AutoJob \in Cmds(job.queue)
      /\ \A i \in 1..Len(job.queue) : job.queue[i] = AutoJob => job.name = "remove" /\ i = Len(job.queue)
  BY DEF Working
<1> QED BY <1>1, <1>2, <1>3 DEF Working

\* A command of a removal takes away what it names, and adds nothing.
Shrinks ==
  /\ host'.table \subseteq host.table /\ host'.file \subseteq host.file /\ host'.bin \subseteq host.bin
  /\ host'.enabled \subseteq host.enabled /\ host'.up \subseteq host.up /\ host'.cron \subseteq host.cron
  /\ \A n : Head(job.script) = <<"nftdrop", n>> => n \notin host'.table
  /\ \A n : Head(job.script) = <<"nftunlink", n>> => n \notin host'.file
  /\ \A b : Head(job.script) = <<"wipe", b>> => b \notin host'.bin
  /\ \A s : Head(job.script) = <<"disable", s>> => s \notin host'.enabled \cup host'.up
  /\ \A l : Head(job.script) = <<"rmcron", l>> => l \notin host'.cron

LEMMA PurgeKept ==
  ASSUME Working, Purge, job.script # <<>>, Advance, revived' = revived,
         Head(job.script)[1] \in PurgeOps => Shrinks
  PROVE  Purge'
<1> SUFFICES ASSUME Purging' PROVE Remaining' /\ Ordered'
  BY DEF Purge
<1>1. /\ job'.queue = job.queue /\ Cmds(job.script) = {Head(job.script)} \cup Cmds(job'.script)
      /\ Left = {Head(job.script)} \cup Left' /\ job'.name = job.name
  BY Advances
<1>2. Remaining /\ Ordered
  BY <1>1 DEF Purging, Purge
<1>3. Head(job.script) \in Cmds(job.script) /\ Shrinks
  BY <1>1, <1>2 DEF Ordered
<1>4. Ordered'
  BY <1>1, <1>2 DEF Ordered
<1>5. /\ \A n \in host'.table : <<"nftdrop", n>> \in Left'
      /\ \A n \in host'.file : <<"nftunlink", n>> \in Left'
  BY <1>1, <1>2, <1>3 DEF Remaining, Shrinks
<1>6. \A b \in host'.bin \ {"haproxy"} : <<"wipe", b>> \in Left'
  BY <1>1, <1>2, <1>3 DEF Remaining, Shrinks
<1>7. \A s \in host'.enabled \ {"haproxy_ssh"} : <<"disable", s>> \in Left'
  BY <1>1, <1>2, <1>3 DEF Remaining, Shrinks
<1>8. \A s \in host'.up \ ({"haproxy_ssh"} \cup revived') : <<"disable", s>> \in Left'
  BY <1>1, <1>2, <1>3 DEF Remaining, Shrinks
<1>9. "haproxy" \in host'.cron => <<"rmcron", "haproxy">> \in Left'
  BY <1>1, <1>2, <1>3 DEF Remaining, Shrinks
<1> QED BY <1>4, <1>5, <1>6, <1>7, <1>8, <1>9 DEF Remaining

\* What one command of a script comes to.
LEMMA CommandInv ==
  ASSUME TunnelInv, Working, job.script # <<>>, Advance, Others, host' \in Hosts,
         Head(job.script)[1] = "nftfile" => Head(job.script)[2] \in host'.file,
         \A n \in host'.table \ host'.file :
           \/ n \in host.table \ host.file /\ Head(job.script) # <<"nftdrop", n>>
           \/ <<"nftdrop", n>> \in Cmds(Tail(job.script)),
         Head(job.script)[1] \in PurgeOps => Shrinks
  PROVE  TunnelInv'
<1>1. /\ job'.name = job.name /\ job.name # "none" /\ job'.script = Tail(job.script)
      /\ Cmds(job.script) = {Head(job.script)} \cup Cmds(job'.script)
  BY Advances
<1>2. Working'
  BY WorkingKept
<1>3. TypeOK'
  BY <1>2 DEF TunnelInv, TypeOK, Others
<1>4. Covered'
  BY <1>1 DEF TunnelInv, Covered, Others
<1>5. Purge'
  BY PurgeKept DEF TunnelInv, Others
<1>6. Purged'
  BY <1>1 DEF TunnelInv, Purged, Others
<1> QED BY <1>3, <1>4, <1>5, <1>6 DEF TunnelInv

AutoOps == {"kill_units", "wipe_all", "crontab_r", "flush", "reboot"}
LEMMA Ends ==
  /\ \A a : Head(<<a>>) = a /\ Tail(<<a>>) = <<>>
  /\ \A a, b : Head(<<a, b>>) = a /\ Tail(<<a, b>>) = <<b>>
  /\ \A a, b, c : Head(<<a, b, c>>) = a /\ Tail(<<a, b, c>>) = <<b, c>>
  /\ \A a, b, c, d : Head(<<a, b, c, d>>) = a /\ Tail(<<a, b, c, d>>) = <<b, c, d>>
  /\ \A a, b, c, d, e : Head(<<a, b, c, d, e>>) = a /\ Tail(<<a, b, c, d, e>>) = <<b, c, d, e>>
<1> SUFFICES ASSUME NEW a, NEW b, NEW c, NEW d, NEW e
             PROVE  /\ Head(<<a>>) = a /\ Tail(<<a>>) = <<>>
                    /\ Head(<<a, b>>) = a /\ Tail(<<a, b>>) = <<b>>
                    /\ Head(<<a, b, c>>) = a /\ Tail(<<a, b, c>>) = <<b, c>>
                    /\ Head(<<a, b, c, d>>) = a /\ Tail(<<a, b, c, d>>) = <<b, c, d>>
                    /\ Head(<<a, b, c, d, e>>) = a /\ Tail(<<a, b, c, d, e>>) = <<b, c, d, e>>
  OBVIOUS
<1> DEFINE S == {a, b, c, d, e}
<1>1. /\ Head(<<a>>) = a /\ Head(<<a, b>>) = a /\ Head(<<a, b, c>>) = a /\ Head(<<a, b, c, d>>) = a
      /\ Head(<<a, b, c, d, e>>) = a /\ Tail(<<a>>) = <<>>
  OBVIOUS
<1>2. Tail(<<a, b>>) = <<b>>
  <2>1. <<b>> \in Seq(S) /\ Tail(<<a, b>>) \in Seq(S)
    OBVIOUS
  <2>2. Len(Tail(<<a, b>>)) = 1 /\ Len(<<b>>) = 1 /\ \A i \in 1..1 : Tail(<<a, b>>)[i] = <<b>>[i]
    OBVIOUS
  <2> HIDE DEF S
  <2> QED BY <2>1, <2>2, SeqEqual
<1>3. Tail(<<a, b, c>>) = <<b, c>>
  <2>1. <<b, c>> \in Seq(S) /\ Tail(<<a, b, c>>) \in Seq(S)
    OBVIOUS
  <2>2. /\ Len(Tail(<<a, b, c>>)) = 2 /\ Len(<<b, c>>) = 2
        /\ \A i \in 1..2 : Tail(<<a, b, c>>)[i] = <<b, c>>[i]
    OBVIOUS
  <2> HIDE DEF S
  <2> QED BY <2>1, <2>2, SeqEqual
<1>4. Tail(<<a, b, c, d>>) = <<b, c, d>>
  <2>1. <<b, c, d>> \in Seq(S) /\ Tail(<<a, b, c, d>>) \in Seq(S)
    OBVIOUS
  <2>2. /\ Len(Tail(<<a, b, c, d>>)) = 3 /\ Len(<<b, c, d>>) = 3
        /\ \A i \in 1..3 : Tail(<<a, b, c, d>>)[i] = <<b, c, d>>[i]
    OBVIOUS
  <2> HIDE DEF S
  <2> QED BY <2>1, <2>2, SeqEqual
<1>5. Tail(<<a, b, c, d, e>>) = <<b, c, d, e>>
  <2>1. <<b, c, d, e>> \in Seq(S) /\ Tail(<<a, b, c, d, e>>) \in Seq(S)
    OBVIOUS
  <2>2. /\ Len(Tail(<<a, b, c, d, e>>)) = 4 /\ Len(<<b, c, d, e>>) = 4
        /\ \A i \in 1..4 : Tail(<<a, b, c, d, e>>)[i] = <<b, c, d, e>>[i]
    OBVIOUS
  <2> HIDE DEF S
  <2> QED BY <2>1, <2>2, SeqEqual
<1> QED BY <1>1, <1>2, <1>3, <1>4, <1>5

LEMMA AutoNames ==
  /\ KillUnits[1] = "kill_units" /\ WipeAll[1] = "wipe_all" /\ CrontabR[1] = "crontab_r"
  /\ Flush[1] = "flush" /\ RebootNow[1] = "reboot"
BY DEF KillUnits, WipeAll, CrontabR, Flush, RebootNow

LEMMA EndingScript ==
  ASSUME Ending
  PROVE  /\ ~Working /\ job.name = "remove" /\ job.queue = <<>>
         /\ job.script # <<>> => Head(job.script)[1] \in AutoOps
<1>1. job.name = "remove" /\ job.queue = <<>>
  <2>1. job = [name |-> "remove", queue |-> <<>>, script |-> job.script]
    BY Zenon DEF Ending
  <2> QED BY <2>1
<1>2. ~Working
  BY <1>1, CmdsTuples DEF Working
<1>3. \/ job.script = <<KillUnits, WipeAll, CrontabR, Flush, RebootNow>>
      \/ job.script = <<WipeAll, CrontabR, Flush, RebootNow>>
      \/ job.script = <<CrontabR, Flush, RebootNow>>
      \/ job.script = <<Flush, RebootNow>>
      \/ job.script = <<RebootNow>>
      \/ job.script = <<>>
  BY Zenon DEF Ending
<1>4. job.script # <<>> => Head(job.script) \in {KillUnits, WipeAll, CrontabR, Flush, RebootNow}
  BY <1>3, Ends
<1>5. job.script # <<>> => Head(job.script)[1] \in AutoOps
  BY <1>4, AutoNames DEF AutoOps
<1> QED BY <1>1, <1>2, <1>5

LEMMA CommandTypes ==
  ASSUME NEW c \in Commands
  PROVE  /\ c = <<c[1], c[2]>>
         /\ c[1] \in NftOps => c[2] \in Tables
         /\ c[1] \in UnitOps => c[2] \in Services
         /\ c[1] \in {"fetch", "verify", "try"} => c[2] \in Parts
         /\ c[1] \in {"dir", "rebuild", "rmdir", "wipe", "need"} => c[2] \in Things
         /\ c[1] \in {"cron", "rmcron"} => c[2] \in Lines
         /\ c[1] = "conf" => c[2] = "panel"
         /\ c[1] = "ns4" => c[2] \in {"lb", "dropbear"}
<1>1. CASE c \in NftOps \X Tables
  BY <1>1 DEF NftOps, UnitOps
<1>2. CASE c \in UnitOps \X Services
  BY <1>2 DEF NftOps, UnitOps
<1>3. CASE c \in {"fetch", "verify", "try"} \X Parts
  BY <1>3 DEF NftOps, UnitOps
<1>4. CASE c \in {"dir", "rebuild", "rmdir", "wipe", "need"} \X Things
  BY <1>4 DEF NftOps, UnitOps
<1>5. CASE c \in {"cron", "rmcron"} \X Lines
  BY <1>5 DEF NftOps, UnitOps
<1>6. ASSUME NEW op \in {"conf", "ns4", "cert", "drop_all"}, NEW x, c = <<op, x>>,
             op = "conf" => x = "panel", op = "ns4" => x \in {"lb", "dropbear"}
      PROVE  /\ c = <<c[1], c[2]>> /\ c[1] \notin NftOps \cup UnitOps
             /\ c[1] \notin {"fetch", "verify", "try", "dir", "rebuild", "rmdir", "wipe", "need", "cron", "rmcron"}
             /\ c[1] = "conf" => c[2] = "panel"
             /\ c[1] = "ns4" => c[2] \in {"lb", "dropbear"}
  BY <1>6 DEF NftOps, UnitOps
<1>7. CASE c \in {<<"conf", "panel">>, <<"ns4", "lb">>, <<"ns4", "dropbear">>, <<"cert", "xray">>,
                 <<"drop_all", "">>}
  <2>1. PICK op \in {"conf", "ns4", "cert", "drop_all"} : \E x :
          /\ c = <<op, x>> /\ (op = "conf" => x = "panel")
          /\ (op = "ns4" => x \in {"lb", "dropbear"})
    BY <1>7, Zenon
  <2>2. PICK x : /\ c = <<op, x>> /\ (op = "conf" => x = "panel")
                 /\ (op = "ns4" => x \in {"lb", "dropbear"})
    BY <2>1
  <2> QED BY <1>6, <2>2
<1> QED BY <1>1, <1>2, <1>3, <1>4, <1>5, <1>7 DEF Commands

LEMMA ArgTypes ==
  ASSUME TunnelInv, NEW op, op \notin AutoOps, Busy(op)
  PROVE  /\ Working /\ job.script # <<>> /\ Head(job.script) = <<op, Arg>> /\ Head(job.script)[1] = op
         /\ op \in NftOps => Arg \in Tables
         /\ op \in UnitOps => Arg \in Services
         /\ op \in {"fetch", "verify", "try"} => Arg \in Parts
         /\ op \in {"dir", "rebuild", "rmdir", "wipe", "need"} => Arg \in Things
         /\ op \in {"cron", "rmcron"} => Arg \in Lines
         /\ op = "conf" => Arg = "panel"
         /\ op = "ns4" => Arg \in {"lb", "dropbear"}
<1>1. job.script # <<>> /\ Head(job.script)[1] = op /\ Arg = Head(job.script)[2]
  BY DEF Busy, Arg
<1>2. Working
  BY <1>1, EndingScript DEF TunnelInv, TypeOK
<1>3. Head(job.script) \in Commands
  <2>1. job.script \in Seq(Commands)
    BY <1>2 DEF Working
  <2> QED BY <1>1, <2>1
<1> HIDE DEF Arg
<1> QED BY <1>1, <1>2, <1>3, CommandTypes

\* A command that touches neither tables nor their files.
LEMMA DoesInv ==
  ASSUME TunnelInv, NEW op, NEW h, op \notin AutoOps \cup NftOps, Does(op, h), h \in Hosts,
         h.table = host.table, h.file = host.file, op \in PurgeOps => Shrinks
  PROVE  TunnelInv'
<1>1. Busy(op) /\ host' = h /\ Advance /\ Others
  BY DEF Does
<1>2. Working /\ job.script # <<>> /\ Head(job.script) = <<op, Arg>> /\ Head(job.script)[1] = op
  BY <1>1, ArgTypes
<1>3. op \notin {"nftfile", "nftdrop"}
  BY DEF NftOps
<1>4. \A n : Head(job.script) # <<"nftdrop", n>>
  BY <1>2, <1>3
<1> QED BY <1>1, <1>2, <1>3, <1>4, CommandInv

\* What systemctl does to a host.
SameFiles(g, h) == /\ g \in Hosts /\ g.table = h.table /\ g.file = h.file
                   /\ g.bin = h.bin /\ g.cron = h.cron
LEMMA UpEdit ==
  ASSUME NEW h \in Hosts, NEW U \in SUBSET Services
  PROVE  /\ SameFiles([h EXCEPT !.up = U], h) /\ [h EXCEPT !.up = U].up = U
         /\ [h EXCEPT !.up = U].enabled = h.enabled
BY DEF Hosts, SameFiles

LEMMA UpAndHapEdit ==
  ASSUME NEW h \in Hosts, NEW U \in SUBSET Services, NEW c \in {"default", "panel"}
  PROVE  /\ SameFiles([h EXCEPT !.up = U, !.hap = c], h) /\ [h EXCEPT !.up = U, !.hap = c].up = U
         /\ [h EXCEPT !.up = U, !.hap = c].enabled = h.enabled
BY DEF Hosts, SameFiles

LEMMA EnabledEdit ==
  ASSUME NEW h \in Hosts, NEW U \in SUBSET Services
  PROVE  /\ SameFiles([h EXCEPT !.enabled = U], h) /\ [h EXCEPT !.enabled = U].up = h.up
         /\ [h EXCEPT !.enabled = U].enabled = U
BY DEF Hosts, SameFiles

LEMMA HostParts ==
  ASSUME NEW h \in Hosts
  PROVE  /\ h.bin \subseteq Parts /\ h.enabled \subseteq Services /\ h.up \subseteq Services
         /\ h.conf \in {"default", "panel"} /\ h.file \subseteq Tables /\ h.table \subseteq Tables
         /\ h.cron \subseteq Lines /\ SameFiles(h, h)
BY DEF Hosts, SameFiles

LEMMA StartedHost ==
  ASSUME NEW h \in Hosts, NEW s \in Services
  PROVE  /\ SameFiles(Started(h, s), h) /\ Started(h, s).enabled = h.enabled
         /\ h.up \subseteq Started(h, s).up /\ Started(h, s).up \subseteq h.up \cup {s}
<1>1. CASE s \in h.up \/ ~Startable(h, s)
  BY <1>1, HostParts DEF Started
<1>2. CASE ~(s \in h.up \/ ~Startable(h, s))
  <2>u. PICK U : U = h.up \cup {s}
    OBVIOUS
  <2>1. PICK c \in {"default", "panel"} : Started(h, s) = [h EXCEPT !.up = U, !.hap = c]
    <3>1. (IF s = "haproxy" THEN h.conf ELSE h.hap) \in {"default", "panel"}
      BY DEF Hosts
    <3> QED BY <1>2, <2>u, <3>1 DEF Started
  <2>2. U \in SUBSET Services
    BY <2>u, HostParts
  <2>3. /\ SameFiles([h EXCEPT !.up = U, !.hap = c], h) /\ [h EXCEPT !.up = U, !.hap = c].up = U
        /\ [h EXCEPT !.up = U, !.hap = c].enabled = h.enabled
    BY <2>2, UpAndHapEdit
  <2>4. PICK g : g = [h EXCEPT !.up = U, !.hap = c]
    OBVIOUS
  <2>5. Started(h, s) = g /\ SameFiles(g, h) /\ g.up = U /\ g.enabled = h.enabled
    BY <2>1, <2>3, <2>4
  <2> QED BY <2>u, <2>5
<1> QED BY <1>1, <1>2

LEMMA StoppedHost ==
  ASSUME NEW h \in Hosts, NEW s
  PROVE  /\ SameFiles(Stopped(h, s), h) /\ Stopped(h, s).enabled = h.enabled /\ Stopped(h, s).up = h.up \ {s}
<1>1. PICK U : U = h.up \ {s}
  OBVIOUS
<1>2. U \in SUBSET Services /\ Stopped(h, s) = [h EXCEPT !.up = U]
  BY <1>1, HostParts DEF Stopped
<1>3. /\ SameFiles([h EXCEPT !.up = U], h) /\ [h EXCEPT !.up = U].up = U
      /\ [h EXCEPT !.up = U].enabled = h.enabled
  BY <1>2, UpEdit
<1> QED BY <1>1, <1>2, <1>3

LEMMA EnabledHost ==
  ASSUME NEW h \in Hosts, NEW s \in Services
  PROVE  SameFiles(EnabledNow(h, s), h)
<1>1. PICK U : U = h.enabled \cup {s}
  OBVIOUS
<1>2. PICK g : g = [h EXCEPT !.enabled = U]
  OBVIOUS
<1>3. SameFiles(g, h)
  <2>1. U \in SUBSET Services
    BY <1>1, HostParts
  <2> QED BY <1>2, <2>1, EnabledEdit
<1>4. EnabledNow(h, s) = Started(g, s) \/ EnabledNow(h, s) = h
  BY <1>1, <1>2 DEF EnabledNow
<1>5. SameFiles(Started(g, s), g)
  BY <1>3, StartedHost DEF SameFiles
<1> QED BY <1>3, <1>4, <1>5, HostParts DEF SameFiles

LEMMA RestartedHost ==
  ASSUME NEW h \in Hosts, NEW s \in Services
  PROVE  SameFiles(Restarted(h, s), h)
<1>1. SameFiles(Stopped(h, s), h)
  BY StoppedHost
<1>2. SameFiles(Started(Stopped(h, s), s), Stopped(h, s))
  BY <1>1, StartedHost DEF SameFiles
<1> QED BY <1>1, <1>2 DEF Restarted, SameFiles

LEMMA DisabledHost ==
  ASSUME NEW h \in Hosts, NEW s, NEW g, g = Stopped([h EXCEPT !.enabled = @ \ {s}], s)
  PROVE  SameFiles(g, h) /\ g.enabled = h.enabled \ {s} /\ g.up = h.up \ {s}
<1>1. PICK U : U = h.enabled \ {s}
  OBVIOUS
<1>2. PICK k : k = [h EXCEPT !.enabled = U]
  OBVIOUS
<1>3. SameFiles(k, h) /\ k.enabled = U /\ k.up = h.up
  <2>1. U \in SUBSET Services
    BY <1>1, HostParts
  <2>2. /\ SameFiles([h EXCEPT !.enabled = U], h) /\ [h EXCEPT !.enabled = U].up = h.up
        /\ [h EXCEPT !.enabled = U].enabled = U
    BY <2>1, EnabledEdit
  <2> QED BY <1>2, <2>2
<1>4. g = Stopped(k, s)
  BY <1>1, <1>2
<1>5. SameFiles(g, k) /\ g.enabled = k.enabled /\ g.up = k.up \ {s}
  <2>1. k \in Hosts
    BY <1>3 DEF SameFiles
  <2>2. /\ SameFiles(Stopped(k, s), k) /\ Stopped(k, s).enabled = k.enabled
        /\ Stopped(k, s).up = k.up \ {s}
    BY <2>1, StoppedHost
  <2> QED BY <1>4, <2>2
<1> QED BY <1>1, <1>3, <1>5 DEF SameFiles

LEMMA FilesInv ==
  ASSUME TunnelInv, Files
  PROVE  TunnelInv'
<1>h. host \in Hosts
  BY DEF TunnelInv, TypeOK
<1>1. CASE Does("dir", [host EXCEPT !.dir = @ \cup {Arg}])
  <2>1. Busy("dir") /\ "dir" \notin AutoOps \cup NftOps \cup PurgeOps
    BY <1>1 DEF Does, AutoOps, NftOps, PurgeOps
  <2>2. Arg \in Things
    BY <2>1, ArgTypes
  <2>3. PICK h : h = [host EXCEPT !.dir = @ \cup {Arg}]
    OBVIOUS
  <2>4. h \in Hosts /\ h.table = host.table /\ h.file = host.file
    BY <1>h, <2>2, <2>3 DEF Hosts
  <2> QED BY <1>1, <2>1, <2>3, <2>4, DoesInv
<1>2. CASE Does("rmdir", [host EXCEPT !.dir = @ \ {Arg}])
  <2>1. Busy("rmdir") /\ "rmdir" \notin AutoOps \cup NftOps
    BY <1>2 DEF Does, AutoOps, NftOps
  <2>2. Arg \in Things /\ Head(job.script) = <<"rmdir", Arg>>
    BY <2>1, ArgTypes
  <2>3. PICK h : h = [host EXCEPT !.dir = @ \ {Arg}]
    OBVIOUS
  <2>4. /\ h \in Hosts /\ h.table = host.table /\ h.file = host.file
        /\ h.bin \subseteq host.bin /\ h.enabled \subseteq host.enabled /\ h.up \subseteq host.up
        /\ h.cron \subseteq host.cron
    BY <1>h, <2>2, <2>3 DEF Hosts
  <2>5. Does("rmdir", h) /\ host' = h
    BY <1>2, <2>3 DEF Does
  <2>6. Shrinks
    BY <2>2, <2>4, <2>5 DEF Shrinks
  <2> QED BY <2>1, <2>4, <2>5, <2>6, DoesInv
<1>3. CASE Does("unit", [host EXCEPT !.unit = @ \cup {Arg}])
  <2>1. Busy("unit") /\ "unit" \notin AutoOps \cup NftOps \cup PurgeOps
    BY <1>3 DEF Does, AutoOps, NftOps, PurgeOps
  <2>2. Arg \in Services
    BY <2>1, ArgTypes DEF UnitOps
  <2>3. PICK h : h = [host EXCEPT !.unit = @ \cup {Arg}]
    OBVIOUS
  <2>4. h \in Hosts /\ h.table = host.table /\ h.file = host.file
    BY <1>h, <2>2, <2>3 DEF Hosts
  <2> QED BY <1>3, <2>1, <2>3, <2>4, DoesInv
<1>4. CASE Does("rmunit", [host EXCEPT !.unit = @ \ {Arg}])
  <2>1. Busy("rmunit") /\ "rmunit" \notin AutoOps \cup NftOps
    BY <1>4 DEF Does, AutoOps, NftOps
  <2>2. Arg \in Services /\ Head(job.script) = <<"rmunit", Arg>>
    BY <2>1, ArgTypes DEF UnitOps
  <2>3. PICK h : h = [host EXCEPT !.unit = @ \ {Arg}]
    OBVIOUS
  <2>4. /\ h \in Hosts /\ h.table = host.table /\ h.file = host.file
        /\ h.bin \subseteq host.bin /\ h.enabled \subseteq host.enabled /\ h.up \subseteq host.up
        /\ h.cron \subseteq host.cron
    BY <1>h, <2>2, <2>3 DEF Hosts
  <2>5. Does("rmunit", h) /\ host' = h
    BY <1>4, <2>3 DEF Does
  <2>6. Shrinks
    BY <2>2, <2>4, <2>5 DEF Shrinks
  <2> QED BY <2>1, <2>4, <2>5, <2>6, DoesInv
<1>5. CASE Does("wipe", [host EXCEPT !.bin = @ \ {Arg}, !.dir = @ \ {Arg}])
  <2>1. Busy("wipe") /\ "wipe" \notin AutoOps \cup NftOps
    BY <1>5 DEF Does, AutoOps, NftOps
  <2>2. Arg \in Things /\ Head(job.script) = <<"wipe", Arg>>
    BY <2>1, ArgTypes
  <2>3. PICK h : h = [host EXCEPT !.bin = @ \ {Arg}, !.dir = @ \ {Arg}]
    OBVIOUS
  <2>4. /\ h \in Hosts /\ h.table = host.table /\ h.file = host.file
        /\ h.bin \subseteq host.bin /\ h.enabled \subseteq host.enabled /\ h.up \subseteq host.up
        /\ h.cron \subseteq host.cron
        /\ Arg \notin h.bin
    BY <1>h, <2>2, <2>3 DEF Hosts
  <2>5. Does("wipe", h) /\ host' = h
    BY <1>5, <2>3 DEF Does
  <2>6. Shrinks
    BY <2>2, <2>4, <2>5 DEF Shrinks
  <2> QED BY <2>1, <2>4, <2>5, <2>6, DoesInv
<1>6. CASE Does("conf", [host EXCEPT !.conf = Arg])
  <2>1. Busy("conf") /\ "conf" \notin AutoOps \cup NftOps \cup PurgeOps
    BY <1>6 DEF Does, AutoOps, NftOps, PurgeOps
  <2>2. Arg \in {"panel"}
    BY <2>1, ArgTypes
  <2>3. PICK h : h = [host EXCEPT !.conf = Arg]
    OBVIOUS
  <2>4. h \in Hosts /\ h.table = host.table /\ h.file = host.file
    BY <1>h, <2>2, <2>3 DEF Hosts
  <2> QED BY <1>6, <2>1, <2>3, <2>4, DoesInv
<1>7. CASE Does("ns4", [host EXCEPT !.ns4 = Arg])
  <2>1. Busy("ns4") /\ "ns4" \notin AutoOps \cup NftOps \cup PurgeOps
    BY <1>7 DEF Does, AutoOps, NftOps, PurgeOps
  <2>2. Arg \in {"lb", "dropbear"}
    BY <2>1, ArgTypes
  <2>3. PICK h : h = [host EXCEPT !.ns4 = Arg]
    OBVIOUS
  <2>4. h \in Hosts /\ h.table = host.table /\ h.file = host.file
    BY <1>h, <2>2, <2>3 DEF Hosts
  <2> QED BY <1>7, <2>1, <2>3, <2>4, DoesInv
<1>8. CASE Does("cron", [host EXCEPT !.cron = @ \cup {Arg}])
  <2>1. Busy("cron") /\ "cron" \notin AutoOps \cup NftOps \cup PurgeOps
    BY <1>8 DEF Does, AutoOps, NftOps, PurgeOps
  <2>2. Arg \in Lines
    BY <2>1, ArgTypes
  <2>3. PICK h : h = [host EXCEPT !.cron = @ \cup {Arg}]
    OBVIOUS
  <2>4. h \in Hosts /\ h.table = host.table /\ h.file = host.file
    BY <1>h, <2>2, <2>3 DEF Hosts
  <2> QED BY <1>8, <2>1, <2>3, <2>4, DoesInv
<1>9. CASE Does("rmcron", [host EXCEPT !.cron = @ \ {Arg}])
  <2>1. Busy("rmcron") /\ "rmcron" \notin AutoOps \cup NftOps
    BY <1>9 DEF Does, AutoOps, NftOps
  <2>2. Arg \in Lines /\ Head(job.script) = <<"rmcron", Arg>>
    BY <2>1, ArgTypes
  <2>3. PICK h : h = [host EXCEPT !.cron = @ \ {Arg}]
    OBVIOUS
  <2>4. /\ h \in Hosts /\ h.table = host.table /\ h.file = host.file
        /\ h.bin \subseteq host.bin /\ h.enabled \subseteq host.enabled /\ h.up \subseteq host.up
        /\ h.cron \subseteq host.cron
        /\ Arg \notin h.cron
    BY <1>h, <2>2, <2>3 DEF Hosts
  <2>5. Does("rmcron", h) /\ host' = h
    BY <1>9, <2>3 DEF Does
  <2>6. Shrinks
    BY <2>2, <2>4, <2>5 DEF Shrinks
  <2> QED BY <2>1, <2>4, <2>5, <2>6, DoesInv
<1> QED BY <1>1, <1>2, <1>3, <1>4, <1>5, <1>6, <1>7, <1>8, <1>9 DEF Files

LEMMA SystemctlInv ==
  ASSUME TunnelInv, Systemctl
  PROVE  TunnelInv'
<1>h. host \in Hosts
  BY DEF TunnelInv, TypeOK
<1>1. CASE Does("start", Started(host, Arg))
  <2>1. Busy("start") /\ "start" \notin AutoOps \cup NftOps \cup PurgeOps
    BY <1>1 DEF Does, AutoOps, NftOps, PurgeOps
  <2>2. Arg \in Services
    BY <2>1, ArgTypes DEF UnitOps
  <2>3. PICK h : h = Started(host, Arg)
    OBVIOUS
  <2>4. h \in Hosts /\ h.table = host.table /\ h.file = host.file
    BY <1>h, <2>2, <2>3, StartedHost DEF SameFiles
  <2> QED BY <1>1, <2>1, <2>3, <2>4, DoesInv
<1>2. CASE Does("stop", Stopped(host, Arg))
  <2>1. Busy("stop") /\ "stop" \notin AutoOps \cup NftOps
    BY <1>2 DEF Does, AutoOps, NftOps
  <2>2. Arg \in Services /\ Head(job.script) = <<"stop", Arg>>
    BY <2>1, ArgTypes DEF UnitOps
  <2>3. PICK h : h = Stopped(host, Arg)
    OBVIOUS
  <2>4. /\ h \in Hosts /\ h.table = host.table /\ h.file = host.file
        /\ h.bin \subseteq host.bin /\ h.enabled \subseteq host.enabled /\ h.up \subseteq host.up
        /\ h.cron \subseteq host.cron
    BY <1>h, <2>2, <2>3, StoppedHost DEF SameFiles
  <2>5. Does("stop", h) /\ host' = h
    BY <1>2, <2>3 DEF Does
  <2>6. Shrinks
    BY <2>2, <2>4, <2>5 DEF Shrinks
  <2> QED BY <2>1, <2>4, <2>5, <2>6, DoesInv
<1>3. CASE Does("restart", Restarted(host, Arg))
  <2>1. Busy("restart") /\ "restart" \notin AutoOps \cup NftOps \cup PurgeOps
    BY <1>3 DEF Does, AutoOps, NftOps, PurgeOps
  <2>2. Arg \in Services
    BY <2>1, ArgTypes DEF UnitOps
  <2>3. PICK h : h = Restarted(host, Arg)
    OBVIOUS
  <2>4. h \in Hosts /\ h.table = host.table /\ h.file = host.file
    BY <1>h, <2>2, <2>3, RestartedHost DEF SameFiles
  <2> QED BY <1>3, <2>1, <2>3, <2>4, DoesInv
<1>4. CASE Does("enable", EnabledNow(host, Arg))
  <2>1. Busy("enable") /\ "enable" \notin AutoOps \cup NftOps \cup PurgeOps
    BY <1>4 DEF Does, AutoOps, NftOps, PurgeOps
  <2>2. Arg \in Services
    BY <2>1, ArgTypes DEF UnitOps
  <2>3. PICK h : h = EnabledNow(host, Arg)
    OBVIOUS
  <2>4. h \in Hosts /\ h.table = host.table /\ h.file = host.file
    BY <1>h, <2>2, <2>3, EnabledHost DEF SameFiles
  <2> QED BY <1>4, <2>1, <2>3, <2>4, DoesInv
<1>5. CASE Does("disable", Stopped([host EXCEPT !.enabled = @ \ {Arg}], Arg))
  <2>1. Busy("disable") /\ "disable" \notin AutoOps \cup NftOps
    BY <1>5 DEF Does, AutoOps, NftOps
  <2>2. Arg \in Services /\ Head(job.script) = <<"disable", Arg>>
    BY <2>1, ArgTypes DEF UnitOps
  <2>3. PICK h : h = Stopped([host EXCEPT !.enabled = @ \ {Arg}], Arg)
    OBVIOUS
  <2>4. /\ h \in Hosts /\ h.table = host.table /\ h.file = host.file
        /\ h.bin \subseteq host.bin /\ h.enabled \subseteq host.enabled /\ h.up \subseteq host.up
        /\ h.cron \subseteq host.cron
        /\ Arg \notin h.enabled \cup h.up
    BY <1>h, <2>2, <2>3, DisabledHost DEF SameFiles
  <2>5. Does("disable", h) /\ host' = h
    BY <1>5, <2>3 DEF Does
  <2>6. Shrinks
    BY <2>2, <2>4, <2>5 DEF Shrinks
  <2> QED BY <2>1, <2>4, <2>5, <2>6, DoesInv
<1>6. CASE Does("disable_unless_v2ray",
                IF "v2ray" \in host.bin THEN host ELSE Stopped([host EXCEPT !.enabled = @ \ {Arg}], Arg))
  <2>1. Busy("disable_unless_v2ray") /\ "disable_unless_v2ray" \notin AutoOps \cup NftOps
    BY <1>6 DEF Does, AutoOps, NftOps
  <2>2. Arg \in Services /\ Head(job.script) = <<"disable_unless_v2ray", Arg>>
    BY <2>1, ArgTypes DEF UnitOps
  <2>3. PICK h : h = IF "v2ray" \in host.bin THEN host ELSE Stopped([host EXCEPT !.enabled = @ \ {Arg}], Arg)
    OBVIOUS
  <2>4. /\ h \in Hosts /\ h.table = host.table /\ h.file = host.file
        /\ h.bin \subseteq host.bin /\ h.enabled \subseteq host.enabled /\ h.up \subseteq host.up
        /\ h.cron \subseteq host.cron
    BY <1>h, <2>2, <2>3, DisabledHost, HostParts DEF SameFiles
  <2>5. Does("disable_unless_v2ray", h) /\ host' = h
    BY <1>6, <2>3 DEF Does
  <2>6. Shrinks
    BY <2>2, <2>4, <2>5 DEF Shrinks
  <2> QED BY <2>1, <2>4, <2>5, <2>6, DoesInv
<1>7. CASE Does("restart_valid", IF Startable(host, Arg) THEN Restarted(host, Arg) ELSE host)
  <2>1. Busy("restart_valid") /\ "restart_valid" \notin AutoOps \cup NftOps \cup PurgeOps
    BY <1>7 DEF Does, AutoOps, NftOps, PurgeOps
  <2>2. Arg \in Services
    BY <2>1, ArgTypes DEF UnitOps
  <2>3. PICK h : h = IF Startable(host, Arg) THEN Restarted(host, Arg) ELSE host
    OBVIOUS
  <2>4. h \in Hosts /\ h.table = host.table /\ h.file = host.file
    BY <1>h, <2>2, <2>3, RestartedHost DEF SameFiles
  <2> QED BY <1>7, <2>1, <2>3, <2>4, DoesInv
<1> QED BY <1>1, <1>2, <1>3, <1>4, <1>5, <1>6, <1>7 DEF Systemctl

LEMMA RebuildInv ==
  ASSUME TunnelInv, Rebuild
  PROVE  TunnelInv'
<1>1. PICK h : Does("rebuild", h) /\ (h = host \/ h = [host EXCEPT !.dir = @ \cup {Arg}])
  BY DEF Rebuild
<1>2. Busy("rebuild") /\ "rebuild" \notin AutoOps \cup NftOps \cup PurgeOps
  BY <1>1 DEF Does, AutoOps, NftOps, PurgeOps
<1>3. Arg \in Things /\ host \in Hosts
  BY <1>2, ArgTypes DEF TunnelInv, TypeOK
<1>4. h \in Hosts /\ h.table = host.table /\ h.file = host.file
  BY <1>1, <1>3 DEF Hosts
<1> QED BY <1>1, <1>2, <1>4, DoesInv

LEMMA AptHost ==
  ASSUME NEW h \in Hosts, NEW p \in Parts
  PROVE  /\ AptInstalled(h, p) \in Hosts /\ AptInstalled(h, p).table = h.table
         /\ AptInstalled(h, p).file = h.file
<1>1. CASE p \in h.bin \/ p \notin Packages
  <2>1. AptInstalled(h, p) = [h EXCEPT !.bin = @ \cup {p}]
    BY <1>1 DEF AptInstalled
  <2>2. PICK g : g = [h EXCEPT !.bin = @ \cup {p}]
    OBVIOUS
  <2>3. g \in Hosts /\ g.table = h.table /\ g.file = h.file
    BY <2>2 DEF Hosts
  <2> QED BY <2>1, <2>2, <2>3
<1>2. CASE ~(p \in h.bin \/ p \notin Packages)
  <2>1. PICK g : g = [h EXCEPT !.bin = @ \cup {p}, !.dir = @ \cup {p}]
    OBVIOUS
  <2>2. p \in Things /\ p \in Services
    BY <1>2 DEF Things, Services, Packages
  <2>3. g \in Hosts /\ g.table = h.table /\ g.file = h.file
    BY <2>1, <2>2 DEF Hosts
  <2>4. SameFiles(EnabledNow(g, p), g)
    BY <2>2, <2>3, EnabledHost
  <2>5. AptInstalled(h, p) = EnabledNow(g, p)
    BY <1>2, <2>1 DEF AptInstalled
  <2> QED BY <2>3, <2>4, <2>5 DEF SameFiles
<1> QED BY <1>1, <1>2

LEMMA ObtainInv ==
  ASSUME TunnelInv, Obtain
  PROVE  TunnelInv'
<1>1. PICK op \in {"fetch", "try"} : Busy(op)
  BY DEF Obtain
<1>2. op \notin AutoOps \cup NftOps \cup PurgeOps
  BY DEF AutoOps, NftOps, PurgeOps
<1>3. Arg \in Parts
  BY <1>1, <1>2, ArgTypes
<1>4. PICK h : h = AptInstalled(host, Arg)
  OBVIOUS
<1>5. h \in Hosts /\ h.table = host.table /\ h.file = host.file
  BY <1>3, <1>4, AptHost DEF TunnelInv, TypeOK
<1>6. Does(op, h)
  BY <1>1, <1>4 DEF Obtain, Does
<1> QED BY <1>2, <1>5, <1>6, DoesInv

LEMMA SameHostInv ==
  ASSUME TunnelInv, NEW op \in {"verify", "need", "cert"}, Does(op, host)
  PROVE  TunnelInv'
<1>1. op \notin AutoOps \cup NftOps \cup PurgeOps
  BY DEF AutoOps, NftOps, PurgeOps
<1>2. host \in Hosts
  BY DEF TunnelInv, TypeOK
<1> QED BY <1>1, <1>2, DoesInv

LEMMA VerifyInv ==
  ASSUME TunnelInv, Verify
  PROVE  TunnelInv'
BY SameHostInv DEF Verify

\* A command that is no part of a removal shows that none is under way.
LEMMA NotPurging ==
  ASSUME TunnelInv, NEW op, op \notin AutoOps \cup PurgeOps, Busy(op)
  PROVE  ~Purging /\ status = "none" /\ job.name # "none"
<1>1. Working /\ job.script # <<>> /\ Head(job.script)[1] = op
  BY ArgTypes
<1>2. job.script \in Seq(Commands) /\ job.name # "none"
  BY <1>1 DEF Working, NoJob
<1>3. Head(job.script) \in Cmds(job.script)
  BY <1>1, <1>2, CmdsTail
<1>4. ~Purging
  BY <1>1, <1>3 DEF TunnelInv, Purge, Ordered
<1> QED BY <1>2, <1>4 DEF TunnelInv, Purged

LEMMA NothingRuns == Runs(<<>>)
<1>1. <<>> \in Seq(Commands) /\ Len(<<>>) = 0
  OBVIOUS
<1>2. \A i \in 1..Len(<<>>) : FALSE
  BY <1>1
<1>3. \A i \in 2..Len(<<>>) : FALSE
  BY <1>1
<1> QED BY <1>1, <1>2, <1>3 DEF Runs, DropsAfter, LoadsAfter, Skips

\* A job other than a removal goes on with another script, or ends as a failure.
LEMMA ScriptInv ==
  ASSUME TunnelInv, Working', UNCHANGED <<host, watch, status, revived>>,
         ~Purging', status = "none", Covered'
  PROVE  spoiled' \in BOOLEAN => TunnelInv'
BY DEF TunnelInv, TypeOK, Purge, Purged

LEMMA FailInv ==
  ASSUME TunnelInv, Fail
  PROVE  TunnelInv'
<1>1. PICK op \in {"fetch", "verify", "try"} : Busy(op)
  BY DEF Fail
<1>2. op \notin AutoOps \cup PurgeOps
  BY DEF AutoOps, PurgeOps
<1>3. ~Purging /\ status = "none" /\ Working /\ job.script # <<>> /\ Head(job.script)[1] = op
  BY <1>1, <1>2, NotPurging, ArgTypes
<1>4. spoiled' = TRUE /\ UNCHANGED <<host, watch, status, revived>> /\ (Advance \/ ReturnNow)
  BY DEF Fail
<1>5. Working' /\ ~Purging'
  <2>1. CASE Advance
    <3>1. Working'
      BY <1>3, <2>1, WorkingKept
    <3> QED BY <1>3, <2>1, <3>1, Advances DEF Purging
  <2>2. CASE ReturnNow
    <3>1. /\ job' \in [name : JobNames, queue : Seq(Functions), script : Seq(Commands)]
          /\ job'.name = job.name /\ job'.queue = job.queue /\ job'.script = <<>>
      <4>1. job \in [name : JobNames, queue : Seq(Functions), script : Seq(Commands)]
        BY <1>3 DEF Working
      <4>2. <<>> \in Seq(Commands)
        OBVIOUS
      <4> QED BY <2>2, <4>1, <4>2 DEF ReturnNow
    <3>2. job.name # "none"
      BY <1>3 DEF Working, NoJob
    <3> QED BY <1>3, <3>1, <3>2, NothingRuns DEF Working, Purging
  <2> QED BY <1>4, <2>1, <2>2
<1>6. Covered'
  BY <1>4 DEF Covered
<1> QED BY <1>3, <1>4, <1>5, <1>6, ScriptInv

\* The panel is gone in the middle of a job.
LEMMA CutInv ==
  ASSUME TunnelInv, ~Idle, job' = NoJob, spoiled' = TRUE, UNCHANGED <<host, watch, status, revived>>
  PROVE  TunnelInv'
<1>1. /\ NoJob \in [name : JobNames, queue : Seq(Functions), script : Seq(Commands)]
      /\ NoJob.name = "none" /\ NoJob.queue = <<>> /\ NoJob.script = <<>> /\ Len(<<>>) = 0
  BY DEF NoJob, JobNames
<1>2. Working'
  BY <1>1, NothingRuns DEF Working
<1>3. ~Purging' /\ Covered' /\ status = "none"
  BY <1>1 DEF Purging, Covered, TunnelInv, Purged, Idle
<1> QED BY <1>2, <1>3, ScriptInv

LEMMA KillInv ==
  ASSUME TunnelInv, Kill
  PROVE  TunnelInv'
BY CutInv DEF Kill

LEMMA NeedInv ==
  ASSUME TunnelInv, Need
  PROVE  TunnelInv'
<1>1. CASE Does("need", host)
  BY <1>1, SameHostInv
<1>2. CASE Busy("need") /\ job' = NoJob /\ spoiled' = TRUE /\ UNCHANGED <<host, watch, status, revived>>
  <2>1. "need" \notin AutoOps \cup PurgeOps
    BY DEF AutoOps, PurgeOps
  <2>2. ~Idle
    BY <1>2, <2>1, NotPurging DEF Idle
  <2> QED BY <1>2, <2>2, CutInv
<1> QED BY <1>1, <1>2 DEF Need

LEMMA CertInv ==
  ASSUME TunnelInv, Cert
  PROVE  TunnelInv'
<1>1. CASE Advance
  <2>1. Does("cert", host)
    BY <1>1 DEF Cert, Does
  <2> QED BY <2>1, SameHostInv
<1>2. CASE job' = [job EXCEPT !.script = SubSeq(@, 4, Len(@))]
  <2>1. Busy("cert") /\ "cert" \notin AutoOps \cup PurgeOps
    BY DEF Cert, AutoOps, PurgeOps
  <2>2. /\ ~Purging /\ status = "none" /\ job.name # "none" /\ Working
        /\ job.script # <<>> /\ Head(job.script)[1] = "cert"
    BY <2>1, NotPurging, ArgTypes
  <2>3. UNCHANGED <<host, watch, status, spoiled, revived>>
    BY DEF Cert, Others
  <2>4. PICK s : s = job.script
    OBVIOUS
  <2>5. s \in Seq(Commands) /\ Runs(s) /\ Len(s) \in Nat \ {0} /\ Head(s) = s[1] /\ s[1][1] = "cert"
    <3>1. s \in Seq(Commands) /\ Runs(s) /\ s # <<>>
      BY <2>2, <2>4 DEF Working
    <3> QED BY <2>2, <2>4, <3>1
  <2>6. 1 + 2 <= Len(s) /\ s[1 + 1][1] = "stop" /\ s[1 + 2][1] = "start"
    <3>1. 1 \in 1..Len(s)
      BY <2>5
    <3> QED BY <2>5, <3>1 DEF Runs, Skips
  <2>7. Len(s) >= 3 /\ 3 \in 0..Len(s) /\ s[2][1] = "stop" /\ s[3][1] = "start"
    BY <2>5, <2>6
  <2>8. PICK t : t = SubSeq(s, 4, Len(s))
    OBVIOUS
  <2>9. Runs(t) /\ Len(t) = Len(s) - 3 /\ \A i \in 1..(Len(s) - 3) : t[i] = s[i + 3]
    <3>1. Runs(SubSeq(s, 3 + 1, Len(s))) /\ Len(SubSeq(s, 3 + 1, Len(s))) = Len(s) - 3
          /\ \A i \in 1..(Len(s) - 3) : SubSeq(s, 3 + 1, Len(s))[i] = s[i + 3]
      BY <2>5, <2>7, RunsOn
    <3> QED BY <2>8, <3>1
  <2>10. t # <<>> => Head(t)[1] # "nftload"
    <3> SUFFICES ASSUME t # <<>> PROVE Head(t)[1] # "nftload"
      OBVIOUS
    <3>1. t \in Seq(Commands)
      BY <2>9 DEF Runs
    <3>2. 1 \in 1..(Len(s) - 3) /\ Head(t) = t[1] /\ 4 \in 2..Len(s)
      BY <2>5, <2>9, <3>1
    <3>3. t[1] = s[4]
      BY <2>9, <3>2
    <3>4. s[4][1] = "nftload" => s[4 - 1] = <<"nftfile", s[4][2]>>
      BY <2>5, <3>2 DEF Runs, LoadsAfter
    <3> QED BY <2>7, <3>2, <3>3, <3>4
  <2>11. /\ job' \in [name : JobNames, queue : Seq(Functions), script : Seq(Commands)]
         /\ job'.name = job.name /\ job'.queue = job.queue /\ job'.script = t
    <3>1. t \in Seq(Commands)
      BY <2>9 DEF Runs
    <3> QED BY <1>2, <2>2, <2>4, <2>8, <3>1 DEF Working
  <2>12. Working' /\ ~Purging'
    BY <2>2, <2>9, <2>10, <2>11 DEF Working, Purging
  <2>13. ASSUME NEW n, <<"nftdrop", n>> \in Cmds(s)
         PROVE  <<"nftdrop", n>> \in Cmds(t)
    <3>1. PICK i \in 1..Len(s) : s[i] = <<"nftdrop", n>>
      BY <2>13 DEF Cmds
    <3>2. i # 1 /\ i # 2 /\ i # 3
      BY <2>5, <2>7, <3>1
    <3>3. i - 3 \in 1..Len(t) /\ t[i - 3] = s[i]
      BY <2>5, <2>9, <3>2
    <3> QED BY <3>1, <3>3 DEF Cmds
  <2>14. Covered'
    BY <2>3, <2>4, <2>11, <2>13 DEF TunnelInv, Covered
  <2>15. spoiled' \in BOOLEAN
    BY <2>3 DEF TunnelInv, TypeOK
  <2> QED BY <2>2, <2>3, <2>12, <2>14, <2>15, ScriptInv
<1> QED BY <1>1, <1>2 DEF Cert

LEMMA NftInv ==
  ASSUME TunnelInv, Nft
  PROVE  TunnelInv'
<1>h. host \in Hosts
  BY DEF TunnelInv, TypeOK
<1>1. CASE Does("nftfile", [host EXCEPT !.file = @ \cup {Arg}])
  <2>1. Busy("nftfile") /\ Advance /\ Others /\ "nftfile" \notin AutoOps \cup PurgeOps /\ "nftfile" \in NftOps
    BY <1>1 DEF Does, AutoOps, PurgeOps, NftOps
  <2>2. /\ Working /\ job.script # <<>> /\ Head(job.script) = <<"nftfile", Arg>>
        /\ Head(job.script)[1] = "nftfile" /\ Arg \in Tables
    BY <2>1, ArgTypes
  <2>3. PICK a : a = Arg
    OBVIOUS
  <2>4. host' = [host EXCEPT !.file = @ \cup {a}]
    BY <1>1, <2>3 DEF Does
  <2>5. host' \in Hosts /\ host'.table = host.table /\ host'.file = host.file \cup {a}
    BY <1>h, <2>2, <2>3, <2>4 DEF Hosts
  <2>6. Head(job.script)[2] \in host'.file /\ \A n : Head(job.script) # <<"nftdrop", n>>
    BY <2>2, <2>3, <2>5
  <2> QED BY <2>1, <2>2, <2>5, <2>6, CommandInv
<1>2. CASE Does("nftload", [host EXCEPT !.table = @ \cup {Arg}, !.boot = @ \cup {Arg}])
  <2>1. Busy("nftload") /\ Advance /\ Others /\ "nftload" \notin AutoOps \cup PurgeOps /\ "nftload" \in NftOps
    BY <1>2 DEF Does, AutoOps, PurgeOps, NftOps
  <2>2. /\ Working /\ job.script # <<>> /\ Head(job.script) = <<"nftload", Arg>>
        /\ Head(job.script)[1] = "nftload" /\ Arg \in Tables
    BY <2>1, ArgTypes
  <2>3. PICK a : a = Arg
    OBVIOUS
  <2>4. host' = [host EXCEPT !.table = @ \cup {a}, !.boot = @ \cup {a}]
    BY <1>2, <2>3 DEF Does
  <2>5. host' \in Hosts /\ host'.file = host.file /\ host'.table = host.table \cup {a}
    BY <1>h, <2>2, <2>3, <2>4 DEF Hosts
  <2>6. a \in host.file
    BY <2>2, <2>3 DEF Working
  <2>7. Head(job.script)[1] # "nftfile" /\ \A n : Head(job.script) # <<"nftdrop", n>>
    BY <2>2
  <2> QED BY <2>1, <2>2, <2>5, <2>6, <2>7, CommandInv
<1>3. CASE Does("nftstop", [host EXCEPT !.table = @ \ {Arg}, !.boot = @ \ {Arg}])
  <2>1. Busy("nftstop") /\ Advance /\ Others /\ "nftstop" \notin AutoOps
    BY <1>3 DEF Does, AutoOps
  <2>2. /\ Working /\ job.script # <<>> /\ Head(job.script) = <<"nftstop", Arg>>
        /\ Head(job.script)[1] = "nftstop"
    BY <2>1, ArgTypes
  <2>3. PICK a : a = Arg
    OBVIOUS
  <2>4. host' = [host EXCEPT !.table = @ \ {a}, !.boot = @ \ {a}]
    BY <1>3, <2>3 DEF Does
  <2>5. /\ host' \in Hosts /\ host'.file = host.file /\ host'.table = host.table \ {a}
        /\ host'.bin = host.bin /\ host'.enabled = host.enabled /\ host'.up = host.up
        /\ host'.cron = host.cron
    BY <1>h, <2>4 DEF Hosts
  <2>6. Head(job.script)[1] # "nftfile" /\ \A n : Head(job.script) # <<"nftdrop", n>>
    BY <2>2
  <2>7. Shrinks
    BY <2>2, <2>5 DEF Shrinks
  <2> QED BY <2>1, <2>2, <2>5, <2>6, <2>7, CommandInv
<1>4. CASE Does("nftunlink", [host EXCEPT !.file = @ \ {Arg}])
  <2>1. Busy("nftunlink") /\ Advance /\ Others /\ "nftunlink" \notin AutoOps
    BY <1>4 DEF Does, AutoOps
  <2>2. /\ Working /\ job.script # <<>> /\ Head(job.script) = <<"nftunlink", Arg>>
        /\ Head(job.script)[1] = "nftunlink"
    BY <2>1, ArgTypes
  <2>3. PICK a : a = Arg
    OBVIOUS
  <2>4. host' = [host EXCEPT !.file = @ \ {a}]
    BY <1>4, <2>3 DEF Does
  <2>5. /\ host' \in Hosts /\ host'.file = host.file \ {a} /\ host'.table = host.table
        /\ host'.bin = host.bin /\ host'.enabled = host.enabled /\ host'.up = host.up
        /\ host'.cron = host.cron
    BY <1>h, <2>4 DEF Hosts
  <2>6. Head(job.script)[1] # "nftfile" /\ \A n : Head(job.script) # <<"nftdrop", n>>
    BY <2>2
  <2>7. Shrinks
    BY <2>2, <2>3, <2>5 DEF Shrinks
  <2>8. <<"nftdrop", a>> \in Cmds(Tail(job.script))
    <3>1. PICK s : s = job.script
      OBVIOUS
    <3>2. s \in Seq(Commands) /\ Runs(s) /\ s # <<>> /\ Head(s) = <<"nftunlink", a>>
      BY <2>2, <2>3, <3>1 DEF Working
    <3>3. /\ 1 \in 1..Len(s) /\ s[1] = <<"nftunlink", a>> /\ Len(Tail(s)) = Len(s) - 1 /\ Len(s) \in Nat
          /\ \A i \in 1..(Len(s) - 1) : Tail(s)[i] = s[i + 1]
      BY <3>2
    <3>4. PICK j \in (1 + 1)..Len(s) : s[j] = <<"nftdrop", a>>
      <4>1. s[1][1] = "nftunlink" /\ s[1][2] = a
        BY <3>3
      <4> QED BY <3>2, <3>3, <4>1 DEF Runs, DropsAfter
    <3>5. j - 1 \in 1..Len(Tail(s)) /\ Tail(s)[j - 1] = s[j]
      BY <3>3, <3>4
    <3> QED BY <3>1, <3>4, <3>5 DEF Cmds
  <2> QED BY <2>1, <2>2, <2>5, <2>6, <2>7, <2>8, CommandInv
<1>5. CASE Does("nftdrop", [host EXCEPT !.table = @ \ {Arg}])
  <2>1. Busy("nftdrop") /\ Advance /\ Others /\ "nftdrop" \notin AutoOps
    BY <1>5 DEF Does, AutoOps
  <2>2. /\ Working /\ job.script # <<>> /\ Head(job.script) = <<"nftdrop", Arg>>
        /\ Head(job.script)[1] = "nftdrop"
    BY <2>1, ArgTypes
  <2>3. PICK a : a = Arg
    OBVIOUS
  <2>4. host' = [host EXCEPT !.table = @ \ {a}]
    BY <1>5, <2>3 DEF Does
  <2>5. /\ host' \in Hosts /\ host'.file = host.file /\ host'.table = host.table \ {a}
        /\ host'.bin = host.bin /\ host'.enabled = host.enabled /\ host'.up = host.up
        /\ host'.cron = host.cron
    BY <1>h, <2>4 DEF Hosts
  <2>6. Head(job.script)[1] # "nftfile" /\ \A n : Head(job.script) = <<"nftdrop", n>> => n = a
    BY <2>2, <2>3
  <2>7. Shrinks
    BY <2>2, <2>3, <2>5, <2>6 DEF Shrinks
  <2> QED BY <2>1, <2>2, <2>5, <2>6, <2>7, CommandInv
<1> QED BY <1>1, <1>2, <1>3, <1>4, <1>5 DEF Nft

-----------------------------------------------------------------------------
\* The catchall.

LEMMA InLater ==
  ASSUME NEW Q, NEW t \in Tunnels, Removes(t) \in Cmds(Q)
  PROVE  Cmds(UninstallScript[t]) \subseteq Later(Q)
<1>1. PICK i \in 1..Len(Q) : Q[i] = Removes(t)
  BY DEF Cmds
<1>2. Removes(t)[1] = "uninstall" /\ Removes(t)[2] = t
  BY DEF Removes
<1>3. ScriptOf("uninstall", t) = UninstallScript[t]
  BY DEF ScriptOf
<1>4. Cmds(ScriptOf(Q[i][1], Q[i][2])) \subseteq Later(Q)
  BY DEF Later
<1> QED BY <1>1, <1>2, <1>3, <1>4

\* A removal that writes the catchall has udp-custom, and the catchall with it,
\* still to remove.
LEMMA CatchKept ==
  ASSUME TunnelInv, NEW op \in CatchOps, Busy(op), Advance, Others, host' \in Hosts,
         host'.file \subseteq host.file \cup {"catchall"},
         host'.table \subseteq host.table \cup {"catchall"},
         host'.table \ host'.file \subseteq host.table \ host.file,
         host'.bin = host.bin, host'.enabled = host.enabled, host'.up = host.up,
         host'.cron \subseteq host.cron \cup {"dedup"}
  PROVE  TunnelInv'
<1>1. /\ Working /\ job.script # <<>> /\ Head(job.script) = <<op, Arg>> /\ Head(job.script)[1] = op
  <2>1. op \notin AutoOps
    BY DEF CatchOps, AutoOps
  <2> QED BY <2>1, ArgTypes
<1>2. /\ job'.name = job.name /\ job.name # "none" /\ job'.queue = job.queue
      /\ Cmds(job.script) = {Head(job.script)} \cup Cmds(job'.script)
      /\ Left = {Head(job.script)} \cup Left'
  BY <1>1, Advances
<1>3. op \notin {"nftfile", "nftdrop", "nftunlink", "wipe", "disable", "rmcron"}
  BY DEF CatchOps
<1>4. Working'
  BY <1>1, <1>3, WorkingKept
<1>5. \A o \in {"nftdrop", "nftunlink", "wipe", "disable", "rmcron"} : \A x :
        /\ <<o, x>> \in Left => <<o, x>> \in Left'
        /\ <<o, x>> \in Cmds(job.script) => <<o, x>> \in Cmds(job'.script)
  BY <1>1, <1>2, <1>3
<1>6. TypeOK'
  BY <1>4 DEF TunnelInv, TypeOK, Others
<1>7. Covered'
  BY <1>5 DEF TunnelInv, Covered, Others
<1>8. Purged'
  BY <1>2 DEF TunnelInv, Purged, Others
<1>9. Purge'
  <2> SUFFICES ASSUME Purging PROVE Remaining' /\ Ordered'
    BY <1>2 DEF Purge, Purging
  <2>1. Remaining /\ Ordered
    BY <1>1 DEF TunnelInv, Purge
  <2>2. Ordered'
    BY <1>2, <2>1 DEF Ordered
  <2>3. Removes("udp_custom") \in Cmds(job.queue)
    BY <1>1, <1>2, <2>1 DEF Ordered
  <2>4. Cmds(UninstallScript["udp_custom"]) \subseteq Left'
    BY <1>2, <2>3, InLater, TunnelNames DEF Left
  <2>5. <<"nftunlink", "catchall">> \in Left' /\ <<"nftdrop", "catchall">> \in Left'
    BY <2>4, UninstallsCmds DEF UninstallScript
  <2>6. revived' = revived
    BY DEF Others
  <2> QED BY <1>5, <2>1, <2>2, <2>5, <2>6 DEF Remaining
<1> QED BY <1>6, <1>7, <1>8, <1>9 DEF TunnelInv

\* What writing and loading the catchall does to a host.
LoadsOnly(g, h) ==
  /\ g \in Hosts /\ g.file = h.file /\ g.bin = h.bin /\ g.enabled = h.enabled /\ g.up = h.up
  /\ g.table \subseteq h.table \cup h.file /\ g.table \subseteq h.table \cup {"catchall"}
  /\ g.cron \subseteq h.cron \cup {"dedup"}

LEMMA CatchallHost ==
  ASSUME NEW h \in Hosts
  PROVE  /\ CatchallFile(h) \in Hosts /\ CatchallFile(h).file = h.file \cup {"catchall"}
         /\ CatchallFile(h).table = h.table /\ CatchallFile(h).bin = h.bin
         /\ CatchallFile(h).enabled = h.enabled /\ CatchallFile(h).up = h.up
         /\ CatchallFile(h).cron = h.cron
         /\ LoadsOnly(LoadCatchall(h), h) /\ LoadCatchall(h).cron = h.cron
         /\ LoadsOnly(StartCatchall(h), h)
<1>t. "catchall" \in Tables /\ "dedup" \in Lines
  BY DEF Tables, Lines
<1>1. PICK R \in SUBSET Ranged : R = Ranged \cap (h.bin \cup h.dir)
  OBVIOUS
<1>2. PICK g : g = CatchallFile(h)
  OBVIOUS
<1>3. /\ g \in Hosts /\ g.file = h.file \cup {"catchall"} /\ g.table = h.table /\ g.bin = h.bin
      /\ g.enabled = h.enabled /\ g.up = h.up /\ g.cron = h.cron
  <2>1. g = [h EXCEPT !.file = @ \cup {"catchall"}, !.spared.file = R]
    BY <1>1, <1>2 DEF CatchallFile
  <2> QED BY <1>t, <2>1 DEF Hosts
<1>4. PICK k : k = LoadCatchall(h)
  OBVIOUS
<1>5. LoadsOnly(k, h) /\ k.cron = h.cron
  <2>1. CASE "catchall" \notin h.file
    <3>1. k = h
      BY <1>4, <2>1 DEF LoadCatchall
    <3> QED BY <3>1 DEF LoadsOnly
  <2>2. CASE "catchall" \in h.file
    <3>1. PICK S \in SUBSET Ranged : S = h.spared.file
      BY DEF Hosts
    <3>2. k = [h EXCEPT !.table = @ \cup {"catchall"}, !.spared.table = S]
      BY <1>4, <2>2, <3>1 DEF LoadCatchall
    <3>3. /\ k \in Hosts /\ k.file = h.file /\ k.bin = h.bin /\ k.enabled = h.enabled /\ k.up = h.up
          /\ k.table = h.table \cup {"catchall"} /\ k.cron = h.cron
      BY <1>t, <3>2 DEF Hosts
    <3> QED BY <2>2, <3>3 DEF LoadsOnly
  <2> QED BY <2>1, <2>2
<1>6. LoadsOnly(StartCatchall(h), h)
  <2>1. PICK m : m = IF "catchall" \in h.table THEN h ELSE k
    OBVIOUS
  <2>2. LoadsOnly(m, h) /\ m.cron = h.cron
    BY <1>5, <2>1 DEF LoadsOnly
  <2>3. PICK n : n = [m EXCEPT !.boot = @ \cup {"catchall"}, !.cron = @ \cup {"dedup"}]
    OBVIOUS
  <2>4. m \in Hosts
    BY <2>2 DEF LoadsOnly
  <2>5. /\ n \in Hosts /\ n.file = m.file /\ n.bin = m.bin /\ n.enabled = m.enabled /\ n.up = m.up
        /\ n.table = m.table /\ n.cron = m.cron \cup {"dedup"}
    BY <1>t, <2>3, <2>4 DEF Hosts
  <2>6. StartCatchall(h) = n
    BY <1>4, <2>1, <2>3 DEF StartCatchall
  <2> QED BY <2>2, <2>5, <2>6 DEF LoadsOnly
<1> QED BY <1>2, <1>3, <1>4, <1>5, <1>6

LEMMA CatchallInv ==
  ASSUME TunnelInv, Catchall
  PROVE  TunnelInv'
<1>h. host \in Hosts
  BY DEF TunnelInv, TypeOK
<1>1. CASE Does("catchfile", IF HasUdpCustom(host) THEN CatchallFile(host) ELSE host)
  <2>1. PICK h : h = IF HasUdpCustom(host) THEN CatchallFile(host) ELSE host
    OBVIOUS
  <2>2. /\ h \in Hosts /\ h.file \subseteq host.file \cup {"catchall"} /\ host.file \subseteq h.file
        /\ h.table = host.table /\ h.bin = host.bin /\ h.enabled = host.enabled /\ h.up = host.up
        /\ h.cron = host.cron
    BY <1>h, <2>1, CatchallHost
  <2>3. Busy("catchfile") /\ host' = h /\ Advance /\ Others /\ "catchfile" \in CatchOps
    BY <1>1, <2>1 DEF Does, CatchOps
  <2> QED BY <2>2, <2>3, CatchKept
<1>2. CASE Does("catchload", IF HasUdpCustom(host) THEN StartCatchall(host) ELSE host)
  <2>1. PICK h : h = IF HasUdpCustom(host) THEN StartCatchall(host) ELSE host
    OBVIOUS
  <2>2. LoadsOnly(h, host)
    BY <1>h, <2>1, CatchallHost DEF LoadsOnly
  <2>3. Busy("catchload") /\ host' = h /\ Advance /\ Others /\ "catchload" \in CatchOps
    BY <1>2, <2>1 DEF Does, CatchOps
  <2> QED BY <2>2, <2>3, CatchKept DEF LoadsOnly
<1> QED BY <1>1, <1>2 DEF Catchall

-----------------------------------------------------------------------------
\* The removal of everything.

LEMMA CommandsApart == \A c \in Commands : c[1] \notin AutoOps
<1> SUFFICES ASSUME NEW c \in Commands PROVE c[1] \notin AutoOps
  OBVIOUS
<1>1. CASE c \in NftOps \X Tables
  BY <1>1 DEF NftOps, AutoOps
<1>2. CASE c \in UnitOps \X Services
  BY <1>2 DEF UnitOps, AutoOps
<1>3. CASE c \in {"fetch", "verify", "try"} \X Parts
  BY <1>3 DEF AutoOps
<1>4. CASE c \in {"dir", "rebuild", "rmdir", "wipe", "need"} \X Things
  BY <1>4 DEF AutoOps
<1>5. CASE c \in {"cron", "rmcron"} \X Lines
  BY <1>5 DEF AutoOps
<1>6. ASSUME NEW op \in {"conf", "ns4", "cert", "drop_all"}, NEW x, c = <<op, x>>
      PROVE  c[1] \notin AutoOps
  BY <1>6 DEF AutoOps
<1>7. CASE c \in {<<"conf", "panel">>, <<"ns4", "lb">>, <<"ns4", "dropbear">>, <<"cert", "xray">>,
                 <<"drop_all", "">>}
  <2>1. PICK op \in {"conf", "ns4", "cert", "drop_all"} : \E x : c = <<op, x>>
    BY <1>7, Zenon
  <2>2. PICK x : c = <<op, x>>
    BY <2>1
  <2> QED BY <1>6, <2>2
<1> QED BY <1>1, <1>2, <1>3, <1>4, <1>5, <1>7 DEF Commands

\* Where the last function of a removal is, by the command it is about to give.
LEMMA EndingAt ==
  ASSUME TunnelInv, NEW op \in AutoOps, Busy(op)
  PROVE  /\ Ending /\ job.script # <<>>
         /\ op = "kill_units" => /\ host.enabled \subseteq {"haproxy_ssh"}
                                 /\ Tail(job.script) = <<WipeAll, CrontabR, Flush, RebootNow>>
         /\ op # "kill_units" => host.enabled = {}
         /\ op = "wipe_all" => Tail(job.script) = <<CrontabR, Flush, RebootNow>>
         /\ op = "crontab_r" => Tail(job.script) = <<Flush, RebootNow>>
         /\ op = "flush" => host.cron = {} /\ Tail(job.script) = <<RebootNow>>
         /\ op = "reboot" => host.cron = {} /\ Tail(job.script) = <<>>
<1>1. job.script # <<>> /\ Head(job.script)[1] = op
  BY DEF Busy
<1>2. Ending
  <2>1. ASSUME Working PROVE FALSE
    <3>1. job.script \in Seq(Commands)
      BY <2>1 DEF Working
    <3>2. Head(job.script) \in Commands
      BY <1>1, <3>1, CmdsTail
    <3> QED BY <1>1, <3>2, CommandsApart
  <2> QED BY <2>1 DEF TunnelInv, TypeOK
<1>3. PICK s : s = job.script
  OBVIOUS
<1>4. \/ host.enabled \subseteq {"haproxy_ssh"} /\ s = <<KillUnits, WipeAll, CrontabR, Flush, RebootNow>>
      \/ host.enabled = {} /\ s = <<WipeAll, CrontabR, Flush, RebootNow>>
      \/ host.enabled = {} /\ s = <<CrontabR, Flush, RebootNow>>
      \/ host.enabled = {} /\ host.cron = {} /\ s = <<Flush, RebootNow>>
      \/ host.enabled = {} /\ host.cron = {} /\ s = <<RebootNow>>
  BY <1>1, <1>2, <1>3, Zenon DEF Ending
<1>5. CASE host.enabled \subseteq {"haproxy_ssh"} /\ s = <<KillUnits, WipeAll, CrontabR, Flush, RebootNow>>
  <2>1. Head(s) = KillUnits /\ Tail(s) = <<WipeAll, CrontabR, Flush, RebootNow>>
    BY <1>5, Ends
  <2>2. op = "kill_units"
    BY <1>1, <1>3, <2>1, AutoNames
  <2> QED BY <1>1, <1>2, <1>3, <1>5, <2>1, <2>2
<1>6. CASE host.enabled = {} /\ s = <<WipeAll, CrontabR, Flush, RebootNow>>
  <2>1. Head(s) = WipeAll /\ Tail(s) = <<CrontabR, Flush, RebootNow>>
    BY <1>6, Ends
  <2>2. op = "wipe_all"
    BY <1>1, <1>3, <2>1, AutoNames
  <2> QED BY <1>1, <1>2, <1>3, <1>6, <2>1, <2>2
<1>7. CASE host.enabled = {} /\ s = <<CrontabR, Flush, RebootNow>>
  <2>1. Head(s) = CrontabR /\ Tail(s) = <<Flush, RebootNow>>
    BY <1>7, Ends
  <2>2. op = "crontab_r"
    BY <1>1, <1>3, <2>1, AutoNames
  <2> QED BY <1>1, <1>2, <1>3, <1>7, <2>1, <2>2
<1>8. CASE host.enabled = {} /\ host.cron = {} /\ s = <<Flush, RebootNow>>
  <2>1. Head(s) = Flush /\ Tail(s) = <<RebootNow>>
    BY <1>8, Ends
  <2>2. op = "flush"
    BY <1>1, <1>3, <2>1, AutoNames
  <2> QED BY <1>1, <1>2, <1>3, <1>8, <2>1, <2>2
<1>9. CASE host.enabled = {} /\ host.cron = {} /\ s = <<RebootNow>>
  <2>1. Head(s) = RebootNow /\ Tail(s) = <<>>
    BY <1>9, Ends
  <2>2. op = "reboot"
    BY <1>1, <1>3, <2>1, AutoNames
  <2> QED BY <1>1, <1>2, <1>3, <1>9, <2>1, <2>2
<1> QED BY <1>4, <1>5, <1>6, <1>7, <1>8, <1>9

\* A step of that function.
LEMMA EndingInv ==
  ASSUME TunnelInv, Ending, job.script # <<>>, Advance, host' \in Hosts, Bare',
         status' = status, spoiled' = spoiled, watch' \in {watch, "idle"}, revived' \in {revived, {}},
         \/ host'.enabled = {} /\ job'.script = <<WipeAll, CrontabR, Flush, RebootNow>>
         \/ host'.enabled = {} /\ job'.script = <<CrontabR, Flush, RebootNow>>
         \/ /\ host'.enabled = {} /\ host'.cron = {}
            /\ \/ job'.script = <<Flush, RebootNow>>
               \/ job'.script = <<RebootNow>>
               \/ job'.script = <<>> /\ host'.up = {} /\ watch' = "idle"
  PROVE  TunnelInv'
<1>1. job'.name = "remove" /\ job' = [name |-> "remove", queue |-> <<>>, script |-> job'.script]
  <2>1. PICK s : job = [name |-> "remove", queue |-> <<>>, script |-> s]
    BY Zenon DEF Ending
  <2> QED BY <2>1 DEF Advance
<1>2. Ending'
  BY <1>1, Zenon DEF Ending
<1>3. ~Working'
  BY <1>2, CmdsTuples, <1>1 DEF Working
<1>4. TypeOK'
  BY <1>2 DEF TunnelInv, TypeOK
<1>5. Covered' /\ Purge'
  BY <1>3 DEF Covered, Purge, Bare
<1>6. status = "none"
  BY EndingScript DEF TunnelInv, Purged
<1>7. Purged'
  BY <1>6 DEF Purged
<1> QED BY <1>4, <1>5, <1>7 DEF TunnelInv

\* A reboot: what is enabled comes up, and what has its file and is enabled too.
LEMMA RebootedHost ==
  ASSUME NEW h \in Hosts
  PROVE  /\ Rebooted(h) \in Hosts /\ Rebooted(h).up \subseteq h.enabled
         /\ Rebooted(h).table \subseteq h.file /\ Rebooted(h).file = h.file /\ Rebooted(h).bin = h.bin
         /\ Rebooted(h).enabled = h.enabled /\ Rebooted(h).cron = h.cron
<1>1. PICK U \in SUBSET h.enabled : U = {s \in h.enabled : Startable(h, s)}
  OBVIOUS
<1>2. PICK T \in SUBSET h.file : T = h.boot \cap h.file
  OBVIOUS
<1>3. PICK S \in SUBSET Ranged : S = h.spared.file
  BY DEF Hosts
<1>4. PICK g : g = [h EXCEPT !.up = U, !.hap = h.conf, !.table = T, !.spared.table = S, !.dup = FALSE]
  OBVIOUS
<1>5. Rebooted(h) = g
  BY <1>1, <1>2, <1>3, <1>4 DEF Rebooted
<1>6. U \subseteq Services /\ T \subseteq Tables
  BY HostParts
<1>7. /\ g \in Hosts /\ g.up = U /\ g.table = T /\ g.file = h.file /\ g.bin = h.bin
      /\ g.enabled = h.enabled /\ g.cron = h.cron
  BY <1>4, <1>6 DEF Hosts
<1> QED BY <1>5, <1>7

LEMMA RemovalInv ==
  ASSUME TunnelInv, Removal
  PROVE  TunnelInv'
<1>h. host \in Hosts
  BY DEF TunnelInv, TypeOK
<1>1. CASE Does("drop_all", [host EXCEPT !.table = @ \cap WsProxies, !.dup = FALSE,
                                         !.boot = @ \cap (WsProxies \cup {"catchall"})])
  <2>1. Busy("drop_all") /\ Advance /\ Others /\ "drop_all" \notin AutoOps
    BY <1>1 DEF Does, AutoOps
  <2>2. /\ Working /\ job.script # <<>> /\ Head(job.script) = <<"drop_all", Arg>>
        /\ Head(job.script)[1] = "drop_all"
    BY <2>1, ArgTypes
  <2>3. PICK B : B = WsProxies \cup {"catchall"}
    OBVIOUS
  <2>4. host' = [host EXCEPT !.table = @ \cap WsProxies, !.dup = FALSE, !.boot = @ \cap B]
    BY <1>1, <2>3 DEF Does
  <2>5. /\ host' \in Hosts /\ host'.file = host.file /\ host'.table = host.table \cap WsProxies
        /\ host'.bin = host.bin /\ host'.enabled = host.enabled /\ host'.up = host.up
        /\ host'.cron = host.cron
    BY <1>h, <2>4 DEF Hosts
  <2>6. Head(job.script)[1] # "nftfile" /\ \A n : Head(job.script) # <<"nftdrop", n>>
    BY <2>2
  <2>7. Shrinks
    BY <2>2, <2>5 DEF Shrinks
  <2> QED BY <2>1, <2>2, <2>5, <2>6, <2>7, CommandInv
<1>2. CASE Does("kill_units", [host EXCEPT !.up = @ \cap Missed, !.enabled = @ \cap Missed,
                                           !.unit = @ \cap Missed, !.boot = {}])
  <2>1. Busy("kill_units") /\ Advance /\ Others /\ "kill_units" \in AutoOps
    BY <1>2 DEF Does, AutoOps
  <2>2. /\ Ending /\ job.script # <<>> /\ host.enabled \subseteq {"haproxy_ssh"}
        /\ Tail(job.script) = <<WipeAll, CrontabR, Flush, RebootNow>>
    BY <2>1, EndingAt
  <2>3. host' = [host EXCEPT !.up = @ \cap Missed, !.enabled = @ \cap Missed, !.unit = @ \cap Missed, !.boot = {}]
    BY <1>2 DEF Does
  <2>4. /\ host' \in Hosts /\ host'.file = host.file /\ host'.table = host.table /\ host'.bin = host.bin
        /\ host'.enabled = host.enabled \cap Missed
    BY <1>h, <2>3 DEF Hosts
  <2>5. Bare' /\ host'.enabled = {}
    BY <2>2, <2>4 DEF Ending, Bare, Missed
  <2>6. job'.script = <<WipeAll, CrontabR, Flush, RebootNow>>
    BY <2>1, <2>2 DEF Advance, Ending
  <2> QED BY <2>1, <2>2, <2>4, <2>5, <2>6, EndingInv DEF Others
<1>3. CASE Does("wipe_all", [host EXCEPT !.bin = @ \cap Packages, !.dir = {}, !.file = {}, !.conf = "default"])
  <2>1. Busy("wipe_all") /\ Advance /\ Others /\ "wipe_all" \in AutoOps
    BY <1>3 DEF Does, AutoOps
  <2>2. /\ Ending /\ job.script # <<>> /\ host.enabled = {}
        /\ Tail(job.script) = <<CrontabR, Flush, RebootNow>>
    BY <2>1, EndingAt
  <2>3. host' = [host EXCEPT !.bin = @ \cap Packages, !.dir = {}, !.file = {}, !.conf = "default"]
    BY <1>3 DEF Does
  <2>4. /\ host' \in Hosts /\ host'.file = {} /\ host'.table = host.table /\ host'.bin \subseteq host.bin
        /\ host'.enabled = host.enabled
    BY <1>h, <2>3 DEF Hosts
  <2>5. Bare' /\ host'.enabled = {}
    BY <2>2, <2>4 DEF Ending, Bare
  <2>6. job'.script = <<CrontabR, Flush, RebootNow>>
    BY <2>1, <2>2 DEF Advance, Ending
  <2> QED BY <2>1, <2>2, <2>4, <2>5, <2>6, EndingInv DEF Others
<1>4. CASE Does("crontab_r", [host EXCEPT !.cron = {}])
  <2>1. Busy("crontab_r") /\ Advance /\ Others /\ "crontab_r" \in AutoOps
    BY <1>4 DEF Does, AutoOps
  <2>2. /\ Ending /\ job.script # <<>> /\ host.enabled = {}
        /\ Tail(job.script) = <<Flush, RebootNow>>
    BY <2>1, EndingAt
  <2>3. host' = [host EXCEPT !.cron = {}]
    BY <1>4 DEF Does
  <2>4. /\ host' \in Hosts /\ host'.file = host.file /\ host'.table = host.table /\ host'.bin = host.bin
        /\ host'.enabled = host.enabled /\ host'.cron = {}
    BY <1>h, <2>3 DEF Hosts
  <2>5. Bare' /\ host'.enabled = {}
    BY <2>2, <2>4 DEF Ending, Bare
  <2>6. job'.script = <<Flush, RebootNow>>
    BY <2>1, <2>2 DEF Advance, Ending
  <2> QED BY <2>1, <2>2, <2>4, <2>5, <2>6, EndingInv DEF Others
<1>5. CASE Does("flush", [host EXCEPT !.table = {}, !.bin = {}, !.dup = FALSE])
  <2>1. Busy("flush") /\ Advance /\ Others /\ "flush" \in AutoOps
    BY <1>5 DEF Does, AutoOps
  <2>2. /\ Ending /\ job.script # <<>> /\ host.enabled = {} /\ host.cron = {}
        /\ Tail(job.script) = <<RebootNow>>
    BY <2>1, EndingAt
  <2>3. host' = [host EXCEPT !.table = {}, !.bin = {}, !.dup = FALSE]
    BY <1>5 DEF Does
  <2>4. /\ host' \in Hosts /\ host'.file = host.file /\ host'.table = {} /\ host'.bin = {}
        /\ host'.enabled = host.enabled /\ host'.cron = host.cron
    BY <1>h, <2>3 DEF Hosts
  <2>5. Bare' /\ host'.enabled = {} /\ host'.cron = {}
    BY <2>2, <2>4 DEF Ending, Bare
  <2>6. job'.script = <<RebootNow>>
    BY <2>1, <2>2 DEF Advance, Ending
  <2> QED BY <2>1, <2>2, <2>4, <2>5, <2>6, EndingInv DEF Others
<1>6. CASE /\ Busy("reboot")
           /\ host' = Rebooted(host) /\ Advance /\ watch' = "idle" /\ revived' = {}
           /\ UNCHANGED <<status, spoiled, jobs, faults>>
  <2>1. Busy("reboot") /\ "reboot" \in AutoOps
    BY <1>6 DEF AutoOps
  <2>2. /\ Ending /\ job.script # <<>> /\ host.enabled = {} /\ host.cron = {}
        /\ Tail(job.script) = <<>>
    BY <2>1, EndingAt
  <2>3. /\ host' \in Hosts /\ host'.up \subseteq host.enabled /\ host'.table \subseteq host.file
        /\ host'.file = host.file /\ host'.bin = host.bin
        /\ host'.enabled = host.enabled /\ host'.cron = host.cron
    BY <1>h, <1>6, RebootedHost
  <2>4. Bare' /\ host'.enabled = {} /\ host'.cron = {} /\ host'.up = {}
    BY <2>2, <2>3 DEF Ending, Bare
  <2>5. job'.script = <<>>
    BY <1>6, <2>2 DEF Advance, Ending
  <2> QED BY <1>6, <2>2, <2>3, <2>4, <2>5, EndingInv
<1> QED BY <1>1, <1>2, <1>3, <1>4, <1>5, <1>6 DEF Removal

-----------------------------------------------------------------------------
\* The menu.

\* A full removal has a command for everything a host can hold.
LEMMA FullRemoves ==
  ASSUME NEW Q, FullQueue(Q)
  PROVE  /\ \A n \in Tables : <<"nftdrop", n>> \in Later(Q) /\ <<"nftunlink", n>> \in Later(Q)
         /\ \A b \in Parts \ {"haproxy"} : <<"wipe", b>> \in Later(Q)
         /\ \A s \in Services \ {"haproxy_ssh"} : <<"disable", s>> \in Later(Q)
         /\ <<"rmcron", "haproxy">> \in Later(Q)
<1>1. \A t \in Tunnels : Cmds(UninstallScript[t]) \subseteq Later(Q)
  BY InLater DEF FullQueue
<1>2. Cmds(UninstallRest) \subseteq Later(Q)
  <2>1. PICK i \in 1..Len(Q) : Q[i] = Rest
    BY DEF FullQueue, Cmds
  <2>2. Rest[1] = "rest"
    BY DEF Rest
  <2>3. ScriptOf("rest", Rest[2]) = UninstallRest
    BY DEF ScriptOf
  <2>4. Cmds(ScriptOf(Q[i][1], Q[i][2])) \subseteq Later(Q)
    BY DEF Later
  <2> QED BY <2>1, <2>2, <2>3, <2>4
<1>3. <<"disable", "haproxy">> \in Later(Q)
  BY <1>2, UninstallDoes
<1>4. \A n \in Tables : <<"nftdrop", n>> \in Later(Q) /\ <<"nftunlink", n>> \in Later(Q)
  BY <1>1, UninstallDoes
<1>5. \A b \in Parts \ {"haproxy"} : <<"wipe", b>> \in Later(Q)
  BY <1>1, UninstallDoes
<1>6. \A s \in Services \ {"haproxy_ssh"} : <<"disable", s>> \in Later(Q)
  BY <1>1, <1>3, UninstallDoes
<1>7. <<"rmcron", "haproxy">> \in Later(Q)
  BY <1>1, UninstallDoes, TunnelNames
<1> QED BY <1>4, <1>5, <1>6, <1>7

LEMMA IdleJob ==
  ASSUME TunnelInv, Idle
  PROVE  Working /\ job = NoJob /\ job.script = <<>> /\ job.queue = <<>>
<1>1. Working
  BY EndingScript DEF TunnelInv, TypeOK, Idle
<1>2. job = NoJob
  BY <1>1 DEF Working, Idle
<1> QED BY <1>1, <1>2 DEF NoJob

LEMMA NoCommands == Cmds(<<>>) = {} /\ Later(<<>>) = {} /\ Len(<<>>) = 0
<1>1. Len(<<>>) = 0
  OBVIOUS
<1> QED BY <1>1 DEF Cmds, Later

LEMMA TakeInv ==
  ASSUME TunnelInv, NEW name \in JobNames \ {"none"}, NEW Q \in Seq(Functions), Take(name, Q),
         name \in {"uninstall_all", "remove"} => FullQueue(Q),
         name = "remove" => AutoJob \in Cmds(Q),
         \A i \in 1..Len(Q) : Q[i] = AutoJob => name = "remove" /\ i = Len(Q)
  PROVE  TunnelInv'
<1>1. /\ job'.name = name /\ job'.queue = Q /\ job'.script = <<>>
      /\ status' = "none" /\ UNCHANGED <<host, watch, spoiled, revived>> /\ Idle
  BY DEF Take
<1>2. Working'
  <2>1. job' \in [name : JobNames, queue : Seq(Functions), script : Seq(Commands)]
    <3>1. <<>> \in Seq(Commands)
      OBVIOUS
    <3> QED BY <3>1 DEF Take
  <2> QED BY <1>1, <2>1, NothingRuns DEF Working
<1>3. TypeOK'
  BY <1>1, <1>2 DEF TunnelInv, TypeOK
<1>4. Covered'
  <2>1. job.script = <<>>
    BY <1>1, IdleJob
  <2> QED BY <1>1, <2>1 DEF TunnelInv, Covered
<1>5. Purge'
  <2> SUFFICES ASSUME Purging' PROVE Remaining' /\ Ordered'
    BY DEF Purge
  <2>1. FullQueue(Q)
    BY <1>1 DEF Purging
  <2>2. Left' = Later(Q)
    BY <1>1, NoCommands DEF Left
  <2>3. host' \in Hosts
    BY <1>1 DEF TunnelInv, TypeOK
  <2>4. /\ host'.table \subseteq Tables /\ host'.file \subseteq Tables /\ host'.bin \subseteq Parts
        /\ host'.enabled \subseteq Services /\ host'.up \subseteq Services
    BY <2>3, HostParts
  <2>5. Remaining'
    <3>1. /\ \A n \in Tables : <<"nftdrop", n>> \in Left' /\ <<"nftunlink", n>> \in Left'
          /\ \A b \in Parts \ {"haproxy"} : <<"wipe", b>> \in Left'
          /\ \A s \in Services \ {"haproxy_ssh"} : <<"disable", s>> \in Left'
          /\ <<"rmcron", "haproxy">> \in Left'
      BY <2>1, <2>2, FullRemoves
    <3> QED BY <2>4, <3>1 DEF Remaining
  <2>6. Ordered'
    BY <1>1, <2>1, NoCommands DEF Ordered, FullQueue
  <2> QED BY <2>5, <2>6
<1>6. Purged'
  BY <1>1 DEF Purged
<1> QED BY <1>3, <1>4, <1>5, <1>6 DEF TunnelInv

LEMMA PurgeQueues == PurgeFunctions \subseteq Functions
<1>1. Rest \in Functions /\ AutoJob \in Functions
  BY Zenon DEF Rest, AutoJob, Functions
<1>2. \A t \in Tunnels : <<"uninstall", t>> \in Functions
  BY DEF Functions, Asked
<1> QED BY <1>1, <1>2 DEF PurgeFunctions

LEMMA AskedApart ==
  \A f \in {"install", "uninstall", "configure", "repair", "domain", "rest"} : \A t : <<f, t>> # AutoJob
BY DEF AutoJob

LEMMA OneFunction ==
  ASSUME NEW f \in {"configure", "repair", "domain"}, NEW e, <<f, e>> \in Functions
  PROVE  /\ <<<<f, e>>>> \in Seq(Functions)
         /\ \A i \in 1..Len(<<<<f, e>>>>) : <<<<f, e>>>>[i] # AutoJob
<1>1. PICK x \in Functions : x = <<f, e>>
  OBVIOUS
<1>2. x # AutoJob
  BY <1>1, AskedApart
<1>3. <<x>> \in Seq(Functions) /\ \A i \in 1..Len(<<x>>) : <<x>>[i] = x
  OBVIOUS
<1> QED BY <1>1, <1>2, <1>3

LEMMA ChooseJobInv ==
  ASSUME TunnelInv, ChooseJob
  PROVE  TunnelInv'
<1>1. PICK name \in DOMAIN Queues : Take(name, Queues[name])
  BY DEF ChooseJob
<1>2. /\ DOMAIN Queues = {"install_all", "uninstall_all", "remove", "configure", "repair", "domain"}
      /\ Queues["install_all"] = InstallAll /\ Queues["uninstall_all"] = UninstallAll
  BY DEF Queues
<1>3. /\ Queues["remove"] = UninstallAll \o <<<<"auto", "">>>>
      /\ Queues["configure"] = <<<<"configure", "">>>> /\ Queues["repair"] = <<<<"repair", "">>>>
      /\ Queues["domain"] = <<<<"domain", "">>>>
  BY DEF Queues
<1>4. Queues["remove"] = UninstallAll \o <<AutoJob>>
  BY <1>3 DEF AutoJob
<1>5. CASE name = "install_all"
  <2>1. \A t \in Tunnels : <<"install", t>> \in Functions
    BY DEF Functions, Asked
  <2>2. Len(Order) = 10
    BY DEF Order
  <2>3. \A i \in 1..10 : Order[i] \in Tunnels
    BY <2>2 DEF Tunnels
  <2>4. PICK Q : Q = [i \in 1..10 |-> <<"install", Order[i]>>]
    OBVIOUS
  <2>5. Q \in Seq(Functions) /\ Len(Q) = 10 /\ \A i \in 1..10 : Q[i] = <<"install", Order[i]>>
    BY <2>1, <2>3, <2>4
  <2>6. InstallAll = Q
    BY <2>2, <2>4 DEF InstallAll
  <2>7. Take("install_all", Q) /\ "install_all" \in JobNames \ {"none"}
    BY <1>1, <1>2, <1>5, <2>6 DEF JobNames
  <2>8. \A i \in 1..Len(Q) : Q[i] # AutoJob
    BY <2>5, AskedApart
  <2> QED BY <2>5, <2>7, <2>8, TakeInv
<1>6. CASE name = "uninstall_all"
  <2>1. PICK Q : Q = UninstallAll
    OBVIOUS
  <2>2. FullQueue(Q) /\ \A i \in 1..Len(Q) : Q[i] # AutoJob
    BY <2>1, RemovalQueues
  <2>3. Q \in Seq(Functions)
    BY <2>2, PurgeQueues DEF FullQueue
  <2>4. Take("uninstall_all", Q) /\ "uninstall_all" \in JobNames \ {"none"}
    BY <1>1, <1>2, <1>6, <2>1 DEF JobNames
  <2> QED BY <2>2, <2>3, <2>4, TakeInv
<1>7. CASE name = "remove"
  <2>1. PICK Q : Q = UninstallAll \o <<AutoJob>>
    OBVIOUS
  <2>2. FullQueue(Q) /\ AutoJob \in Cmds(Q) /\ \A i \in 1..Len(Q) : Q[i] = AutoJob => i = Len(Q)
    BY <2>1, RemovalQueues
  <2>3. Q \in Seq(Functions)
    BY <2>2, PurgeQueues DEF FullQueue
  <2>4. Take("remove", Q) /\ "remove" \in JobNames \ {"none"}
    BY <1>1, <1>4, <1>7, <2>1 DEF JobNames
  <2> QED BY <2>2, <2>3, <2>4, TakeInv
<1>8. CASE name \in {"configure", "repair", "domain"}
  <2>1. PICK e : e = ""
    OBVIOUS
  <2>2. <<name, e>> \in Functions
    BY <1>8, <2>1 DEF Functions
  <2>3. PICK Q : Q = <<<<name, e>>>>
    OBVIOUS
  <2>4. Queues[name] = Q
    BY <1>3, <1>8, <2>1, <2>3, Zenon
  <2>5. Q \in Seq(Functions) /\ \A i \in 1..Len(Q) : Q[i] # AutoJob
    BY <1>8, <2>2, <2>3, OneFunction
  <2>6. Take(name, Q) /\ name \in JobNames \ {"none", "uninstall_all", "remove"}
    BY <1>1, <1>8, <2>4 DEF JobNames
  <2> QED BY <2>5, <2>6, TakeInv
<1> QED BY <1>1, <1>2, <1>5, <1>6, <1>7, <1>8

LEMMA ChooseTunnelInv ==
  ASSUME TunnelInv, ChooseTunnel
  PROVE  TunnelInv'
<1>1. PICK t \in Offered, f \in {"install", "uninstall"} : Take("one", <<<<f, t>>>>)
  BY DEF ChooseTunnel
<1>2. PICK x : x = <<f, t>>
  OBVIOUS
<1>3. x \in Functions /\ x # AutoJob
  <2>1. t \in Tunnels
    BY OfferedAssumption
  <2> QED BY <1>2, <2>1, AskedApart DEF Functions, Asked
<1>4. PICK Q : Q = <<x>>
  OBVIOUS
<1>5. Q \in Seq(Functions) /\ \A i \in 1..Len(Q) : Q[i] = x
  BY <1>3, <1>4
<1>6. Take("one", Q) /\ "one" \in JobNames \ {"none", "uninstall_all", "remove"}
  BY <1>1, <1>2, <1>4 DEF JobNames
<1> QED BY <1>3, <1>5, <1>6, TakeInv

\* What a call puts in front of the panel.
LEMMA CalledScript ==
  ASSUME NEW Q \in Seq(Functions), Q # <<>>, Head(Q) # AutoJob
  PROVE  Whole(ScriptOf(Head(Q)[1], Head(Q)[2]))
<1>1. Head(Q) \in Functions
  BY QueueTail
<1>2. CASE Head(Q) \in Asked
  BY <1>2, ScriptsWhole
<1>3. CASE Head(Q) \in {"configure", "repair", "domain", "rest", "auto"} \X {""}
  <2>1. PICK e : e = ""
    OBVIOUS
  <2>2. Head(Q) \in {"configure", "repair", "domain", "rest", "auto"} \X {e}
    BY <1>3, <2>1, Zenon
  <2>3. PICK f \in {"configure", "repair", "domain", "rest", "auto"} : Head(Q) = <<f, e>>
    BY <2>2
  <2>4. AutoJob = <<"auto", e>>
    BY <2>1, Zenon DEF AutoJob
  <2>5. Head(Q)[1] = f /\ Head(Q)[2] = e /\ f \in {"configure", "repair", "domain", "rest"}
    BY <2>3, <2>4
  <2>6. Whole(ScriptOf(f, e))
    BY <2>1, <2>5, ScriptsWhole, Zenon
  <2> QED BY <2>5, <2>6
<1> QED BY <1>1, <1>2, <1>3 DEF Functions

LEMMA AutoCmds == \A c \in Cmds(AutoUninstall) : c[1] \in AutoOps
<1>1. PICK s : s = AutoUninstall
  OBVIOUS
<1>2. s = <<KillUnits, WipeAll, CrontabR, Flush, RebootNow>>
  BY <1>1, Zenon DEF AutoUninstall, KillUnits, WipeAll, CrontabR, Flush, RebootNow
<1>3. /\ Len(s) = 5 /\ s[1] = KillUnits /\ s[2] = WipeAll /\ s[3] = CrontabR /\ s[4] = Flush
      /\ s[5] = RebootNow
  BY <1>2
<1>4. \A i \in 1..5 : i = 1 \/ i = 2 \/ i = 3 \/ i = 4 \/ i = 5
  OBVIOUS
<1>5. \A i \in 1..Len(s) : s[i][1] \in AutoOps
  BY <1>3, <1>4, AutoNames DEF AutoOps
<1> QED BY <1>1, <1>5 DEF Cmds

\* The last call of a removal finds nothing left.
LEMMA LastCall ==
  ASSUME TunnelInv, Call, Working, Head(job.queue) = AutoJob
  PROVE  TunnelInv'
<1>1. /\ ~Idle /\ job.script = <<>> /\ job.queue # <<>> /\ Others /\ host' = host
      /\ job \in [name : JobNames, queue : Seq(Functions), script : Seq(Commands)]
  BY DEF Call, Working
<1>2. PICK Q \in Seq(Functions) : Q = job.queue
  BY <1>1
<1>3. /\ Tail(Q) \in Seq(Functions) /\ Len(Tail(Q)) = Len(Q) - 1 /\ Len(Q) \in Nat \ {0}
      /\ Q[1] = AutoJob /\ Later(Q) = Cmds(ScriptOf(Head(Q)[1], Head(Q)[2])) \cup Later(Tail(Q))
  BY <1>1, <1>2, QueueTail
<1>4. job.name = "remove" /\ 1 = Len(Q)
  <2>1. 1 \in 1..Len(Q)
    BY <1>3
  <2> QED BY <1>2, <1>3, <2>1 DEF Working
<1>5. Tail(Q) = <<>>
  <2>1. PICK R \in Seq(Functions) : R = Tail(Q)
    BY <1>3
  <2>2. Len(R) = Len(Q) - 1 /\ Len(Q) = 1
    BY <1>3, <1>4, <2>1, Zenon
  <2>3. Len(R) = 0
    BY <2>2
  <2>4. R = <<>>
    BY <2>3, EmptySeq
  <2> QED BY <2>1, <2>4
<1>6. AutoJob[1] = "auto" /\ ScriptOf("auto", AutoJob[2]) = AutoUninstall /\ ~ReturnsEarly("auto", AutoJob[2])
  BY DEF AutoJob, ScriptOf, ReturnsEarly
<1>7. AutoUninstall = <<KillUnits, WipeAll, CrontabR, Flush, RebootNow>>
  BY Zenon DEF AutoUninstall, KillUnits, WipeAll, CrontabR, Flush, RebootNow
<1>8. job' = [job EXCEPT !.queue = <<>>, !.script = AutoUninstall]
  <2>1. job' = [job EXCEPT !.queue = Tail(@),
                  !.script = IF ReturnsEarly(Head(job.queue)[1], Head(job.queue)[2]) THEN <<>>
                             ELSE ScriptOf(Head(job.queue)[1], Head(job.queue)[2])]
    BY DEF Call
  <2>2. Tail(job.queue) = <<>>
    BY <1>2, <1>5
  <2> QED BY <1>6, <2>1, <2>2
<1>9. job'.script = AutoUninstall /\ job'.name = "remove"
      /\ job' = [name |-> "remove", queue |-> <<>>, script |-> job'.script]
  BY <1>1, <1>4, <1>8
<1>10. Left = Cmds(AutoUninstall)
  <2>1. Later(Q) = Cmds(AutoUninstall)
    BY <1>1, <1>2, <1>3, <1>5, <1>6, NoCommands
  <2> QED BY <1>1, <1>2, <2>1, NoCommands DEF Left
<1>12. \A o \in {"nftdrop", "nftunlink", "wipe", "disable", "rmcron"} : \A x : <<o, x>> \notin Left
  BY <1>10, AutoCmds DEF AutoOps
<1>13. Remaining
  BY <1>4 DEF TunnelInv, Purge, Purging
<1>14. Bare /\ host.enabled \subseteq {"haproxy_ssh"}
  BY <1>12, <1>13 DEF Remaining, Bare
<1>15. Ending'
  BY <1>1, <1>7, <1>9, <1>14 DEF Ending, Bare
<1>16. ~Working'
  BY <1>9, <1>8, CmdsTuples DEF Working
<1>17. TypeOK'
  BY <1>1, <1>15 DEF TunnelInv, TypeOK, Others
<1>18. Covered' /\ Purge'
  BY <1>1, <1>14, <1>16 DEF Covered, Purge, Bare
<1>19. Purged'
  BY <1>1, <1>4 DEF TunnelInv, Purged, Others
<1> QED BY <1>17, <1>18, <1>19 DEF TunnelInv

\* A function of a removal runs its script, and what is queued after it stays.
LEMMA PurgeCall ==
  ASSUME TunnelInv, Call, Working, Purging, Head(job.queue) # AutoJob
  PROVE  (Remaining /\ Ordered)'
<1>1. /\ job.script = <<>> /\ job.queue # <<>> /\ UNCHANGED <<host, revived>> /\ Remaining /\ Ordered
      /\ job \in [name : JobNames, queue : Seq(Functions), script : Seq(Commands)]
  BY DEF Call, Others, Working, TunnelInv, Purge
<1>2. PICK Q \in Seq(PurgeFunctions) : Q = job.queue
  BY <1>1 DEF Ordered
<1>3. /\ Tail(Q) \in Seq(PurgeFunctions) /\ Head(Q) \in PurgeFunctions /\ Cmds(Q) = {Head(Q)} \cup Cmds(Tail(Q))
      /\ Len(Tail(Q)) = Len(Q) - 1 /\ Len(Q) \in Nat \ {0}
      /\ Q[1] = Head(Q) /\ \A i \in 1..Len(Tail(Q)) : Tail(Q)[i] = Q[i+1]
      /\ Later(Q) = Cmds(ScriptOf(Head(Q)[1], Head(Q)[2])) \cup Later(Tail(Q))
  BY <1>1, <1>2, QueueTail
<1>4. \/ \E t \in Tunnels : Head(Q) = Removes(t)
      \/ Head(Q) = Rest
  BY <1>2, <1>3 DEF PurgeFunctions, Removes
<1>r. Rest[1] = "rest" /\ \A t : Removes(t)[1] = "uninstall" /\ Removes(t)[2] = t
  BY DEF Removes, Rest
<1>5. Head(Q)[1] \in {"uninstall", "rest"}
  BY <1>4, <1>r
<1>6. ~ReturnsEarly(Head(Q)[1], Head(Q)[2])
  BY <1>5 DEF ReturnsEarly
<1>7. PICK s : s = ScriptOf(Head(Q)[1], Head(Q)[2])
  OBVIOUS
<1>8. job'.queue = Tail(Q) /\ job'.script = s
  BY <1>1, <1>2, <1>6, <1>7 DEF Call
<1>9. Left' = Left
  BY <1>1, <1>2, <1>3, <1>7, <1>8, NoCommands DEF Left
<1>10. Remaining'
  BY <1>1, <1>9 DEF Remaining
<1>11. \A i \in 1..Len(Q) : Q[i] \in {Removes("zivpn"), Removes("hysteria")} =>
         \E k \in (i+1)..Len(Q) : Q[k] = Removes("udp_custom")
  BY <1>1, <1>2 DEF Ordered
<1>12. \A k \in 2..Len(Q) : k - 1 \in 1..Len(Tail(Q)) /\ Tail(Q)[k-1] = Q[k]
  BY <1>3
<1>13. \A c \in Cmds(s) : c[1] \in PurgeOps /\ (c[1] \in CatchOps => Removes("udp_custom") \in Cmds(Tail(Q)))
  <2>1. CASE Head(Q) = Rest
    <3>1. s = UninstallRest
      BY <1>7, <1>r, <2>1 DEF ScriptOf
    <3>2. PICK e : e = ""
      OBVIOUS
    <3>3. Cmds(s) = {<<"disable", "haproxy">>, <<"drop_all", e>>}
      BY <3>1, <3>2, UninstallDoes, Zenon
    <3> QED BY <3>3 DEF PurgeOps, CatchOps
  <2>2. ASSUME NEW t \in Tunnels, Head(Q) = Removes(t)
        PROVE  \A c \in Cmds(s) : /\ c[1] \in PurgeOps
                                  /\ c[1] \in CatchOps => Removes("udp_custom") \in Cmds(Tail(Q))
    <3>1. s = UninstallScript[t]
      BY <1>7, <1>r, <2>2 DEF ScriptOf
    <3>2. \A c \in Cmds(s) : c[1] \in PurgeOps /\ (c[1] \in CatchOps => t \in {"zivpn", "hysteria"})
      BY <3>1, UninstallDoes
    <3>3. ASSUME t \in {"zivpn", "hysteria"} PROVE Removes("udp_custom") \in Cmds(Tail(Q))
      <4>1. Q[1] \in {Removes("zivpn"), Removes("hysteria")} /\ 1 \in 1..Len(Q)
        BY <1>3, <2>2, <3>3
      <4>2. PICK k \in (1+1)..Len(Q) : Q[k] = Removes("udp_custom")
        BY <1>11, <4>1
      <4>3. k - 1 \in 1..Len(Tail(Q)) /\ Tail(Q)[k-1] = Removes("udp_custom")
        BY <1>12, <4>2
      <4> QED BY <4>3 DEF Cmds
    <3> QED BY <3>2, <3>3
  <2> QED BY <1>4, <2>1, <2>2
<1>14. ASSUME NEW i \in 1..Len(Tail(Q)), Tail(Q)[i] \in {Removes("zivpn"), Removes("hysteria")}
       PROVE  \E k \in (i+1)..Len(Tail(Q)) : Tail(Q)[k] = Removes("udp_custom")
  <2>1. i + 1 \in 1..Len(Q) /\ Q[i+1] = Tail(Q)[i]
    BY <1>3
  <2>2. PICK k \in ((i+1)+1)..Len(Q) : Q[k] = Removes("udp_custom")
    BY <1>11, <1>14, <2>1
  <2>3. k \in 2..Len(Q) /\ k - 1 \in (i+1)..Len(Tail(Q))
    BY <1>3, <2>2
  <2> QED BY <1>12, <2>2, <2>3
<1>15. Ordered'
  BY <1>3, <1>8, <1>13, <1>14 DEF Ordered
<1> QED BY <1>10, <1>15

LEMMA CallInv ==
  ASSUME TunnelInv, Call
  PROVE  TunnelInv'
<1>1. /\ ~Idle /\ job.script = <<>> /\ job.queue # <<>> /\ Others /\ host' = host
  BY DEF Call
<1>2. Working
  BY <1>1, EndingScript DEF TunnelInv, TypeOK
<1>3. job \in [name : JobNames, queue : Seq(Functions), script : Seq(Commands)]
  BY <1>2 DEF Working
<1>4. CASE Head(job.queue) = AutoJob
  BY <1>2, <1>4, LastCall
<1>5. CASE Head(job.queue) # AutoJob
  <2>1. PICK Q \in Seq(Functions) : Q = job.queue
    BY <1>3
  <2>2. /\ Tail(Q) \in Seq(Functions) /\ Cmds(Q) = {Head(Q)} \cup Cmds(Tail(Q))
        /\ Len(Tail(Q)) = Len(Q) - 1 /\ Len(Q) \in Nat \ {0}
        /\ \A i \in 1..Len(Tail(Q)) : Tail(Q)[i] = Q[i+1]
    BY <1>1, <2>1, QueueTail
  <2>3. PICK s : s = IF ReturnsEarly(Head(Q)[1], Head(Q)[2]) THEN <<>> ELSE ScriptOf(Head(Q)[1], Head(Q)[2])
    OBVIOUS
  <2>4. Runs(s) /\ (s # <<>> => Head(s)[1] # "nftload")
    <3>1. Whole(ScriptOf(Head(Q)[1], Head(Q)[2]))
      BY <1>1, <1>5, <2>1, CalledScript
    <3> QED BY <2>3, <3>1, NothingRuns DEF Whole
  <2>5. /\ job'.name = job.name /\ job'.queue = Tail(Q) /\ job'.script = s
        /\ job' \in [name : JobNames, queue : Seq(Functions), script : Seq(Commands)]
    <3>1. s \in Seq(Commands)
      BY <2>4 DEF Runs
    <3>2. job' = [job EXCEPT !.queue = Tail(Q), !.script = s]
      BY <2>1, <2>3 DEF Call
    <3> QED BY <1>3, <2>2, <3>1, <3>2
  <2>6. Working'
    <3>1. job.name = "remove" => AutoJob \in Cmds(Tail(Q))
      BY <1>2, <1>5, <2>1, <2>2 DEF Working
    <3>2. ASSUME NEW i \in 1..Len(Tail(Q)), Tail(Q)[i] = AutoJob
          PROVE  job.name = "remove" /\ i = Len(Tail(Q))
      <4>1. i + 1 \in 1..Len(Q) /\ Q[i+1] = AutoJob
        BY <2>2, <3>2
      <4>2. job.name = "remove" /\ i + 1 = Len(Q)
        BY <1>2, <2>1, <4>1 DEF Working
      <4>3. PICK n : n = Len(Tail(Q))
        OBVIOUS
      <4>4. n = Len(Q) - 1 /\ Len(Q) \in Nat /\ i \in 1..n
        BY <2>2, <4>3
      <4> QED BY <4>2, <4>3, <4>4
    <3>3. job.name # "none"
      BY <1>1 DEF Idle
    <3> QED BY <2>4, <2>5, <3>1, <3>2, <3>3 DEF Working
  <2>7. TypeOK'
    BY <1>1, <2>6 DEF TunnelInv, TypeOK, Others
  <2>8. Covered'
    BY <1>1, NoCommands DEF TunnelInv, Covered, Others
  <2>9. Purge'
    BY <1>2, <1>5, <2>5, PurgeCall DEF Purge, Purging
  <2>10. Purged'
    <3>1. status = "none"
      BY <1>1 DEF TunnelInv, Purged, Idle
    <3> QED BY <1>1, <3>1 DEF Purged, Others
  <2> QED BY <2>7, <2>8, <2>9, <2>10 DEF TunnelInv
<1> QED BY <1>4, <1>5

\* A removal that is through has left nothing.
LEMMA ThroughBare ==
  ASSUME TunnelInv, ~Idle, job.script = <<>>, job.queue = <<>>
  PROVE  /\ job.name = "uninstall_all" =>
              /\ Bare /\ host.enabled \subseteq {"haproxy_ssh"} /\ "haproxy" \notin host.cron
              /\ host.up \subseteq {"haproxy_ssh"} \cup revived
         /\ job.name = "remove" =>
              Bare /\ host.enabled = {} /\ host.cron = {} /\ host.up = {} /\ watch = "idle"
<1>1. CASE Ending
  <2>1. job.name = "remove"
    BY <1>1, EndingScript
  <2>2. Bare /\ host.enabled = {} /\ host.cron = {} /\ host.up = {} /\ watch = "idle"
    <3>1. /\ job.script # <<KillUnits, WipeAll, CrontabR, Flush, RebootNow>>
          /\ job.script # <<WipeAll, CrontabR, Flush, RebootNow>>
          /\ job.script # <<CrontabR, Flush, RebootNow>> /\ job.script # <<Flush, RebootNow>>
          /\ job.script # <<RebootNow>>
      OBVIOUS
    <3> QED BY <1>1, <3>1, Zenon DEF Ending
  <2> QED BY <2>1, <2>2
<1>2. CASE Working
  <2>1. job.name # "remove"
    BY <1>2, NoCommands DEF Working
  <2>2. ASSUME job.name = "uninstall_all"
        PROVE  /\ Bare /\ host.enabled \subseteq {"haproxy_ssh"} /\ "haproxy" \notin host.cron
               /\ host.up \subseteq {"haproxy_ssh"} \cup revived
    <3>1. Remaining
      BY <1>2, <2>2 DEF TunnelInv, Purge, Purging
    <3>2. Left = {}
      BY NoCommands DEF Left
    <3> QED BY <3>1, <3>2 DEF Remaining, Bare
  <2> QED BY <2>1, <2>2
<1> QED BY <1>1, <1>2 DEF TunnelInv, TypeOK

LEMMA NoJobWorks ==
  ASSUME job' = NoJob
  PROVE  Working' /\ ~Purging' /\ job'.name = "none"
<1>1. /\ NoJob \in [name : JobNames, queue : Seq(Functions), script : Seq(Commands)]
      /\ NoJob.name = "none" /\ NoJob.queue = <<>> /\ NoJob.script = <<>> /\ Len(<<>>) = 0
  BY DEF NoJob, JobNames
<1> QED BY <1>1, NothingRuns DEF Working, Purging

LEMMA DoneInv ==
  ASSUME TunnelInv, Done
  PROVE  TunnelInv'
<1>1. /\ ~Idle /\ job.script = <<>> /\ job.queue = <<>> /\ job' = NoJob
      /\ UNCHANGED <<host, watch, revived, jobs, faults>>
  BY DEF Done
<1>2. Working' /\ ~Purging' /\ job'.name = "none"
  BY <1>1, NoJobWorks
<1>3. status' \in {"none", "full", "purged", "removed"} /\ spoiled' \in BOOLEAN
      /\ (status' = "purged" => job.name = "uninstall_all") /\ (status' = "removed" => job.name = "remove")
      /\ (~spoiled' => ~spoiled \/ job.name \in {"uninstall_all", "remove"})
  BY DEF Done, TunnelInv, TypeOK
<1>4. TypeOK'
  BY <1>1, <1>2, <1>3 DEF TunnelInv, TypeOK
<1>5. Covered'
  <2>1. CASE job.name \in {"uninstall_all", "remove"}
    <3>1. host.table = {}
      BY <1>1, <2>1, ThroughBare DEF Bare
    <3> QED BY <1>1, <3>1 DEF Covered
  <2>2. CASE job.name \notin {"uninstall_all", "remove"}
    BY <1>1, <1>3, <2>2, NoCommands DEF TunnelInv, Covered
  <2> QED BY <2>1, <2>2
<1>6. Purge'
  BY <1>2 DEF Purge
<1>7. Purged'
  BY <1>1, <1>2, <1>3, ThroughBare DEF Purged, Bare
<1> QED BY <1>4, <1>5, <1>6, <1>7 DEF TunnelInv

-----------------------------------------------------------------------------
\* Cron.

\* Whoever removes a file has the command that drops its table as well.
LEMMA ScriptDrops ==
  ASSUME NEW s, Runs(s), NEW n, <<"nftunlink", n>> \in Cmds(s)
  PROVE  <<"nftdrop", n>> \in Cmds(s)
<1>1. PICK i \in 1..Len(s) : s[i] = <<"nftunlink", n>>
  BY DEF Cmds
<1>2. s[i][1] = "nftunlink" /\ s[i][2] = n
  BY <1>1
<1>3. PICK j \in (i+1)..Len(s) : s[j] = <<"nftdrop", n>>
  BY <1>2 DEF Runs, DropsAfter
<1>4. j \in 1..Len(s)
  <2>1. Len(s) \in Nat
    BY DEF Runs
  <2> QED BY <1>3, <2>1
<1> QED BY <1>3, <1>4 DEF Cmds

LEMMA UnlinkDrops ==
  ASSUME Working, NEW n, <<"nftunlink", n>> \in Left
  PROVE  <<"nftdrop", n>> \in Left
<1>1. CASE <<"nftunlink", n>> \in Cmds(job.script)
  BY <1>1, ScriptDrops DEF Working, Left
<1>2. CASE <<"nftunlink", n>> \in Later(job.queue)
  <2>1. PICK Q \in Seq(Functions) : Q = job.queue
    BY DEF Working
  <2>2. PICK i \in 1..Len(Q) : <<"nftunlink", n>> \in Cmds(ScriptOf(Q[i][1], Q[i][2]))
    BY <1>2, <2>1 DEF Later
  <2>3. PICK f \in Functions : f = Q[i]
    BY <2>1
  <2>4. f # AutoJob
    <3>1. AutoJob[1] = "auto" /\ ScriptOf("auto", AutoJob[2]) = AutoUninstall
      BY DEF AutoJob, ScriptOf
    <3>2. <<"nftunlink", n>> \notin Cmds(AutoUninstall)
      BY AutoCmds DEF AutoOps
    <3> QED BY <2>2, <2>3, <3>1, <3>2
  <2>5. Whole(ScriptOf(f[1], f[2]))
    <3>1. <<f>> \in Seq(Functions) /\ <<f>> # <<>> /\ Head(<<f>>) = f
      OBVIOUS
    <3> QED BY <2>4, <3>1, CalledScript
  <2>6. <<"nftdrop", n>> \in Cmds(ScriptOf(f[1], f[2]))
    BY <2>2, <2>3, <2>5, ScriptDrops DEF Whole
  <2>7. <<"nftdrop", n>> \in Later(Q)
    BY <2>3, <2>6 DEF Later
  <2> QED BY <2>1, <2>7 DEF Left
<1> QED BY <1>1, <1>2 DEF Left

\* What a step of the watchdog does to a host.
LoadsBack ==
  /\ host' \in Hosts /\ host'.file = host.file /\ host'.bin = host.bin /\ host'.enabled = host.enabled
  /\ host'.up = host.up /\ host'.cron = host.cron /\ host'.table \subseteq host.table \cup host.file
Access == {"idle", "look", "load", "boot", "prio", "drop", "reload", "dedupe"}

\* One access of the watchdog.
LEMMA WatchKept ==
  ASSUME TunnelInv, LoadsBack, UNCHANGED <<job, status, spoiled, revived>>, watch' \in Access,
         watch # "idle" \/ "dedup" \in host.cron
  PROVE  TunnelInv'
<1>1. /\ host' \in Hosts /\ host'.file = host.file /\ host'.bin = host.bin /\ host'.enabled = host.enabled
      /\ host'.up = host.up /\ host'.cron = host.cron /\ host'.table \subseteq host.table \cup host.file
      /\ job' = job /\ status' = status /\ spoiled' = spoiled /\ revived' = revived
  BY DEF LoadsBack
<1>2. Bare => Bare'
  BY <1>1 DEF Bare
<1>3. Working => Working'
  BY <1>1 DEF Working
<1>4. ASSUME Ending PROVE Ending'
  <2>1. host.cron = {} => watch # "idle"
    OBVIOUS
  <2> QED BY <1>1, <1>2, <1>4, <2>1 DEF Ending
<1>5. TypeOK'
  BY <1>1, <1>3, <1>4 DEF TunnelInv, TypeOK, Access
<1>6. Covered'
  <2> SUFFICES ASSUME ~spoiled', NEW n \in host'.table \ host'.file
               PROVE  <<"nftdrop", n>> \in Cmds(job'.script)
    BY DEF Covered
  <2>1. n \in host.table \ host.file /\ ~spoiled
    BY <1>1
  <2>2. <<"nftdrop", n>> \in Cmds(job.script)
    BY <2>1 DEF TunnelInv, Covered
  <2> QED BY <1>1, <2>2
<1>7. Purge'
  <2> SUFFICES ASSUME Purging, Working' PROVE Remaining' /\ Ordered'
    BY <1>1 DEF Purge, Purging
  <2>1. Working
    <3>1. ASSUME Ending PROVE FALSE
      <4>1. ~Working'
        BY <1>1, <1>4, <3>1, CmdsTuples, EndingScript DEF Working
      <4> QED BY <4>1
    <3> QED BY <3>1 DEF TunnelInv, TypeOK
  <2>2. Remaining /\ Ordered
    BY <2>1 DEF TunnelInv, Purge
  <2>3. Left' = Left /\ Ordered'
    BY <1>1, <2>2 DEF Left, Ordered
  <2>4. \A n \in host.table \cup host.file : <<"nftdrop", n>> \in Left
    BY <2>1, <2>2, UnlinkDrops DEF Remaining
  <2> QED BY <1>1, <2>2, <2>3, <2>4 DEF Remaining
<1>8. Purged'
  BY <1>1, <1>2 DEF TunnelInv, Purged
<1> QED BY <1>5, <1>6, <1>7, <1>8 DEF TunnelInv

LEMMA WatchInv ==
  ASSUME TunnelInv, Watch
  PROVE  TunnelInv'
<1>h. host \in Hosts
  BY DEF TunnelInv, TypeOK
<1>1. UNCHANGED <<job, status, spoiled, revived>>
  BY DEF Watch, WatchStart, WatchLook, WatchLoad, WatchBoot, WatchPrio, WatchDrop, WatchReload, WatchDedupe, WatchTo
<1>2. watch' \in Access
  BY DEF Watch, WatchStart, WatchLook, WatchLoad, WatchBoot, WatchPrio, WatchDrop, WatchReload, WatchDedupe, WatchTo, Access
<1>3. watch # "idle" \/ "dedup" \in host.cron
  BY DEF Watch, WatchStart, WatchLook, WatchLoad, WatchBoot, WatchPrio, WatchDrop, WatchReload, WatchDedupe, WatchTo
<1>4. LoadsBack
  <2>1. CASE host' = host
    BY <1>h, <2>1 DEF LoadsBack
  <2>2. CASE host' = LoadCatchall(host)
    BY <1>h, <2>2, CatchallHost DEF LoadsBack, LoadsOnly
  <2>3. CASE host' = [host EXCEPT !.boot = @ \cup {"catchall"}]
    <3>1. "catchall" \in Tables
      BY DEF Tables
    <3> QED BY <1>h, <2>3, <3>1 DEF LoadsBack, Hosts
  <2>4. CASE host' = [host EXCEPT !.table = @ \cup ({"slowdns"} \cap host.file)]
    <3>1. PICK T \in SUBSET host.file : T = {"slowdns"} \cap host.file
      OBVIOUS
    <3>2. host' = [host EXCEPT !.table = @ \cup T]
      BY <2>4, <3>1
    <3>3. T \subseteq Tables
      BY <1>h, HostParts
    <3> QED BY <1>h, <3>2, <3>3 DEF LoadsBack, Hosts
  <2>5. CASE host' = [host EXCEPT !.dup = FALSE]
    BY <1>h, <2>5 DEF LoadsBack, Hosts
  <2>6. CASE host' = [host EXCEPT !.table = @ \ {"slowdns"}]
    BY <1>h, <2>6 DEF LoadsBack, Hosts
  <2> QED BY <2>1, <2>2, <2>3, <2>4, <2>5, <2>6
       DEF Watch, WatchStart, WatchLook, WatchLoad, WatchBoot, WatchPrio, WatchDrop, WatchReload, WatchDedupe, WatchTo
<1> QED BY <1>1, <1>2, <1>3, <1>4, WatchKept

\* After a removal no line of cron finds a service it can start.
LEMMA NoRevival ==
  ASSUME NEW c \in Lines, NEW s \in Watched[c], c # "haproxy", host.bin \subseteq {"haproxy"}
  PROVE  ~Startable(host, s)
<1>1. s \in {"xray", "v2ray", "dnsdist", "ns4", "nv4", "hysteria", "zivpn", "udp_custom", "sshws",
             "ssl_tls", "dropbear"}
  BY DEF Lines, Watched
<1>2. s \notin {"ws_dropbear", "ws_stunnel"} /\ Owner(s) # "haproxy"
  BY <1>1 DEF Owner
<1> QED BY <1>2 DEF Startable

LEMMA ReviveInv ==
  ASSUME TunnelInv, NEW s \in Services, Revive(s)
  PROVE  TunnelInv'
<1>1. PICK c \in host.cron : s \in Watched[c]
  BY DEF Revive
<1>2. /\ Startable(host, s) /\ host' = Started(host, s) /\ UNCHANGED <<job, watch, status, spoiled>>
      /\ revived' = IF Idle THEN revived ELSE revived \cup {s}
  BY DEF Revive
<1>3. host \in Hosts /\ host.cron \subseteq Lines
  BY HostParts DEF TunnelInv, TypeOK
<1>4. /\ host' \in Hosts /\ host'.table = host.table /\ host'.file = host.file /\ host'.bin = host.bin
      /\ host'.cron = host.cron /\ host'.enabled = host.enabled /\ host'.up \subseteq host.up \cup {s}
  BY <1>2, <1>3, StartedHost DEF SameFiles
<1>5. host.cron # {}
  BY <1>1
<1>6. Bare' = Bare
  BY <1>4 DEF Bare
<1>7. Working => Working'
  BY <1>2, <1>4 DEF Working
<1>8. ASSUME Ending PROVE Ending'
  BY <1>2, <1>4, <1>5, <1>6, <1>8 DEF Ending
<1>9. TypeOK'
  BY <1>2, <1>4, <1>7, <1>8 DEF TunnelInv, TypeOK
<1>10. Covered'
  BY <1>2, <1>4 DEF TunnelInv, Covered
<1>11. Purge'
  <2> SUFFICES ASSUME Purging, Working' PROVE Remaining' /\ Ordered'
    BY <1>2 DEF Purge, Purging
  <2>1. Working
    BY <1>2, <1>4 DEF Working
  <2>2. Remaining /\ Ordered /\ Left' = Left
    BY <1>2, <2>1 DEF TunnelInv, Purge, Left
  <2>3. revived' = revived \cup {s}
    BY <1>2 DEF Purging, Idle
  <2> QED BY <1>2, <1>4, <2>2, <2>3 DEF Remaining, Ordered
<1>12. Purged'
  <2>1. CASE status = "purged"
    <3>1. host.bin \subseteq {"haproxy"} /\ "haproxy" \notin host.cron
      BY <2>1 DEF TunnelInv, Purged, Bare
    <3> QED BY <1>1, <1>2, <1>3, <3>1, NoRevival
  <2>2. CASE status = "removed"
    BY <1>5, <2>2 DEF TunnelInv, Purged
  <2>3. CASE status \notin {"purged", "removed"}
    BY <1>2, <2>3 DEF TunnelInv, Purged
  <2> QED BY <2>1, <2>2, <2>3
<1> QED BY <1>9, <1>10, <1>11, <1>12 DEF TunnelInv

-----------------------------------------------------------------------------
\* Faults.

LEMMA RebootInv ==
  ASSUME TunnelInv, Reboot
  PROVE  TunnelInv'
<1>1. /\ host' = Rebooted(host) /\ watch' = "idle" /\ revived' = {} /\ job' = NoJob
      /\ spoiled' = (spoiled \/ ~Idle) /\ status' = status
  BY DEF Reboot
<1>2. /\ host' \in Hosts /\ host'.up \subseteq host.enabled /\ host'.table \subseteq host.file
      /\ host'.file = host.file /\ host'.bin = host.bin /\ host'.enabled = host.enabled
      /\ host'.cron = host.cron
  BY <1>1, RebootedHost DEF TunnelInv, TypeOK
<1>3. Working' /\ ~Purging' /\ job'.name = "none"
  BY <1>1, NoJobWorks
<1>4. TypeOK'
  BY <1>1, <1>2, <1>3 DEF TunnelInv, TypeOK
<1>5. Covered' /\ Purge'
  BY <1>2, <1>3 DEF Covered, Purge
<1>6. Purged'
  BY <1>1, <1>2, <1>3 DEF TunnelInv, Purged, Bare
<1> QED BY <1>4, <1>5, <1>6 DEF TunnelInv

LEMMA SameInv ==
  ASSUME TunnelInv, host' \in Hosts, host'.table = host.table, host'.file = host.file, host'.bin = host.bin,
         host'.enabled = host.enabled, host'.up = host.up, host'.cron = host.cron,
         UNCHANGED <<job, watch, status, spoiled, revived>>
  PROVE  TunnelInv'
<1>1. Bare' = Bare
  BY DEF Bare
<1>2. Working' = Working
  BY DEF Working
<1>3. Ending' = Ending
  BY <1>1 DEF Ending
<1>4. TypeOK'
  BY <1>2, <1>3 DEF TunnelInv, TypeOK
<1>5. Covered'
  BY DEF TunnelInv, Covered
<1>6. Purge'
  BY <1>2 DEF TunnelInv, Purge, Purging, Remaining, Ordered, Left
<1>7. Purged'
  BY <1>1 DEF TunnelInv, Purged
<1> QED BY <1>4, <1>5, <1>6, <1>7 DEF TunnelInv

LEMMA DuplicateInv ==
  ASSUME TunnelInv, Duplicate
  PROVE  TunnelInv'
<1>1. host \in Hosts /\ host' = [host EXCEPT !.dup = TRUE] /\ UNCHANGED <<job, watch, status, spoiled, revived>>
  BY DEF Duplicate, TunnelInv, TypeOK
<1>2. /\ host' \in Hosts /\ host'.table = host.table /\ host'.file = host.file /\ host'.bin = host.bin
      /\ host'.enabled = host.enabled /\ host'.up = host.up /\ host'.cron = host.cron
  BY <1>1 DEF Hosts
<1> QED BY <1>1, <1>2, SameInv

-----------------------------------------------------------------------------
\* The theorems.

LEMMA TunnelInit == Init => TunnelInv
<1> SUFFICES ASSUME Init PROVE TunnelInv
  OBVIOUS
<1>1. host \in Hosts
  BY DEF Init, Hosts
<1>2. host.table = {} /\ host.file = {}
  BY DEF Init
<1>3. Working /\ ~Purging
  <2>1. /\ NoJob \in [name : JobNames, queue : Seq(Functions), script : Seq(Commands)]
        /\ NoJob.name = "none" /\ NoJob.queue = <<>> /\ NoJob.script = <<>> /\ Len(<<>>) = 0
    BY DEF NoJob, JobNames
  <2>2. job = NoJob
    BY DEF Init
  <2> QED BY <2>1, <2>2, NothingRuns DEF Working, Purging
<1>4. watch = "idle" /\ status = "none" /\ spoiled = FALSE /\ revived = {}
  BY DEF Init
<1> QED BY <1>1, <1>2, <1>3, <1>4 DEF TunnelInv, TypeOK, Covered, Purge, Purged

LEMMA TunnelStep == TunnelInv /\ [Next]_vars => TunnelInv'
<1> SUFFICES ASSUME TunnelInv, [Next]_vars PROVE TunnelInv'
  OBVIOUS
<1>1. CASE Files
  BY <1>1, FilesInv
<1>2. CASE Systemctl
  BY <1>2, SystemctlInv
<1>3. CASE Obtain
  BY <1>3, ObtainInv
<1>4. CASE Verify
  BY <1>4, VerifyInv
<1>5. CASE Fail
  BY <1>5, FailInv
<1>6. CASE Need
  BY <1>6, NeedInv
<1>7. CASE Cert
  BY <1>7, CertInv
<1>8. CASE Nft
  BY <1>8, NftInv
<1>9. CASE Catchall
  BY <1>9, CatchallInv
<1>10. CASE Removal
  BY <1>10, RemovalInv
<1>11. CASE ChooseJob
  BY <1>11, ChooseJobInv
<1>12. CASE ChooseTunnel
  BY <1>12, ChooseTunnelInv
<1>13. CASE Call
  BY <1>13, CallInv
<1>14. CASE Done
  BY <1>14, DoneInv
<1>15. CASE Watch
  BY <1>15, WatchInv
<1>16. CASE Cron
  BY <1>16, ReviveInv DEF Cron
<1>17. CASE Kill \/ Raise
  BY <1>17, KillInv DEF Raise
<1>18. CASE Reboot
  BY <1>18, RebootInv
<1>19. CASE Duplicate
  BY <1>19, DuplicateInv
<1>20. CASE UNCHANGED vars
  BY <1>20, SameInv DEF vars, TunnelInv, TypeOK
<1>21. CASE Rebuild
  BY <1>21, RebuildInv
<1> QED BY <1>1, <1>2, <1>3, <1>4, <1>5, <1>6, <1>7, <1>8, <1>9, <1>10, <1>11, <1>12, <1>13, <1>14,
           <1>15, <1>16, <1>17, <1>18, <1>19, <1>20, <1>21 DEF Next, Panel

\* Every script the panel runs, and what is left of it after any command, keeps
\* the order its installer gives: a table after its file, a rule loaded from a
\* file just written; and a host has no file, service or table but the known.
THEOREM TunnelsTyped == Spec => []TypeOK
<1>1. TunnelInv => TypeOK
  BY DEF TunnelInv
<1> QED BY <1>1, TunnelInit, TunnelStep, PTL DEF Spec

\* With the panel done and no job cut short, a table that is loaded has its file
\* (_deploy_nft and _remove_nft beside kighmu-nft-dedup.py).
THEOREM TableFileSafe == Spec => []TableHasFile
<1>1. TunnelInv => TableHasFile
  BY IdleJob, NoCommands DEF TunnelInv, Covered, TableHasFile
<1> QED BY <1>1, TunnelInit, TunnelStep, PTL DEF Spec

\* uninstall_all_active and _auto_uninstall_all leave no table and no service but
\* those the code spares or cron has revived, whatever was installed, failed or
\* was killed before and whatever the watchdog loads in between.
THEOREM PurgeSafe == Spec => []PurgeLeavesNothing
<1>1. TunnelInv => PurgeLeavesNothing
  BY DEF TunnelInv, Purged, Bare, PurgeLeavesNothing
<1> QED BY <1>1, TunnelInit, TunnelStep, PTL DEF Spec

(***************************************************************************)
(* The third result: a tunnel that runs is reached by its port range.  A   *)
(* program lasts with the tables and the services it was installed with,   *)
(* whatever ran since.                                                     *)
(***************************************************************************)
\* Programs that last with their tables and services: Guards(b) and the services
\* s with Prog(s) = b.  HAProxy alone may be up or down.
Kept == Tunnels \cup {"dnsdist"}
Lasting == Services \ {"haproxy"}
Prog(s) == CASE s \in {"ws_dropbear", "ws_stunnel"} -> "sshws"
             [] s \in {"ns4", "nv4"} -> "slowdns"
             [] s = "haproxy_ssh" -> "xray"
             [] OTHER -> s
Guards(b) == CASE b = "sshws" -> {"sshws", "ws_dropbear", "ws_stunnel"}
               [] b = "dnsdist" -> {"slowdns"}
               [] OTHER -> {b}

\* What a script that gives command c has to give after it.
Needs(c) ==
  {d \in Commands :
    \/ /\ c[1] \in {"fetch", "try"} /\ c[2] \in Kept
       /\ \/ \E n \in Guards(c[2]) : d = <<"nftload", n>>
          \/ \E s \in Lasting : Prog(s) = c[2] /\ d = <<"enable", s>>
    \/ c[1] \in {"fetch", "try"} /\ c[2] = "udp_custom" /\ d = <<"catchfile", "udp_custom">>
    \/ c = <<"catchfile", "udp_custom">> /\ d = <<"catchload", "udp_custom">>
    \/ /\ c[1] \in {"fetch", "try"} /\ c[2] = "xray"
       /\ d \in {<<"dir", "pem">>, <<"conf", "panel">>, <<"restart", "haproxy">>}
    \/ c[1] \in {"fetch", "try"} /\ c[2] = "haproxy" /\ d \in {<<"restart", "haproxy">>, <<"enable", "haproxy_ssh">>}
    \/ c[1] = "unit" /\ d = <<"enable", c[2]>>
    \/ c \in {<<"dir", "pem">>, <<"conf", "panel">>} /\ d = <<"restart", "haproxy">>
    \/ c = <<"stop", "dnsdist">> /\ d = <<"restart", "dnsdist">>
    \/ c[1] = "disable" /\ c[2] \in Kept /\ d = <<"wipe", c[2]>>}
\* What a script still owes, and a script that never stops sshws for long.
Owed(s) == {d \in Commands : \E i \in 1..Len(s) : d \in Needs(s[i]) /\ \A j \in (i+1)..Len(s) : s[j] # d}
Briefly(s) == \A i \in 1..Len(s) : s[i] = <<"stop", "sshws">> =>
                i + 1 \in 1..Len(s) /\ s[i+1] \in {<<"start", "sshws">>, <<"wipe", "sshws">>}

\* A script, its commands, what it owes.
Piece(s, C, O) == s \in Seq(Commands) /\ Cmds(s) = C /\ Owed(s) \subseteq O

LEMMA PieceJoined ==
  ASSUME NEW s, NEW t, NEW C, NEW D, NEW O, NEW P, Piece(s, C, O), Piece(t, D, P)
  PROVE  Piece(s \o t, C \cup D, (O \ D) \cup P) /\ (Briefly(s) /\ Briefly(t) => Briefly(s \o t))
<1> DEFINE u == s \o t
<1>1. s \in Seq(Commands) /\ t \in Seq(Commands) /\ Len(s) \in Nat /\ Len(t) \in Nat
  BY DEF Piece
<1>2. /\ u \in Seq(Commands) /\ Len(u) = Len(s) + Len(t)
      /\ \A i \in 1..Len(s) : u[i] = s[i]
      /\ \A i \in 1..Len(t) : u[i + Len(s)] = t[i]
  BY <1>1
<1>3. Cmds(u) = C \cup D
  BY <1>1, CmdsJoined DEF Piece
<1> HIDE DEF u
<1>4. \A i \in 1..Len(u) : i \in 1..Len(s) \/ (i - Len(s) \in 1..Len(t) /\ u[i] = t[i - Len(s)])
  <2> SUFFICES ASSUME NEW i \in 1..Len(u), i \notin 1..Len(s)
               PROVE  i - Len(s) \in 1..Len(t) /\ u[i] = t[i - Len(s)]
    OBVIOUS
  <2>1. i - Len(s) \in 1..Len(t) /\ (i - Len(s)) + Len(s) = i
    BY <1>1, <1>2
  <2> QED BY <1>2, <2>1
<1>5. ASSUME NEW d \in Owed(u)
      PROVE  d \in (O \ D) \cup P
  <2>1. PICK i \in 1..Len(u) : d \in Needs(u[i]) /\ \A j \in (i+1)..Len(u) : u[j] # d
    BY DEF Owed
  <2>2. d \in Commands
    BY DEF Owed
  <2>3. CASE i \in 1..Len(s)
    <3>1. \A j \in (i+1)..Len(s) : j \in (i+1)..Len(u) /\ j \in 1..Len(s)
      BY <1>1, <1>2, <2>3
    <3>2. d \in Owed(s)
      BY <1>2, <2>1, <2>2, <2>3, <3>1 DEF Owed
    <3>3. \A j \in 1..Len(t) : j + Len(s) \in (i+1)..Len(u)
      BY <1>1, <1>2, <2>3
    <3>4. d \notin Cmds(t)
      BY <1>2, <2>1, <3>3 DEF Cmds
    <3> QED BY <3>2, <3>4 DEF Piece
  <2>4. CASE i \notin 1..Len(s)
    <3>1. PICK k : k = i - Len(s)
      OBVIOUS
    <3>2. k \in 1..Len(t) /\ u[i] = t[k] /\ i = k + Len(s) /\ k \in Nat /\ i \in Nat
      BY <1>1, <1>4, <2>4, <3>1
    <3>3. \A j \in (k+1)..Len(t) : j \in 1..Len(t) /\ j + Len(s) \in (i+1)..Len(u)
      BY <1>1, <1>2, <3>2
    <3>4. \A j \in (k+1)..Len(t) : t[j] # d
      BY <1>2, <2>1, <3>3
    <3> QED BY <2>1, <2>2, <3>2, <3>4 DEF Owed, Piece
  <2> QED BY <2>3, <2>4
<1>6. ASSUME Briefly(s), Briefly(t), NEW i \in 1..Len(u), u[i] = <<"stop", "sshws">>
      PROVE  i + 1 \in 1..Len(u) /\ u[i+1] \in {<<"start", "sshws">>, <<"wipe", "sshws">>}
  <2>1. CASE i \in 1..Len(s)
    <3>1. i + 1 \in 1..Len(s) /\ s[i+1] \in {<<"start", "sshws">>, <<"wipe", "sshws">>}
      BY <1>2, <1>6, <2>1 DEF Briefly
    <3>2. i + 1 \in 1..Len(u)
      BY <1>1, <1>2, <3>1
    <3> QED BY <1>2, <3>1, <3>2
  <2>2. CASE i \notin 1..Len(s)
    <3>1. PICK k : k = i - Len(s)
      OBVIOUS
    <3>2. k \in 1..Len(t) /\ u[i] = t[k] /\ i = k + Len(s) /\ k \in Nat /\ i \in Nat
      BY <1>1, <1>4, <2>2, <3>1
    <3>3. k + 1 \in 1..Len(t) /\ t[k+1] \in {<<"start", "sshws">>, <<"wipe", "sshws">>}
      BY <1>6, <3>2 DEF Briefly
    <3>4. i + 1 \in 1..Len(u) /\ i + 1 = (k + 1) + Len(s)
      BY <1>1, <1>2, <3>2, <3>3
    <3> QED BY <1>2, <3>3, <3>4
  <2> QED BY <2>1, <2>2
<1> QED BY <1>2, <1>3, <1>5, <1>6 DEF Piece, Briefly, u

\* What is left of a script owes no more.
LEMMA OwedOn ==
  ASSUME NEW s \in Seq(Commands), NEW t \in Seq(Commands), NEW k \in 0..Len(s),
         Len(t) = Len(s) - k, \A i \in 1..Len(t) : t[i] = s[i + k]
  PROVE  /\ Owed(t) \subseteq Owed(s) /\ Cmds(t) \subseteq Cmds(s)
         /\ Briefly(s) => Briefly(t)
<1>1. Len(s) \in Nat /\ Len(t) \in Nat /\ k \in Nat
  OBVIOUS
<1>2. \A i \in 1..Len(t) : i + k \in 1..Len(s)
  BY <1>1
<1>3. ASSUME NEW d \in Owed(t)
      PROVE  d \in Owed(s)
  <2>1. PICK i \in 1..Len(t) : d \in Needs(t[i]) /\ \A j \in (i+1)..Len(t) : t[j] # d
    BY DEF Owed
  <2>2. ASSUME NEW j \in ((i+k)+1)..Len(s)
        PROVE  s[j] # d
    <3>1. PICK m : m = j - k
      OBVIOUS
    <3>2. m \in (i+1)..Len(t) /\ m \in 1..Len(t) /\ j = m + k
      BY <1>1, <2>2, <3>1
    <3> QED BY <2>1, <3>2
  <2> QED BY <1>2, <2>1, <2>2 DEF Owed
<1>4. ASSUME Briefly(s), NEW i \in 1..Len(t), t[i] = <<"stop", "sshws">>
      PROVE  i + 1 \in 1..Len(t) /\ t[i+1] \in {<<"start", "sshws">>, <<"wipe", "sshws">>}
  <2>1. i + k \in 1..Len(s) /\ s[i + k] = <<"stop", "sshws">>
    BY <1>2, <1>4
  <2>2. (i + k) + 1 \in 1..Len(s) /\ s[(i + k) + 1] \in {<<"start", "sshws">>, <<"wipe", "sshws">>}
    BY <1>4, <2>1 DEF Briefly
  <2>3. i + 1 \in 1..Len(t) /\ (i + 1) + k = (i + k) + 1
    BY <1>1, <2>2
  <2> QED BY <2>2, <2>3
<1> QED BY <1>2, <1>3, <1>4 DEF Cmds, Briefly

\* A script that owes nothing gives later what its next command needs.
LEMMA OwedNext ==
  ASSUME NEW s \in Seq(Commands), s # <<>>, Owed(s) = {}
  PROVE  /\ Needs(Head(s)) \subseteq Cmds(Tail(s)) /\ Owed(Tail(s)) = {}
         /\ \A c \in Cmds(Tail(s)) : Needs(c) \subseteq Cmds(Tail(s))
         /\ Briefly(s) => Briefly(Tail(s))
         /\ Briefly(s) /\ Head(s) = <<"stop", "sshws">> =>
              Tail(s) # <<>> /\ Head(Tail(s)) \in {<<"start", "sshws">>, <<"wipe", "sshws">>}
<1>1. /\ Tail(s) \in Seq(Commands) /\ Len(Tail(s)) = Len(s) - 1 /\ Len(s) \in Nat \ {0} /\ Head(s) = s[1]
      /\ \A i \in 1..Len(Tail(s)) : Tail(s)[i] = s[i + 1]
  OBVIOUS
<1> DEFINE t == Tail(s)
<1> HIDE DEF t
<1>2. /\ t \in Seq(Commands) /\ Len(t) = Len(s) - 1 /\ Len(s) \in Nat \ {0} /\ Head(s) = s[1]
      /\ \A i \in 1..Len(t) : t[i] = s[i + 1]
  BY <1>1 DEF t
<1>3. 1 \in 0..Len(s) /\ 1 \in 1..Len(s)
  BY <1>2
<1>4. Owed(t) = {} /\ (Briefly(s) => Briefly(t))
  BY <1>2, <1>3, OwedOn
<1>5. ASSUME NEW u \in Seq(Commands), Owed(u) = {}, NEW i \in 1..Len(u), NEW d \in Needs(u[i])
      PROVE  \E j \in (i+1)..Len(u) : u[j] = d
  <2> SUFFICES ASSUME \A j \in (i+1)..Len(u) : u[j] # d
               PROVE  FALSE
    OBVIOUS
  <2>1. d \in Commands
    BY DEF Needs
  <2>2. d \in Owed(u)
    BY <2>1 DEF Owed
  <2> QED BY <1>5, <2>2
<1>6. ASSUME NEW d \in Needs(Head(s))
      PROVE  d \in Cmds(t)
  <2>a. d \in Needs(s[1]) /\ 1 \in 1..Len(s)
    BY <1>2, <1>3
  <2>1. PICK j \in (1+1)..Len(s) : s[j] = d
    BY <1>5, <2>a
  <2>2. j - 1 \in 1..Len(t) /\ (j - 1) + 1 = j
    BY <1>2, <2>1
  <2>3. t[j - 1] = d
    BY <1>2, <2>1, <2>2
  <2> QED BY <2>2, <2>3 DEF Cmds
<1>7. ASSUME NEW c \in Cmds(t), NEW d \in Needs(c)
      PROVE  d \in Cmds(t)
  <2>1. PICK i \in 1..Len(t) : t[i] = c
    BY DEF Cmds
  <2>2. PICK j \in (i+1)..Len(t) : t[j] = d
    BY <1>2, <1>4, <1>5, <2>1
  <2>3. j \in 1..Len(t)
    BY <1>2, <2>1, <2>2
  <2> QED BY <2>2, <2>3 DEF Cmds
<1>8. Briefly(s) /\ Head(s) = <<"stop", "sshws">> => t # <<>> /\ Head(t) \in {<<"start", "sshws">>, <<"wipe", "sshws">>}
  <2> SUFFICES ASSUME Briefly(s), Head(s) = <<"stop", "sshws">>
               PROVE  t # <<>> /\ Head(t) \in {<<"start", "sshws">>, <<"wipe", "sshws">>}
    OBVIOUS
  <2>1. 2 \in 1..Len(s) /\ s[2] \in {<<"start", "sshws">>, <<"wipe", "sshws">>}
    BY <1>2, <1>3 DEF Briefly
  <2>2. 1 \in 1..Len(t) /\ t[1] = s[2]
    BY <1>2, <2>1
  <2> QED BY <1>2, <2>1, <2>2
<1> QED BY <1>4, <1>6, <1>7, <1>8 DEF t

\* What short scripts owe.
LEMMA OwedTuples ==
  /\ \A a, b \in Commands : Piece(<<a, b>>, {a, b}, (Needs(a) \ {b}) \cup Needs(b))
  /\ \A a, b, c \in Commands :
       Piece(<<a, b, c>>, {a, b, c}, (Needs(a) \ {b, c}) \cup (Needs(b) \ {c}) \cup Needs(c))
<1>1. ASSUME NEW a \in Commands, NEW b \in Commands
      PROVE  Piece(<<a, b>>, {a, b}, (Needs(a) \ {b}) \cup Needs(b))
  <2>1. PICK s : s = <<a, b>>
    OBVIOUS
  <2>2. s \in Seq(Commands) /\ Len(s) = 2 /\ s[1] = a /\ s[2] = b /\ Cmds(s) = {a, b}
    BY <2>1, CmdsTuples
  <2>3. 2 \in (1+1)..Len(s) /\ \A i \in 1..Len(s) : i = 1 \/ i = 2
    BY <2>2
  <2>4. Owed(s) \subseteq (Needs(a) \ {b}) \cup Needs(b)
    <3> SUFFICES ASSUME NEW d \in Owed(s) PROVE d \in (Needs(a) \ {b}) \cup Needs(b)
      OBVIOUS
    <3>1. PICK i \in 1..Len(s) : d \in Needs(s[i]) /\ \A j \in (i+1)..Len(s) : s[j] # d
      BY DEF Owed
    <3> QED BY <2>2, <2>3, <3>1
  <2> QED BY <2>1, <2>2, <2>4 DEF Piece
<1>2. ASSUME NEW a \in Commands, NEW b \in Commands, NEW c \in Commands
      PROVE  Piece(<<a, b, c>>, {a, b, c}, (Needs(a) \ {b, c}) \cup (Needs(b) \ {c}) \cup Needs(c))
  <2>1. PICK s : s = <<a, b, c>>
    OBVIOUS
  <2>2. s \in Seq(Commands) /\ Len(s) = 3 /\ s[1] = a /\ s[2] = b /\ s[3] = c /\ Cmds(s) = {a, b, c}
    BY <2>1, CmdsTuples
  <2>3. 2 \in (1+1)..Len(s) /\ 3 \in (1+1)..Len(s) /\ 3 \in (2+1)..Len(s)
        /\ \A i \in 1..Len(s) : i = 1 \/ i = 2 \/ i = 3
    BY <2>2
  <2>4. Owed(s) \subseteq (Needs(a) \ {b, c}) \cup (Needs(b) \ {c}) \cup Needs(c)
    <3> SUFFICES ASSUME NEW d \in Owed(s) PROVE d \in (Needs(a) \ {b, c}) \cup (Needs(b) \ {c}) \cup Needs(c)
      OBVIOUS
    <3>1. PICK i \in 1..Len(s) : d \in Needs(s[i]) /\ \A j \in (i+1)..Len(s) : s[j] # d
      BY DEF Owed
    <3> QED BY <2>2, <2>3, <3>1
  <2> QED BY <2>1, <2>2, <2>4 DEF Piece
<1> QED BY <1>1, <1>2

\* A script owes nothing beyond what its commands need.
LEMMA OwedAll ==
  ASSUME NEW s \in Seq(Commands), NEW O, \A c \in Cmds(s) : Needs(c) \subseteq O
  PROVE  Piece(s, Cmds(s), O)
BY DEF Piece, Owed, Cmds

LEMMA NeedsNothing ==
  /\ \A c \in Commands :
       c[1] \notin {"fetch", "try", "stop", "dir", "conf", "catchfile", "disable", "unit"} => Needs(c) = {}
  /\ \A x : x # "pem" => Needs(<<"dir", x>>) = {}
  /\ \A s : s # "dnsdist" => Needs(<<"stop", s>>) = {}
  /\ \A s : s \notin Kept => Needs(<<"disable", s>>) = {}
<1>1. ASSUME NEW c \in Commands, NEW d \in Needs(c),
             c[1] \notin {"fetch", "try", "stop", "dir", "conf", "catchfile", "disable", "unit"}
      PROVE  FALSE
  <2>1. /\ c # <<"catchfile", "udp_custom">> /\ c # <<"dir", "pem">> /\ c # <<"conf", "panel">>
        /\ c # <<"stop", "dnsdist">>
    BY <1>1
  <2> QED BY <1>1, <2>1 DEF Needs
<1>2. /\ \A x : x # "pem" => Needs(<<"dir", x>>) = {}
      /\ \A s : s # "dnsdist" => Needs(<<"stop", s>>) = {}
  BY DEF Needs
<1>3. \A s : s \notin Kept => Needs(<<"disable", s>>) = {}
  BY DEF Needs
<1> QED BY <1>1, <1>2, <1>3

LEMMA NeedsOf ==
  /\ \A n : Needs(<<"catchfile", n>>) \subseteq {<<"catchload", n>>}
  /\ \A s : Needs(<<"disable", s>>) \subseteq {<<"wipe", s>>}
  /\ \A x : Needs(<<"dir", x>>) \subseteq {<<"restart", "haproxy">>}
  /\ \A s : Needs(<<"stop", s>>) \subseteq {<<"restart", "dnsdist">>}
  /\ Needs(<<"conf", "panel">>) \subseteq {<<"restart", "haproxy">>}
  /\ \A s : Needs(<<"unit", s>>) \subseteq {<<"enable", s>>}
<1>1. /\ \A n : Needs(<<"catchfile", n>>) \subseteq {<<"catchload", n>>}
      /\ \A s : Needs(<<"disable", s>>) \subseteq {<<"wipe", s>>}
  BY DEF Needs
<1>2. /\ \A x : Needs(<<"dir", x>>) \subseteq {<<"restart", "haproxy">>}
      /\ \A s : Needs(<<"stop", s>>) \subseteq {<<"restart", "dnsdist">>}
  BY DEF Needs
<1>3. Needs(<<"conf", "panel">>) \subseteq {<<"restart", "haproxy">>} /\ \A s : Needs(<<"unit", s>>) \subseteq {<<"enable", s>>}
  BY DEF Needs
<1> QED BY <1>1, <1>2, <1>3

\* The programs, tables and services by name.
LEMMA KeptNames ==
  /\ Kept = {"dropbear", "ssl_tls", "sshws", "xray", "v2ray", "badvpn", "udp_custom", "slowdns",
             "hysteria", "zivpn", "dnsdist"}
  /\ Lasting = {"dropbear", "ssl_tls", "sshws", "xray", "v2ray", "badvpn", "udp_custom", "hysteria",
                "zivpn", "ws_dropbear", "ws_stunnel", "ns4", "nv4", "haproxy_ssh", "dnsdist"}
  /\ \A s \in Lasting : s \notin {"ws_dropbear", "ws_stunnel", "ns4", "nv4", "haproxy_ssh"} => Prog(s) = s
  /\ Prog("ws_dropbear") = "sshws" /\ Prog("ws_stunnel") = "sshws" /\ Prog("ns4") = "slowdns"
  /\ Prog("nv4") = "slowdns" /\ Prog("haproxy_ssh") = "xray"
  /\ \A b \in Kept : b \notin {"sshws", "dnsdist"} => Guards(b) = {b}
  /\ Guards("sshws") = {"sshws", "ws_dropbear", "ws_stunnel"} /\ Guards("dnsdist") = {"slowdns"}
<1>1. Kept = {"dropbear", "ssl_tls", "sshws", "xray", "v2ray", "badvpn", "udp_custom", "slowdns",
              "hysteria", "zivpn", "dnsdist"}
  BY TunnelNames DEF Kept
<1>2. Lasting = {"dropbear", "ssl_tls", "sshws", "xray", "v2ray", "badvpn", "udp_custom", "hysteria",
                 "zivpn", "ws_dropbear", "ws_stunnel", "ns4", "nv4", "haproxy_ssh", "dnsdist"}
  BY NameSets DEF Lasting
<1>3. /\ \A s \in Lasting : s \notin {"ws_dropbear", "ws_stunnel", "ns4", "nv4", "haproxy_ssh"} => Prog(s) = s
      /\ Prog("ws_dropbear") = "sshws" /\ Prog("ws_stunnel") = "sshws" /\ Prog("ns4") = "slowdns"
      /\ Prog("nv4") = "slowdns" /\ Prog("haproxy_ssh") = "xray"
  BY DEF Prog
<1>4. /\ \A b \in Kept : b \notin {"sshws", "dnsdist"} => Guards(b) = {b}
      /\ Guards("sshws") = {"sshws", "ws_dropbear", "ws_stunnel"} /\ Guards("dnsdist") = {"slowdns"}
  BY DEF Guards
<1> QED BY <1>1, <1>2, <1>3, <1>4

\* What a script that obtains tunnel t owes for it, and the scripts that give it.
Owing(t) == {<<"nftload", t>>, <<"enable", t>>, <<"catchfile", t>>}
OwingWs == {<<"nftload", "ws_dropbear">>, <<"enable", "ws_dropbear">>, <<"nftload", "ws_stunnel">>,
            <<"enable", "ws_stunnel">>}
OwingDns == {<<"nftload", "slowdns">>, <<"enable", "ns4">>, <<"enable", "nv4">>, <<"enable", "dnsdist">>}
OwingXray == {<<"nftload", "xray">>, <<"enable", "xray">>, <<"enable", "haproxy_ssh">>, <<"dir", "pem">>,
              <<"conf", "panel">>, <<"restart", "haproxy">>}
LEMMA ObtainNeeds ==
  ASSUME NEW op \in {"fetch", "try"}
  PROVE  /\ \A t \in Tunnels \ {"sshws", "slowdns", "xray"} : Needs(<<op, t>>) \subseteq Owing(t)
         /\ Needs(<<op, "sshws">>) \subseteq Owing("sshws") \cup OwingWs
         /\ Needs(<<op, "slowdns">>) \subseteq OwingDns /\ Needs(<<op, "dnsdist">>) \subseteq OwingDns
         /\ Needs(<<op, "xray">>) \subseteq OwingXray
         /\ Needs(<<op, "haproxy">>) \subseteq OwingXray
<1>0. ASSUME NEW b \in Kept \cup {"haproxy"}, NEW d \in Needs(<<op, b>>)
      PROVE  \/ b \in Kept /\ \E n \in Guards(b) : d = <<"nftload", n>>
             \/ b \in Kept /\ \E s \in Lasting : Prog(s) = b /\ d = <<"enable", s>>
             \/ b = "udp_custom" /\ d = <<"catchfile", "udp_custom">>
             \/ b = "xray" /\ d \in {<<"dir", "pem">>, <<"conf", "panel">>, <<"restart", "haproxy">>}
             \/ b = "haproxy" /\ d \in {<<"restart", "haproxy">>, <<"enable", "haproxy_ssh">>}
  BY <1>0 DEF Needs
<1>1. ASSUME NEW t \in Tunnels \ {"sshws", "slowdns", "xray"}, NEW d \in Needs(<<op, t>>)
      PROVE  d \in Owing(t)
  <2>1. t \in Kept /\ t # "xray" /\ t # "haproxy" /\ Guards(t) = {t} /\ \A s \in Lasting : Prog(s) = t => s = t
    BY KeptNames, TunnelNames
  <2> QED BY <1>0, <2>1 DEF Owing
<1>2. ASSUME NEW d \in Needs(<<op, "sshws">>)
      PROVE  d \in Owing("sshws") \cup OwingWs
  <2>1. "sshws" \in Kept /\ Guards("sshws") = {"sshws", "ws_dropbear", "ws_stunnel"}
        /\ \A s \in Lasting : Prog(s) = "sshws" => s \in {"sshws", "ws_dropbear", "ws_stunnel"}
    BY KeptNames
  <2> QED BY <1>0, <2>1 DEF Owing, OwingWs
<1>3. ASSUME NEW b \in {"slowdns", "dnsdist"}, NEW d \in Needs(<<op, b>>)
      PROVE  d \in OwingDns
  <2>1. b \in Kept /\ Guards(b) = {"slowdns"}
        /\ \A s \in Lasting : Prog(s) = b => s \in {"ns4", "nv4", "dnsdist"}
    BY KeptNames
  <2> QED BY <1>0, <2>1 DEF OwingDns
<1>4. ASSUME NEW d \in Needs(<<op, "xray">>)
      PROVE  d \in OwingXray
  <2>1. "xray" \in Kept /\ Guards("xray") = {"xray"}
        /\ \A s \in Lasting : Prog(s) = "xray" => s \in {"xray", "haproxy_ssh"}
    BY KeptNames
  <2> QED BY <1>0, <2>1 DEF OwingXray
<1>5. ASSUME NEW d \in Needs(<<op, "haproxy">>)
      PROVE  d \in OwingXray
  <2>1. "haproxy" \notin Kept
    BY KeptNames
  <2> QED BY <1>0, <2>1 DEF OwingXray
<1> QED BY <1>1, <1>2, <1>3, <1>4, <1>5

Deploying(n) == {<<"catchfile", n>>, <<"catchload", n>>, <<"nftfile", n>>, <<"nftload", n>>}
Removing(n) == {<<"nftstop", n>>, <<"nftunlink", n>>, <<"nftdrop", n>>}
Running(s) == {<<"unit", s>>, <<"enable", s>>}
Ceasing(s) == {<<"disable", s>>, <<"rmunit", s>>}
CatchingAll == {<<"catchfile", "catchall">>, <<"catchload", "catchall">>}
LEMMA BuiltPieces ==
  /\ \A n \in Tables : Piece(DeployNft(n), Deploying(n), {})
  /\ \A n \in Tables : Piece(RemoveNft(n), Removing(n), {})
  /\ \A s \in Services : Piece(RunUnit(s), Running(s), {})
  /\ \A s \in Services : Piece(EndUnit(s), Ceasing(s), {<<"wipe", s>>})
  /\ \A s \in Services \ Kept : Piece(EndUnit(s), Ceasing(s), {})
  /\ Piece(EnsureCatchall, CatchingAll, {})
<1>c. /\ \A n \in Tables, op \in NftOps : <<op, n>> \in Commands
      /\ \A s \in Services, op \in UnitOps : <<op, s>> \in Commands
  BY DEF Commands
<1>1. ASSUME NEW n \in Tables
      PROVE  Piece(DeployNft(n), Deploying(n), {})
  <2>1. PICK a \in Commands, b \in Commands, c \in Commands, d \in Commands :
          a = <<"catchfile", n>> /\ b = <<"catchload", n>> /\ c = <<"nftfile", n>> /\ d = <<"nftload", n>>
    BY <1>c DEF NftOps
  <2>2. Needs(a) \subseteq {b} /\ Needs(b) = {} /\ Needs(c) = {} /\ Needs(d) = {}
    BY <2>1, NeedsOf, NeedsNothing
  <2>3. Piece(<<a, b>>, {a, b}, {}) /\ Piece(<<c, d>>, {c, d}, {})
    <3>1. Piece(<<a, b>>, {a, b}, (Needs(a) \ {b}) \cup Needs(b)) /\ Piece(<<c, d>>, {c, d}, (Needs(c) \ {d}) \cup Needs(d))
      BY OwedTuples
    <3>2. (Needs(a) \ {b}) \cup Needs(b) = {} /\ (Needs(c) \ {d}) \cup Needs(d) = {}
      BY <2>2
    <3> QED BY <3>1, <3>2
  <2>4. Piece(<<a, b>> \o <<c, d>>, {a, b} \cup {c, d}, ({} \ {c, d}) \cup {})
    BY <2>3, PieceJoined
  <2>5. DeployNft(n) = <<a, b>> \o <<c, d>>
    <3>1. DeployNft(n) = <<a, b, c, d>>
      BY <2>1 DEF DeployNft
    <3>2. <<a, b>> \o <<c, d>> = <<a, b, c, d>>
      <4>1. <<a, b>> \o <<c, d>> \in Seq(Commands) /\ <<a, b, c, d>> \in Seq(Commands)
        OBVIOUS
      <4>2. /\ Len(<<a, b>> \o <<c, d>>) = 4 /\ Len(<<a, b, c, d>>) = 4
            /\ \A i \in 1..4 : (<<a, b>> \o <<c, d>>)[i] = <<a, b, c, d>>[i]
        OBVIOUS
      <4> QED BY <4>1, <4>2, SeqEqual
    <3> QED BY <3>1, <3>2
  <2>6. {a, b} \cup {c, d} = {a, b, c, d} /\ ({} \ {c, d}) \cup {} = {}
    OBVIOUS
  <2>7. Piece(DeployNft(n), {a, b, c, d}, {})
    BY <2>4, <2>5, <2>6
  <2> QED BY <2>1, <2>7 DEF Deploying
<1>2. ASSUME NEW n \in Tables
      PROVE  Piece(RemoveNft(n), Removing(n), {})
  <2>1. PICK a \in Commands, b \in Commands, c \in Commands :
          a = <<"nftstop", n>> /\ b = <<"nftunlink", n>> /\ c = <<"nftdrop", n>>
    BY <1>c DEF NftOps
  <2>2. Needs(a) = {} /\ Needs(b) = {} /\ Needs(c) = {}
    BY <2>1, NeedsNothing
  <2>3. Piece(<<a, b, c>>, {a, b, c}, (Needs(a) \ {b, c}) \cup (Needs(b) \ {c}) \cup Needs(c))
    BY OwedTuples
  <2>4. (Needs(a) \ {b, c}) \cup (Needs(b) \ {c}) \cup Needs(c) = {}
    BY <2>2
  <2> QED BY <2>1, <2>3, <2>4 DEF RemoveNft, Removing
<1>3. ASSUME NEW s \in Services
      PROVE  Piece(RunUnit(s), Running(s), {})
  <2>1. PICK a \in Commands, b \in Commands : a = <<"unit", s>> /\ b = <<"enable", s>>
    BY <1>c DEF UnitOps
  <2>2. Needs(a) \subseteq {b} /\ Needs(b) = {}
    BY <2>1, NeedsOf, NeedsNothing
  <2>3. Piece(<<a, b>>, {a, b}, (Needs(a) \ {b}) \cup Needs(b))
    BY OwedTuples
  <2>4. (Needs(a) \ {b}) \cup Needs(b) = {}
    BY <2>2
  <2> QED BY <2>1, <2>3, <2>4 DEF RunUnit, Running
<1>4. ASSUME NEW s \in Services
      PROVE  /\ Piece(EndUnit(s), Ceasing(s), {<<"wipe", s>>})
             /\ s \notin Kept => Piece(EndUnit(s), Ceasing(s), {})
  <2>1. PICK a \in Commands, b \in Commands : a = <<"disable", s>> /\ b = <<"rmunit", s>>
    BY <1>c DEF UnitOps
  <2>2. Needs(a) \subseteq {<<"wipe", s>>} /\ Needs(b) = {} /\ (s \notin Kept => Needs(a) = {})
    BY <2>1, NeedsOf, NeedsNothing
  <2>3. Piece(<<a, b>>, {a, b}, (Needs(a) \ {b}) \cup Needs(b))
    BY OwedTuples
  <2>4. (Needs(a) \ {b}) \cup Needs(b) \subseteq {<<"wipe", s>>}
    BY <2>2
  <2>5. s \notin Kept => (Needs(a) \ {b}) \cup Needs(b) = {}
    BY <2>2
  <2>6. EndUnit(s) = <<a, b>>
    BY <2>1 DEF EndUnit
  <2> QED BY <2>1, <2>3, <2>4, <2>5, <2>6 DEF Piece, Ceasing
<1>5. Piece(EnsureCatchall, CatchingAll, {})
  <2>1. PICK a \in Commands, b \in Commands : a = <<"catchfile", "catchall">> /\ b = <<"catchload", "catchall">>
    BY <1>c, NameSets DEF NftOps
  <2>2. Needs(a) \subseteq {b} /\ Needs(b) = {}
    BY <2>1, NeedsOf, NeedsNothing
  <2>3. Piece(<<a, b>>, {a, b}, (Needs(a) \ {b}) \cup Needs(b))
    BY OwedTuples
  <2>4. (Needs(a) \ {b}) \cup Needs(b) = {}
    BY <2>2
  <2> QED BY <2>1, <2>3, <2>4 DEF EnsureCatchall, CatchingAll
<1> QED BY <1>1, <1>2, <1>3, <1>4, <1>5

LEMMA PieceUnion ==
  ASSUME NEW s, NEW t, NEW C, NEW D, NEW O, NEW P, NEW Q, Piece(s, C, O), Piece(t, D, P),
         (O \ D) \cup P \subseteq Q
  PROVE  Piece(s \o t, C \cup D, Q)
<1>1. Piece(s \o t, C \cup D, (O \ D) \cup P)
  BY PieceJoined
<1> QED BY <1>1 DEF Piece

\* A command that needs nothing, at the end of a script.
LEMMA PieceEnd ==
  ASSUME NEW s, NEW C, NEW O, Piece(s, C, O), NEW c \in Commands, Needs(c) = {}
  PROVE  Piece(s \o <<c>>, C \cup {c}, O \ {c})
<1>1. Piece(<<c>>, {c}, {})
  <2>1. <<c>> \in Seq(Commands) /\ Cmds(<<c>>) = {c}
    BY CmdsTuples
  <2> QED BY <2>1, OwedAll
<1>2. (O \ {c}) \cup {} \subseteq O \ {c}
  OBVIOUS
<1> QED BY <1>1, <1>2, PieceUnion

LEMMA NeverStops ==
  ASSUME NEW s, <<"stop", "sshws">> \notin Cmds(s)
  PROVE  Briefly(s)
BY DEF Briefly, Cmds

\* What the first commands of an installer owe.
LEMMA Obtained ==
  ASSUME NEW op \in {"fetch", "try"}, NEW t \in Tunnels \ {"slowdns", "xray"}, NEW O,
         Needs(<<op, t>>) \subseteq Owing(t) \cup O
  PROVE  /\ Piece(<<<<op, t>>>>, {<<op, t>>}, Owing(t) \cup O)
         /\ Piece(<<<<op, t>>, <<"dir", t>>>>, {<<op, t>>, <<"dir", t>>}, Owing(t) \cup O)
         /\ Piece(<<<<op, t>>, <<"verify", t>>>>, {<<op, t>>, <<"verify", t>>}, Owing(t) \cup O)
         /\ Piece(<<<<op, t>>, <<"dir", t>>, <<"unit", t>>>>, {<<op, t>>, <<"dir", t>>, <<"unit", t>>},
                  Owing(t) \cup O)
<1>1. PICK a \in Commands, b \in Commands, c \in Commands, d \in Commands :
        a = <<op, t>> /\ b = <<"dir", t>> /\ c = <<"verify", t>> /\ d = <<"unit", t>>
  <2>1. t \in Parts /\ t \in Things /\ t \in Services
    BY TunnelNames, NameSets
  <2>2. <<op, t>> \in Commands /\ <<"verify", t>> \in Commands
    BY <2>1 DEF Commands
  <2>3. <<"dir", t>> \in Commands
    BY <2>1 DEF Commands
  <2>4. <<"unit", t>> \in Commands
    BY <2>1 DEF Commands, UnitOps
  <2> QED BY <2>2, <2>3, <2>4
<1>2. Needs(a) \subseteq Owing(t) \cup O /\ Needs(b) = {} /\ Needs(c) = {} /\ Needs(d) \subseteq Owing(t) \cup O
  <2>1. t # "pem"
    BY TunnelNames
  <2>2. Needs(d) \subseteq Owing(t)
    BY <1>1, NeedsOf DEF Owing
  <2> QED BY <1>1, <2>1, <2>2, NeedsNothing
<1>3. /\ <<a>> \in Seq(Commands) /\ <<a, b>> \in Seq(Commands) /\ <<a, c>> \in Seq(Commands)
      /\ <<a, b, d>> \in Seq(Commands) /\ Cmds(<<a>>) = {a} /\ Cmds(<<a, b>>) = {a, b}
      /\ Cmds(<<a, c>>) = {a, c} /\ Cmds(<<a, b, d>>) = {a, b, d}
  BY CmdsTuples
<1>4. /\ Piece(<<a>>, {a}, Owing(t) \cup O) /\ Piece(<<a, b>>, {a, b}, Owing(t) \cup O)
      /\ Piece(<<a, c>>, {a, c}, Owing(t) \cup O) /\ Piece(<<a, b, d>>, {a, b, d}, Owing(t) \cup O)
  <2>1. ASSUME NEW s \in Seq(Commands), NEW C, Cmds(s) = C, C \subseteq {a, b, c, d}
        PROVE  Piece(s, C, Owing(t) \cup O)
    <3>1. \A x \in Cmds(s) : Needs(x) \subseteq Owing(t) \cup O
      BY <1>2, <2>1
    <3> QED BY <2>1, <3>1, OwedAll
  <2> QED BY <1>3, <2>1
<1> QED BY <1>1, <1>4

LEMMA Deployed ==
  ASSUME NEW t \in Tunnels \ {"slowdns", "xray"}, NEW s, NEW C, NEW O, Piece(s, C, Owing(t) \cup O)
  PROVE  /\ Piece(s \o RunUnit(t) \o DeployNft(t), C \cup Running(t) \cup Deploying(t), O)
         /\ Piece(s \o DeployNft(t) \o RunUnit(t), C \cup Deploying(t) \cup Running(t), O)
         /\ Piece(s \o DeployNft(t), C \cup Deploying(t), O \cup {<<"enable", t>>})
<1>1. Piece(RunUnit(t), Running(t), {}) /\ Piece(DeployNft(t), Deploying(t), {})
  BY BuiltPieces, NameSets, TunnelNames
<1>2. Piece(s \o RunUnit(t), C \cup Running(t), (Owing(t) \ {<<"enable", t>>}) \cup O)
  <2>1. ((Owing(t) \cup O) \ Running(t)) \cup {} \subseteq (Owing(t) \ {<<"enable", t>>}) \cup O
    BY DEF Owing, Running
  <2> QED BY <1>1, <2>1, PieceUnion
<1>3. Piece(s \o RunUnit(t) \o DeployNft(t), C \cup Running(t) \cup Deploying(t), O)
  <2>1. (((Owing(t) \ {<<"enable", t>>}) \cup O) \ Deploying(t)) \cup {} \subseteq O
    BY DEF Owing, Deploying
  <2> QED BY <1>1, <1>2, <2>1, PieceUnion
<1>4. Piece(s \o DeployNft(t), C \cup Deploying(t), O \cup {<<"enable", t>>})
  <2>1. ((Owing(t) \cup O) \ Deploying(t)) \cup {} \subseteq O \cup {<<"enable", t>>}
    BY DEF Owing, Deploying
  <2> QED BY <1>1, <2>1, PieceUnion
<1>5. Piece(s \o DeployNft(t) \o RunUnit(t), C \cup Deploying(t) \cup Running(t), O)
  <2>1. ((O \cup {<<"enable", t>>}) \ Running(t)) \cup {} \subseteq O
    BY DEF Running
  <2> QED BY <1>1, <1>4, <2>1, PieceUnion
<1> QED BY <1>3, <1>4, <1>5

\* What the installers give, and that they owe nothing.
Proxying == Running("ws_dropbear") \cup Deploying("ws_dropbear")
              \cup Running("ws_stunnel") \cup Deploying("ws_stunnel")
LEMMA ProxiesGive == Piece(InstallWsProxies, Proxying, {})
<1>1. /\ Piece(RunUnit("ws_dropbear"), Running("ws_dropbear"), {})
      /\ Piece(DeployNft("ws_dropbear"), Deploying("ws_dropbear"), {})
      /\ Piece(RunUnit("ws_stunnel"), Running("ws_stunnel"), {})
      /\ Piece(DeployNft("ws_stunnel"), Deploying("ws_stunnel"), {})
  BY BuiltPieces, NameSets
<1>2. ASSUME NEW s, NEW t, NEW C, NEW D, Piece(s, C, {}), Piece(t, D, {})
      PROVE  Piece(s \o t, C \cup D, {})
  BY <1>2, PieceUnion
<1> QED BY <1>1, <1>2 DEF InstallWsProxies, Proxying

LEMMA InstallsGive ==
  /\ Piece(InstallDropbear,
           {<<"try", "dropbear">>, <<"dir", "dropbear">>} \cup Running("dropbear") \cup Deploying("dropbear"), {})
  /\ Piece(InstallSslTls,
           {<<"fetch", "ssl_tls">>, <<"verify", "ssl_tls">>} \cup Running("ssl_tls") \cup Deploying("ssl_tls"), {})
  /\ Piece(InstallSshws,
           {<<"fetch", "sshws">>, <<"verify", "sshws">>} \cup Running("sshws") \cup Deploying("sshws")
             \cup Proxying, {})
  /\ Piece(InstallBadvpn, {<<"fetch", "badvpn">>} \cup Running("badvpn") \cup Deploying("badvpn"), {})
  /\ Piece(InstallUdpCustom,
           {<<"fetch", "udp_custom">>, <<"dir", "udp_custom">>} \cup Running("udp_custom")
             \cup Deploying("udp_custom"), {})
  /\ Piece(InstallV2ray,
           {<<"fetch", "v2ray">>, <<"dir", "v2ray">>} \cup Deploying("v2ray") \cup Running("v2ray")
             \cup {<<"cron", "v2ray">>}, {})
  /\ Piece(InstallHysteria,
           {<<"fetch", "hysteria">>, <<"dir", "hysteria">>, <<"unit", "hysteria">>}
             \cup Deploying("hysteria") \cup {<<"enable", "hysteria">>}, {})
  /\ Piece(InstallZivpn,
           {<<"fetch", "zivpn">>, <<"dir", "zivpn">>, <<"unit", "zivpn">>}
             \cup Deploying("zivpn") \cup CatchingAll \cup {<<"enable", "zivpn">>}, {})
<1>t. {"dropbear", "ssl_tls", "badvpn", "udp_custom", "v2ray", "hysteria", "zivpn"}
        \subseteq Tunnels \ {"slowdns", "xray", "sshws"}
      /\ "sshws" \in Tunnels \ {"slowdns", "xray"}
  BY TunnelNames
<1>o. \A op \in {"fetch", "try"}, t \in Tunnels \ {"slowdns", "xray", "sshws"} :
        Needs(<<op, t>>) \subseteq Owing(t) \cup {}
  BY ObtainNeeds
<1>c. /\ \A s \in {"hysteria", "zivpn"} : <<"enable", s>> \in Commands /\ Needs(<<"enable", s>>) = {}
      /\ <<"cron", "v2ray">> \in Commands /\ Needs(<<"cron", "v2ray">>) = {}
  <2>1. /\ <<"cron", "v2ray">> \in Commands
        /\ \A s \in {"hysteria", "zivpn"} : <<"enable", s>> \in Commands
    BY NameSets DEF Commands, UnitOps, Lines
  <2> QED BY <2>1, NeedsNothing
<1>1. Piece(InstallDropbear,
            {<<"try", "dropbear">>, <<"dir", "dropbear">>} \cup Running("dropbear") \cup Deploying("dropbear"), {})
  BY <1>t, <1>o, Obtained, Deployed DEF InstallDropbear
<1>2. Piece(InstallSslTls,
            {<<"fetch", "ssl_tls">>, <<"verify", "ssl_tls">>} \cup Running("ssl_tls") \cup Deploying("ssl_tls"), {})
  BY <1>t, <1>o, Obtained, Deployed DEF InstallSslTls
<1>3. Piece(InstallSshws,
            {<<"fetch", "sshws">>, <<"verify", "sshws">>} \cup Running("sshws") \cup Deploying("sshws")
              \cup Proxying, {})
  <2>1. Piece(<<<<"fetch", "sshws">>, <<"verify", "sshws">>>> \o RunUnit("sshws") \o DeployNft("sshws"),
              {<<"fetch", "sshws">>, <<"verify", "sshws">>} \cup Running("sshws") \cup Deploying("sshws"), OwingWs)
    BY <1>t, ObtainNeeds, Obtained, Deployed
  <2>2. (OwingWs \ Proxying) \cup {} \subseteq {}
    BY DEF OwingWs, Proxying, Running, Deploying
  <2> QED BY <2>1, <2>2, ProxiesGive, PieceUnion DEF InstallSshws
<1>4. Piece(InstallBadvpn, {<<"fetch", "badvpn">>} \cup Running("badvpn") \cup Deploying("badvpn"), {})
  BY <1>t, <1>o, Obtained, Deployed DEF InstallBadvpn
<1>5. Piece(InstallUdpCustom,
            {<<"fetch", "udp_custom">>, <<"dir", "udp_custom">>} \cup Running("udp_custom")
              \cup Deploying("udp_custom"), {})
  BY <1>t, <1>o, Obtained, Deployed DEF InstallUdpCustom
<1>6. Piece(InstallV2ray,
            {<<"fetch", "v2ray">>, <<"dir", "v2ray">>} \cup Deploying("v2ray") \cup Running("v2ray")
              \cup {<<"cron", "v2ray">>}, {})
  <2>1. Piece(<<<<"fetch", "v2ray">>, <<"dir", "v2ray">>>> \o DeployNft("v2ray") \o RunUnit("v2ray"),
              {<<"fetch", "v2ray">>, <<"dir", "v2ray">>} \cup Deploying("v2ray") \cup Running("v2ray"), {})
    BY <1>t, <1>o, Obtained, Deployed
  <2>2. {} \ {<<"cron", "v2ray">>} = {}
    OBVIOUS
  <2> QED BY <1>c, <2>1, <2>2, PieceEnd DEF InstallV2ray
<1>7. ASSUME NEW t \in {"hysteria", "zivpn"}
      PROVE  Piece(<<<<"fetch", t>>, <<"dir", t>>, <<"unit", t>>>> \o DeployNft(t),
                   {<<"fetch", t>>, <<"dir", t>>, <<"unit", t>>} \cup Deploying(t), {<<"enable", t>>})
  <2>1. {} \cup {<<"enable", t>>} = {<<"enable", t>>}
    OBVIOUS
  <2>2. t \in Tunnels \ {"slowdns", "xray"} /\ Needs(<<"fetch", t>>) \subseteq Owing(t) \cup {}
    BY <1>t, <1>o
  <2>3. Piece(<<<<"fetch", t>>, <<"dir", t>>, <<"unit", t>>>>, {<<"fetch", t>>, <<"dir", t>>, <<"unit", t>>},
              Owing(t) \cup {})
    BY <2>2, Obtained
  <2>4. Piece(<<<<"fetch", t>>, <<"dir", t>>, <<"unit", t>>>> \o DeployNft(t),
              {<<"fetch", t>>, <<"dir", t>>, <<"unit", t>>} \cup Deploying(t), {} \cup {<<"enable", t>>})
    BY <2>2, <2>3, Deployed
  <2> QED BY <2>1, <2>4
<1>8. Piece(InstallHysteria,
            {<<"fetch", "hysteria">>, <<"dir", "hysteria">>, <<"unit", "hysteria">>}
              \cup Deploying("hysteria") \cup {<<"enable", "hysteria">>}, {})
  <2>1. {<<"enable", "hysteria">>} \ {<<"enable", "hysteria">>} = {}
    OBVIOUS
  <2> QED BY <1>c, <1>7, <2>1, PieceEnd DEF InstallHysteria
<1>9. Piece(InstallZivpn,
            {<<"fetch", "zivpn">>, <<"dir", "zivpn">>, <<"unit", "zivpn">>}
              \cup Deploying("zivpn") \cup CatchingAll \cup {<<"enable", "zivpn">>}, {})
  <2>1. ({<<"enable", "zivpn">>} \ CatchingAll) \cup {} \subseteq {<<"enable", "zivpn">>}
    OBVIOUS
  <2>2. Piece(<<<<"fetch", "zivpn">>, <<"dir", "zivpn">>, <<"unit", "zivpn">>>> \o DeployNft("zivpn")
                \o EnsureCatchall,
              {<<"fetch", "zivpn">>, <<"dir", "zivpn">>, <<"unit", "zivpn">>} \cup Deploying("zivpn")
                \cup CatchingAll, {<<"enable", "zivpn">>})
    BY <1>7, <2>1, BuiltPieces, PieceUnion
  <2>3. {<<"enable", "zivpn">>} \ {<<"enable", "zivpn">>} = {}
    OBVIOUS
  <2> QED BY <1>c, <2>2, <2>3, PieceEnd DEF InstallZivpn
<1> QED BY <1>1, <1>2, <1>3, <1>4, <1>5, <1>6, <1>8, <1>9

\* A script whose commands need nothing.
LEMMA Needless ==
  ASSUME NEW s \in Seq(Commands), \A c \in Cmds(s) : Needs(c) = {}
  PROVE  Piece(s, Cmds(s), {})
BY OwedAll

Balancing == {<<"dir", "haproxy">>, <<"unit", "haproxy_ssh">>, <<"enable", "haproxy_ssh">>}
LEMMA BalancerGives == Piece(SshBalancer, Balancing, {})
<1>1. PICK a \in Commands, b \in Commands, c \in Commands :
        a = <<"dir", "haproxy">> /\ b = <<"unit", "haproxy_ssh">> /\ c = <<"enable", "haproxy_ssh">>
  <2>1. <<"dir", "haproxy">> \in Commands
    BY NameSets DEF Commands
  <2>2. <<"unit", "haproxy_ssh">> \in Commands /\ <<"enable", "haproxy_ssh">> \in Commands
    BY NameSets DEF Commands, UnitOps
  <2> QED BY <2>1, <2>2
<1>2. Needs(a) = {} /\ Needs(b) \subseteq {c} /\ Needs(c) = {}
  BY <1>1, NeedsNothing, NeedsOf
<1>3. Piece(<<a, b, c>>, {a, b, c}, (Needs(a) \ {b, c}) \cup (Needs(b) \ {c}) \cup Needs(c))
  BY OwedTuples
<1>4. (Needs(a) \ {b, c}) \cup (Needs(b) \ {c}) \cup Needs(c) = {}
  BY <1>2
<1> QED BY <1>1, <1>3, <1>4 DEF SshBalancer, Balancing

Fronts == {<<"need", "haproxy">>, <<"conf", "panel">>} \cup Balancing
Certified == {<<"cert", "xray">>, <<"stop", "sshws">>, <<"start", "sshws">>}
LEMMA FrontsGive ==
  /\ Piece(HaproxyConf, Fronts, {<<"restart", "haproxy">>})
  /\ Piece(AcmeCert, Certified, {}) /\ Briefly(AcmeCert)
  /\ Piece(<<<<"dir", "pem">>>>, {<<"dir", "pem">>}, {<<"restart", "haproxy">>})
  /\ Piece(<<<<"restart", "haproxy">>>>, {<<"restart", "haproxy">>}, {})
  /\ Piece(XrayConf, {<<"dir", "xray_config">>}, {})
<1> DEFINE a == <<"need", "haproxy">>
           b == <<"conf", "panel">>
           c == <<"cert", "xray">>
           d == <<"stop", "sshws">>
           e == <<"start", "sshws">>
           f == <<"dir", "pem">>
           g == <<"restart", "haproxy">>
           h == <<"dir", "xray_config">>
<1>1. /\ a \in Commands /\ b \in Commands /\ c \in Commands /\ d \in Commands /\ e \in Commands
      /\ f \in Commands /\ g \in Commands /\ h \in Commands
  <2>1. /\ \A x \in Things, op \in {"dir", "rebuild", "rmdir", "wipe", "need"} : <<op, x>> \in Commands
        /\ \A x \in Services, op \in UnitOps : <<op, x>> \in Commands
    BY DEF Commands
  <2>2. b \in Commands /\ c \in Commands
    BY DEF Commands
  <2> QED BY <2>1, <2>2, NameSets DEF UnitOps
<1>2. /\ Needs(a) = {} /\ Needs(b) \subseteq {g} /\ Needs(c) = {} /\ Needs(d) = {} /\ Needs(e) = {}
      /\ Needs(f) \subseteq {g} /\ Needs(g) = {} /\ Needs(h) = {}
  <2>1. Needs(b) \subseteq {g} /\ Needs(f) \subseteq {g}
    BY NeedsOf
  <2>2. Needs(a) = {} /\ Needs(c) = {} /\ Needs(d) = {} /\ Needs(e) = {} /\ Needs(g) = {} /\ Needs(h) = {}
    BY <1>1, NeedsNothing
  <2> QED BY <2>1, <2>2
<1>3. /\ <<a, b>> \in Seq(Commands) /\ Cmds(<<a, b>>) = {a, b}
      /\ <<c, d, e>> \in Seq(Commands) /\ Cmds(<<c, d, e>>) = {c, d, e}
      /\ <<f>> \in Seq(Commands) /\ Cmds(<<f>>) = {f} /\ <<g>> \in Seq(Commands) /\ Cmds(<<g>>) = {g}
      /\ <<h>> \in Seq(Commands) /\ Cmds(<<h>>) = {h}
  <2> HIDE DEF a, b, c, d, e, f, g, h
  <2>1. /\ <<a, b>> \in Seq(Commands) /\ <<c, d, e>> \in Seq(Commands) /\ <<f>> \in Seq(Commands)
        /\ <<g>> \in Seq(Commands) /\ <<h>> \in Seq(Commands)
    BY <1>1
  <2>2. Cmds(<<a, b>>) = {a, b} /\ Cmds(<<f>>) = {f} /\ Cmds(<<g>>) = {g} /\ Cmds(<<h>>) = {h}
    BY CmdsTuples
  <2>3. Cmds(<<c, d, e>>) = {c, d, e}
    BY CmdsTuples
  <2> QED BY <2>1, <2>2, <2>3
<1>4. Piece(<<a, b>>, {a, b}, {g}) /\ Piece(<<f>>, {f}, {g})
  <2>1. (\A x \in {a, b} : Needs(x) \subseteq {g}) /\ (\A x \in {f} : Needs(x) \subseteq {g})
    <3> HIDE DEF a, b, c, d, e, f, g, h
    <3> QED BY <1>2
  <2> HIDE DEF a, b, c, d, e, f, g, h
  <2> QED BY <1>3, <2>1, OwedAll
<1>5. Piece(<<c, d, e>>, {c, d, e}, {}) /\ Piece(<<g>>, {g}, {}) /\ Piece(<<h>>, {h}, {})
  <2> HIDE DEF a, b, c, d, e, f, g, h
  <2> QED BY <1>2, <1>3, Needless
<1>6. Piece(HaproxyConf, Fronts, {<<"restart", "haproxy">>})
  <2>1. ({g} \ Balancing) \cup {} \subseteq {g}
    OBVIOUS
  <2>2. Piece(<<a, b>> \o SshBalancer, {a, b} \cup Balancing, {g})
    BY <1>4, <2>1, BalancerGives, PieceUnion
  <2> QED BY <1>1, <2>2 DEF HaproxyConf, Fronts
<1>7. Briefly(AcmeCert)
  <2>1. /\ Len(AcmeCert) = 3 /\ AcmeCert[1] = c /\ AcmeCert[2] = d /\ AcmeCert[3] = e
    BY DEF AcmeCert
  <2>2. \A i \in 1..3 : i = 1 \/ i = 2 \/ i = 3
    OBVIOUS
  <2>3. c # d /\ e # d
    OBVIOUS
  <2> QED BY <2>1, <2>2, <2>3 DEF Briefly
<1> QED BY <1>1, <1>4, <1>5, <1>6, <1>7 DEF AcmeCert, XrayConf, Certified

SlowdnsGives ==
  {<<"try", "dnsdist">>, <<"dir", "slowdns">>, <<"try", "slowdns">>} \cup Balancing \cup {<<"ns4", "lb">>}
    \cup Running("ns4") \cup Running("nv4") \cup {<<"stop", "dnsdist">>, <<"need", "dnsdist">>}
    \cup Deploying("slowdns")
    \cup {<<"enable", "dnsdist">>, <<"restart", "dnsdist">>, <<"restart", "ns4">>, <<"restart", "nv4">>,
          <<"cron", "slowdns">>}
LEMMA InstallSlowdnsGives == Piece(InstallSlowdns, SlowdnsGives, {})
<1> DEFINE a == <<"try", "dnsdist">>
           b == <<"dir", "slowdns">>
           c == <<"try", "slowdns">>
           d == <<"ns4", "lb">>
           e == <<"stop", "dnsdist">>
           f == <<"need", "dnsdist">>
           g == <<"enable", "dnsdist">>
           h == <<"restart", "dnsdist">>
           k == <<"restart", "ns4">>
           l == <<"restart", "nv4">>
           m == <<"cron", "slowdns">>
<1>1. /\ a \in Commands /\ b \in Commands /\ c \in Commands /\ d \in Commands /\ e \in Commands
      /\ f \in Commands /\ g \in Commands /\ h \in Commands /\ k \in Commands /\ l \in Commands
      /\ m \in Commands
  <2>1. /\ \A x \in Things, op \in {"dir", "rebuild", "rmdir", "wipe", "need"} : <<op, x>> \in Commands
        /\ \A x \in Services, op \in UnitOps : <<op, x>> \in Commands
        /\ \A x \in Parts : <<"try", x>> \in Commands
    BY DEF Commands
  <2>2. d \in Commands /\ m \in Commands
    BY DEF Commands, Lines
  <2> QED BY <2>1, <2>2, NameSets DEF UnitOps
<1>2. /\ Needs(a) \subseteq OwingDns /\ Needs(b) = {} /\ Needs(c) \subseteq OwingDns /\ Needs(d) = {}
      /\ Needs(e) \subseteq {h} /\ Needs(f) = {} /\ Needs(g) = {} /\ Needs(h) = {} /\ Needs(k) = {}
      /\ Needs(l) = {} /\ Needs(m) = {}
  <2>1. Needs(a) \subseteq OwingDns /\ Needs(c) \subseteq OwingDns
    BY ObtainNeeds
  <2>2. Needs(b) = {} /\ Needs(d) = {} /\ Needs(f) = {} /\ Needs(g) = {} /\ Needs(h) = {}
        /\ Needs(k) = {} /\ Needs(l) = {} /\ Needs(m) = {}
    BY <1>1, NeedsNothing
  <2>3. Needs(e) \subseteq {h}
    BY NeedsOf
  <2> QED BY <2>1, <2>2, <2>3
<1>3. /\ <<a, b, c>> \in Seq(Commands) /\ Cmds(<<a, b, c>>) = {a, b, c}
      /\ <<d>> \in Seq(Commands) /\ Cmds(<<d>>) = {d}
      /\ <<e, f>> \in Seq(Commands) /\ Cmds(<<e, f>>) = {e, f}
  <2> HIDE DEF a, b, c, d, e, f, g, h, k, l, m
  <2> QED BY <1>1, CmdsTuples
<1>4. <<g, h, k, l, m>> \in Seq(Commands) /\ Cmds(<<g, h, k, l, m>>) = {g, h, k, l, m}
  <2> HIDE DEF g, h, k, l, m
  <2> QED BY <1>1 DEF Cmds
<1>5. Piece(<<a, b, c>>, {a, b, c}, OwingDns) /\ Piece(<<d>>, {d}, {}) /\ Piece(<<e, f>>, {e, f}, {h})
      /\ Piece(<<g, h, k, l, m>>, {g, h, k, l, m}, {})
  <2> HIDE DEF a, b, c, d, e, f, g, h, k, l, m
  <2>1. /\ \A x \in {a, b, c} : Needs(x) \subseteq OwingDns
        /\ \A x \in {e, f} : Needs(x) \subseteq {h}
    BY <1>2
  <2>2. Piece(<<a, b, c>>, {a, b, c}, OwingDns) /\ Piece(<<e, f>>, {e, f}, {h})
    BY <1>3, <2>1, OwedAll
  <2>3. Piece(<<d>>, {d}, {}) /\ Piece(<<g, h, k, l, m>>, {g, h, k, l, m}, {})
    BY <1>2, <1>3, <1>4, Needless
  <2> QED BY <2>2, <2>3
<1>6. /\ Piece(RunUnit("ns4"), Running("ns4"), {}) /\ Piece(RunUnit("nv4"), Running("nv4"), {})
      /\ Piece(DeployNft("slowdns"), Deploying("slowdns"), {})
  BY BuiltPieces, NameSets
<1> DEFINE s1 == <<a, b, c>> \o SshBalancer
           s2 == s1 \o <<d>>
           s3 == s2 \o RunUnit("ns4") \o RunUnit("nv4")
           s4 == s3 \o <<e, f>>
           s5 == s4 \o DeployNft("slowdns")
           C1 == {a, b, c} \cup Balancing
           C2 == C1 \cup {d}
           C3 == C2 \cup Running("ns4") \cup Running("nv4")
           C4 == C3 \cup {e, f}
           C5 == C4 \cup Deploying("slowdns")
<1>7. Piece(s1, C1, OwingDns)
  <2>1. (OwingDns \ Balancing) \cup {} \subseteq OwingDns
    OBVIOUS
  <2> QED BY <1>5, <2>1, BalancerGives, PieceUnion
<1> HIDE DEF s1, C1
<1>8. Piece(s2, C2, OwingDns)
  <2>1. (OwingDns \ {d}) \cup {} \subseteq OwingDns
    OBVIOUS
  <2> QED BY <1>5, <1>7, <2>1, PieceUnion
<1> HIDE DEF s2, C2
<1>9. Piece(s3, C3, {<<"nftload", "slowdns">>, g})
  <2>1. (OwingDns \ Running("ns4")) \cup {} \subseteq {<<"nftload", "slowdns">>, <<"enable", "nv4">>, g}
    BY DEF OwingDns, Running
  <2>2. Piece(s2 \o RunUnit("ns4"), C2 \cup Running("ns4"), {<<"nftload", "slowdns">>, <<"enable", "nv4">>, g})
    BY <1>6, <1>8, <2>1, PieceUnion
  <2>3. ({<<"nftload", "slowdns">>, <<"enable", "nv4">>, g} \ Running("nv4")) \cup {} \subseteq
          {<<"nftload", "slowdns">>, g}
    BY DEF Running
  <2> QED BY <1>6, <2>2, <2>3, PieceUnion
<1> HIDE DEF s3, C3
<1>10. Piece(s4, C4, {<<"nftload", "slowdns">>, g, h})
  <2>1. ({<<"nftload", "slowdns">>, g} \ {e, f}) \cup {h} \subseteq {<<"nftload", "slowdns">>, g, h}
    OBVIOUS
  <2> QED BY <1>5, <1>9, <2>1, PieceUnion
<1> HIDE DEF s4, C4
<1>11. Piece(s5, C5, {g, h})
  <2>1. ({<<"nftload", "slowdns">>, g, h} \ Deploying("slowdns")) \cup {} \subseteq {g, h}
    BY DEF Deploying
  <2> QED BY <1>6, <1>10, <2>1, PieceUnion
<1> HIDE DEF s5, C5
<1>12. Piece(s5 \o <<g, h, k, l, m>>, C5 \cup {g, h, k, l, m}, {})
  <2>1. ({g, h} \ {g, h, k, l, m}) \cup {} \subseteq {}
    OBVIOUS
  <2> QED BY <1>5, <1>11, <2>1, PieceUnion
<1> QED BY <1>12 DEF InstallSlowdns, SlowdnsGives, s1, s2, s3, s4, s5, C1, C2, C3, C4, C5

XrayGives ==
  {<<"try", "haproxy">>, <<"fetch", "xray">>, <<"dir", "xray">>} \cup Certified \cup {<<"dir", "pem">>}
    \cup {<<"dir", "xray_config">>} \cup Fronts \cup {<<"unit", "xray">>} \cup Deploying("xray")
    \cup {<<"restart", "haproxy">>, <<"enable", "xray">>}
    \cup {<<"cron", "haproxy">>, <<"cron", "services">>, <<"cron", "xray">>}
LEMMA InstallXrayGives == Piece(InstallXray, XrayGives, {}) /\ Briefly(InstallXray)
<1> DEFINE a == <<"try", "haproxy">>
           b == <<"fetch", "xray">>
           c == <<"dir", "xray">>
           d == <<"unit", "xray">>
           e == <<"restart", "haproxy">>
           f == <<"enable", "xray">>
           g == <<"cron", "haproxy">>
           h == <<"cron", "services">>
           k == <<"cron", "xray">>
<1>1. /\ a \in Commands /\ b \in Commands /\ c \in Commands /\ d \in Commands /\ e \in Commands
      /\ f \in Commands /\ g \in Commands /\ h \in Commands /\ k \in Commands
  <2>1. /\ \A x \in Things, op \in {"dir", "rebuild", "rmdir", "wipe", "need"} : <<op, x>> \in Commands
        /\ \A x \in Services, op \in UnitOps : <<op, x>> \in Commands
        /\ \A x \in Parts, op \in {"fetch", "try"} : <<op, x>> \in Commands
    BY DEF Commands
  <2>2. g \in Commands /\ h \in Commands /\ k \in Commands
    BY DEF Commands, Lines
  <2> QED BY <2>1, <2>2, NameSets DEF UnitOps
<1>2. /\ Needs(a) \subseteq OwingXray /\ Needs(b) \subseteq OwingXray /\ Needs(c) = {} /\ Needs(d) \subseteq {f}
      /\ Needs(e) = {} /\ Needs(f) = {} /\ Needs(g) = {} /\ Needs(h) = {} /\ Needs(k) = {}
  <2>1. Needs(a) \subseteq OwingXray /\ Needs(b) \subseteq OwingXray
    BY ObtainNeeds
  <2>2. Needs(c) = {} /\ Needs(e) = {} /\ Needs(f) = {} /\ Needs(g) = {}
        /\ Needs(h) = {} /\ Needs(k) = {}
    BY <1>1, NeedsNothing
  <2>3. Needs(d) \subseteq {f}
    BY NeedsOf
  <2> QED BY <2>1, <2>2, <2>3
<1>3. /\ Piece(<<a, b, c>>, {a, b, c}, OwingXray) /\ Piece(<<d>>, {d}, {f}) /\ Piece(<<e, f>>, {e, f}, {})
      /\ Piece(<<g, h>>, {g, h}, {}) /\ Piece(<<k>>, {k}, {})
  <2> HIDE DEF a, b, c, d, e, f, g, h, k
  <2>1. /\ <<a, b, c>> \in Seq(Commands) /\ <<d>> \in Seq(Commands) /\ <<e, f>> \in Seq(Commands)
        /\ <<g, h>> \in Seq(Commands) /\ <<k>> \in Seq(Commands)
    BY <1>1
  <2>2. /\ Cmds(<<a, b, c>>) = {a, b, c} /\ Cmds(<<d>>) = {d} /\ Cmds(<<e, f>>) = {e, f}
        /\ Cmds(<<g, h>>) = {g, h} /\ Cmds(<<k>>) = {k}
    BY CmdsTuples
  <2>3. \A x \in {a, b, c} : Needs(x) \subseteq OwingXray
    BY <1>2
  <2>4. Piece(<<a, b, c>>, {a, b, c}, OwingXray)
    BY <2>1, <2>2, <2>3, OwedAll
  <2>5. Piece(<<e, f>>, {e, f}, {}) /\ Piece(<<g, h>>, {g, h}, {}) /\ Piece(<<k>>, {k}, {})
    BY <1>2, <2>1, <2>2, Needless
  <2>6. \A x \in {d} : Needs(x) \subseteq {f}
    BY <1>2
  <2>7. Piece(<<d>>, {d}, {f})
    BY <2>1, <2>2, <2>6, OwedAll
  <2> QED BY <2>4, <2>5, <2>7
<1>4. Piece(DeployNft("xray"), Deploying("xray"), {})
  BY BuiltPieces, NameSets
<1>5. Piece(XrayCrons, {g, h} \cup {k}, {})
  <2>1. ({} \ {k}) \cup {} \subseteq {}
    OBVIOUS
  <2> QED BY <1>3, <2>1, PieceUnion DEF XrayCrons, XrayWatchdog
<1>6. Briefly(<<a, b, c>>) /\ Briefly(<<<<"dir", "pem">>>>) /\ Briefly(XrayConf) /\ Briefly(HaproxyConf)
      /\ Briefly(<<d>>) /\ Briefly(DeployNft("xray")) /\ Briefly(<<e, f>>) /\ Briefly(XrayCrons)
  <2>1. /\ <<"stop", "sshws">> \notin {a, b, c} /\ <<"stop", "sshws">> \notin {<<"dir", "pem">>}
        /\ <<"stop", "sshws">> \notin {<<"dir", "xray_config">>} /\ <<"stop", "sshws">> \notin Fronts
        /\ <<"stop", "sshws">> \notin {d} /\ <<"stop", "sshws">> \notin Deploying("xray")
        /\ <<"stop", "sshws">> \notin {e, f} /\ <<"stop", "sshws">> \notin {g, h} \cup {k}
    BY DEF Fronts, Balancing, Deploying
  <2> HIDE DEF a, b, c, d, e, f, g, h, k
  <2>2. ASSUME NEW s, NEW C, NEW O, Piece(s, C, O), <<"stop", "sshws">> \notin C
        PROVE  Briefly(s)
    BY <2>2, NeverStops DEF Piece
  <2>3. Briefly(<<a, b, c>>) /\ Briefly(<<d>>) /\ Briefly(<<e, f>>)
    BY <1>3, <2>1, <2>2
  <2>4. Briefly(DeployNft("xray")) /\ Briefly(XrayCrons)
    BY <1>4, <1>5, <2>1, <2>2
  <2>5. Briefly(<<<<"dir", "pem">>>>) /\ Briefly(XrayConf) /\ Briefly(HaproxyConf)
    BY <2>1, <2>2, FrontsGive
  <2> QED BY <2>3, <2>4, <2>5
<1> DEFINE s1 == <<a, b, c>> \o AcmeCert
           s2 == s1 \o <<<<"dir", "pem">>>>
           s3 == s2 \o XrayConf
           s4 == s3 \o HaproxyConf
           s5 == s4 \o <<d>>
           s6 == s5 \o DeployNft("xray")
           s7 == s6 \o <<e, f>>
           C1 == {a, b, c} \cup Certified
           C2 == C1 \cup {<<"dir", "pem">>}
           C3 == C2 \cup {<<"dir", "xray_config">>}
           C4 == C3 \cup Fronts
           C5 == C4 \cup {d}
           C6 == C5 \cup Deploying("xray")
           C7 == C6 \cup {e, f}
           O2 == OwingXray \ {<<"dir", "pem">>}
           O4 == {<<"nftload", "xray">>, e, f}
<1>11. Piece(s1, C1, OwingXray) /\ Briefly(s1)
  <2>1. (OwingXray \ Certified) \cup {} \subseteq OwingXray
    OBVIOUS
  <2> QED BY <1>3, <1>6, <2>1, FrontsGive, PieceUnion, PieceJoined
<1> HIDE DEF s1, C1
<1>12. Piece(s2, C2, O2) /\ Briefly(s2)
  <2>1. (OwingXray \ {<<"dir", "pem">>}) \cup {<<"restart", "haproxy">>} \subseteq O2
    BY DEF OwingXray
  <2> QED BY <1>6, <1>11, <2>1, FrontsGive, PieceUnion, PieceJoined
<1> HIDE DEF s2, C2
<1>13. Piece(s3, C3, O2) /\ Briefly(s3)
  <2>1. (O2 \ {<<"dir", "xray_config">>}) \cup {} \subseteq O2
    OBVIOUS
  <2> HIDE DEF O2
  <2> QED BY <1>6, <1>12, <2>1, FrontsGive, PieceUnion, PieceJoined
<1> HIDE DEF s3, C3
<1>14. Piece(s4, C4, O4) /\ Briefly(s4)
  <2>1. (O2 \ Fronts) \cup {<<"restart", "haproxy">>} \subseteq O4
    BY DEF OwingXray, Fronts, Balancing
  <2> HIDE DEF O2, O4
  <2> QED BY <1>6, <1>13, <2>1, FrontsGive, PieceUnion, PieceJoined
<1> HIDE DEF s4, C4
<1>15. Piece(s5, C5, O4) /\ Briefly(s5)
  <2>1. (O4 \ {d}) \cup {f} \subseteq O4
    OBVIOUS
  <2> HIDE DEF O4
  <2> QED BY <1>3, <1>6, <1>14, <2>1, PieceUnion, PieceJoined
<1> HIDE DEF s5, C5
<1>16. Piece(s6, C6, {e, f}) /\ Briefly(s6)
  <2>1. (O4 \ Deploying("xray")) \cup {} \subseteq {e, f}
    BY DEF Deploying
  <2> HIDE DEF O4
  <2> QED BY <1>4, <1>6, <1>15, <2>1, PieceUnion, PieceJoined
<1> HIDE DEF s6, C6
<1>17. Piece(s7, C7, {}) /\ Briefly(s7)
  <2>1. ({e, f} \ {e, f}) \cup {} \subseteq {}
    OBVIOUS
  <2> QED BY <1>3, <1>6, <1>16, <2>1, PieceUnion, PieceJoined
<1> HIDE DEF s7, C7
<1>18. Piece(s7 \o XrayCrons, C7 \cup ({g, h} \cup {k}), {}) /\ Briefly(s7 \o XrayCrons)
  <2>1. ({} \ ({g, h} \cup {k})) \cup {} \subseteq {}
    OBVIOUS
  <2> QED BY <1>5, <1>6, <1>17, <2>1, PieceUnion, PieceJoined
<1>19. {g, h} \cup {k} = {g, h, k}
  OBVIOUS
<1> QED BY <1>18, <1>19
     DEF InstallXray, XrayStarted, XrayGives, s1, s2, s3, s4, s5, s6, s7, C1, C2, C3, C4, C5, C6, C7

\* A removal owes nothing once the program of its service is wiped.
LEMMA Wiped ==
  ASSUME NEW t \in Services, t \in Things
  PROVE  LET s == EndUnit(t) \o <<<<"wipe", t>>>> \o RemoveNft(t) IN
         t \in Tables => Piece(s, Ceasing(t) \cup {<<"wipe", t>>} \cup Removing(t), {})
<1> SUFFICES ASSUME t \in Tables
             PROVE  Piece(EndUnit(t) \o <<<<"wipe", t>>>> \o RemoveNft(t),
                          Ceasing(t) \cup {<<"wipe", t>>} \cup Removing(t), {})
  OBVIOUS
<1>1. Piece(EndUnit(t), Ceasing(t), {<<"wipe", t>>}) /\ Piece(RemoveNft(t), Removing(t), {})
  BY BuiltPieces
<1>2. <<"wipe", t>> \in Commands /\ Needs(<<"wipe", t>>) = {}
  <2>1. <<"wipe", t>> \in Commands
    BY DEF Commands
  <2> QED BY <2>1, NeedsNothing
<1>3. Piece(EndUnit(t) \o <<<<"wipe", t>>>>, Ceasing(t) \cup {<<"wipe", t>>}, {})
  <2>1. {<<"wipe", t>>} \ {<<"wipe", t>>} = {}
    OBVIOUS
  <2>2. Piece(EndUnit(t) \o <<<<"wipe", t>>>>, Ceasing(t) \cup {<<"wipe", t>>}, {<<"wipe", t>>} \ {<<"wipe", t>>})
    BY <1>1, <1>2, PieceEnd
  <2> QED BY <2>1, <2>2
<1>4. ({} \ Removing(t)) \cup {} \subseteq {}
  OBVIOUS
<1> QED BY <1>1, <1>3, <1>4, PieceUnion

\* Scripts that owe nothing, one after the other.
LEMMA PieceAfter ==
  ASSUME NEW s, NEW t, NEW C, NEW D, Piece(s, C, {}), Piece(t, D, {})
  PROVE  Piece(s \o t, C \cup D, {})
<1>1. ({} \ D) \cup {} \subseteq {}
  OBVIOUS
<1> QED BY <1>1, PieceUnion

Undone(t) == Ceasing(t) \cup {<<"wipe", t>>} \cup Removing(t)
LEMMA UninstallsGive ==
  /\ Piece(UninstallDropbear, Undone("dropbear"), {}) /\ Piece(UninstallSslTls, Undone("ssl_tls"), {})
  /\ Piece(UninstallBadvpn, Undone("badvpn"), {})
  /\ Piece(UninstallHysteria, Undone("hysteria") \cup CatchingAll, {})
  /\ Piece(UninstallZivpn, Undone("zivpn") \cup CatchingAll, {})
  /\ Piece(UninstallUdpCustom, Undone("udp_custom") \cup Removing("catchall") \cup {<<"rmcron", "dedup">>}, {})
<1>1. \A t \in {"dropbear", "ssl_tls", "badvpn", "hysteria", "zivpn", "udp_custom"} :
        Piece(EndUnit(t) \o <<<<"wipe", t>>>> \o RemoveNft(t), Undone(t), {})
  <2>1. \A t \in {"dropbear", "ssl_tls", "badvpn", "hysteria", "zivpn", "udp_custom"} :
          t \in Services /\ t \in Things /\ t \in Tables
    BY NameSets
  <2> QED BY <2>1, Wiped DEF Undone
<1>2. Piece(EnsureCatchall, CatchingAll, {}) /\ Piece(RemoveNft("catchall"), Removing("catchall"), {})
  BY BuiltPieces, NameSets
<1>3. Piece(<<<<"rmcron", "dedup">>>>, {<<"rmcron", "dedup">>}, {})
  <2>1. PICK a \in Commands : a = <<"rmcron", "dedup">>
    BY DEF Commands, Lines
  <2>2. Needs(a) = {} /\ <<a>> \in Seq(Commands) /\ Cmds(<<a>>) = {a}
    BY <2>1, NeedsNothing, CmdsTuples
  <2>3. Piece(<<a>>, {a}, {})
    BY <2>2, Needless
  <2> QED BY <2>1, <2>3
<1>4. /\ Piece(UninstallDropbear, Undone("dropbear"), {}) /\ Piece(UninstallSslTls, Undone("ssl_tls"), {})
      /\ Piece(UninstallBadvpn, Undone("badvpn"), {})
  BY <1>1 DEF UninstallDropbear, UninstallSslTls, UninstallBadvpn
<1>5. /\ Piece(UninstallHysteria, Undone("hysteria") \cup CatchingAll, {})
      /\ Piece(UninstallZivpn, Undone("zivpn") \cup CatchingAll, {})
  BY <1>1, <1>2, PieceAfter DEF UninstallHysteria, UninstallZivpn
<1>6. Piece(UninstallUdpCustom, Undone("udp_custom") \cup Removing("catchall") \cup {<<"rmcron", "dedup">>}, {})
  <2>1. Piece(EndUnit("udp_custom") \o <<<<"wipe", "udp_custom">>>> \o RemoveNft("udp_custom")
                \o RemoveNft("catchall"), Undone("udp_custom") \cup Removing("catchall"), {})
    BY <1>1, <1>2, PieceAfter
  <2> QED BY <1>3, <2>1, PieceAfter DEF UninstallUdpCustom
<1> QED BY <1>4, <1>5, <1>6

SshwsUndone ==
  Ceasing("sshws") \cup {<<"stop", "sshws">>, <<"wipe", "sshws">>} \cup Removing("sshws")
    \cup Ceasing("ws_dropbear") \cup Removing("ws_dropbear")
    \cup Ceasing("ws_stunnel") \cup Removing("ws_stunnel")
LEMMA UninstallSshwsGives == Piece(UninstallSshws, SshwsUndone, {}) /\ Briefly(UninstallSshws)
<1>n. "sshws" \in Services /\ "ws_dropbear" \in Services \ Kept /\ "ws_stunnel" \in Services \ Kept
      /\ {"sshws", "ws_dropbear", "ws_stunnel"} \subseteq Tables
  BY NameSets, KeptNames
<1> DEFINE a == <<"stop", "sshws">>
           b == <<"wipe", "sshws">>
<1>1. Piece(<<a, b>>, {a, b}, {}) /\ Briefly(<<a, b>>)
  <2>1. a \in Commands /\ b \in Commands
    BY NameSets DEF Commands, UnitOps
  <2>2. Needs(a) = {} /\ Needs(b) = {}
    BY <2>1, NeedsNothing
  <2>3. Briefly(<<a, b>>)
    BY DEF Briefly
  <2> HIDE DEF a, b
  <2>4. <<a, b>> \in Seq(Commands) /\ Cmds(<<a, b>>) = {a, b}
    BY <2>1, CmdsTuples
  <2> QED BY <2>2, <2>3, <2>4, Needless
<1>2. /\ Piece(EndUnit("sshws"), Ceasing("sshws"), {b})
      /\ Piece(EndUnit("ws_dropbear"), Ceasing("ws_dropbear"), {})
      /\ Piece(EndUnit("ws_stunnel"), Ceasing("ws_stunnel"), {})
      /\ Piece(RemoveNft("sshws"), Removing("sshws"), {})
      /\ Piece(RemoveNft("ws_dropbear"), Removing("ws_dropbear"), {})
      /\ Piece(RemoveNft("ws_stunnel"), Removing("ws_stunnel"), {})
  BY <1>n, BuiltPieces
<1>3. Piece(EndUnit("sshws") \o <<a, b>>, Ceasing("sshws") \cup {a, b}, {})
  <2>1. ({b} \ {a, b}) \cup {} \subseteq {}
    OBVIOUS
  <2> QED BY <1>1, <1>2, <2>1, PieceUnion
<1>4. Piece(UninstallSshws, SshwsUndone, {})
  BY <1>2, <1>3, PieceAfter DEF UninstallSshws, SshwsUndone
<1>5. /\ Briefly(EndUnit("sshws")) /\ Briefly(EndUnit("ws_dropbear")) /\ Briefly(EndUnit("ws_stunnel"))
      /\ Briefly(RemoveNft("sshws")) /\ Briefly(RemoveNft("ws_dropbear")) /\ Briefly(RemoveNft("ws_stunnel"))
  <2>1. \A x : <<"stop", "sshws">> \notin Ceasing(x) /\ <<"stop", "sshws">> \notin Removing(x)
    BY DEF Ceasing, Removing
  <2> QED BY <1>2, <2>1, NeverStops DEF Piece
<1> DEFINE s1 == EndUnit("sshws") \o <<a, b>>
           s2 == s1 \o RemoveNft("sshws")
           s3 == s2 \o EndUnit("ws_dropbear")
           s4 == s3 \o RemoveNft("ws_dropbear")
           s5 == s4 \o EndUnit("ws_stunnel")
           s6 == s5 \o RemoveNft("ws_stunnel")
<1>6. UninstallSshws = s6
  BY DEF UninstallSshws
<1> DEFINE Brief(s) == Briefly(s) /\ \E C, O : Piece(s, C, O)
<1>7. ASSUME NEW s, NEW t, Brief(s), Brief(t) PROVE Brief(s \o t)
  <2>1. Briefly(s) /\ Briefly(t)
    BY <1>7
  <2>2. PICK C, O : Piece(s, C, O)
    BY <1>7
  <2>3. PICK D, P : Piece(t, D, P)
    BY <1>7
  <2>4. Piece(s \o t, C \cup D, (O \ D) \cup P) /\ Briefly(s \o t)
    BY <2>1, <2>2, <2>3, PieceJoined
  <2> QED BY <2>4
<1>8. /\ Brief(<<a, b>>) /\ Brief(EndUnit("sshws")) /\ Brief(EndUnit("ws_dropbear")) /\ Brief(EndUnit("ws_stunnel"))
      /\ Brief(RemoveNft("sshws")) /\ Brief(RemoveNft("ws_dropbear")) /\ Brief(RemoveNft("ws_stunnel"))
  BY <1>1, <1>2, <1>5
<1>9. Brief(s6)
  <2> HIDE DEF Brief
  <2>1. Brief(s1)
    BY <1>7, <1>8
  <2> HIDE DEF s1
  <2>2. Brief(s2)
    BY <1>7, <1>8, <2>1
  <2> HIDE DEF s2
  <2>3. Brief(s3)
    BY <1>7, <1>8, <2>2
  <2> HIDE DEF s3
  <2>4. Brief(s4)
    BY <1>7, <1>8, <2>3
  <2> HIDE DEF s4
  <2>5. Brief(s5)
    BY <1>7, <1>8, <2>4
  <2> HIDE DEF s5
  <2> QED BY <1>7, <1>8, <2>5
<1> HIDE DEF s6
<1>10. Briefly(s6)
  BY <1>9
<1> QED BY <1>4, <1>6, <1>10

DnsUndone ==
  Ceasing("ns4") \cup Ceasing("nv4") \cup {<<"disable", "dnsdist">>, <<"wipe", "slowdns">>, <<"rmdir", "dnsdist">>}
    \cup Removing("slowdns") \cup {<<"wipe", "dnsdist">>, <<"rmcron", "slowdns">>}
LEMMA UninstallSlowdnsGives == Piece(UninstallSlowdns, DnsUndone, {})
<1> DEFINE a == <<"disable", "dnsdist">>
           b == <<"wipe", "slowdns">>
           c == <<"rmdir", "dnsdist">>
           d == <<"wipe", "dnsdist">>
           e == <<"rmcron", "slowdns">>
<1>1. Piece(<<a, b, c>>, {a, b, c}, {d}) /\ Piece(<<d, e>>, {d, e}, {})
  <2>1. a \in Commands /\ b \in Commands /\ c \in Commands /\ d \in Commands /\ e \in Commands
    BY NameSets DEF Commands, UnitOps, Lines
  <2>2. Needs(a) \subseteq {d} /\ Needs(b) = {} /\ Needs(c) = {} /\ Needs(d) = {} /\ Needs(e) = {}
    BY <2>1, NeedsNothing, NeedsOf
  <2> HIDE DEF a, b, c, d, e
  <2>3. <<a, b, c>> \in Seq(Commands) /\ Cmds(<<a, b, c>>) = {a, b, c}
    BY <2>1, CmdsTuples
  <2>4. <<d, e>> \in Seq(Commands) /\ Cmds(<<d, e>>) = {d, e}
    BY <2>1, CmdsTuples
  <2>5. \A x \in {a, b, c} : Needs(x) \subseteq {d}
    BY <2>2
  <2>6. Piece(<<a, b, c>>, {a, b, c}, {d})
    BY <2>3, <2>5, OwedAll
  <2>7. Piece(<<d, e>>, {d, e}, {})
    BY <2>2, <2>4, Needless
  <2> QED BY <2>6, <2>7
<1>2. /\ Piece(EndUnit("ns4"), Ceasing("ns4"), {}) /\ Piece(EndUnit("nv4"), Ceasing("nv4"), {})
      /\ Piece(RemoveNft("slowdns"), Removing("slowdns"), {})
  BY BuiltPieces, NameSets, KeptNames
<1>3. Piece(EndUnit("ns4") \o EndUnit("nv4"), Ceasing("ns4") \cup Ceasing("nv4"), {})
  BY <1>2, PieceAfter
<1>4. Piece(EndUnit("ns4") \o EndUnit("nv4") \o <<a, b, c>>, Ceasing("ns4") \cup Ceasing("nv4") \cup {a, b, c}, {d})
  <2>1. ({} \ {a, b, c}) \cup {d} \subseteq {d}
    OBVIOUS
  <2> QED BY <1>1, <1>3, <2>1, PieceUnion
<1>5. Piece(EndUnit("ns4") \o EndUnit("nv4") \o <<a, b, c>> \o RemoveNft("slowdns"),
            Ceasing("ns4") \cup Ceasing("nv4") \cup {a, b, c} \cup Removing("slowdns"), {d})
  <2>1. ({d} \ Removing("slowdns")) \cup {} \subseteq {d}
    OBVIOUS
  <2> QED BY <1>2, <1>4, <2>1, PieceUnion
<1>6. ({d} \ {d, e}) \cup {} \subseteq {}
  OBVIOUS
<1> QED BY <1>1, <1>5, <1>6, PieceUnion DEF UninstallSlowdns, DnsUndone

XrayUndone ==
  {<<"disable", "xray">>, <<"disable_unless_v2ray", "haproxy">>, <<"wipe", "xray">>, <<"rmdir", "xray_config">>,
   <<"rmdir", "pem">>, <<"rmunit", "xray">>, <<"rmcron", "xray">>, <<"rmcron", "haproxy">>} \cup Removing("xray")
LEMMA UninstallXrayGives == Piece(UninstallXray, XrayUndone, {})
<1> DEFINE a == <<"disable", "xray">>
           b == <<"disable_unless_v2ray", "haproxy">>
           c == <<"wipe", "xray">>
           d == <<"rmdir", "xray_config">>
           e == <<"rmdir", "pem">>
           f == <<"rmunit", "xray">>
           g == <<"rmcron", "xray">>
           h == <<"rmcron", "haproxy">>
<1>1. /\ a \in Commands /\ b \in Commands /\ c \in Commands /\ d \in Commands /\ e \in Commands
      /\ f \in Commands /\ g \in Commands /\ h \in Commands
  <2>1. /\ \A x \in Things, op \in {"dir", "rebuild", "rmdir", "wipe", "need"} : <<op, x>> \in Commands
        /\ \A x \in Services, op \in UnitOps : <<op, x>> \in Commands
        /\ \A x \in Lines, op \in {"cron", "rmcron"} : <<op, x>> \in Commands
    BY DEF Commands
  <2> QED BY <2>1, NameSets DEF UnitOps, Lines
<1>2. /\ Needs(a) \subseteq {c} /\ Needs(b) = {} /\ Needs(c) = {} /\ Needs(d) = {} /\ Needs(e) = {}
      /\ Needs(f) = {} /\ Needs(g) = {} /\ Needs(h) = {}
  <2>1. Needs(a) \subseteq {c}
    BY NeedsOf
  <2> QED BY <1>1, <2>1, NeedsNothing
<1> DEFINE s == <<a, b, c, d, e, f, g, h>>
<1>3. Piece(s, {a, b, c, d, e, f, g, h}, {})
  <2> HIDE DEF a, b, c, d, e, f, g, h
  <2>1. s \in Seq(Commands) /\ Len(s) = 8 /\ s[1] = a /\ s[2] = b /\ s[3] = c /\ s[4] = d /\ s[5] = e /\ s[6] = f
        /\ s[7] = g /\ s[8] = h
    BY <1>1
  <2>2. \A i \in 1..8 : i = 1 \/ i = 2 \/ i = 3 \/ i = 4 \/ i = 5 \/ i = 6 \/ i = 7 \/ i = 8
    OBVIOUS
  <2> HIDE DEF s
  <2>3. Cmds(s) = {a, b, c, d, e, f, g, h}
    BY <2>1, <2>2 DEF Cmds
  <2>4. ASSUME NEW x \in Owed(s) PROVE FALSE
    <3>1. PICK i \in 1..Len(s) : x \in Needs(s[i]) /\ \A j \in (i+1)..Len(s) : s[j] # x
      BY DEF Owed
    <3>2. i = 1 /\ x = c
      BY <1>2, <2>1, <2>2, <3>1
    <3>3. 3 \in (i+1)..Len(s)
      BY <2>1, <3>2
    <3> QED BY <2>1, <3>1, <3>2, <3>3
  <2> QED BY <2>1, <2>3, <2>4 DEF Piece
<1>4. Piece(RemoveNft("xray"), Removing("xray"), {})
  BY BuiltPieces, NameSets
<1> QED BY <1>3, <1>4, PieceAfter DEF UninstallXray, XrayUndone

V2rayUndone == {<<"disable", "v2ray">>, <<"wipe", "v2ray">>} \cup Removing("v2ray")
DomainGives == Certified \cup {<<"dir", "pem">>} \cup Fronts \cup {<<"restart", "haproxy">>}
LEMMA OthersGive ==
  /\ Piece(UninstallV2ray, V2rayUndone, {})
  /\ Piece(ConfigureSlowdns, {<<"ns4", "dropbear">>, <<"restart", "ns4">>, <<"restart", "nv4">>, <<"restart", "dnsdist">>}, {})
  /\ Piece(RepairHaproxy, {<<"rebuild", "pem">>, <<"restart_valid", "haproxy">>}, {})
  /\ Piece(ChangeDomain, DomainGives, {}) /\ Briefly(ChangeDomain)
  /\ Piece(UninstallRest, {<<"disable", "haproxy">>, <<"drop_all", "">>}, {})
<1>1. Piece(UninstallV2ray, V2rayUndone, {})
  <2> DEFINE a == <<"disable", "v2ray">>
             b == <<"wipe", "v2ray">>
  <2>1. a \in Commands /\ b \in Commands
    BY NameSets DEF Commands, UnitOps
  <2>2. Needs(a) \subseteq {b} /\ Needs(b) = {}
    BY <2>1, NeedsOf, NeedsNothing
  <2>3. Piece(<<a, b>>, {a, b}, {})
    <3> HIDE DEF a, b
    <3>1. Piece(<<a, b>>, {a, b}, (Needs(a) \ {b}) \cup Needs(b)) /\ (Needs(a) \ {b}) \cup Needs(b) = {}
      BY <2>1, <2>2, OwedTuples
    <3> QED BY <3>1
  <2>4. Piece(RemoveNft("v2ray"), Removing("v2ray"), {})
    BY BuiltPieces, NameSets
  <2> QED BY <2>3, <2>4, PieceAfter DEF UninstallV2ray, V2rayUndone
<1>2. Piece(ConfigureSlowdns,
            {<<"ns4", "dropbear">>, <<"restart", "ns4">>, <<"restart", "nv4">>, <<"restart", "dnsdist">>}, {})
  <2> DEFINE a == <<"ns4", "dropbear">>
             b == <<"restart", "ns4">>
             c == <<"restart", "nv4">>
             d == <<"restart", "dnsdist">>
  <2>1. a \in Commands /\ b \in Commands /\ c \in Commands /\ d \in Commands
    BY NameSets DEF Commands, UnitOps
  <2>2. Needs(a) = {} /\ Needs(b) = {} /\ Needs(c) = {} /\ Needs(d) = {}
    BY <2>1, NeedsNothing
  <2> HIDE DEF a, b, c, d
  <2>3. <<a, b, c, d>> \in Seq(Commands)
    BY <2>1
  <2>4. Cmds(<<a, b, c, d>>) = {a, b, c, d}
    BY DEF Cmds
  <2>5. Piece(<<a, b, c, d>>, {a, b, c, d}, {})
    BY <2>2, <2>3, <2>4, Needless
  <2> QED BY <2>5 DEF ConfigureSlowdns, a, b, c, d
<1>3. Piece(ChangeDomain, DomainGives, {}) /\ Briefly(ChangeDomain)
  <2>1. Piece(AcmeCert \o <<<<"dir", "pem">>>>, Certified \cup {<<"dir", "pem">>}, {<<"restart", "haproxy">>})
        /\ Briefly(AcmeCert \o <<<<"dir", "pem">>>>)
    <3>1. ({} \ {<<"dir", "pem">>}) \cup {<<"restart", "haproxy">>} \subseteq {<<"restart", "haproxy">>}
      OBVIOUS
    <3>2. Briefly(<<<<"dir", "pem">>>>)
      <4>1. <<"stop", "sshws">> \notin {<<"dir", "pem">>}
        OBVIOUS
      <4> QED BY <4>1, FrontsGive, NeverStops DEF Piece
    <3> QED BY <3>1, <3>2, FrontsGive, PieceUnion, PieceJoined
  <2>2. Piece(AcmeCert \o <<<<"dir", "pem">>>> \o HaproxyConf, Certified \cup {<<"dir", "pem">>} \cup Fronts,
              {<<"restart", "haproxy">>})
        /\ Briefly(AcmeCert \o <<<<"dir", "pem">>>> \o HaproxyConf)
    <3>1. ({<<"restart", "haproxy">>} \ Fronts) \cup {<<"restart", "haproxy">>} \subseteq {<<"restart", "haproxy">>}
      OBVIOUS
    <3>2. Briefly(HaproxyConf)
      <4>1. <<"stop", "sshws">> \notin Fronts
        BY DEF Fronts, Balancing
      <4> QED BY <4>1, FrontsGive, NeverStops DEF Piece
    <3> QED BY <2>1, <3>1, <3>2, FrontsGive, PieceUnion, PieceJoined
  <2>3. ({<<"restart", "haproxy">>} \ {<<"restart", "haproxy">>}) \cup {} \subseteq {}
    OBVIOUS
  <2>4. Briefly(<<<<"restart", "haproxy">>>>)
    <3>1. <<"stop", "sshws">> \notin {<<"restart", "haproxy">>}
      OBVIOUS
    <3> QED BY <3>1, FrontsGive, NeverStops DEF Piece
  <2> QED BY <2>2, <2>3, <2>4, FrontsGive, PieceUnion, PieceJoined DEF ChangeDomain, DomainGives
<1>4. Piece(UninstallRest, {<<"disable", "haproxy">>, <<"drop_all", "">>}, {})
  <2> DEFINE a == <<"disable", "haproxy">>
             b == <<"drop_all", "">>
  <2>1. a \in Commands /\ b \in Commands
    BY NameSets DEF Commands, UnitOps
  <2>2. Needs(a) = {} /\ Needs(b) = {}
    BY <2>1, NeedsNothing, KeptNames
  <2> HIDE DEF a, b
  <2>3. <<a, b>> \in Seq(Commands) /\ Cmds(<<a, b>>) = {a, b}
    BY <2>1, CmdsTuples
  <2>4. Piece(<<a, b>>, {a, b}, {})
    BY <2>2, <2>3, Needless
  <2> QED BY <2>4 DEF UninstallRest, a, b
<1>5. Piece(RepairHaproxy, {<<"rebuild", "pem">>, <<"restart_valid", "haproxy">>}, {})
  <2> DEFINE a == <<"rebuild", "pem">>
             b == <<"restart_valid", "haproxy">>
  <2>1. a \in Commands /\ b \in Commands
    BY NameSets DEF Commands, UnitOps
  <2>2. Needs(a) = {} /\ Needs(b) = {}
    BY <2>1, NeedsNothing
  <2> HIDE DEF a, b
  <2>3. <<a, b>> \in Seq(Commands) /\ Cmds(<<a, b>>) = {a, b}
    BY <2>1, CmdsTuples
  <2>4. Piece(<<a, b>>, {a, b}, {})
    BY <2>2, <2>3, Needless
  <2> QED BY <2>4 DEF RepairHaproxy, a, b
<1> QED BY <1>1, <1>2, <1>3, <1>4, <1>5

-----------------------------------------------------------------------------
\* What holds of the commands of every script.
RemoveOps == {"nftstop", "nftunlink", "nftdrop", "wipe", "rmdir", "disable", "disable_unless_v2ray",
              "drop_all", "rmunit"}
MakeOps == {"fetch", "try", "start", "enable", "restart", "restart_valid", "unit", "dir", "conf"}
Sane(c) ==
  /\ c[1] = "stop" => c[2] \in {"sshws", "dnsdist"}
  /\ c[1] = "restart" => c[2] \in {"haproxy", "dnsdist", "ns4", "nv4"}
  /\ c[1] = "restart_valid" => c[2] = "haproxy"
  /\ c[1] = "start" => c[2] = "sshws"
  /\ c[1] = "disable_unless_v2ray" => c[2] = "haproxy"
  /\ c[1] = "wipe" => c[2] \in Kept
  /\ c[1] = "enable" => c[2] \in Lasting
  /\ c # <<"try", "xray">>
\* A script builds or it removes.
Sorted(C) ==
  /\ \A c \in C : Sane(c)
  /\ (\A c \in C : c[1] \notin RemoveOps) \/ (\A c \in C : c[1] \notin MakeOps)

\* What takes away something of program b.
Harmful(b) ==
  ({"nftstop", "nftunlink", "nftdrop"} \X (Guards(b) \cup (IF b = "udp_custom" THEN {"catchall"} ELSE {})))
    \cup ({"disable", "rmunit"} \X {s \in Lasting : Prog(s) = b})
    \cup (IF b = "xray" THEN {<<"rmdir", "pem">>} ELSE {})
\* A script at its beginning: it stops a program and wipes it before it takes
\* away what belongs to it, and has a unit for what it enables.
Fit(C) ==
  /\ Sorted(C)
  /\ \A b \in Kept : C \cap Harmful(b) # {} => <<"wipe", b>> \in C
  /\ \A b \in Kept : <<"wipe", b>> \in C => <<"disable", b>> \in C \/ b = "slowdns"
  /\ \A s \in Services \ Packages : <<"enable", s>> \in C => <<"unit", s>> \in C
  /\ <<"fetch", "xray">> \in C => <<"try", "haproxy">> \in C
Builds(C) ==
  /\ \A c \in C : Sane(c) /\ c[1] \notin RemoveOps
  /\ \A s \in Services \ Packages : <<"enable", s>> \in C => <<"unit", s>> \in C
  /\ <<"fetch", "xray">> \in C => <<"try", "haproxy">> \in C

LEMMA BuildsFit ==
  ASSUME NEW C, Builds(C)
  PROVE  Fit(C)
<1>1. Sorted(C)
  BY DEF Builds, Sorted
<1>2. \A c \in C : \A b : c \notin Harmful(b)
  <2>1. \A b : \A c \in Harmful(b) : c[1] \in RemoveOps
    BY DEF Harmful, RemoveOps
  <2> QED BY <2>1 DEF Builds
<1>3. \A b : <<"wipe", b>> \notin C
  <2>1. \A b : <<"wipe", b>>[1] \in RemoveOps
    BY DEF RemoveOps
  <2> QED BY <2>1 DEF Builds
<1> QED BY <1>1, <1>2, <1>3 DEF Fit, Builds

LEMMA InstallsBuild ==
  /\ Builds({<<"try", "dropbear">>, <<"dir", "dropbear">>} \cup Running("dropbear") \cup Deploying("dropbear"))
  /\ Builds({<<"fetch", "ssl_tls">>, <<"verify", "ssl_tls">>} \cup Running("ssl_tls") \cup Deploying("ssl_tls"))
  /\ Builds({<<"fetch", "sshws">>, <<"verify", "sshws">>} \cup Running("sshws") \cup Deploying("sshws")
             \cup Proxying)
  /\ Builds({<<"fetch", "badvpn">>} \cup Running("badvpn") \cup Deploying("badvpn"))
  /\ Builds({<<"fetch", "udp_custom">>, <<"dir", "udp_custom">>} \cup Running("udp_custom")
             \cup Deploying("udp_custom"))
  /\ Builds({<<"fetch", "v2ray">>, <<"dir", "v2ray">>} \cup Deploying("v2ray") \cup Running("v2ray")
             \cup {<<"cron", "v2ray">>})
  /\ Builds({<<"fetch", "hysteria">>, <<"dir", "hysteria">>, <<"unit", "hysteria">>}
             \cup Deploying("hysteria") \cup {<<"enable", "hysteria">>})
  /\ Builds({<<"fetch", "zivpn">>, <<"dir", "zivpn">>, <<"unit", "zivpn">>}
             \cup Deploying("zivpn") \cup CatchingAll \cup {<<"enable", "zivpn">>})
  /\ Builds(SlowdnsGives) /\ Builds(XrayGives) /\ Builds(DomainGives)
  /\ Builds({<<"ns4", "dropbear">>, <<"restart", "ns4">>, <<"restart", "nv4">>, <<"restart", "dnsdist">>})
  /\ Builds({<<"rebuild", "pem">>, <<"restart_valid", "haproxy">>})
<1>1. ASSUME NEW C, NEW D, Builds(C), Builds(D)
      PROVE  Builds(C \cup D)
  BY <1>1 DEF Builds
<1>2. ASSUME NEW n PROVE Builds(Deploying(n))
  <2>1. \A c \in Deploying(n) : c[1] \in {"catchfile", "catchload", "nftfile", "nftload"}
    BY DEF Deploying
  <2>2. \A s : <<"enable", s>> \notin Deploying(n)
    BY DEF Deploying
  <2>3. <<"fetch", "xray">> \notin Deploying(n)
    BY DEF Deploying
  <2>4. \A c \in Deploying(n) : Sane(c) /\ c[1] \notin RemoveOps
    BY <2>1 DEF Sane, RemoveOps
  <2> QED BY <2>2, <2>3, <2>4 DEF Builds
<1>3. ASSUME NEW s \in Lasting PROVE Builds(Running(s))
  <2>1. \A c \in Running(s) : c = <<"unit", s>> \/ c = <<"enable", s>>
    BY DEF Running
  <2>2. \A c \in Running(s) : Sane(c) /\ c[1] \notin RemoveOps
    BY <2>1 DEF Sane, RemoveOps
  <2>3. \A x : <<"enable", x>> \in Running(s) => <<"unit", x>> \in Running(s)
    BY DEF Running
  <2>4. <<"fetch", "xray">> \notin Running(s)
    BY DEF Running
  <2> QED BY <2>2, <2>3, <2>4 DEF Builds
<1>4. ASSUME NEW op \in {"fetch", "try", "dir", "verify", "cron", "catchfile", "catchload", "need", "cert",
                         "ns4", "conf", "unit"}, NEW x, x = "xray" => op \notin {"fetch", "try"}
      PROVE  Builds({<<op, x>>})
  <2>1. Sane(<<op, x>>) /\ op \notin RemoveOps
    BY <1>4 DEF Sane, RemoveOps
  <2>2. \A s : <<"enable", s>> \notin {<<op, x>>}
    OBVIOUS
  <2> QED BY <1>4, <2>1, <2>2 DEF Builds
<1>5. /\ \A s \in {"haproxy", "dnsdist", "ns4", "nv4"} : Builds({<<"restart", s>>})
      /\ \A s \in {"sshws", "dnsdist"} : Builds({<<"stop", s>>})
      /\ Builds({<<"start", "sshws">>}) /\ Builds({<<"enable", "dnsdist">>})
  <2>1. "dnsdist" \in Packages /\ "dnsdist" \in Lasting
    BY KeptNames DEF Packages
  <2> QED BY <2>1 DEF Builds, Sane, RemoveOps
<1>6. /\ \A a, b : Builds({a}) /\ Builds({b}) => Builds({a, b})
      /\ \A a, b, c : Builds({a}) /\ Builds({b}) /\ Builds({c}) => Builds({a, b, c})
  BY DEF Builds
<1>n. {"dropbear", "ssl_tls", "sshws", "badvpn", "udp_custom", "v2ray", "hysteria", "zivpn", "ws_dropbear",
       "ws_stunnel", "ns4", "nv4", "haproxy_ssh", "xray"} \subseteq Lasting
  BY KeptNames
<1>7. /\ Builds({<<"try", "dropbear">>, <<"dir", "dropbear">>} \cup Running("dropbear") \cup Deploying("dropbear"))
      /\ Builds({<<"fetch", "ssl_tls">>, <<"verify", "ssl_tls">>} \cup Running("ssl_tls") \cup Deploying("ssl_tls"))
      /\ Builds({<<"fetch", "badvpn">>} \cup Running("badvpn") \cup Deploying("badvpn"))
      /\ Builds({<<"fetch", "udp_custom">>, <<"dir", "udp_custom">>} \cup Running("udp_custom")
                 \cup Deploying("udp_custom"))
  <2>1. /\ Builds({<<"try", "dropbear">>, <<"dir", "dropbear">>})
        /\ Builds({<<"fetch", "ssl_tls">>, <<"verify", "ssl_tls">>})
        /\ Builds({<<"fetch", "badvpn">>})
        /\ Builds({<<"fetch", "udp_custom">>, <<"dir", "udp_custom">>})
    BY <1>4, <1>6
  <2> QED BY <1>1, <1>2, <1>3, <1>n, <2>1
<1>8. Builds({<<"fetch", "sshws">>, <<"verify", "sshws">>} \cup Running("sshws") \cup Deploying("sshws")
               \cup Proxying)
  <2>1. Builds(Proxying)
    BY <1>1, <1>2, <1>3, <1>n DEF Proxying
  <2>2. Builds({<<"fetch", "sshws">>, <<"verify", "sshws">>})
    BY <1>4, <1>6
  <2> QED BY <1>1, <1>2, <1>3, <1>n, <2>1, <2>2
<1>9. Builds({<<"fetch", "v2ray">>, <<"dir", "v2ray">>} \cup Deploying("v2ray") \cup Running("v2ray")
               \cup {<<"cron", "v2ray">>})
  <2>1. Builds({<<"fetch", "v2ray">>, <<"dir", "v2ray">>}) /\ Builds({<<"cron", "v2ray">>})
    BY <1>4, <1>6
  <2> QED BY <1>1, <1>2, <1>3, <1>n, <2>1
<1>10. ASSUME NEW t \in {"hysteria", "zivpn"}, NEW D, Builds(D)
       PROVE  Builds({<<"fetch", t>>, <<"dir", t>>, <<"unit", t>>} \cup D \cup {<<"enable", t>>})
  <2>1. Builds({<<"fetch", t>>}) /\ Builds({<<"dir", t>>}) /\ Builds(Running(t))
    BY <1>3, <1>4, <1>n
  <2>2. Builds(({<<"fetch", t>>} \cup {<<"dir", t>>}) \cup (D \cup Running(t)))
    BY <1>1, <1>10, <2>1
  <2>3. {<<"fetch", t>>, <<"dir", t>>, <<"unit", t>>} \cup D \cup {<<"enable", t>>} =
          ({<<"fetch", t>>} \cup {<<"dir", t>>}) \cup (D \cup Running(t))
    BY DEF Running
  <2> QED BY <2>2, <2>3
<1>11. /\ Builds({<<"fetch", "hysteria">>, <<"dir", "hysteria">>, <<"unit", "hysteria">>}
                   \cup Deploying("hysteria") \cup {<<"enable", "hysteria">>})
       /\ Builds({<<"fetch", "zivpn">>, <<"dir", "zivpn">>, <<"unit", "zivpn">>}
                   \cup Deploying("zivpn") \cup CatchingAll \cup {<<"enable", "zivpn">>})
  <2>1. Builds(CatchingAll)
    BY <1>4, <1>6 DEF CatchingAll
  <2>2. Builds(Deploying("zivpn") \cup CatchingAll) /\ Builds(Deploying("hysteria"))
    BY <1>1, <1>2, <2>1
  <2>3. /\ Builds({<<"fetch", "hysteria">>, <<"dir", "hysteria">>, <<"unit", "hysteria">>}
                   \cup Deploying("hysteria") \cup {<<"enable", "hysteria">>})
        /\ Builds({<<"fetch", "zivpn">>, <<"dir", "zivpn">>, <<"unit", "zivpn">>}
                   \cup (Deploying("zivpn") \cup CatchingAll) \cup {<<"enable", "zivpn">>})
    BY <1>10, <2>2
  <2>4. {<<"fetch", "zivpn">>, <<"dir", "zivpn">>, <<"unit", "zivpn">>} \cup Deploying("zivpn") \cup CatchingAll =
          {<<"fetch", "zivpn">>, <<"dir", "zivpn">>, <<"unit", "zivpn">>} \cup (Deploying("zivpn") \cup CatchingAll)
    OBVIOUS
  <2> QED BY <2>3, <2>4
<1>12. Builds(Balancing)
  <2>1. Builds({<<"dir", "haproxy">>}) /\ Builds(Running("haproxy_ssh"))
    BY <1>3, <1>4, <1>n
  <2>2. Balancing = {<<"dir", "haproxy">>} \cup Running("haproxy_ssh")
    BY DEF Balancing, Running
  <2> QED BY <1>1, <2>1, <2>2
<1>13. Builds(SlowdnsGives)
  <2>1. /\ Builds({<<"try", "dnsdist">>, <<"dir", "slowdns">>, <<"try", "slowdns">>})
        /\ Builds({<<"ns4", "lb">>}) /\ Builds({<<"stop", "dnsdist">>, <<"need", "dnsdist">>})
    BY <1>4, <1>5, <1>6
  <2>2. Builds({<<"enable", "dnsdist">>, <<"restart", "dnsdist">>} \cup {<<"restart", "ns4">>, <<"restart", "nv4">>,
          <<"cron", "slowdns">>})
    BY <1>1, <1>4, <1>5, <1>6
  <2>3. {<<"enable", "dnsdist">>, <<"restart", "dnsdist">>, <<"restart", "ns4">>, <<"restart", "nv4">>, <<"cron", "slowdns">>}
          = {<<"enable", "dnsdist">>, <<"restart", "dnsdist">>} \cup {<<"restart", "ns4">>, <<"restart", "nv4">>,
          <<"cron", "slowdns">>}
    OBVIOUS
  <2> QED BY <1>1, <1>2, <1>3, <1>n, <1>12, <2>1, <2>2, <2>3 DEF SlowdnsGives
<1>14. Builds(Certified) /\ Builds(Fronts) /\ Builds({<<"dir", "pem">>})
  <2>1. Builds({<<"cert", "xray">>}) /\ Builds({<<"stop", "sshws">>}) /\ Builds({<<"start", "sshws">>})
    BY <1>4, <1>5
  <2>2. Builds({<<"need", "haproxy">>}) /\ Builds({<<"conf", "panel">>}) /\ Builds({<<"dir", "pem">>})
    BY <1>4
  <2>3. Builds(Certified)
    BY <1>6, <2>1 DEF Certified
  <2>4. Builds(Fronts)
    BY <1>1, <1>6, <1>12, <2>2 DEF Fronts
  <2> QED BY <2>2, <2>3, <2>4
<1>15. Builds(DomainGives)
  BY <1>1, <1>5, <1>14 DEF DomainGives
<1>16. Builds(XrayGives)
  <2> DEFINE C == {<<"try", "haproxy">>, <<"fetch", "xray">>, <<"dir", "xray">>}
             D == {<<"restart", "haproxy">>, <<"enable", "xray">>}
             E == {<<"unit", "xray">>}
  <2>1. Builds({<<"dir", "xray_config">>})
    BY <1>4
  <2>2. Builds({<<"cron", "haproxy">>, <<"cron", "services">>, <<"cron", "xray">>})
    BY <1>4, <1>6
  <2>3. Builds(C)
    <3>1. \A c \in C : Sane(c) /\ c[1] \notin RemoveOps
      BY DEF Sane, RemoveOps
    <3>2. \A s : <<"enable", s>> \notin C
      OBVIOUS
    <3> QED BY <3>1, <3>2 DEF Builds
  <2>4. Builds(E \cup Deploying("xray") \cup D)
    <3>1. Builds(Running("xray")) /\ Builds({<<"restart", "haproxy">>})
      BY <1>3, <1>5, <1>n
    <3>2. E \cup Deploying("xray") \cup D = (Running("xray") \cup Deploying("xray")) \cup {<<"restart", "haproxy">>}
      BY DEF Running
    <3> QED BY <1>1, <1>2, <3>1, <3>2
  <2> HIDE DEF C, D, E
  <2>5. Builds(C \cup Certified \cup {<<"dir", "pem">>} \cup {<<"dir", "xray_config">>} \cup Fronts)
    BY <1>1, <1>14, <2>1, <2>3
  <2>6. Builds((C \cup Certified \cup {<<"dir", "pem">>} \cup {<<"dir", "xray_config">>} \cup Fronts)
                 \cup (E \cup Deploying("xray") \cup D)
                 \cup {<<"cron", "haproxy">>, <<"cron", "services">>, <<"cron", "xray">>})
    BY <1>1, <2>2, <2>4, <2>5
  <2>7. (C \cup Certified \cup {<<"dir", "pem">>} \cup {<<"dir", "xray_config">>} \cup Fronts)
          \cup (E \cup Deploying("xray") \cup D)
          = C \cup Certified \cup {<<"dir", "pem">>} \cup {<<"dir", "xray_config">>} \cup Fronts
          \cup E \cup Deploying("xray") \cup D
    OBVIOUS
  <2> QED BY <2>6, <2>7 DEF XrayGives, C, D, E
<1>17. /\ Builds({<<"ns4", "dropbear">>, <<"restart", "ns4">>, <<"restart", "nv4">>, <<"restart", "dnsdist">>})
       /\ Builds({<<"rebuild", "pem">>, <<"restart_valid", "haproxy">>})
  <2>1. Builds({<<"ns4", "dropbear">>} \cup {<<"restart", "ns4">>, <<"restart", "nv4">>, <<"restart", "dnsdist">>})
    BY <1>1, <1>4, <1>5, <1>6
  <2>2. {<<"ns4", "dropbear">>} \cup {<<"restart", "ns4">>, <<"restart", "nv4">>, <<"restart", "dnsdist">>} =
          {<<"ns4", "dropbear">>, <<"restart", "ns4">>, <<"restart", "nv4">>, <<"restart", "dnsdist">>}
    OBVIOUS
  <2>3. Builds({<<"rebuild", "pem">>, <<"restart_valid", "haproxy">>})
    BY DEF Builds, Sane, RemoveOps
  <2> QED BY <2>1, <2>2, <2>3
<1> QED BY <1>7, <1>8, <1>9, <1>11, <1>13, <1>15, <1>16, <1>17

LEMMA HarmOf ==
  ASSUME NEW b \in Kept
  PROVE  /\ \A n \in Tables, op \in {"nftstop", "nftunlink", "nftdrop"} :
              <<op, n>> \in Harmful(b) =>
                \/ n = b /\ n # "slowdns"
                \/ n = "slowdns" /\ b \in {"slowdns", "dnsdist"}
                \/ n \in {"ws_dropbear", "ws_stunnel"} /\ b = "sshws"
                \/ n = "catchall" /\ b = "udp_custom"
         /\ \A op \in {"disable", "rmunit"} : \A s : <<op, s>> \in Harmful(b) => s \in Lasting /\ b = Prog(s)
         /\ \A x : <<"rmdir", x>> \in Harmful(b) => x = "pem" /\ b = "xray"
         /\ \A x, op : op \notin {"nftstop", "nftunlink", "nftdrop", "disable", "rmunit", "rmdir"}
                         => <<op, x>> \notin Harmful(b)
<1>1. ASSUME NEW n \in Tables, NEW op \in {"nftstop", "nftunlink", "nftdrop"}, <<op, n>> \in Harmful(b)
      PROVE  \/ n = b /\ n # "slowdns"
             \/ n = "slowdns" /\ b \in {"slowdns", "dnsdist"}
             \/ n \in {"ws_dropbear", "ws_stunnel"} /\ b = "sshws"
             \/ n = "catchall" /\ b = "udp_custom"
  <2>1. n \in Guards(b) \/ (b = "udp_custom" /\ n = "catchall")
    BY <1>1 DEF Harmful
  <2>2. CASE b \notin {"sshws", "dnsdist"}
    BY <2>1, <2>2, KeptNames
  <2>3. CASE b \in {"sshws", "dnsdist"}
    BY <2>1, <2>3, KeptNames
  <2> QED BY <2>2, <2>3
<1>2. ASSUME NEW s, NEW op \in {"disable", "rmunit"}, <<op, s>> \in Harmful(b)
      PROVE  s \in Lasting /\ b = Prog(s)
  BY <1>2 DEF Harmful
<1>3. ASSUME NEW x, <<"rmdir", x>> \in Harmful(b)
      PROVE  x = "pem" /\ b = "xray"
  BY <1>3 DEF Harmful
<1>4. ASSUME NEW x, NEW op, op \notin {"nftstop", "nftunlink", "nftdrop", "disable", "rmunit", "rmdir"}
      PROVE  <<op, x>> \notin Harmful(b)
  BY <1>4 DEF Harmful
<1> QED BY <1>1, <1>2, <1>3, <1>4

\* A removal is fit when what it takes away belongs to programs it wipes.
Ruins(C, W) ==
  /\ \A c \in C : Sane(c) /\ c[1] \notin MakeOps
  /\ \A c \in C : \A b \in Kept : c \in Harmful(b) => b \in W
  /\ \A b \in Kept : <<"wipe", b>> \in C => <<"disable", b>> \in C \/ b = "slowdns"
LEMMA RuinsFit ==
  ASSUME NEW C, NEW W, Ruins(C, W), \A b \in W : <<"wipe", b>> \in C
  PROVE  Fit(C)
<1>1. Sorted(C)
  BY DEF Ruins, Sorted
<1>2. (\A s : <<"enable", s>> \notin C) /\ <<"fetch", "xray">> \notin C
  <2>1. (\A s : <<"enable", s>>[1] \in MakeOps) /\ <<"fetch", "xray">>[1] \in MakeOps
    BY DEF MakeOps
  <2> QED BY <2>1 DEF Ruins
<1> QED BY <1>1, <1>2 DEF Fit, Ruins

LEMMA UninstallsFit ==
  /\ \A t \in {"dropbear", "ssl_tls", "badvpn", "hysteria", "zivpn"} :
       Fit(Undone(t)) /\ Fit(Undone(t) \cup CatchingAll)
  /\ Fit(Undone("udp_custom") \cup Removing("catchall") \cup {<<"rmcron", "dedup">>})
  /\ Fit(SshwsUndone) /\ Fit(DnsUndone) /\ Fit(XrayUndone) /\ Fit(V2rayUndone)
  /\ Fit({<<"disable", "haproxy">>, <<"drop_all", "">>})
<1>1. ASSUME NEW C, NEW D, NEW V, NEW W, Ruins(C, V), Ruins(D, W)
      PROVE  Ruins(C \cup D, V \cup W)
  BY <1>1 DEF Ruins
<1>2. /\ \A t \in {"dropbear", "ssl_tls", "sshws", "badvpn", "hysteria", "zivpn", "udp_custom", "xray", "v2ray"} :
           Ruins(Removing(t), {t})
      /\ Ruins(Removing("slowdns"), {"slowdns", "dnsdist"}) /\ Ruins(Removing("catchall"), {"udp_custom"})
      /\ Ruins(Removing("ws_dropbear"), {"sshws"}) /\ Ruins(Removing("ws_stunnel"), {"sshws"})
  <2> DEFINE Hurt(n) == {b \in Kept : \/ n = b /\ n # "slowdns"
                                      \/ n = "slowdns" /\ b \in {"slowdns", "dnsdist"}
                                      \/ n \in {"ws_dropbear", "ws_stunnel"} /\ b = "sshws"
                                      \/ n = "catchall" /\ b = "udp_custom"}
  <2>1. ASSUME NEW n \in Tables, NEW W, Hurt(n) \subseteq W
        PROVE  Ruins(Removing(n), W)
    <3>1. \A c \in Removing(n) : \E op \in {"nftstop", "nftunlink", "nftdrop"} : c = <<op, n>>
      BY DEF Removing
    <3>2. \A op \in {"nftstop", "nftunlink", "nftdrop"} : Sane(<<op, n>>) /\ op \notin MakeOps
      BY DEF Sane, MakeOps
    <3>3. \A b : <<"wipe", b>> \notin Removing(n)
      BY DEF Removing
    <3>4. ASSUME NEW c \in Removing(n), NEW b \in Kept, c \in Harmful(b)
          PROVE  b \in W
      <4>1. PICK op \in {"nftstop", "nftunlink", "nftdrop"} : c = <<op, n>>
        BY <3>1
      <4>2. \/ n = b /\ n # "slowdns"
            \/ n = "slowdns" /\ b \in {"slowdns", "dnsdist"}
            \/ n \in {"ws_dropbear", "ws_stunnel"} /\ b = "sshws"
            \/ n = "catchall" /\ b = "udp_custom"
        BY <3>4, <4>1, HarmOf
      <4> QED BY <2>1, <4>2
    <3>5. \A c \in Removing(n) : Sane(c) /\ c[1] \notin MakeOps
      BY <3>1, <3>2
    <3> QED BY <3>3, <3>4, <3>5 DEF Ruins
  <2>2. /\ {"slowdns", "catchall", "ws_dropbear", "ws_stunnel"} \subseteq Tables
        /\ {"dropbear", "ssl_tls", "sshws", "badvpn", "hysteria", "zivpn", "udp_custom", "xray", "v2ray"} \subseteq Tables
    BY NameSets
  <2>3. /\ Hurt("slowdns") \subseteq {"slowdns", "dnsdist"} /\ Hurt("catchall") \subseteq {"udp_custom"}
        /\ Hurt("ws_dropbear") \subseteq {"sshws"} /\ Hurt("ws_stunnel") \subseteq {"sshws"}
        /\ \A t \in {"dropbear", "ssl_tls", "sshws", "badvpn", "hysteria", "zivpn", "udp_custom", "xray", "v2ray"} :
             Hurt(t) \subseteq {t}
    BY KeptNames
  <2> HIDE DEF Hurt
  <2> QED BY <2>1, <2>2, <2>3
<1>3. ASSUME NEW s \in Lasting
      PROVE  Ruins(Ceasing(s), {Prog(s)}) /\ Ruins({<<"disable", s>>}, {Prog(s)}) /\ Ruins({<<"rmunit", s>>}, {Prog(s)})
  <2>1. \A op \in {"disable", "rmunit"} : Sane(<<op, s>>) /\ op \notin MakeOps
    BY DEF Sane, MakeOps
  <2>2. \A op \in {"disable", "rmunit"}, b \in Kept : <<op, s>> \in Harmful(b) => b \in {Prog(s)}
    BY HarmOf
  <2>3. \A op \in {"disable", "rmunit"} : Ruins({<<op, s>>}, {Prog(s)})
    BY <2>1, <2>2 DEF Ruins
  <2>4. Ceasing(s) = {<<"disable", s>>} \cup {<<"rmunit", s>>} /\ {Prog(s)} \cup {Prog(s)} = {Prog(s)}
    BY DEF Ceasing
  <2> QED BY <1>1, <2>3, <2>4
<1>4. ASSUME NEW C, NEW W, Ruins(C, W), NEW t \in Kept, <<"disable", t>> \in C \/ t = "slowdns"
      PROVE  Ruins(C \cup {<<"wipe", t>>}, W)
  <2>1. Sane(<<"wipe", t>>) /\ "wipe" \notin MakeOps
    BY DEF Sane, MakeOps
  <2>2. \A b \in Kept : <<"wipe", t>> \notin Harmful(b)
    BY HarmOf
  <2> QED BY <1>4, <2>1, <2>2 DEF Ruins
<1>5. ASSUME NEW op \in {"rmdir", "rmcron", "drop_all", "catchfile", "catchload", "disable_unless_v2ray"},
             NEW x, op = "rmdir" => x # "pem", op = "disable_unless_v2ray" => x = "haproxy"
      PROVE  Ruins({<<op, x>>}, {})
  <2>1. Sane(<<op, x>>) /\ op \notin MakeOps
    BY <1>5 DEF Sane, MakeOps
  <2>2. \A b \in Kept : <<op, x>> \notin Harmful(b)
    BY <1>5, HarmOf
  <2> QED BY <2>1, <2>2 DEF Ruins
<1>6. /\ Ruins({<<"rmdir", "pem">>}, {"xray"}) /\ Ruins({<<"stop", "sshws">>}, {})
      /\ Ruins({<<"disable", "haproxy">>}, {})
  <2>1. Sane(<<"rmdir", "pem">>) /\ Sane(<<"stop", "sshws">>) /\ Sane(<<"disable", "haproxy">>)
        /\ {"rmdir", "stop", "disable"} \cap MakeOps = {}
    BY DEF Sane, MakeOps
  <2>2. "haproxy" \notin Lasting
    BY KeptNames
  <2>3. \A b \in Kept : (<<"rmdir", "pem">> \in Harmful(b) => b = "xray") /\ <<"stop", "sshws">> \notin Harmful(b)
    BY HarmOf
  <2>4. \A b \in Kept : <<"disable", "haproxy">> \notin Harmful(b)
    BY <2>2, HarmOf
  <2> QED BY <2>1, <2>3, <2>4 DEF Ruins
<1>w. ASSUME NEW A, NEW B, NEW U, NEW V, NEW W, Ruins(A, U), Ruins(B, V), U \subseteq W, V \subseteq W
      PROVE  Ruins(A \cup B, W)
  BY <1>w DEF Ruins
<1>7. ASSUME NEW t \in {"dropbear", "ssl_tls", "sshws", "badvpn", "hysteria", "zivpn", "udp_custom"}
      PROVE  Ruins(Undone(t), {t}) /\ <<"wipe", t>> \in Undone(t)
  <2>1. t \in Lasting /\ t \in Kept /\ Prog(t) = t
    BY KeptNames
  <2>2. <<"disable", t>> \in Ceasing(t)
    BY DEF Ceasing
  <2>3. Ruins(Ceasing(t) \cup {<<"wipe", t>>}, {t})
    BY <1>3, <1>4, <2>1, <2>2
  <2>4. Ruins(Removing(t), {t}) /\ {t} \cup {t} = {t}
    BY <1>2
  <2> QED BY <1>1, <2>3, <2>4 DEF Undone
<1>8. /\ \A t \in {"dropbear", "ssl_tls", "badvpn", "hysteria", "zivpn"} :
           Fit(Undone(t)) /\ Fit(Undone(t) \cup CatchingAll)
      /\ Fit(Undone("udp_custom") \cup Removing("catchall") \cup {<<"rmcron", "dedup">>})
  <2>1. Ruins(CatchingAll, {})
    <3>1. CatchingAll = {<<"catchfile", "catchall">>} \cup {<<"catchload", "catchall">>}
      BY DEF CatchingAll
    <3>2. Ruins({<<"catchfile", "catchall">>}, {}) /\ Ruins({<<"catchload", "catchall">>}, {})
      BY <1>5
    <3> QED BY <1>w, <3>1, <3>2
  <2>2. ASSUME NEW t \in {"dropbear", "ssl_tls", "badvpn", "hysteria", "zivpn"}
        PROVE  Fit(Undone(t)) /\ Fit(Undone(t) \cup CatchingAll)
    <3>1. Ruins(Undone(t), {t}) /\ <<"wipe", t>> \in Undone(t)
      BY <1>7
    <3>2. Ruins(Undone(t) \cup CatchingAll, {t} \cup {}) /\ {t} \cup {} = {t}
      BY <1>1, <2>1, <3>1
    <3> QED BY <3>1, <3>2, RuinsFit
  <2>3. Fit(Undone("udp_custom") \cup Removing("catchall") \cup {<<"rmcron", "dedup">>})
    <3> DEFINE C == Undone("udp_custom") \cup Removing("catchall") \cup {<<"rmcron", "dedup">>}
               W == ({"udp_custom"} \cup {"udp_custom"}) \cup {}
    <3>1. Ruins(C, W)
      BY <1>1, <1>2, <1>5, <1>7
    <3>2. \A b \in W : <<"wipe", b>> \in C
      BY <1>7
    <3> QED BY <3>1, <3>2, RuinsFit
  <2> QED BY <2>2, <2>3
<1>9. Fit(SshwsUndone)
  <2> DEFINE C == (Ceasing("sshws") \cup {<<"stop", "sshws">>}) \cup {<<"wipe", "sshws">>}
             D == Ceasing("ws_dropbear") \cup Removing("ws_dropbear")
             E == Ceasing("ws_stunnel") \cup Removing("ws_stunnel")
             W == {"sshws"}
  <2>1. /\ {"sshws", "ws_dropbear", "ws_stunnel"} \subseteq Lasting /\ "sshws" \in Kept
        /\ Prog("sshws") = "sshws" /\ Prog("ws_dropbear") = "sshws" /\ Prog("ws_stunnel") = "sshws"
    BY KeptNames
  <2>3. Ruins(C, W)
    <3>1. Ruins(Ceasing("sshws") \cup {<<"stop", "sshws">>}, W)
      <4>1. Ruins(Ceasing("sshws"), W) /\ Ruins({<<"stop", "sshws">>}, {})
        BY <1>3, <1>6, <2>1
      <4> QED BY <1>w, <4>1
    <3>2. <<"disable", "sshws">> \in Ceasing("sshws") \cup {<<"stop", "sshws">>}
      BY DEF Ceasing
    <3> QED BY <1>4, <2>1, <3>1, <3>2
  <2>4. Ruins(D, W)
    <3>1. Ruins(Ceasing("ws_dropbear"), W) /\ Ruins(Removing("ws_dropbear"), W)
      BY <1>2, <1>3, <2>1
    <3> QED BY <1>w, <3>1
  <2>5. Ruins(E, W)
    <3>1. Ruins(Ceasing("ws_stunnel"), W) /\ Ruins(Removing("ws_stunnel"), W)
      BY <1>2, <1>3, <2>1
    <3> QED BY <1>w, <3>1
  <2>6. <<"wipe", "sshws">> \in C
    OBVIOUS
  <2> HIDE DEF C, D, E, W
  <2>7. Ruins((C \cup Removing("sshws")) \cup D \cup E, W)
    <3>1. Ruins(Removing("sshws"), W)
      BY <1>2 DEF W
    <3>2. Ruins(C \cup Removing("sshws"), W)
      BY <1>w, <2>3, <3>1
    <3>3. Ruins((C \cup Removing("sshws")) \cup D, W)
      BY <1>w, <2>4, <3>2
    <3> QED BY <1>w, <2>5, <3>3
  <2>8. SshwsUndone = (C \cup Removing("sshws")) \cup D \cup E
    BY DEF SshwsUndone, C, D, E
  <2>9. \A b \in W : <<"wipe", b>> \in SshwsUndone
    BY <2>6, <2>8 DEF W
  <2> QED BY <2>7, <2>8, <2>9, RuinsFit
<1>10. Fit(DnsUndone)
  <2> DEFINE C == ((Ceasing("ns4") \cup Ceasing("nv4")) \cup {<<"disable", "dnsdist">>}) \cup {<<"wipe", "slowdns">>}
             D == {<<"rmdir", "dnsdist">>} \cup Removing("slowdns")
             W == {"slowdns", "dnsdist"}
  <2>1. /\ {"ns4", "nv4", "dnsdist"} \subseteq Lasting /\ "slowdns" \in Kept /\ "dnsdist" \in Kept
        /\ Prog("ns4") = "slowdns" /\ Prog("nv4") = "slowdns" /\ Prog("dnsdist") = "dnsdist"
    BY KeptNames
  <2>2. ASSUME NEW A, NEW B, NEW U, NEW V, Ruins(A, U), Ruins(B, V), U \cup V \subseteq W
        PROVE  Ruins(A \cup B, W)
    <3>1. Ruins(A \cup B, U \cup V)
      BY <1>1, <2>2
    <3> QED BY <2>2, <3>1 DEF Ruins
  <2>3. Ruins(C, W)
    <3>1. Ruins((Ceasing("ns4") \cup Ceasing("nv4")) \cup {<<"disable", "dnsdist">>}, W)
      <4>1. Ruins(Ceasing("ns4") \cup Ceasing("nv4"), W)
        BY <1>3, <2>1, <2>2
      <4> QED BY <1>3, <2>1, <2>2, <4>1
    <3> QED BY <1>4, <2>1, <3>1
  <2>4. Ruins(D, W)
    BY <1>2, <1>5, <2>2
  <2>5. Ruins((C \cup D) \cup {<<"wipe", "dnsdist">>}, W)
    <3>1. Ruins(C \cup D, W)
      BY <2>2, <2>3, <2>4
    <3> QED BY <1>4, <2>1, <3>1
  <2>6. Ruins({<<"rmcron", "slowdns">>}, {})
    BY <1>5
  <2>7. DnsUndone = ((C \cup D) \cup {<<"wipe", "dnsdist">>}) \cup {<<"rmcron", "slowdns">>}
    BY DEF DnsUndone
  <2>8. \A b \in W : <<"wipe", b>> \in DnsUndone
    BY <2>7
  <2> HIDE DEF C, D
  <2>9. Ruins(DnsUndone, W)
    BY <2>2, <2>5, <2>6, <2>7
  <2> QED BY <2>8, <2>9, RuinsFit
<1>11. Fit(XrayUndone) /\ Fit(V2rayUndone)
  <2>1. {"xray", "v2ray"} \subseteq Lasting /\ {"xray", "v2ray"} \subseteq Kept /\ Prog("xray") = "xray"
        /\ Prog("v2ray") = "v2ray"
    BY KeptNames
  <2>2. Fit(V2rayUndone)
    <3>1. Ruins({<<"disable", "v2ray">>} \cup {<<"wipe", "v2ray">>}, {"v2ray"})
      BY <1>3, <1>4, <2>1
    <3>2. V2rayUndone = ({<<"disable", "v2ray">>} \cup {<<"wipe", "v2ray">>}) \cup Removing("v2ray")
          /\ {"v2ray"} \cup {"v2ray"} = {"v2ray"}
      BY DEF V2rayUndone
    <3>3. Ruins(V2rayUndone, {"v2ray"})
      BY <1>1, <1>2, <3>1, <3>2
    <3>4. <<"wipe", "v2ray">> \in V2rayUndone
      BY DEF V2rayUndone
    <3> QED BY <3>3, <3>4, RuinsFit
  <2>3. Fit(XrayUndone)
    <3> DEFINE W == {"xray"}
               C == {<<"disable", "xray">>} \cup {<<"wipe", "xray">>}
               D == {<<"disable_unless_v2ray", "haproxy">>} \cup {<<"rmdir", "xray_config">>}
               E == {<<"rmdir", "pem">>} \cup {<<"rmunit", "xray">>}
               F == {<<"rmcron", "xray">>} \cup {<<"rmcron", "haproxy">>}
    <3>2. Ruins(C, W)
      BY <1>3, <1>4, <2>1
    <3>3. Ruins(D, W)
      <4>1. Ruins({<<"disable_unless_v2ray", "haproxy">>}, {}) /\ Ruins({<<"rmdir", "xray_config">>}, {})
        BY <1>5
      <4> QED BY <1>w, <4>1
    <3>4. Ruins(E, W)
      <4>1. Ruins({<<"rmdir", "pem">>}, W) /\ Ruins({<<"rmunit", "xray">>}, W)
        BY <1>3, <1>6, <2>1
      <4> QED BY <1>w, <4>1
    <3>5. Ruins(F, W)
      <4>1. Ruins({<<"rmcron", "xray">>}, {}) /\ Ruins({<<"rmcron", "haproxy">>}, {})
        BY <1>5
      <4> QED BY <1>w, <4>1
    <3>6. XrayUndone = ((C \cup D) \cup (E \cup F)) \cup Removing("xray")
      BY DEF XrayUndone
    <3>7. \A b \in W : <<"wipe", b>> \in XrayUndone
      BY <3>6
    <3>8. Ruins(Removing("xray"), W)
      BY <1>2
    <3> HIDE DEF C, D, E, F, W
    <3>9. Ruins(C \cup D, W) /\ Ruins(E \cup F, W)
      BY <1>w, <3>2, <3>3, <3>4, <3>5
    <3>10. Ruins((C \cup D) \cup (E \cup F), W)
      BY <1>w, <3>9
    <3>11. Ruins(XrayUndone, W)
      BY <1>w, <3>6, <3>8, <3>10
    <3> QED BY <3>7, <3>11, RuinsFit
  <2> QED BY <2>2, <2>3
<1>12. Fit({<<"disable", "haproxy">>, <<"drop_all", "">>})
  <2> DEFINE a == <<"disable", "haproxy">>
             b == <<"drop_all", "">>
  <2>1. Ruins({a}, {}) /\ Ruins({b}, {})
    BY <1>5, <1>6
  <2> HIDE DEF a, b
  <2>2. {a, b} = {a} \cup {b}
    OBVIOUS
  <2>3. Ruins({a, b}, {})
    BY <1>w, <2>1, <2>2
  <2>4. Fit({a, b})
    BY <2>3, RuinsFit
  <2> QED BY <2>4 DEF a, b
<1> QED BY <1>8, <1>9, <1>10, <1>11, <1>12

\* What a script is at its beginning, and what it is as far as it has come.
Sound(s) ==
  /\ s \in Seq(Commands) /\ Owed(s) = {} /\ Fit(Cmds(s))
  /\ Briefly(s)

LEMMA PieceSound ==
  ASSUME NEW s, NEW C, Piece(s, C, {}), Fit(C),
         <<"stop", "sshws">> \notin C \/ Briefly(s)
  PROVE  Sound(s)
BY NeverStops DEF Piece, Sound

LEMMA InstallsSound ==
  ASSUME NEW t \in Tunnels
  PROVE  /\ Sound(InstallScript[t]) /\ Builds(Cmds(InstallScript[t]))
         /\ <<"fetch", t>> \in Cmds(InstallScript[t]) \/ <<"try", t>> \in Cmds(InstallScript[t])
         /\ t = "slowdns" => <<"try", "dnsdist">> \in Cmds(InstallScript[t])
<1>1. /\ InstallScript["dropbear"] = InstallDropbear /\ InstallScript["ssl_tls"] = InstallSslTls
      /\ InstallScript["sshws"] = InstallSshws /\ InstallScript["xray"] = InstallXray
      /\ InstallScript["v2ray"] = InstallV2ray /\ InstallScript["badvpn"] = InstallBadvpn
      /\ InstallScript["udp_custom"] = InstallUdpCustom /\ InstallScript["slowdns"] = InstallSlowdns
      /\ InstallScript["hysteria"] = InstallHysteria /\ InstallScript["zivpn"] = InstallZivpn
  BY DEF InstallScript
<1>2. ASSUME NEW s, NEW C, Piece(s, C, {}), Builds(C), <<"stop", "sshws">> \notin C \/ Briefly(s)
      PROVE  Sound(s) /\ Builds(Cmds(s)) /\ Cmds(s) = C
  BY <1>2, BuildsFit, PieceSound DEF Piece
<1>3. CASE t = "dropbear"
  <2> DEFINE C == {<<"try", "dropbear">>, <<"dir", "dropbear">>} \cup Running("dropbear") \cup Deploying("dropbear")
  <2>1. <<"stop", "sshws">> \notin C /\ <<"try", "dropbear">> \in C
    BY DEF Running, Deploying
  <2>2. Piece(InstallDropbear, C, {}) /\ Builds(C)
    BY InstallsGive, InstallsBuild
  <2> HIDE DEF C
  <2> QED BY <1>1, <1>2, <1>3, <2>1, <2>2
<1>4. CASE t = "ssl_tls"
  <2> DEFINE C == {<<"fetch", "ssl_tls">>, <<"verify", "ssl_tls">>} \cup Running("ssl_tls") \cup Deploying("ssl_tls")
  <2>1. <<"stop", "sshws">> \notin C /\ <<"fetch", "ssl_tls">> \in C
    BY DEF Running, Deploying
  <2>2. Piece(InstallSslTls, C, {}) /\ Builds(C)
    BY InstallsGive, InstallsBuild
  <2> HIDE DEF C
  <2> QED BY <1>1, <1>2, <1>4, <2>1, <2>2
<1>5. CASE t = "sshws"
  <2> DEFINE C == {<<"fetch", "sshws">>, <<"verify", "sshws">>} \cup Running("sshws") \cup Deploying("sshws")
                    \cup Proxying
  <2>1. <<"stop", "sshws">> \notin C /\ <<"fetch", "sshws">> \in C
    BY DEF Running, Deploying, Proxying
  <2>2. Piece(InstallSshws, C, {}) /\ Builds(C)
    BY InstallsGive, InstallsBuild
  <2> HIDE DEF C
  <2> QED BY <1>1, <1>2, <1>5, <2>1, <2>2
<1>6. CASE t = "xray"
  <2>1. <<"fetch", "xray">> \in XrayGives
    BY DEF XrayGives
  <2>2. Piece(InstallXray, XrayGives, {}) /\ Builds(XrayGives) /\ Briefly(InstallXray)
    BY InstallXrayGives, InstallsBuild
  <2> QED BY <1>1, <1>2, <1>6, <2>1, <2>2
<1>7. CASE t = "v2ray"
  <2> DEFINE C == {<<"fetch", "v2ray">>, <<"dir", "v2ray">>} \cup Deploying("v2ray") \cup Running("v2ray")
                    \cup {<<"cron", "v2ray">>}
  <2>1. <<"stop", "sshws">> \notin C /\ <<"fetch", "v2ray">> \in C
    BY DEF Running, Deploying
  <2>2. Piece(InstallV2ray, C, {}) /\ Builds(C)
    BY InstallsGive, InstallsBuild
  <2> HIDE DEF C
  <2> QED BY <1>1, <1>2, <1>7, <2>1, <2>2
<1>8. CASE t = "badvpn"
  <2> DEFINE C == {<<"fetch", "badvpn">>} \cup Running("badvpn") \cup Deploying("badvpn")
  <2>1. <<"stop", "sshws">> \notin C /\ <<"fetch", "badvpn">> \in C
    BY DEF Running, Deploying
  <2>2. Piece(InstallBadvpn, C, {}) /\ Builds(C)
    BY InstallsGive, InstallsBuild
  <2> HIDE DEF C
  <2> QED BY <1>1, <1>2, <1>8, <2>1, <2>2
<1>9. CASE t = "udp_custom"
  <2> DEFINE C == {<<"fetch", "udp_custom">>, <<"dir", "udp_custom">>} \cup Running("udp_custom")
                    \cup Deploying("udp_custom")
  <2>1. <<"stop", "sshws">> \notin C /\ <<"fetch", "udp_custom">> \in C
    BY DEF Running, Deploying
  <2>2. Piece(InstallUdpCustom, C, {}) /\ Builds(C)
    BY InstallsGive, InstallsBuild
  <2> HIDE DEF C
  <2> QED BY <1>1, <1>2, <1>9, <2>1, <2>2
<1>10. CASE t = "slowdns"
  <2>1. <<"stop", "sshws">> \notin SlowdnsGives /\ <<"try", "slowdns">> \in SlowdnsGives
        /\ <<"try", "dnsdist">> \in SlowdnsGives
    BY DEF SlowdnsGives, Balancing, Running, Deploying
  <2>2. Piece(InstallSlowdns, SlowdnsGives, {}) /\ Builds(SlowdnsGives)
    BY InstallSlowdnsGives, InstallsBuild
  <2> QED BY <1>1, <1>2, <1>10, <2>1, <2>2
<1>11. CASE t = "hysteria"
  <2> DEFINE C == {<<"fetch", "hysteria">>, <<"dir", "hysteria">>, <<"unit", "hysteria">>}
                    \cup Deploying("hysteria") \cup {<<"enable", "hysteria">>}
  <2>1. <<"stop", "sshws">> \notin C /\ <<"fetch", "hysteria">> \in C
    BY DEF Deploying
  <2>2. Piece(InstallHysteria, C, {}) /\ Builds(C)
    BY InstallsGive, InstallsBuild
  <2> HIDE DEF C
  <2> QED BY <1>1, <1>2, <1>11, <2>1, <2>2
<1>12. CASE t = "zivpn"
  <2> DEFINE C == {<<"fetch", "zivpn">>, <<"dir", "zivpn">>, <<"unit", "zivpn">>}
                    \cup Deploying("zivpn") \cup CatchingAll \cup {<<"enable", "zivpn">>}
  <2>1. <<"stop", "sshws">> \notin C /\ <<"fetch", "zivpn">> \in C
    BY DEF Deploying, CatchingAll
  <2>2. Piece(InstallZivpn, C, {}) /\ Builds(C)
    BY InstallsGive, InstallsBuild
  <2> HIDE DEF C
  <2> QED BY <1>1, <1>2, <1>12, <2>1, <2>2
<1> QED BY <1>3, <1>4, <1>5, <1>6, <1>7, <1>8, <1>9, <1>10, <1>11, <1>12, TunnelNames

LEMMA UninstallsSound ==
  ASSUME NEW t \in Tunnels
  PROVE  Sound(UninstallScript[t]) /\ <<"drop_all", "">> \notin Cmds(UninstallScript[t])
<1>1. /\ UninstallScript["dropbear"] = UninstallDropbear /\ UninstallScript["ssl_tls"] = UninstallSslTls
      /\ UninstallScript["sshws"] = UninstallSshws /\ UninstallScript["xray"] = UninstallXray
      /\ UninstallScript["v2ray"] = UninstallV2ray /\ UninstallScript["badvpn"] = UninstallBadvpn
      /\ UninstallScript["udp_custom"] = UninstallUdpCustom /\ UninstallScript["slowdns"] = UninstallSlowdns
      /\ UninstallScript["hysteria"] = UninstallHysteria /\ UninstallScript["zivpn"] = UninstallZivpn
  BY DEF UninstallScript
<1>2. ASSUME NEW s, NEW C, Piece(s, C, {}), Fit(C), <<"stop", "sshws">> \notin C \/ Briefly(s),
             <<"drop_all", "">> \notin C
      PROVE  Sound(s) /\ <<"drop_all", "">> \notin Cmds(s)
  BY <1>2, PieceSound DEF Piece
<1>3. \A u : <<"stop", "sshws">> \notin Undone(u) /\ <<"drop_all", "">> \notin Undone(u)
  BY DEF Undone, Ceasing, Removing
<1>4. CASE t \in {"dropbear", "ssl_tls", "badvpn"}
  <2>1. Piece(UninstallScript[t], Undone(t), {}) /\ Fit(Undone(t))
    BY <1>1, <1>4, UninstallsGive, UninstallsFit
  <2> QED BY <1>2, <1>3, <2>1
<1>5. CASE t \in {"hysteria", "zivpn"}
  <2> DEFINE C == Undone(t) \cup CatchingAll
  <2>1. Piece(UninstallScript[t], C, {}) /\ Fit(C)
    BY <1>1, <1>5, UninstallsGive, UninstallsFit
  <2>2. <<"stop", "sshws">> \notin C /\ <<"drop_all", "">> \notin C
    BY <1>3 DEF CatchingAll
  <2> HIDE DEF C
  <2> QED BY <1>2, <2>1, <2>2
<1>6. CASE t = "udp_custom"
  <2> DEFINE C == Undone("udp_custom") \cup Removing("catchall") \cup {<<"rmcron", "dedup">>}
  <2>1. Piece(UninstallScript[t], C, {}) /\ Fit(C)
    BY <1>1, <1>6, UninstallsGive, UninstallsFit
  <2>2. <<"stop", "sshws">> \notin C /\ <<"drop_all", "">> \notin C
    BY <1>3 DEF Removing
  <2> HIDE DEF C
  <2> QED BY <1>2, <2>1, <2>2
<1>7. CASE t = "sshws"
  <2>1. <<"drop_all", "">> \notin SshwsUndone
    BY DEF SshwsUndone, Ceasing, Removing
  <2> QED BY <1>1, <1>2, <1>7, <2>1, UninstallSshwsGives, UninstallsFit
<1>8. CASE t = "slowdns"
  <2>1. <<"stop", "sshws">> \notin DnsUndone /\ <<"drop_all", "">> \notin DnsUndone
    BY DEF DnsUndone, Ceasing, Removing
  <2> QED BY <1>1, <1>2, <1>8, <2>1, UninstallSlowdnsGives, UninstallsFit
<1>9. CASE t = "xray"
  <2>1. <<"stop", "sshws">> \notin XrayUndone /\ <<"drop_all", "">> \notin XrayUndone
    BY DEF XrayUndone, Ceasing, Removing
  <2> QED BY <1>1, <1>2, <1>9, <2>1, UninstallXrayGives, UninstallsFit
<1>10. CASE t = "v2ray"
  <2>1. <<"stop", "sshws">> \notin V2rayUndone /\ <<"drop_all", "">> \notin V2rayUndone
    BY DEF V2rayUndone, Ceasing, Removing
  <2> QED BY <1>1, <1>2, <1>10, <2>1, OthersGive, UninstallsFit
<1> QED BY <1>4, <1>5, <1>6, <1>7, <1>8, <1>9, <1>10, TunnelNames

\* Every function of the menu but _auto_uninstall_all.
LEMMA ScriptsSound ==
  ASSUME NEW f \in Functions, f # AutoJob
  PROVE  /\ Sound(ScriptOf(f[1], f[2]))
         /\ <<"drop_all", "">> \in Cmds(ScriptOf(f[1], f[2])) => f = Rest
<1>1. ASSUME NEW s, NEW C, Piece(s, C, {}), Builds(C), <<"stop", "sshws">> \notin C \/ Briefly(s)
      PROVE  Sound(s) /\ <<"drop_all", "">> \notin Cmds(s)
  <2>1. "drop_all" \in RemoveOps /\ <<"drop_all", "">>[1] = "drop_all"
    BY DEF RemoveOps
  <2> QED BY <1>1, <2>1, BuildsFit, PieceSound DEF Piece, Builds
<1>2. CASE f \in Asked
  <2>1. PICK t \in Tunnels, g \in {"install", "uninstall"} : f = <<g, t>>
    BY <1>2 DEF Asked
  <2>2. CASE g = "install"
    <3>1. ScriptOf(f[1], f[2]) = InstallScript[t]
      BY <2>1, <2>2 DEF ScriptOf
    <3>2. <<"drop_all", "">> \notin Cmds(InstallScript[t])
      <4>1. "drop_all" \in RemoveOps /\ <<"drop_all", "">>[1] = "drop_all"
        BY DEF RemoveOps
      <4> QED BY <4>1, InstallsSound DEF Builds
    <3> QED BY <3>1, <3>2, InstallsSound
  <2>3. CASE g = "uninstall"
    <3>1. ScriptOf(f[1], f[2]) = UninstallScript[t]
      BY <2>1, <2>3 DEF ScriptOf
    <3> QED BY <3>1, UninstallsSound
  <2> QED BY <2>1, <2>2, <2>3
<1>3. CASE f \notin Asked
  <2>1. PICK e : e = ""
    OBVIOUS
  <2>2. f \in {"configure", "repair", "domain", "rest", "auto"} \X {e}
    BY <1>3, <2>1, Zenon DEF Functions
  <2>3. PICK g \in {"configure", "repair", "domain", "rest", "auto"} : f = <<g, e>>
    BY <2>2
  <2>4. AutoJob = <<"auto", e>> /\ Rest = <<"rest", e>>
    BY <2>1, Zenon DEF AutoJob, Rest
  <2>5. f[1] = g /\ f[2] = e /\ g # "auto" /\ (g = "rest" => f = Rest)
    BY <2>3, <2>4
  <2>6. CASE g = "configure"
    <3> DEFINE C == {<<"ns4", "dropbear">>, <<"restart", "ns4">>, <<"restart", "nv4">>, <<"restart", "dnsdist">>}
    <3>1. ScriptOf(f[1], f[2]) = ConfigureSlowdns
      BY <2>5, <2>6 DEF ScriptOf
    <3>2. Piece(ConfigureSlowdns, C, {}) /\ Builds(C) /\ <<"stop", "sshws">> \notin C
      BY OthersGive, InstallsBuild
    <3> QED BY <1>1, <3>1, <3>2
  <2>7. CASE g = "repair"
    <3> DEFINE C == {<<"rebuild", "pem">>, <<"restart_valid", "haproxy">>}
    <3>1. ScriptOf(f[1], f[2]) = RepairHaproxy
      BY <2>5, <2>7 DEF ScriptOf
    <3>2. Piece(RepairHaproxy, C, {}) /\ Builds(C) /\ <<"stop", "sshws">> \notin C
      BY OthersGive, InstallsBuild
    <3> QED BY <1>1, <3>1, <3>2
  <2>8. CASE g = "domain"
    <3>1. ScriptOf(f[1], f[2]) = ChangeDomain
      BY <2>5, <2>8 DEF ScriptOf
    <3>2. Piece(ChangeDomain, DomainGives, {}) /\ Builds(DomainGives) /\ Briefly(ChangeDomain)
      BY OthersGive, InstallsBuild
    <3> QED BY <1>1, <3>1, <3>2
  <2>9. CASE g = "rest"
    <3> DEFINE C == {<<"disable", "haproxy">>, <<"drop_all", "">>}
    <3>1. ScriptOf(f[1], f[2]) = UninstallRest
      BY <2>5, <2>9 DEF ScriptOf
    <3>2. Piece(UninstallRest, C, {}) /\ Fit(C) /\ <<"stop", "sshws">> \notin C
      BY OthersGive, UninstallsFit
    <3> HIDE DEF C
    <3>3. Sound(UninstallRest)
      BY <3>2, PieceSound
    <3> QED BY <2>5, <2>9, <3>1, <3>3
  <2> QED BY <2>3, <2>5, <2>6, <2>7, <2>8, <2>9
<1> QED BY <1>2, <1>3

-----------------------------------------------------------------------------
\* What command c does to host g, which is h afterwards: what comes and what
\* goes, and what is there for certain.
Comes(c, g, h) ==
  /\ \A b \in h.bin : b \in g.bin \/ (c[1] \in {"fetch", "try"} /\ b = c[2])
  /\ \A s \in h.up : s \in g.up \/ (c[1] \in MakeOps /\ s = c[2] /\ Startable(h, s))
  /\ \A s \in h.enabled : s \in g.enabled \/ (c[1] \in {"enable", "fetch", "try"} /\ s = c[2])
  /\ h.conf = g.conf \/ c[1] = "conf"
  /\ h.hap = g.hap \/ h.hap = h.conf
Leaves(c, g, h) ==
  /\ \A b \in g.bin : b \in h.bin \/ (c[1] = "wipe" /\ b = c[2])
  /\ \A s \in g.up : s \in h.up \/ (s = c[2] /\ (c[1] \in {"stop", "disable", "disable_unless_v2ray"}
                                                  \/ (c[1] = "restart" /\ ~Startable(h, s))))
  /\ \A s \in g.enabled : s \in h.enabled \/ (c[1] \in {"disable", "disable_unless_v2ray"} /\ s = c[2])
  /\ \A s \in g.unit : s \in h.unit \/ (c[1] = "rmunit" /\ s = c[2])
  /\ \A x \in g.dir : x \in h.dir \/ (c[1] \in {"rmdir", "wipe"} /\ x = c[2])
  /\ \A n \in g.table : n \in h.table \/ c[1] = "drop_all" \/ (c[1] \in {"nftstop", "nftdrop"} /\ n = c[2])
  /\ \A n \in g.file : n \in h.file \/ (c[1] = "nftunlink" /\ n = c[2])
  /\ \A n \in g.boot : n \in h.boot \/ c[1] = "drop_all" \/ (c[1] = "nftstop" /\ n = c[2])
Gives(c, g, h) ==
  /\ c[1] \in {"fetch", "try"} => c[2] \in h.bin
  /\ c[1] = "wipe" => c[2] \notin h.bin
  /\ c[1] = "disable" => c[2] \notin h.up
  /\ c[1] \in {"disable", "disable_unless_v2ray"} => \A s \in g.up : s \in h.up \/ s \notin h.enabled
  /\ c[1] = "unit" => c[2] \in h.unit
  /\ c[1] = "dir" => c[2] \in h.dir
  /\ c[1] = "conf" => h.conf = c[2]
  /\ c[1] = "nftload" => c[2] \in h.table \cap h.boot
  /\ c[1] \in {"start", "restart"} /\ Startable(h, c[2]) => c[2] \in h.up
  /\ c[1] = "restart" /\ c[2] = "haproxy" /\ Startable(h, c[2]) => h.hap = h.conf
  /\ c[1] = "enable" /\ c[2] \in h.unit \cup (Packages \cap h.bin) =>
       c[2] \in h.enabled /\ (Startable(h, c[2]) => c[2] \in h.up)
  /\ c[1] = "catchfile" /\ HasUdpCustom(g) => "catchall" \in h.file
  /\ c[1] = "catchload" /\ HasUdpCustom(g) /\ "catchall" \in g.file => "catchall" \in h.table \cap h.boot
Effect(c, g, h) == Comes(c, g, h) /\ Leaves(c, g, h) /\ Gives(c, g, h)

\* Hosts that differ in files, tables and lines of cron.
LEMMA EditsDo ==
  ASSUME NEW g \in Hosts, NEW a, NEW h
  PROVE
    /\ h = [g EXCEPT !.dir = @ \cup {a}] => Effect(<<"dir", a>>, g, h)
    /\ h = [g EXCEPT !.dir = @ \ {a}] => Effect(<<"rmdir", a>>, g, h)
    /\ h = [g EXCEPT !.unit = @ \cup {a}] => Effect(<<"unit", a>>, g, h)
    /\ h = [g EXCEPT !.unit = @ \ {a}] => Effect(<<"rmunit", a>>, g, h)
    /\ h = [g EXCEPT !.bin = @ \ {a}, !.dir = @ \ {a}] => Effect(<<"wipe", a>>, g, h)
    /\ h = [g EXCEPT !.conf = a] => Effect(<<"conf", a>>, g, h)
    /\ h = [g EXCEPT !.ns4 = a] => Effect(<<"ns4", a>>, g, h)
    /\ h = [g EXCEPT !.cron = @ \cup {a}] => Effect(<<"cron", a>>, g, h)
    /\ h = [g EXCEPT !.cron = @ \ {a}] => Effect(<<"rmcron", a>>, g, h)
    /\ h = [g EXCEPT !.file = @ \cup {a}] => Effect(<<"nftfile", a>>, g, h)
    /\ h = [g EXCEPT !.table = @ \cup {a}, !.boot = @ \cup {a}] => Effect(<<"nftload", a>>, g, h)
    /\ h = [g EXCEPT !.table = @ \ {a}, !.boot = @ \ {a}] => Effect(<<"nftstop", a>>, g, h)
    /\ h = [g EXCEPT !.file = @ \ {a}] => Effect(<<"nftunlink", a>>, g, h)
    /\ h = [g EXCEPT !.table = @ \ {a}] => Effect(<<"nftdrop", a>>, g, h)
    /\ h = [g EXCEPT !.table = @ \cap WsProxies, !.dup = FALSE, !.boot = @ \cap (WsProxies \cup {"catchall"})] => Effect(<<"drop_all", a>>, g, h)
    /\ h = g => Effect(<<"verify", a>>, g, h)
    /\ h = g => Effect(<<"need", a>>, g, h)
    /\ h = g => Effect(<<"cert", a>>, g, h)
    /\ h = g \/ h = [g EXCEPT !.dir = @ \cup {a}] => Effect(<<"rebuild", a>>, g, h)
<1>1. ASSUME h = [g EXCEPT !.dir = @ \cup {a}]
      PROVE  Effect(<<"dir", a>>, g, h)
  <2>1. /\ h.dir = g.dir \cup {a}
        /\ h.bin = g.bin /\ h.unit = g.unit /\ h.enabled = g.enabled /\ h.up = g.up /\ h.file = g.file /\ h.table = g.table /\ h.boot = g.boot
        /\ h.cron = g.cron /\ h.spared = g.spared /\ h.conf = g.conf /\ h.hap = g.hap /\ h.ns4 = g.ns4 /\ h.dup = g.dup
    BY <1>1 DEF Hosts
  <2> QED BY <2>1 DEF Effect, Comes, Leaves, Gives, MakeOps
<1>2. ASSUME h = [g EXCEPT !.dir = @ \ {a}]
      PROVE  Effect(<<"rmdir", a>>, g, h)
  <2>1. /\ h.dir = g.dir \ {a}
        /\ h.bin = g.bin /\ h.unit = g.unit /\ h.enabled = g.enabled /\ h.up = g.up /\ h.file = g.file /\ h.table = g.table /\ h.boot = g.boot
        /\ h.cron = g.cron /\ h.spared = g.spared /\ h.conf = g.conf /\ h.hap = g.hap /\ h.ns4 = g.ns4 /\ h.dup = g.dup
    BY <1>2 DEF Hosts
  <2> QED BY <2>1 DEF Effect, Comes, Leaves, Gives, MakeOps
<1>3. ASSUME h = [g EXCEPT !.unit = @ \cup {a}]
      PROVE  Effect(<<"unit", a>>, g, h)
  <2>1. /\ h.unit = g.unit \cup {a}
        /\ h.bin = g.bin /\ h.dir = g.dir /\ h.enabled = g.enabled /\ h.up = g.up /\ h.file = g.file /\ h.table = g.table /\ h.boot = g.boot
        /\ h.cron = g.cron /\ h.spared = g.spared /\ h.conf = g.conf /\ h.hap = g.hap /\ h.ns4 = g.ns4 /\ h.dup = g.dup
    BY <1>3 DEF Hosts
  <2> QED BY <2>1 DEF Effect, Comes, Leaves, Gives, MakeOps
<1>4. ASSUME h = [g EXCEPT !.unit = @ \ {a}]
      PROVE  Effect(<<"rmunit", a>>, g, h)
  <2>1. /\ h.unit = g.unit \ {a}
        /\ h.bin = g.bin /\ h.dir = g.dir /\ h.enabled = g.enabled /\ h.up = g.up /\ h.file = g.file /\ h.table = g.table /\ h.boot = g.boot
        /\ h.cron = g.cron /\ h.spared = g.spared /\ h.conf = g.conf /\ h.hap = g.hap /\ h.ns4 = g.ns4 /\ h.dup = g.dup
    BY <1>4 DEF Hosts
  <2> QED BY <2>1 DEF Effect, Comes, Leaves, Gives, MakeOps
<1>5. ASSUME h = [g EXCEPT !.bin = @ \ {a}, !.dir = @ \ {a}]
      PROVE  Effect(<<"wipe", a>>, g, h)
  <2>1. /\ h.bin = g.bin \ {a} /\ h.dir = g.dir \ {a}
        /\ h.unit = g.unit /\ h.enabled = g.enabled /\ h.up = g.up /\ h.file = g.file /\ h.table = g.table /\ h.boot = g.boot /\ h.cron = g.cron
        /\ h.spared = g.spared /\ h.conf = g.conf /\ h.hap = g.hap /\ h.ns4 = g.ns4 /\ h.dup = g.dup
    BY <1>5 DEF Hosts
  <2> QED BY <2>1 DEF Effect, Comes, Leaves, Gives, MakeOps
<1>6. ASSUME h = [g EXCEPT !.conf = a]
      PROVE  Effect(<<"conf", a>>, g, h)
  <2>1. /\ h.conf = a
        /\ h.bin = g.bin /\ h.dir = g.dir /\ h.unit = g.unit /\ h.enabled = g.enabled /\ h.up = g.up /\ h.file = g.file /\ h.table = g.table
        /\ h.boot = g.boot /\ h.cron = g.cron /\ h.spared = g.spared /\ h.hap = g.hap /\ h.ns4 = g.ns4 /\ h.dup = g.dup
    BY <1>6 DEF Hosts
  <2> QED BY <2>1 DEF Effect, Comes, Leaves, Gives, MakeOps
<1>7. ASSUME h = [g EXCEPT !.ns4 = a]
      PROVE  Effect(<<"ns4", a>>, g, h)
  <2>1. /\ h.ns4 = a
        /\ h.bin = g.bin /\ h.dir = g.dir /\ h.unit = g.unit /\ h.enabled = g.enabled /\ h.up = g.up /\ h.file = g.file /\ h.table = g.table
        /\ h.boot = g.boot /\ h.cron = g.cron /\ h.spared = g.spared /\ h.conf = g.conf /\ h.hap = g.hap /\ h.dup = g.dup
    BY <1>7 DEF Hosts
  <2> QED BY <2>1 DEF Effect, Comes, Leaves, Gives, MakeOps
<1>8. ASSUME h = [g EXCEPT !.cron = @ \cup {a}]
      PROVE  Effect(<<"cron", a>>, g, h)
  <2>1. /\ h.cron = g.cron \cup {a}
        /\ h.bin = g.bin /\ h.dir = g.dir /\ h.unit = g.unit /\ h.enabled = g.enabled /\ h.up = g.up /\ h.file = g.file /\ h.table = g.table
        /\ h.boot = g.boot /\ h.spared = g.spared /\ h.conf = g.conf /\ h.hap = g.hap /\ h.ns4 = g.ns4 /\ h.dup = g.dup
    BY <1>8 DEF Hosts
  <2> QED BY <2>1 DEF Effect, Comes, Leaves, Gives, MakeOps
<1>9. ASSUME h = [g EXCEPT !.cron = @ \ {a}]
      PROVE  Effect(<<"rmcron", a>>, g, h)
  <2>1. /\ h.cron = g.cron \ {a}
        /\ h.bin = g.bin /\ h.dir = g.dir /\ h.unit = g.unit /\ h.enabled = g.enabled /\ h.up = g.up /\ h.file = g.file /\ h.table = g.table
        /\ h.boot = g.boot /\ h.spared = g.spared /\ h.conf = g.conf /\ h.hap = g.hap /\ h.ns4 = g.ns4 /\ h.dup = g.dup
    BY <1>9 DEF Hosts
  <2> QED BY <2>1 DEF Effect, Comes, Leaves, Gives, MakeOps
<1>10. ASSUME h = [g EXCEPT !.file = @ \cup {a}]
      PROVE  Effect(<<"nftfile", a>>, g, h)
  <2>1. /\ h.file = g.file \cup {a}
        /\ h.bin = g.bin /\ h.dir = g.dir /\ h.unit = g.unit /\ h.enabled = g.enabled /\ h.up = g.up /\ h.table = g.table /\ h.boot = g.boot
        /\ h.cron = g.cron /\ h.spared = g.spared /\ h.conf = g.conf /\ h.hap = g.hap /\ h.ns4 = g.ns4 /\ h.dup = g.dup
    BY <1>10 DEF Hosts
  <2> QED BY <2>1 DEF Effect, Comes, Leaves, Gives, MakeOps
<1>11. ASSUME h = [g EXCEPT !.table = @ \cup {a}, !.boot = @ \cup {a}]
      PROVE  Effect(<<"nftload", a>>, g, h)
  <2>1. /\ h.table = g.table \cup {a} /\ h.boot = g.boot \cup {a}
        /\ h.bin = g.bin /\ h.dir = g.dir /\ h.unit = g.unit /\ h.enabled = g.enabled /\ h.up = g.up /\ h.file = g.file /\ h.cron = g.cron
        /\ h.spared = g.spared /\ h.conf = g.conf /\ h.hap = g.hap /\ h.ns4 = g.ns4 /\ h.dup = g.dup
    BY <1>11 DEF Hosts
  <2> QED BY <2>1 DEF Effect, Comes, Leaves, Gives, MakeOps
<1>12. ASSUME h = [g EXCEPT !.table = @ \ {a}, !.boot = @ \ {a}]
      PROVE  Effect(<<"nftstop", a>>, g, h)
  <2>1. /\ h.table = g.table \ {a} /\ h.boot = g.boot \ {a}
        /\ h.bin = g.bin /\ h.dir = g.dir /\ h.unit = g.unit /\ h.enabled = g.enabled /\ h.up = g.up /\ h.file = g.file /\ h.cron = g.cron
        /\ h.spared = g.spared /\ h.conf = g.conf /\ h.hap = g.hap /\ h.ns4 = g.ns4 /\ h.dup = g.dup
    BY <1>12 DEF Hosts
  <2> QED BY <2>1 DEF Effect, Comes, Leaves, Gives, MakeOps
<1>13. ASSUME h = [g EXCEPT !.file = @ \ {a}]
      PROVE  Effect(<<"nftunlink", a>>, g, h)
  <2>1. /\ h.file = g.file \ {a}
        /\ h.bin = g.bin /\ h.dir = g.dir /\ h.unit = g.unit /\ h.enabled = g.enabled /\ h.up = g.up /\ h.table = g.table /\ h.boot = g.boot
        /\ h.cron = g.cron /\ h.spared = g.spared /\ h.conf = g.conf /\ h.hap = g.hap /\ h.ns4 = g.ns4 /\ h.dup = g.dup
    BY <1>13 DEF Hosts
  <2> QED BY <2>1 DEF Effect, Comes, Leaves, Gives, MakeOps
<1>14. ASSUME h = [g EXCEPT !.table = @ \ {a}]
      PROVE  Effect(<<"nftdrop", a>>, g, h)
  <2>1. /\ h.table = g.table \ {a}
        /\ h.bin = g.bin /\ h.dir = g.dir /\ h.unit = g.unit /\ h.enabled = g.enabled /\ h.up = g.up /\ h.file = g.file /\ h.boot = g.boot
        /\ h.cron = g.cron /\ h.spared = g.spared /\ h.conf = g.conf /\ h.hap = g.hap /\ h.ns4 = g.ns4 /\ h.dup = g.dup
    BY <1>14 DEF Hosts
  <2> QED BY <2>1 DEF Effect, Comes, Leaves, Gives, MakeOps
<1>15. ASSUME h = [g EXCEPT !.table = @ \cap WsProxies, !.dup = FALSE, !.boot = @ \cap (WsProxies \cup {"catchall"})]
      PROVE  Effect(<<"drop_all", a>>, g, h)
  <2>1. /\ h.table = g.table \cap WsProxies /\ h.dup = FALSE /\ h.boot = g.boot \cap (WsProxies \cup {"catchall"})
        /\ h.bin = g.bin /\ h.dir = g.dir /\ h.unit = g.unit /\ h.enabled = g.enabled /\ h.up = g.up /\ h.file = g.file /\ h.cron = g.cron
        /\ h.spared = g.spared /\ h.conf = g.conf /\ h.hap = g.hap /\ h.ns4 = g.ns4
    BY <1>15 DEF Hosts
  <2> QED BY <2>1 DEF Effect, Comes, Leaves, Gives, MakeOps
<1>16. ASSUME h = g
      PROVE  Effect(<<"verify", a>>, g, h)
  <2>1. /\ h.bin = g.bin /\ h.dir = g.dir /\ h.unit = g.unit /\ h.enabled = g.enabled /\ h.up = g.up /\ h.file = g.file /\ h.table = g.table
        /\ h.boot = g.boot /\ h.cron = g.cron /\ h.spared = g.spared /\ h.conf = g.conf /\ h.hap = g.hap /\ h.ns4 = g.ns4 /\ h.dup = g.dup
    BY <1>16
  <2> QED BY <2>1 DEF Effect, Comes, Leaves, Gives, MakeOps
<1>17. ASSUME h = g
      PROVE  Effect(<<"need", a>>, g, h)
  <2>1. /\ h.bin = g.bin /\ h.dir = g.dir /\ h.unit = g.unit /\ h.enabled = g.enabled /\ h.up = g.up /\ h.file = g.file /\ h.table = g.table
        /\ h.boot = g.boot /\ h.cron = g.cron /\ h.spared = g.spared /\ h.conf = g.conf /\ h.hap = g.hap /\ h.ns4 = g.ns4 /\ h.dup = g.dup
    BY <1>17
  <2> QED BY <2>1 DEF Effect, Comes, Leaves, Gives, MakeOps
<1>18. ASSUME h = g
      PROVE  Effect(<<"cert", a>>, g, h)
  <2>1. /\ h.bin = g.bin /\ h.dir = g.dir /\ h.unit = g.unit /\ h.enabled = g.enabled /\ h.up = g.up /\ h.file = g.file /\ h.table = g.table
        /\ h.boot = g.boot /\ h.cron = g.cron /\ h.spared = g.spared /\ h.conf = g.conf /\ h.hap = g.hap /\ h.ns4 = g.ns4 /\ h.dup = g.dup
    BY <1>18
  <2> QED BY <2>1 DEF Effect, Comes, Leaves, Gives, MakeOps
<1>19. ASSUME h = g \/ h = [g EXCEPT !.dir = @ \cup {a}]
       PROVE  Effect(<<"rebuild", a>>, g, h)
  <2>1. /\ h.dir = g.dir \/ h.dir = g.dir \cup {a}
        /\ h.bin = g.bin /\ h.unit = g.unit /\ h.enabled = g.enabled /\ h.up = g.up /\ h.file = g.file /\ h.table = g.table
        /\ h.boot = g.boot /\ h.cron = g.cron /\ h.spared = g.spared /\ h.conf = g.conf /\ h.hap = g.hap /\ h.ns4 = g.ns4 /\ h.dup = g.dup
    BY <1>19 DEF Hosts
  <2> QED BY <2>1 DEF Effect, Comes, Leaves, Gives, MakeOps
<1> QED BY <1>1, <1>2, <1>3, <1>4, <1>5, <1>6, <1>7, <1>8, <1>9, <1>10, <1>11, <1>12, <1>13, <1>14, <1>15, <1>16, <1>17, <1>18, <1>19

\* A host with the same files, of which the same services can be started.
SameUnits(g, h) ==
  /\ h.bin = g.bin /\ h.dir = g.dir /\ h.unit = g.unit /\ h.file = g.file
  /\ h.table = g.table /\ h.boot = g.boot /\ h.cron = g.cron /\ h.conf = g.conf
LEMMA SameStartable ==
  ASSUME NEW g, NEW h, SameUnits(g, h), NEW s
  PROVE  Startable(h, s) = Startable(g, s)
BY DEF SameUnits, Startable

LEMMA StartedDoes ==
  ASSUME NEW g \in Hosts, NEW s, NEW h, h = Started(g, s)
  PROVE  /\ SameUnits(g, h) /\ h.enabled = g.enabled
         /\ g.up \subseteq h.up /\ h.up \subseteq g.up \cup {s}
         /\ s \in h.up => s \in g.up \/ Startable(g, s)
         /\ Startable(g, s) => s \in h.up
         /\ h.hap = g.hap \/ h.hap = g.conf
         /\ s = "haproxy" /\ s \notin g.up /\ Startable(g, s) => h.hap = g.conf
<1>1. CASE s \in g.up \/ ~Startable(g, s)
  BY <1>1 DEF Started, SameUnits
<1>2. CASE ~(s \in g.up \/ ~Startable(g, s))
  <2>1. PICK c : c = IF s = "haproxy" THEN g.conf ELSE g.hap
    OBVIOUS
  <2>2. PICK U : U = g.up \cup {s}
    OBVIOUS
  <2>3. h = [g EXCEPT !.up = U, !.hap = c]
    BY <1>2, <2>1, <2>2 DEF Started
  <2>4. /\ h.up = U /\ h.hap = c /\ h.enabled = g.enabled
        /\ h.bin = g.bin /\ h.dir = g.dir /\ h.unit = g.unit /\ h.file = g.file
        /\ h.table = g.table /\ h.boot = g.boot /\ h.cron = g.cron /\ h.conf = g.conf
    BY <2>3 DEF Hosts
  <2> QED BY <1>2, <2>1, <2>2, <2>4 DEF SameUnits
<1> QED BY <1>1, <1>2

LEMMA StoppedDoes ==
  ASSUME NEW g \in Hosts, NEW s, NEW h, h = Stopped(g, s)
  PROVE  SameUnits(g, h) /\ h.enabled = g.enabled /\ h.up = g.up \ {s} /\ h.hap = g.hap /\ h \in Hosts
<1>1. PICK U : U = g.up \ {s}
  OBVIOUS
<1>2. h = [g EXCEPT !.up = U] /\ U \in SUBSET Services
  BY <1>1, HostParts DEF Stopped
<1>3. /\ h.up = U /\ h.hap = g.hap /\ h.enabled = g.enabled
      /\ h.bin = g.bin /\ h.dir = g.dir /\ h.unit = g.unit /\ h.file = g.file
      /\ h.table = g.table /\ h.boot = g.boot /\ h.cron = g.cron /\ h.conf = g.conf
  BY <1>2 DEF Hosts
<1>4. h \in Hosts
  BY <1>2 DEF Hosts
<1> QED BY <1>1, <1>3, <1>4 DEF SameUnits

\* systemctl enable --now.
LEMMA EnabledDoes ==
  ASSUME NEW g \in Hosts, NEW s \in Services, NEW h, h = EnabledNow(g, s)
  PROVE  /\ SameUnits(g, h)
         /\ g.enabled \subseteq h.enabled /\ h.enabled \subseteq g.enabled \cup {s}
         /\ g.up \subseteq h.up /\ h.up \subseteq g.up \cup {s}
         /\ s \in h.up => s \in g.up \/ Startable(h, s)
         /\ s \in g.unit \cup (Packages \cap g.bin) => s \in h.enabled /\ (Startable(h, s) => s \in h.up)
         /\ h.hap = g.hap \/ h.hap = g.conf
<1>1. CASE s \notin g.unit \cup (Packages \cap g.bin)
  BY <1>1 DEF EnabledNow, SameUnits
<1>2. CASE s \in g.unit \cup (Packages \cap g.bin)
  <2>1. PICK U : U = g.enabled \cup {s}
    OBVIOUS
  <2>2. PICK k : k = [g EXCEPT !.enabled = U]
    OBVIOUS
  <2>3. /\ k.enabled = U /\ k.up = g.up /\ k.hap = g.hap
        /\ k.bin = g.bin /\ k.dir = g.dir /\ k.unit = g.unit /\ k.file = g.file
        /\ k.table = g.table /\ k.boot = g.boot /\ k.cron = g.cron /\ k.conf = g.conf
    BY <2>2 DEF Hosts
  <2>4. k \in Hosts
    <3>1. U \in SUBSET Services
      BY <2>1, HostParts
    <3> QED BY <2>2, <3>1, EnabledEdit DEF SameFiles
  <2>5. h = Started(k, s)
    BY <1>2, <2>1, <2>2 DEF EnabledNow
  <2>6. /\ SameUnits(k, h) /\ h.enabled = k.enabled
        /\ k.up \subseteq h.up /\ h.up \subseteq k.up \cup {s}
        /\ s \in h.up => s \in k.up \/ Startable(k, s)
        /\ Startable(k, s) => s \in h.up
        /\ h.hap = k.hap \/ h.hap = k.conf
    BY <2>4, <2>5, StartedDoes
  <2>7. Startable(h, s) = Startable(k, s)
    BY <2>6, SameStartable
  <2>8. SameUnits(g, h)
    BY <2>3, <2>6 DEF SameUnits
  <2> QED BY <1>2, <2>1, <2>3, <2>6, <2>7, <2>8
<1> QED BY <1>1, <1>2

\* What systemctl, apt and the catchall do.
LEMMA SystemctlDoes ==
  ASSUME NEW g \in Hosts, NEW s \in Services, NEW h
  PROVE  /\ h = Started(g, s) => Effect(<<"start", s>>, g, h)
         /\ h = Stopped(g, s) => Effect(<<"stop", s>>, g, h)
         /\ h = Restarted(g, s) => Effect(<<"restart", s>>, g, h)
         /\ h = EnabledNow(g, s) => Effect(<<"enable", s>>, g, h)
         /\ h = Stopped([g EXCEPT !.enabled = @ \ {s}], s) =>
              \A op \in {"disable", "disable_unless_v2ray"} : Effect(<<op, s>>, g, h)
         /\ Effect(<<"disable_unless_v2ray", s>>, g, g)
         /\ h = (IF Startable(g, s) THEN Restarted(g, s) ELSE g) => Effect(<<"restart_valid", s>>, g, h)
<1>1. ASSUME h = Started(g, s) PROVE Effect(<<"start", s>>, g, h)
  <2>1. /\ SameUnits(g, h) /\ h.enabled = g.enabled
        /\ g.up \subseteq h.up /\ h.up \subseteq g.up \cup {s}
        /\ s \in h.up => s \in g.up \/ Startable(g, s)
        /\ Startable(g, s) => s \in h.up
        /\ h.hap = g.hap \/ h.hap = g.conf
    BY <1>1, StartedDoes
  <2>2. Startable(h, s) = Startable(g, s)
    BY <2>1, SameStartable
  <2> QED BY <2>1, <2>2 DEF Effect, Comes, Leaves, Gives, MakeOps, SameUnits
<1>2. ASSUME h = Stopped(g, s) PROVE Effect(<<"stop", s>>, g, h)
  <2>1. SameUnits(g, h) /\ h.enabled = g.enabled /\ h.up = g.up \ {s} /\ h.hap = g.hap
    BY <1>2, StoppedDoes
  <2> QED BY <2>1 DEF Effect, Comes, Leaves, Gives, SameUnits
<1>3. ASSUME h = Restarted(g, s) PROVE Effect(<<"restart", s>>, g, h)
  <2>1. PICK k : k = Stopped(g, s)
    OBVIOUS
  <2>2. SameUnits(g, k) /\ k.enabled = g.enabled /\ k.up = g.up \ {s} /\ k.hap = g.hap /\ k \in Hosts
    BY <2>1, StoppedDoes
  <2>3. h = Started(k, s)
    BY <1>3, <2>1 DEF Restarted
  <2>4. /\ SameUnits(k, h) /\ h.enabled = k.enabled
        /\ k.up \subseteq h.up /\ h.up \subseteq k.up \cup {s}
        /\ s \in h.up => s \in k.up \/ Startable(k, s)
        /\ Startable(k, s) => s \in h.up
        /\ h.hap = k.hap \/ h.hap = k.conf
        /\ s = "haproxy" /\ s \notin k.up /\ Startable(k, s) => h.hap = k.conf
    BY <2>2, <2>3, StartedDoes
  <2>5. Startable(h, s) = Startable(k, s)
    BY <2>4, SameStartable
  <2>6. SameUnits(g, h)
    BY <2>2, <2>4 DEF SameUnits
  <2>7. h.conf = k.conf
    BY <2>4 DEF SameUnits
  <2> QED BY <2>2, <2>4, <2>5, <2>6, <2>7 DEF Effect, Comes, Leaves, Gives, MakeOps, SameUnits
<1>4. ASSUME h = EnabledNow(g, s) PROVE Effect(<<"enable", s>>, g, h)
  <2>1. /\ SameUnits(g, h)
        /\ g.enabled \subseteq h.enabled /\ h.enabled \subseteq g.enabled \cup {s}
        /\ g.up \subseteq h.up /\ h.up \subseteq g.up \cup {s}
        /\ s \in h.up => s \in g.up \/ Startable(h, s)
        /\ s \in g.unit \cup (Packages \cap g.bin) => s \in h.enabled /\ (Startable(h, s) => s \in h.up)
        /\ h.hap = g.hap \/ h.hap = g.conf
    BY <1>4, EnabledDoes
  <2> QED BY <2>1 DEF Effect, Comes, Leaves, Gives, MakeOps, SameUnits
<1>5. ASSUME h = Stopped([g EXCEPT !.enabled = @ \ {s}], s), NEW op \in {"disable", "disable_unless_v2ray"}
      PROVE  Effect(<<op, s>>, g, h)
  <2>1. PICK U : U = g.enabled \ {s}
    OBVIOUS
  <2>2. PICK k : k = [g EXCEPT !.enabled = U]
    OBVIOUS
  <2>3. /\ k.enabled = U /\ k.up = g.up /\ k.hap = g.hap
        /\ k.bin = g.bin /\ k.dir = g.dir /\ k.unit = g.unit /\ k.file = g.file
        /\ k.table = g.table /\ k.boot = g.boot /\ k.cron = g.cron /\ k.conf = g.conf
    BY <2>2 DEF Hosts
  <2>4. k \in Hosts
    <3>1. U \in SUBSET Services
      BY <2>1, HostParts
    <3> QED BY <2>2, <3>1, EnabledEdit DEF SameFiles
  <2>5. h = Stopped(k, s)
    BY <1>5, <2>1, <2>2
  <2>6. SameUnits(k, h) /\ h.enabled = k.enabled /\ h.up = k.up \ {s} /\ h.hap = k.hap
    BY <2>4, <2>5, StoppedDoes
  <2> QED BY <2>1, <2>3, <2>6 DEF Effect, Comes, Leaves, Gives, SameUnits
<1>6. Effect(<<"disable_unless_v2ray", s>>, g, g)
  BY DEF Effect, Comes, Leaves, Gives
<1>7. ASSUME h = IF Startable(g, s) THEN Restarted(g, s) ELSE g
      PROVE  Effect(<<"restart_valid", s>>, g, h)
  <2>1. CASE ~Startable(g, s)
    BY <1>7, <2>1 DEF Effect, Comes, Leaves, Gives
  <2>2. CASE Startable(g, s)
    <3>1. PICK k : k = Stopped(g, s)
      OBVIOUS
    <3>2. SameUnits(g, k) /\ k.enabled = g.enabled /\ k.up = g.up \ {s} /\ k.hap = g.hap /\ k \in Hosts
      BY <3>1, StoppedDoes
    <3>3. h = Started(k, s) /\ Startable(k, s)
      BY <1>7, <2>2, <3>1, <3>2, SameStartable DEF Restarted
    <3>4. /\ SameUnits(k, h) /\ h.enabled = k.enabled
          /\ k.up \subseteq h.up /\ h.up \subseteq k.up \cup {s} /\ s \in h.up
          /\ h.hap = k.hap \/ h.hap = k.conf
      BY <3>2, <3>3, StartedDoes
    <3>5. Startable(h, s)
      BY <3>3, <3>4, SameStartable
    <3>6. SameUnits(g, h)
      BY <3>2, <3>4 DEF SameUnits
    <3>7. h.conf = k.conf
      BY <3>4 DEF SameUnits
    <3> QED BY <3>2, <3>4, <3>5, <3>6, <3>7 DEF Effect, Comes, Leaves, Gives, MakeOps, SameUnits
  <2> QED BY <2>1, <2>2
<1> QED BY <1>1, <1>2, <1>3, <1>4, <1>5, <1>6, <1>7

LEMMA AptDoes ==
  ASSUME NEW g \in Hosts, NEW p \in Parts, NEW op \in {"fetch", "try"}
  PROVE  Effect(<<op, p>>, g, AptInstalled(g, p))
<1>1. CASE p \in g.bin \/ p \notin Packages
  <2>1. PICK h : h = [g EXCEPT !.bin = g.bin \cup {p}]
    OBVIOUS
  <2>2. /\ h.bin = g.bin \cup {p} /\ h.dir = g.dir /\ h.unit = g.unit /\ h.file = g.file
        /\ h.table = g.table /\ h.boot = g.boot /\ h.cron = g.cron /\ h.conf = g.conf
        /\ h.up = g.up /\ h.enabled = g.enabled /\ h.hap = g.hap
    BY <2>1 DEF Hosts
  <2>3. AptInstalled(g, p) = h
    BY <1>1, <2>1 DEF AptInstalled
  <2>4. Effect(<<op, p>>, g, h)
    BY <2>2 DEF Effect, Comes, Leaves, Gives
  <2> QED BY <2>3, <2>4
<1>2. CASE ~(p \in g.bin \/ p \notin Packages)
  <2>1. PICK k : k = [g EXCEPT !.bin = @ \cup {p}, !.dir = @ \cup {p}]
    OBVIOUS
  <2>2. p \in Things /\ p \in Services
    BY <1>2 DEF Things, Services, Packages
  <2>3. k \in Hosts
    BY <2>1, <2>2 DEF Hosts
  <2>4. /\ k.bin = g.bin \cup {p} /\ k.dir = g.dir \cup {p} /\ k.unit = g.unit /\ k.file = g.file
        /\ k.table = g.table /\ k.boot = g.boot /\ k.cron = g.cron /\ k.conf = g.conf
        /\ k.up = g.up /\ k.enabled = g.enabled /\ k.hap = g.hap
    BY <2>1 DEF Hosts
  <2>5. PICK h : h = EnabledNow(k, p)
    OBVIOUS
  <2>6. /\ SameUnits(k, h)
        /\ k.enabled \subseteq h.enabled /\ h.enabled \subseteq k.enabled \cup {p}
        /\ k.up \subseteq h.up /\ h.up \subseteq k.up \cup {p}
        /\ p \in h.up => p \in k.up \/ Startable(h, p)
        /\ h.hap = k.hap \/ h.hap = k.conf
    BY <2>2, <2>3, <2>5, EnabledDoes
  <2>7. AptInstalled(g, p) = h
    BY <1>2, <2>1, <2>5 DEF AptInstalled
  <2>8. Effect(<<op, p>>, g, h)
    BY <2>4, <2>6 DEF Effect, Comes, Leaves, Gives, MakeOps, SameUnits
  <2> QED BY <2>7, <2>8
<1> QED BY <1>1, <1>2

LEMMA CatchallDoes ==
  ASSUME NEW g \in Hosts, NEW n
  PROVE  /\ Effect(<<"catchfile", n>>, g, IF HasUdpCustom(g) THEN CatchallFile(g) ELSE g)
         /\ Effect(<<"catchload", n>>, g, IF HasUdpCustom(g) THEN StartCatchall(g) ELSE g)
<1>1. ASSUME ~HasUdpCustom(g), NEW op \in {"catchfile", "catchload"}
      PROVE  Effect(<<op, n>>, g, g)
  BY <1>1 DEF Effect, Comes, Leaves, Gives
<1>2. ASSUME NEW h, h = CatchallFile(g)
      PROVE  Effect(<<"catchfile", n>>, g, h)
  <2>1. /\ h.bin = g.bin /\ h.dir = g.dir /\ h.unit = g.unit /\ h.enabled = g.enabled /\ h.up = g.up
        /\ h.table = g.table /\ h.boot = g.boot /\ h.cron = g.cron /\ h.conf = g.conf /\ h.hap = g.hap
        /\ h.file = g.file \cup {"catchall"}
    <3>1. PICK F : F = g.file \cup {"catchall"}
      OBVIOUS
    <3>2. PICK R : R = Ranged \cap (g.bin \cup g.dir)
      OBVIOUS
    <3>3. h = [g EXCEPT !.file = F, !.spared = [g.spared EXCEPT !.file = R]]
      BY <1>2, <3>1, <3>2 DEF CatchallFile, Hosts
    <3> QED BY <3>1, <3>3 DEF Hosts
  <2> QED BY <2>1 DEF Effect, Comes, Leaves, Gives
<1>3. ASSUME HasUdpCustom(g), NEW h, h = StartCatchall(g)
      PROVE  Effect(<<"catchload", n>>, g, h)
  <2>1. PICK k : k = IF "catchall" \in g.table THEN g ELSE LoadCatchall(g)
    OBVIOUS
  <2>2. /\ k \in Hosts
        /\ k.bin = g.bin /\ k.dir = g.dir /\ k.unit = g.unit /\ k.enabled = g.enabled /\ k.up = g.up
        /\ k.boot = g.boot /\ k.cron = g.cron /\ k.conf = g.conf /\ k.hap = g.hap /\ k.file = g.file
        /\ g.table \subseteq k.table /\ ("catchall" \in g.file => "catchall" \in k.table)
    <3>1. CASE "catchall" \in g.table \/ "catchall" \notin g.file
      BY <2>1, <3>1 DEF LoadCatchall
    <3>2. CASE "catchall" \notin g.table /\ "catchall" \in g.file
      <4>1. PICK T : T = g.table \cup {"catchall"}
        OBVIOUS
      <4>2. PICK s : s = [g.spared EXCEPT !.table = g.spared.file]
        OBVIOUS
      <4>3. k = [g EXCEPT !.table = T, !.spared = s]
        BY <2>1, <3>2, <4>1, <4>2 DEF LoadCatchall, Hosts
      <4>4. T \in SUBSET Tables /\ s \in [file : SUBSET Ranged, table : SUBSET Ranged]
        BY <4>1, <4>2, NameSets DEF Hosts
      <4>5. k \in Hosts
        BY <4>3, <4>4 DEF Hosts
      <4> QED BY <4>1, <4>3, <4>5 DEF Hosts
    <3> QED BY <3>1, <3>2
  <2>3. PICK B : B = k.boot \cup {"catchall"}
    OBVIOUS
  <2>4. PICK C : C = k.cron \cup {"dedup"}
    OBVIOUS
  <2>5. h = [k EXCEPT !.boot = B, !.cron = C]
    BY <1>3, <2>1, <2>3, <2>4 DEF StartCatchall
  <2>6. /\ h.bin = g.bin /\ h.dir = g.dir /\ h.unit = g.unit /\ h.enabled = g.enabled /\ h.up = g.up
        /\ h.conf = g.conf /\ h.hap = g.hap /\ h.file = g.file
        /\ h.table = k.table /\ h.boot = g.boot \cup {"catchall"}
    BY <2>2, <2>3, <2>5 DEF Hosts
  <2> QED BY <2>2, <2>6 DEF Effect, Comes, Leaves, Gives
<1> QED BY <1>1, <1>2, <1>3

\* One command of a script that is not the last of a removal.
Commanded ==
  Files \/ Rebuild \/ Systemctl \/ Obtain \/ Verify \/ (Need /\ Arg \in host.dir) \/ Nft \/ Catchall
    \/ Does("cert", host) \/ (Busy("drop_all") /\ Removal)
LEMMA CommandDoes ==
  ASSUME TunnelInv, Commanded
  PROVE  /\ Working /\ job.script # <<>> /\ Advance /\ Others
         /\ Effect(Head(job.script), host, host')
<1>0. host \in Hosts
  BY DEF TunnelInv, TypeOK
<1>1. ASSUME NEW op, NEW h, op \notin AutoOps, Does(op, h), Effect(<<op, Arg>>, host, h)
      PROVE  /\ Working /\ job.script # <<>> /\ Advance /\ Others
             /\ Effect(Head(job.script), host, host')
  <2>1. Busy(op) /\ host' = h /\ Advance /\ Others
    BY <1>1 DEF Does
  <2>2. Working /\ job.script # <<>> /\ Head(job.script) = <<op, Arg>>
    BY <1>1, <2>1, ArgTypes
  <2> QED BY <1>1, <2>1, <2>2
<1>2. CASE Files
  <2>1. /\ Effect(<<"dir", Arg>>, host, [host EXCEPT !.dir = @ \cup {Arg}])
        /\ Effect(<<"rmdir", Arg>>, host, [host EXCEPT !.dir = @ \ {Arg}])
        /\ Effect(<<"unit", Arg>>, host, [host EXCEPT !.unit = @ \cup {Arg}])
        /\ Effect(<<"rmunit", Arg>>, host, [host EXCEPT !.unit = @ \ {Arg}])
        /\ Effect(<<"wipe", Arg>>, host, [host EXCEPT !.bin = @ \ {Arg}, !.dir = @ \ {Arg}])
        /\ Effect(<<"conf", Arg>>, host, [host EXCEPT !.conf = Arg])
        /\ Effect(<<"ns4", Arg>>, host, [host EXCEPT !.ns4 = Arg])
        /\ Effect(<<"cron", Arg>>, host, [host EXCEPT !.cron = @ \cup {Arg}])
        /\ Effect(<<"rmcron", Arg>>, host, [host EXCEPT !.cron = @ \ {Arg}])
    BY <1>0, EditsDo
  <2>2. \A op \in {"dir", "rmdir", "unit", "rmunit", "wipe", "conf", "ns4", "cron", "rmcron"} : op \notin AutoOps
    BY DEF AutoOps
  <2>3. PICK op \in {"dir", "rmdir", "unit", "rmunit", "wipe", "conf", "ns4", "cron", "rmcron"} : \E h :
          Does(op, h) /\ Effect(<<op, Arg>>, host, h)
    BY <1>2, <2>1 DEF Files
  <2> QED BY <1>1, <2>2, <2>3
<1>3. CASE Systemctl
  <2>0. \A op \in {"start", "stop", "restart", "restart_valid", "enable", "disable", "disable_unless_v2ray"} :
          op \notin AutoOps /\ op \in UnitOps
    BY DEF AutoOps, UnitOps
  <2>1. PICK op \in {"start", "stop", "restart", "restart_valid", "enable", "disable", "disable_unless_v2ray"} : Busy(op)
    BY <1>3 DEF Systemctl, Does
  <2>2. Arg \in Services
    BY <2>0, <2>1, ArgTypes
  <2>3. /\ Effect(<<"start", Arg>>, host, Started(host, Arg))
        /\ Effect(<<"stop", Arg>>, host, Stopped(host, Arg))
        /\ Effect(<<"restart", Arg>>, host, Restarted(host, Arg))
        /\ Effect(<<"enable", Arg>>, host, EnabledNow(host, Arg))
        /\ Effect(<<"disable", Arg>>, host, Stopped([host EXCEPT !.enabled = @ \ {Arg}], Arg))
        /\ Effect(<<"disable_unless_v2ray", Arg>>, host, Stopped([host EXCEPT !.enabled = @ \ {Arg}], Arg))
        /\ Effect(<<"disable_unless_v2ray", Arg>>, host, host)
        /\ Effect(<<"restart_valid", Arg>>, host, IF Startable(host, Arg) THEN Restarted(host, Arg) ELSE host)
    BY <1>0, <2>2, SystemctlDoes
  <2>4. PICK o \in {"start", "stop", "restart", "restart_valid", "enable", "disable", "disable_unless_v2ray"} : \E h :
          Does(o, h) /\ Effect(<<o, Arg>>, host, h)
    BY <1>3, <2>3 DEF Systemctl
  <2> QED BY <1>1, <2>0, <2>4
<1>4. CASE Obtain
  <2>0. "fetch" \notin AutoOps /\ "try" \notin AutoOps
    BY DEF AutoOps
  <2>1. PICK op \in {"fetch", "try"} : Busy(op)
    BY <1>4 DEF Obtain
  <2>2. Arg \in Parts
    BY <2>0, <2>1, ArgTypes
  <2>3. Does(op, AptInstalled(host, Arg))
    BY <1>4, <2>1 DEF Obtain, Does
  <2> QED BY <1>0, <1>1, <2>0, <2>2, <2>3, AptDoes
<1>5. CASE Verify \/ (Need /\ Arg \in host.dir) \/ Does("cert", host)
  <2>1. PICK op \in {"verify", "need", "cert"} : Does(op, host)
    BY <1>5 DEF Verify, Need
  <2>2. op \notin AutoOps
    BY DEF AutoOps
  <2>3. Effect(<<op, Arg>>, host, host)
    BY <1>0, EditsDo
  <2> QED BY <1>1, <2>1, <2>2, <2>3
<1>6. CASE Nft
  <2>1. /\ Effect(<<"nftfile", Arg>>, host, [host EXCEPT !.file = @ \cup {Arg}])
        /\ Effect(<<"nftload", Arg>>, host, [host EXCEPT !.table = @ \cup {Arg}, !.boot = @ \cup {Arg}])
        /\ Effect(<<"nftstop", Arg>>, host, [host EXCEPT !.table = @ \ {Arg}, !.boot = @ \ {Arg}])
        /\ Effect(<<"nftunlink", Arg>>, host, [host EXCEPT !.file = @ \ {Arg}])
        /\ Effect(<<"nftdrop", Arg>>, host, [host EXCEPT !.table = @ \ {Arg}])
    BY <1>0, EditsDo
  <2>2. \A op \in {"nftfile", "nftload", "nftstop", "nftunlink", "nftdrop"} : op \notin AutoOps
    BY DEF AutoOps
  <2>3. PICK op \in {"nftfile", "nftload", "nftstop", "nftunlink", "nftdrop"} : \E h :
          Does(op, h) /\ Effect(<<op, Arg>>, host, h)
    BY <1>6, <2>1 DEF Nft
  <2> QED BY <1>1, <2>2, <2>3
<1>7. CASE Catchall
  <2>1. /\ Effect(<<"catchfile", Arg>>, host, IF HasUdpCustom(host) THEN CatchallFile(host) ELSE host)
        /\ Effect(<<"catchload", Arg>>, host, IF HasUdpCustom(host) THEN StartCatchall(host) ELSE host)
    BY <1>0, CatchallDoes
  <2>2. "catchfile" \notin AutoOps /\ "catchload" \notin AutoOps
    BY DEF AutoOps
  <2> QED BY <1>1, <1>7, <2>1, <2>2 DEF Catchall
<1>8. CASE Busy("drop_all") /\ Removal
  <2>1. Does("drop_all", [host EXCEPT !.table = @ \cap WsProxies, !.dup = FALSE,
                                      !.boot = @ \cap (WsProxies \cup {"catchall"})])
    BY <1>8 DEF Removal, Does, Busy
  <2>2. Effect(<<"drop_all", Arg>>, host,
          [host EXCEPT !.table = @ \cap WsProxies, !.dup = FALSE,
                       !.boot = @ \cap (WsProxies \cup {"catchall"})])
    BY <1>0, EditsDo
  <2>3. "drop_all" \notin AutoOps
    BY DEF AutoOps
  <2> QED BY <1>1, <2>1, <2>2, <2>3
<1>9. CASE Rebuild
  <2>1. PICK h : Does("rebuild", h) /\ (h = host \/ h = [host EXCEPT !.dir = @ \cup {Arg}])
    BY <1>9 DEF Rebuild
  <2>2. Effect(<<"rebuild", Arg>>, host, h)
    BY <1>0, <2>1, EditsDo
  <2>3. "rebuild" \notin AutoOps
    BY DEF AutoOps
  <2> QED BY <1>1, <2>1, <2>2, <2>3
<1> QED BY <1>2, <1>3, <1>4, <1>5, <1>6, <1>7, <1>8, <1>9 DEF Commanded

-----------------------------------------------------------------------------
\* Between any two commands of a job that no failure has spoiled: a program that
\* is there, or that runs unless cron has started it meanwhile, has its tables,
\* files and services of boot, or the script goes on to load them or to wipe it.
Ahead == Cmds(job.script)
Live(b) == b \in host.bin \/ b \in host.up \ revived
Held == host.table \cup Reloading
Guarded(n) == n \in Held /\ n \in host.file /\ n \in host.boot
Orderly == Owed(job.script) = {} /\ Sorted(Ahead)
Guarding ==
  \A b \in Kept : Live(b) =>
    <<"wipe", b>> \in Ahead \/ \A n \in Guards(b) : Guarded(n) \/ <<"nftload", n>> \in Ahead
Leaving ==
  \A b \in Kept :
    /\ Ahead \cap Harmful(b) # {} => <<"wipe", b>> \in Ahead \/ ~Live(b)
    /\ <<"wipe", b>> \in Ahead => <<"disable", b>> \in Ahead \/ b \notin host.up \ revived
    /\ <<"drop_all", "">> \in Ahead => ~Live(b)
\* _uninstall_rest comes last, when the tunnels are gone.
Resting ==
  \A i \in 1..Len(job.queue) : job.queue[i] = Rest =>
    Purging /\ \A j \in (i+1)..Len(job.queue) : job.queue[j] = AutoJob
ServeInv == ~spoiled /\ Working => Orderly /\ Guarding /\ Leaving /\ Resting

\* What a program needs when it comes or goes is a command.
LEMMA KeptNeeds ==
  ASSUME NEW b \in Kept
  PROVE  /\ b \in Parts /\ b # "haproxy" /\ Owner(b) = b
         /\ \A n \in Guards(b), op \in {"fetch", "try"} : <<"nftload", n>> \in Needs(<<op, b>>)
         /\ <<"wipe", b>> \in Needs(<<"disable", b>>)
         /\ \A n \in Guards(b), op \in {"nftstop", "nftunlink", "nftdrop"} : <<op, n>> \in Harmful(b)
<1>1. b \in Parts /\ b # "haproxy" /\ b \in Things
  BY KeptNames, NameSets DEF Kept, Packages
<1>2. Owner(b) = b
  BY KeptNames DEF Owner
<1>3. \A n \in Guards(b) : n \in Tables
  BY KeptNames, NameSets
<1>4. \A n \in Tables : <<"nftload", n>> \in Commands
  BY DEF Commands, NftOps
<1>5. <<"wipe", b>> \in Commands
  BY <1>1 DEF Commands
<1>6. \A n \in Guards(b), op \in {"fetch", "try"} : <<"nftload", n>> \in Needs(<<op, b>>)
  BY <1>3, <1>4 DEF Needs
<1>7. <<"wipe", b>> \in Needs(<<"disable", b>>)
  BY <1>5 DEF Needs
<1>8. \A n \in Guards(b), op \in {"nftstop", "nftunlink", "nftdrop"} : <<op, n>> \in Harmful(b)
  BY DEF Harmful
<1> QED BY <1>1, <1>2, <1>6, <1>7, <1>8

LEMMA HarmRemoves ==
  /\ \A b : \A c \in Harmful(b) : c[1] \in RemoveOps
  /\ \A b : <<"wipe", b>>[1] \in RemoveOps
  /\ <<"drop_all", "">>[1] \in RemoveOps
  /\ \A op \in {"fetch", "try"} : op \in MakeOps
<1>1. ASSUME NEW b, NEW c \in Harmful(b) PROVE c[1] \in RemoveOps
  BY DEF Harmful, RemoveOps
<1>2. ASSUME NEW b PROVE <<"wipe", b>>[1] \in RemoveOps
  BY DEF RemoveOps
<1>3. <<"drop_all", "">>[1] \in RemoveOps
  BY DEF RemoveOps
<1>4. \A op \in {"fetch", "try"} : op \in MakeOps
  BY DEF MakeOps
<1> QED BY <1>1, <1>2, <1>3, <1>4

LEMMA DropAll == \A c \in Commands : c[1] = "drop_all" => c = <<"drop_all", "">>
<1> SUFFICES ASSUME NEW c \in Commands, c[1] = "drop_all" PROVE c = <<"drop_all", "">>
  OBVIOUS
<1>1. PICK e : e = <<"drop_all", "">>
  OBVIOUS
<1>2. \/ c \in (NftOps \X Tables) \cup (UnitOps \X Services)
      \/ c \in ({"fetch", "verify", "try"} \X Parts) \cup ({"dir", "rebuild", "rmdir", "wipe", "need"} \X Things)
      \/ c \in {"cron", "rmcron"} \X Lines
      \/ c \in {<<"conf", "panel">>, <<"ns4", "lb">>, <<"ns4", "dropbear">>, <<"cert", "xray">>}
      \/ c = e
  BY <1>1 DEF Commands
<1>3. c \notin (NftOps \X Tables) \cup (UnitOps \X Services)
  BY DEF NftOps, UnitOps
<1>4. c \notin ({"fetch", "verify", "try"} \X Parts) \cup ({"dir", "rebuild", "rmdir", "wipe", "need"} \X Things)
  OBVIOUS
<1>5. c \notin {"cron", "rmcron"} \X Lines
  OBVIOUS
<1>6. c \notin {<<"conf", "panel">>, <<"ns4", "lb">>, <<"ns4", "dropbear">>, <<"cert", "xray">>}
  OBVIOUS
<1> QED BY <1>1, <1>2, <1>3, <1>4, <1>5, <1>6, Zenon

\* Nothing of what is there changes, and the script keeps what it still needs.
LEMMA StillServes ==
  ASSUME Orderly, Guarding, Leaving, Owed(job'.script) = {}, Ahead' \subseteq Ahead,
         \A c \in Ahead : c[1] \in {"wipe", "nftload", "disable"} => c \in Ahead',
         \A b \in Kept : Live(b)' => Live(b),
         \A b \in Kept : b \in (host.up \ revived)' => b \in host.up \ revived \/ Ahead = {},
         \A n : Guarded(n) => Guarded(n)'
  PROVE  Orderly' /\ Guarding' /\ Leaving'
<1>1. Orderly'
  BY DEF Orderly, Sorted
<1>2. Guarding'
  <2> SUFFICES ASSUME NEW b \in Kept, Live(b)', <<"wipe", b>> \notin Ahead', NEW n \in Guards(b)
               PROVE  Guarded(n)' \/ <<"nftload", n>> \in Ahead'
    BY DEF Guarding
  <2>1. Live(b) /\ <<"wipe", b>> \notin Ahead
    OBVIOUS
  <2>2. Guarded(n) \/ <<"nftload", n>> \in Ahead
    BY <2>1 DEF Guarding
  <2> QED BY <2>2
<1>3. Leaving'
  <2> SUFFICES ASSUME NEW b \in Kept
               PROVE  /\ Ahead' \cap Harmful(b) # {} => <<"wipe", b>> \in Ahead' \/ ~Live(b)'
                      /\ <<"wipe", b>> \in Ahead' =>
                           <<"disable", b>> \in Ahead' \/ b \notin (host.up \ revived)'
                      /\ <<"drop_all", "">> \in Ahead' => ~Live(b)'
    BY DEF Leaving
  <2>1. /\ Ahead \cap Harmful(b) # {} => <<"wipe", b>> \in Ahead \/ ~Live(b)
        /\ <<"wipe", b>> \in Ahead => <<"disable", b>> \in Ahead \/ b \notin host.up \ revived
        /\ <<"drop_all", "">> \in Ahead => ~Live(b)
    BY DEF Leaving
  <2> QED BY <2>1
<1> QED BY <1>1, <1>2, <1>3

\* A command keeps what the script has begun.
LEMMA CommandServes ==
  ASSUME TunnelInv, Working, job.script # <<>>, Advance, Others, Effect(Head(job.script), host, host'),
         Orderly, Guarding, Leaving
  PROVE  Orderly' /\ Guarding' /\ Leaving'
<1> DEFINE c == Head(job.script)
<1>1. /\ job'.script = Tail(job.script) /\ job.script \in Seq(Commands) /\ c \in Commands
      /\ Ahead = {c} \cup Ahead' /\ revived' = revived
  BY Advances DEF Others, Working, Ahead
<1>2. Effect(c, host, host')
  OBVIOUS
<1>3. /\ Needs(c) \subseteq Ahead' /\ Owed(job'.script) = {}
      /\ \A d \in Ahead' : Needs(d) \subseteq Ahead'
  BY <1>1, OwedNext DEF Ahead, Orderly
<1>4. c[1] = "nftload" => c[2] \in host.file
  BY DEF Working
<1>5. c = <<c[1], c[2]>> /\ (c[1] = "drop_all" => c = <<"drop_all", "">>)
  BY <1>1, CommandTypes, DropAll
<1> HIDE DEF c
<1>6. Orderly'
  BY <1>1, <1>3 DEF Orderly, Sorted
<1>7. (c[1] \in MakeOps) => \A d \in Ahead' : d[1] \notin RemoveOps
  BY <1>1 DEF Orderly, Sorted
\* A program that comes is obtained by this command.
<1>8. ASSUME NEW b \in Kept, Live(b)', ~Live(b)
      PROVE  c[1] \in {"fetch", "try"} /\ c = <<c[1], b>>
  <2>1. Owner(b) = b /\ b \notin {"ws_dropbear", "ws_stunnel"}
    BY KeptNeeds, KeptNames
  <2>2. b \in host'.bin
    <3>1. CASE b \in host'.up /\ b \notin revived
      <4>1. Startable(host', b)
        BY <1>1, <1>2, <1>8, <3>1 DEF Effect, Comes, Live
      <4> QED BY <2>1, <4>1 DEF Startable
    <3> QED BY <1>1, <1>8, <3>1 DEF Live
  <2>3. b \notin host.bin
    BY <1>8 DEF Live
  <2>4. c[1] \in {"fetch", "try"} /\ b = c[2]
    BY <1>2, <2>2, <2>3 DEF Effect, Comes
  <2> QED BY <1>5, <2>4
\* A program that is wiped does not run, unless it is to be disabled and wiped.
<1>9. ASSUME NEW b \in Kept, c = <<"wipe", b>>, Live(b)'
      PROVE  <<"wipe", b>> \in Ahead'
  <2>1. c[1] = "wipe" /\ c[2] = b /\ c[1] \notin MakeOps
    BY <1>9 DEF MakeOps
  <2>2. b \in host.up \ revived
    BY <1>1, <1>2, <1>9, <2>1 DEF Effect, Comes, Gives, Live
  <2>3. <<"disable", b>> \in Ahead
    BY <1>1, <1>9, <2>2 DEF Leaving
  <2>4. <<"disable", b>> \in Ahead'
    BY <1>1, <1>9, <2>3
  <2> QED BY <1>3, <2>4, KeptNeeds
<1>10. Guarding'
  <2> SUFFICES ASSUME NEW b \in Kept, Live(b)', <<"wipe", b>> \notin Ahead', NEW n \in Guards(b)
               PROVE  Guarded(n)' \/ <<"nftload", n>> \in Ahead'
    BY DEF Guarding
  <2>1. CASE ~Live(b)
    <3>1. c[1] \in {"fetch", "try"} /\ c = <<c[1], b>>
      BY <1>8, <2>1
    <3>2. <<"nftload", n>> \in Needs(c)
      BY <3>1, KeptNeeds
    <3> QED BY <1>3, <3>2
  <2>2. CASE Live(b)
    <3>1. <<"wipe", b>> \notin Ahead
      BY <1>1, <1>9
    <3>2. Guarded(n) \/ <<"nftload", n>> \in Ahead
      BY <2>2, <3>1 DEF Guarding
    <3>3. CASE Guarded(n)
      <4>1. Ahead \cap Harmful(b) = {}
        BY <2>2, <3>1 DEF Leaving
      <4>2. \A op \in {"nftstop", "nftunlink", "nftdrop"} : c # <<op, n>>
        BY <1>1, <4>1, KeptNeeds
      <4>3. c[1] # "drop_all"
        BY <1>1, <1>5, <2>2 DEF Leaving
      <4>4. \A op \in {"nftstop", "nftunlink", "nftdrop"} : ~(c[1] = op /\ n = c[2])
        BY <1>5, <4>2
      <4>5. n \in host'.file /\ n \in host'.boot /\ (n \in host.table => n \in host'.table)
        BY <1>2, <3>3, <4>3, <4>4 DEF Effect, Leaves, Guarded
      <4>6. Reloading' = Reloading
        BY DEF Reloading, Others
      <4> QED BY <3>3, <4>5, <4>6 DEF Guarded, Held
    <3>4. CASE c = <<"nftload", n>>
      <4>1. c[1] = "nftload" /\ c[2] = n
        BY <3>4
      <4>2. n \in host'.table /\ n \in host'.boot /\ n \in host'.file
        BY <1>2, <1>4, <4>1 DEF Effect, Gives, Leaves
      <4> QED BY <4>2 DEF Guarded, Held
    <3> QED BY <1>1, <3>2, <3>3, <3>4
  <2> QED BY <2>1, <2>2
<1>11. Leaving'
  <2> SUFFICES ASSUME NEW b \in Kept
               PROVE  /\ Ahead' \cap Harmful(b) # {} => <<"wipe", b>> \in Ahead' \/ ~Live(b)'
                      /\ <<"wipe", b>> \in Ahead' =>
                           <<"disable", b>> \in Ahead' \/ b \notin (host.up \ revived)'
                      /\ <<"drop_all", "">> \in Ahead' => ~Live(b)'
    BY DEF Leaving
  <2>1. /\ Ahead \cap Harmful(b) # {} => <<"wipe", b>> \in Ahead \/ ~Live(b)
        /\ <<"wipe", b>> \in Ahead => <<"disable", b>> \in Ahead \/ b \notin host.up \ revived
        /\ <<"drop_all", "">> \in Ahead => ~Live(b)
    BY DEF Leaving
  <2>2. ASSUME NEW d \in Ahead', d[1] \in RemoveOps
        PROVE  c[1] \notin MakeOps /\ (Live(b)' => Live(b))
    <3>1. c[1] \notin MakeOps
      BY <1>7, <2>2
    <3> QED BY <1>8, <3>1, HarmRemoves
  <2>3. ASSUME NEW d \in Ahead' \cap Harmful(b), Live(b)'
        PROVE  <<"wipe", b>> \in Ahead'
    <3>1. Live(b)
      BY <2>2, <2>3, HarmRemoves
    <3>2. <<"wipe", b>> \in Ahead
      BY <1>1, <2>1, <2>3, <3>1
    <3> QED BY <1>1, <1>9, <2>3, <3>2
  <2>4. ASSUME <<"wipe", b>> \in Ahead', b \in host'.up, b \notin revived
        PROVE  <<"disable", b>> \in Ahead'
    <3>1. c[1] \notin MakeOps
      BY <2>2, <2>4, HarmRemoves
    <3>2. b \in host.up \ revived
      BY <1>2, <2>4, <3>1 DEF Effect, Comes
    <3>3. <<"disable", b>> \in Ahead
      BY <1>1, <2>1, <2>4, <3>2
    <3>4. c # <<"disable", b>>
      BY <1>2, <2>4 DEF Effect, Gives
    <3> QED BY <1>1, <3>3, <3>4
  <2>5. <<"drop_all", "">> \in Ahead' => ~Live(b)'
    BY <1>1, <2>1, <2>2, HarmRemoves
  <2> QED BY <1>1, <2>3, <2>4, <2>5
<1> QED BY <1>6, <1>10, <1>11

\* The panel waits, and nothing is taken away.
LEMMA WaitingServes ==
  ASSUME TunnelInv, ServeInv, job' = job, spoiled' = spoiled,
         host'.bin = host.bin, host'.file = host.file, \A n : Guarded(n) => Guarded(n)',
         \A b \in Kept : b \in host'.up \ revived' => b \in host.up \ revived \/ (b \in host.bin /\ Idle)
  PROVE  ServeInv'
<1> SUFFICES ASSUME ~spoiled', Working' PROVE (Orderly /\ Guarding /\ Leaving /\ Resting)'
  BY DEF ServeInv
<1>1. Working
  BY DEF Working
<1>2. Orderly /\ Guarding /\ Leaving /\ Resting
  BY <1>1 DEF ServeInv
<1>3. Ahead' = Ahead /\ Owed(job'.script) = {}
  BY <1>2 DEF Ahead, Orderly
<1>4. Idle => Ahead = {}
  BY IdleJob, NoCommands DEF Ahead
<1>5. \A b \in Kept : Live(b)' => Live(b)
  BY DEF Live
<1>6. \A b \in Kept : b \in (host.up \ revived)' => b \in host.up \ revived \/ Ahead = {}
  BY <1>4
<1>8. Orderly' /\ Guarding' /\ Leaving'
  BY <1>2, <1>3, <1>5, <1>6, StillServes
<1> QED BY <1>2, <1>8 DEF Resting, Purging

LEMMA WatchHost ==
  ASSUME TunnelInv, Watch
  PROVE  /\ UNCHANGED <<job, status, spoiled, revived>>
         /\ host'.bin = host.bin /\ host'.unit = host.unit /\ host'.dir = host.dir /\ host'.conf = host.conf
         /\ host'.file = host.file /\ host'.enabled = host.enabled /\ host'.up = host.up /\ host'.hap = host.hap
         /\ \A n : Guarded(n) => Guarded(n)'
<1>h. host \in Hosts
  BY DEF TunnelInv, TypeOK
<1>1. UNCHANGED <<job, status, spoiled, revived>>
  BY DEF Watch, WatchStart, WatchLook, WatchLoad, WatchBoot, WatchPrio, WatchDrop, WatchReload, WatchDedupe, WatchTo
<1>2. /\ host'.bin = host.bin /\ host'.unit = host.unit /\ host'.dir = host.dir /\ host'.conf = host.conf
      /\ host'.file = host.file /\ host'.enabled = host.enabled /\ host'.up = host.up /\ host'.hap = host.hap
      /\ host.boot \subseteq host'.boot
      /\ host.table \subseteq host'.table \/ (WatchDrop /\ host'.table = host.table \ {"slowdns"})
  <2>1. CASE host' = host
    BY <2>1
  <2>2. CASE host' = LoadCatchall(host)
    <3>1. PICK T : T = host.table \cup {"catchall"}
      OBVIOUS
    <3>2. PICK s : s = [host.spared EXCEPT !.table = host.spared.file]
      OBVIOUS
    <3>3. host' = host \/ host' = [host EXCEPT !.table = T, !.spared = s]
      BY <1>h, <2>2, <3>1, <3>2 DEF LoadCatchall, Hosts
    <3>4. CASE host' = [host EXCEPT !.table = T, !.spared = s]
      BY <1>h, <3>1, <3>4 DEF Hosts
    <3> QED BY <3>3, <3>4
  <2>3. CASE host' = [host EXCEPT !.boot = @ \cup {"catchall"}]
    BY <1>h, <2>3 DEF Hosts
  <2>4. CASE host' = [host EXCEPT !.table = @ \cup ({"slowdns"} \cap host.file)]
    <3>1. PICK T : T = {"slowdns"} \cap host.file
      OBVIOUS
    <3>2. host' = [host EXCEPT !.table = @ \cup T]
      BY <2>4, <3>1
    <3> QED BY <1>h, <3>2 DEF Hosts
  <2>5. CASE host' = [host EXCEPT !.dup = FALSE]
    BY <1>h, <2>5 DEF Hosts
  <2>6. CASE WatchDrop
    BY <1>h, <2>6 DEF WatchDrop, WatchTo, Hosts
  <2> QED BY <2>1, <2>2, <2>3, <2>4, <2>5, <2>6
       DEF Watch, WatchStart, WatchLook, WatchLoad, WatchBoot, WatchPrio, WatchReload, WatchDedupe, WatchTo
<1>3. ASSUME NEW n, Guarded(n) PROVE Guarded(n)'
  <2>1. n \in host'.file /\ n \in host'.boot
    BY <1>2, <1>3 DEF Guarded
  <2>2. CASE WatchDrop
    <3>1. watch = "drop" /\ watch' = "reload" /\ host'.table = host.table \ {"slowdns"}
      BY <1>h, <2>2 DEF WatchDrop, WatchTo, Hosts
    <3> QED BY <1>3, <2>1, <3>1 DEF Guarded, Held, Reloading
  <2>3. CASE WatchReload
    <3>1. PICK N : N = {"slowdns"} \cap host.file
      OBVIOUS
    <3>2. host' = [host EXCEPT !.table = @ \cup N]
      BY <2>3, <3>1 DEF WatchReload, WatchTo
    <3>3. host'.table = host.table \cup N
      BY <1>h, <3>2 DEF Hosts
    <3> QED BY <1>3, <2>1, <3>1, <3>3 DEF Guarded, Held, Reloading
  <2>4. CASE ~WatchDrop /\ ~WatchReload
    <3>1. watch # "reload"
      BY <2>4 DEF Watch, WatchStart, WatchLook, WatchLoad, WatchBoot, WatchPrio, WatchDedupe, WatchTo
    <3> QED BY <1>2, <1>3, <2>1, <2>4, <3>1 DEF Guarded, Held, Reloading
  <2> QED BY <2>2, <2>3, <2>4
<1> QED BY <1>1, <1>2, <1>3

LEMMA WatchServes ==
  ASSUME TunnelInv, ServeInv, Watch
  PROVE  ServeInv'
BY WatchHost, WaitingServes

LEMMA ReviveServes ==
  ASSUME TunnelInv, ServeInv, NEW s \in Services, Revive(s)
  PROVE  ServeInv'
<1>h. host \in Hosts
  BY DEF TunnelInv, TypeOK
<1>1. /\ host' = Started(host, s) /\ Startable(host, s) /\ job' = job /\ spoiled' = spoiled
      /\ (Idle /\ revived' = revived) \/ revived' = revived \cup {s}
  BY DEF Revive
<1>2. SameUnits(host, host') /\ host'.up \subseteq host.up \cup {s}
  BY <1>h, <1>1, StartedDoes
<1>3. ASSUME s \in Kept PROVE s \in host.bin
  <2>1. Owner(s) = s /\ s \notin {"ws_dropbear", "ws_stunnel"}
    BY <1>3, KeptNeeds, KeptNames
  <2> QED BY <1>1, <2>1 DEF Startable
<1>4. \A b \in Kept : b \in host'.up \ revived' => b \in host.up \ revived \/ (b \in host.bin /\ Idle)
  BY <1>1, <1>2, <1>3
<1>5. \A n : Guarded(n) => Guarded(n)'
  BY <1>2 DEF SameUnits, Revive, Guarded, Held, Reloading
<1> QED BY <1>1, <1>2, <1>4, <1>5, WaitingServes DEF SameUnits

LEMMA DuplicateServes ==
  ASSUME TunnelInv, ServeInv, Duplicate
  PROVE  ServeInv'
<1>1. host' = [host EXCEPT !.dup = TRUE] /\ UNCHANGED <<job, spoiled, revived>> /\ host \in Hosts
  BY DEF Duplicate, TunnelInv, TypeOK
<1>2. /\ host'.bin = host.bin /\ host'.file = host.file /\ host'.up = host.up
      /\ host'.table = host.table /\ host'.boot = host.boot
  BY <1>1 DEF Hosts
<1>3. \A n : Guarded(n) => Guarded(n)'
  BY <1>2 DEF Duplicate, Guarded, Held, Reloading
<1> QED BY <1>1, <1>2, <1>3, WaitingServes

LEMMA RebootServes ==
  ASSUME TunnelInv, ServeInv, Reboot
  PROVE  ServeInv'
<1>h. host \in Hosts
  BY DEF TunnelInv, TypeOK
<1>1. host' = Rebooted(host) /\ revived' = {} /\ job' = NoJob /\ spoiled' = (spoiled \/ ~Idle)
  BY DEF Reboot
<1> SUFFICES ASSUME ~spoiled, Idle PROVE (Orderly /\ Guarding /\ Leaving /\ Resting)'
  BY <1>1 DEF ServeInv
<1>2. Working /\ job = NoJob /\ job.script = <<>> /\ job.queue = <<>> /\ Ahead = {}
  BY IdleJob, NoCommands DEF Ahead
<1>3. Orderly /\ Guarding /\ Leaving /\ Resting
  BY <1>2 DEF ServeInv
<1>4. Ahead' = Ahead /\ Owed(job'.script) = {}
  BY <1>1, <1>2, <1>3 DEF Ahead, Orderly
<1>5. PICK U : U = {s \in host.enabled : Startable(host, s)}
  OBVIOUS
<1>6. PICK T : T = host.boot \cap host.file
  OBVIOUS
<1>7. PICK S : S = [host.spared EXCEPT !.table = host.spared.file]
  OBVIOUS
<1>8. host' = [host EXCEPT !.up = U, !.hap = host.conf, !.table = T, !.spared = S, !.dup = FALSE]
  BY <1>h, <1>1, <1>5, <1>6, <1>7 DEF Rebooted, Hosts
<1>9. host'.bin = host.bin /\ host'.file = host.file /\ host'.boot = host.boot /\ host'.up = U /\ host'.table = T
  BY <1>h, <1>8 DEF Hosts
<1>10. \A b \in Kept : Live(b)' => Live(b)
  <2> SUFFICES ASSUME NEW b \in Kept, Live(b)' PROVE b \in host.bin
    BY DEF Live
  <2>1. Owner(b) = b /\ b \notin {"ws_dropbear", "ws_stunnel"}
    BY KeptNeeds, KeptNames
  <2> QED BY <1>5, <1>9, <2>1 DEF Live, Startable
<1>11. \A n : Guarded(n) => Guarded(n)'
  BY <1>6, <1>9 DEF Guarded, Held
<1>12. Orderly' /\ Guarding' /\ Leaving'
  BY <1>2, <1>3, <1>4, <1>10, <1>11, StillServes
<1> QED BY <1>1, <1>2, <1>12, NoCommands DEF Resting, NoJob

\* A good certificate lets the panel skip a stop and a start.
LEMMA SkipAhead ==
  ASSUME TunnelInv, Busy("cert"), job' = [job EXCEPT !.script = SubSeq(@, 4, Len(@))]
  PROVE  /\ Working /\ job.script # <<>> /\ Head(job.script)[1] = "cert"
         /\ job'.queue = job.queue /\ job'.name = job.name
         /\ Ahead' \subseteq Ahead /\ Owed(job'.script) \subseteq Owed(job.script)
         /\ Briefly(job.script) => Briefly(job'.script)
         /\ \A c \in Ahead : c[1] \notin {"cert", "stop", "start"} => c \in Ahead'
<1>1. "cert" \notin AutoOps
  BY DEF AutoOps
<1>2. Working /\ job.script # <<>> /\ Head(job.script)[1] = "cert"
  BY <1>1, ArgTypes
<1>4. PICK s : s = job.script
  OBVIOUS
<1>5. /\ s \in Seq(Commands) /\ Runs(s) /\ Len(s) \in Nat \ {0} /\ s[1][1] = "cert"
      /\ job \in [name : JobNames, queue : Seq(Functions), script : Seq(Commands)]
  BY <1>2, <1>4 DEF Working
<1>6. 3 <= Len(s) /\ s[2][1] = "stop" /\ s[3][1] = "start"
  <2>1. 1 \in 1..Len(s)
    BY <1>5
  <2>2. 1 + 2 <= Len(s) /\ s[1+1][1] = "stop" /\ s[1+2][1] = "start"
    BY <1>5, <2>1 DEF Runs, Skips
  <2> QED BY <2>2
<1>7. PICK t : t = SubSeq(s, 4, Len(s))
  OBVIOUS
<1>8. 3 \in 0..Len(s)
  BY <1>5, <1>6
<1>9. Runs(t) /\ Len(t) = Len(s) - 3 /\ \A i \in 1..(Len(s) - 3) : t[i] = s[i + 3]
  <2>1. PICK k \in 0..Len(s) : k = 3
    BY <1>8
  <2>2. /\ Runs(SubSeq(s, k + 1, Len(s))) /\ Len(SubSeq(s, k + 1, Len(s))) = Len(s) - k
        /\ \A i \in 1..(Len(s) - k) : SubSeq(s, k + 1, Len(s))[i] = s[i + k]
    BY <1>5, RunsOn
  <2>3. k + 1 = 4
    BY <2>1
  <2>4. SubSeq(s, k + 1, Len(s)) = t
    BY <1>7, <2>3, Zenon
  <2>5. Runs(t) /\ Len(t) = Len(s) - k /\ \A i \in 1..(Len(s) - k) : t[i] = s[i + k]
    BY <2>2, <2>4, Zenon
  <2> QED BY <2>1, <2>5, Zenon
<1>10. Owed(t) \subseteq Owed(s) /\ Cmds(t) \subseteq Cmds(s) /\ (Briefly(s) => Briefly(t))
  <2>1. t \in Seq(Commands)
    BY <1>9 DEF Runs
  <2>2. PICK k \in 0..Len(s) : k = 3
    BY <1>8
  <2>3. Len(t) = Len(s) - k /\ \A i \in 1..Len(t) : t[i] = s[i + k]
    BY <1>9, <2>2
  <2> QED BY <1>5, <2>1, <2>3, OwedOn
<1>11. job'.script = t /\ job'.queue = job.queue /\ job'.name = job.name
  BY <1>4, <1>5, <1>7
<1>12. ASSUME NEW c \in Ahead, c[1] \notin {"cert", "stop", "start"}
       PROVE  c \in Ahead'
  <2>1. PICK i \in 1..Len(s) : s[i] = c
    BY <1>4 DEF Ahead, Cmds
  <2>2. i # 1 /\ i # 2 /\ i # 3
    BY <1>5, <1>6, <1>12, <2>1
  <2>3. i - 3 \in 1..(Len(s) - 3) /\ (i - 3) + 3 = i
    BY <1>5, <2>2
  <2>4. t[i - 3] = c /\ i - 3 \in 1..Len(t)
    BY <1>9, <2>1, <2>3
  <2> QED BY <1>11, <2>4 DEF Ahead, Cmds
<1> QED BY <1>2, <1>4, <1>10, <1>11, <1>12 DEF Ahead

LEMMA SkipServes ==
  ASSUME TunnelInv, ServeInv, Busy("cert"), UNCHANGED host, Others,
         job' = [job EXCEPT !.script = SubSeq(@, 4, Len(@))]
  PROVE  ServeInv'
<1> SUFFICES ASSUME ~spoiled PROVE (Orderly /\ Guarding /\ Leaving /\ Resting)'
  BY DEF ServeInv, Others
<1>1. /\ Working /\ job'.queue = job.queue /\ job'.name = job.name
      /\ Ahead' \subseteq Ahead /\ Owed(job'.script) \subseteq Owed(job.script)
      /\ \A c \in Ahead : c[1] \notin {"cert", "stop", "start"} => c \in Ahead'
  BY SkipAhead
<1>2. Orderly /\ Guarding /\ Leaving /\ Resting
  BY <1>1 DEF ServeInv
<1>3. Owed(job'.script) = {} /\ revived' = revived
  BY <1>1, <1>2 DEF Orderly, Others
<1>4. /\ \A b \in Kept : Live(b)' => Live(b)
      /\ \A b \in Kept : b \in (host.up \ revived)' => b \in host.up \ revived \/ Ahead = {}
      /\ \A n : Guarded(n) => Guarded(n)'
  BY <1>3 DEF Live, Guarded, Held, Reloading, Others
<1>5. Orderly' /\ Guarding' /\ Leaving'
  BY <1>1, <1>2, <1>3, <1>4, StillServes
<1> QED BY <1>1, <1>2, <1>5 DEF Resting, Purging

LEMMA CommandedServes ==
  ASSUME TunnelInv, ServeInv, Commanded
  PROVE  ServeInv'
<1>1. /\ Working /\ job.script # <<>> /\ Advance /\ Others
      /\ Effect(Head(job.script), host, host')
  BY CommandDoes
<1> SUFFICES ASSUME ~spoiled PROVE (Orderly /\ Guarding /\ Leaving /\ Resting)'
  BY <1>1 DEF ServeInv, Others
<1>2. Orderly /\ Guarding /\ Leaving /\ Resting
  BY <1>1 DEF ServeInv
<1>3. Orderly' /\ Guarding' /\ Leaving'
  BY <1>1, <1>2, CommandServes
<1>4. job'.name = job.name /\ job'.queue = job.queue
  BY <1>1, Advances
<1> QED BY <1>2, <1>3, <1>4 DEF Resting, Purging

\* Commands of _auto_uninstall_all: nothing is promised any more.
LEMMA EndingServes ==
  ASSUME TunnelInv, NEW op \in AutoOps, Busy(op), Advance
  PROVE  ServeInv'
<1>1. Ending
  BY EndingAt
<1>2. job'.name = "remove" /\ job'.queue = <<>>
  BY <1>1 DEF Ending, Advance
<1>3. ~Working'
  BY <1>2, NoCommands DEF Working
<1> QED BY <1>3 DEF ServeInv

LEMMA RemovalServes ==
  ASSUME TunnelInv, ServeInv, Removal
  PROVE  ServeInv'
<1>1. CASE Busy("drop_all")
  BY <1>1, CommandedServes DEF Commanded
<1>2. CASE ~Busy("drop_all")
  <2>1. PICK op \in {"kill_units", "wipe_all", "crontab_r", "flush", "reboot"} : Busy(op) /\ Advance
    BY <1>2 DEF Removal, Does
  <2>2. op \in AutoOps
    BY DEF AutoOps
  <2> QED BY <2>1, <2>2, EndingServes
<1> QED BY <1>1, <1>2

LEMMA TakeServes ==
  ASSUME TunnelInv, ServeInv, NEW name, NEW Q, Take(name, Q),
         \A i \in 1..Len(Q) : Q[i] = Rest =>
           name \in {"uninstall_all", "remove"} /\ \A j \in (i+1)..Len(Q) : Q[j] = AutoJob
  PROVE  ServeInv'
<1>1. /\ job'.name = name /\ job'.queue = Q /\ job'.script = <<>>
      /\ host' = host /\ spoiled' = spoiled /\ revived' = revived /\ Idle
  BY DEF Take
<1> SUFFICES ASSUME ~spoiled PROVE (Orderly /\ Guarding /\ Leaving /\ Resting)'
  BY <1>1 DEF ServeInv
<1>2. Working /\ job.script = <<>> /\ Ahead = {}
  BY <1>1, IdleJob, NoCommands DEF Ahead
<1>3. Orderly /\ Guarding /\ Leaving
  BY <1>2 DEF ServeInv
<1>4. Ahead' = Ahead /\ Owed(job'.script) = {}
  BY <1>1, <1>2, <1>3 DEF Ahead, Orderly
<1>5. /\ \A b \in Kept : Live(b)' => Live(b)
      /\ \A n : Guarded(n) => Guarded(n)'
  BY <1>1 DEF Live, Guarded, Held, Reloading, Take
<1>6. Orderly' /\ Guarding' /\ Leaving'
  BY <1>2, <1>3, <1>4, <1>5, StillServes
<1>7. Resting'
  BY <1>1 DEF Resting, Purging
<1> QED BY <1>6, <1>7

LEMMA ChooseJobServes ==
  ASSUME TunnelInv, ServeInv, ChooseJob
  PROVE  ServeInv'
<1>1. PICK name \in DOMAIN Queues : Take(name, Queues[name])
  BY DEF ChooseJob
<1>2. /\ DOMAIN Queues = {"install_all", "uninstall_all", "remove", "configure", "repair", "domain"}
      /\ Queues["install_all"] = InstallAll /\ Queues["uninstall_all"] = UninstallAll
  BY DEF Queues
<1>3. /\ Queues["remove"] = UninstallAll \o <<<<"auto", "">>>>
      /\ Queues["configure"] = <<<<"configure", "">>>> /\ Queues["repair"] = <<<<"repair", "">>>>
      /\ Queues["domain"] = <<<<"domain", "">>>>
  BY DEF Queues
<1>4. Queues["remove"] = UninstallAll \o <<AutoJob>>
  BY <1>3 DEF AutoJob
<1>5. CASE name \in {"uninstall_all", "remove"}
  <2>1. PICK Q : Q = Queues[name]
    OBVIOUS
  <2>2. FullQueue(Q)
    BY <1>2, <1>4, <1>5, <2>1, RemovalQueues
  <2>3. Take(name, Q)
    BY <1>1, <2>1
  <2> QED BY <1>5, <2>2, <2>3, TakeServes DEF FullQueue
<1>6. CASE name = "install_all"
  <2>1. PICK Q : Q = InstallAll
    OBVIOUS
  <2>2. \A i \in 1..Len(Q) : Q[i] = <<"install", Order[i]>>
    <3>1. PICK n : n = Len(Order)
      OBVIOUS
    <3>2. n = 10
      BY <3>1 DEF Order
    <3>3. Q = [i \in 1..n |-> <<"install", Order[i]>>]
      BY <2>1, <3>1 DEF InstallAll
    <3> QED BY <3>2, <3>3
  <2>3. \A i \in 1..Len(Q) : Q[i] # Rest
    <3>1. Rest[1] = "rest"
      BY DEF Rest
    <3>2. \A i \in 1..Len(Q) : Q[i][1] = "install"
      BY <2>2
    <3> QED BY <3>1, <3>2
  <2> QED BY <1>1, <1>2, <1>6, <2>1, <2>3, TakeServes
<1>7. CASE name \in {"configure", "repair", "domain"}
  <2>1. PICK e : e = ""
    OBVIOUS
  <2>2. PICK x : x = <<name, e>>
    OBVIOUS
  <2>3. PICK Q : Q = <<x>>
    OBVIOUS
  <2>4. Queues[name] = Q
    BY <1>3, <1>7, <2>1, <2>2, <2>3, Zenon
  <2>5. x # Rest
    BY <1>7, <2>2 DEF Rest
  <2>6. \A i \in 1..Len(Q) : Q[i] # Rest
    BY <2>3, <2>5
  <2> QED BY <1>1, <2>4, <2>6, TakeServes
<1> QED BY <1>1, <1>2, <1>5, <1>6, <1>7

LEMMA ChooseTunnelServes ==
  ASSUME TunnelInv, ServeInv, ChooseTunnel
  PROVE  ServeInv'
<1>1. PICK t \in Offered, f \in {"install", "uninstall"} : Take("one", <<<<f, t>>>>)
  BY DEF ChooseTunnel
<1>2. PICK x : x = <<f, t>>
  OBVIOUS
<1>3. PICK Q : Q = <<x>>
  OBVIOUS
<1>4. x # Rest
  BY <1>2 DEF Rest
<1>5. \A i \in 1..Len(Q) : Q[i] # Rest
  BY <1>3, <1>4
<1>6. Take("one", Q)
  BY <1>1, <1>2, <1>3
<1> QED BY <1>5, <1>6, TakeServes

LEMMA DoneServes ==
  ASSUME TunnelInv, ServeInv, Done
  PROVE  ServeInv'
<1>1. /\ ~Idle /\ job.script = <<>> /\ job.queue = <<>> /\ job' = NoJob /\ host' = host /\ revived' = revived
      /\ spoiled' = (spoiled /\ job.name \notin {"uninstall_all", "remove"})
  BY DEF Done
<1> SUFFICES ASSUME ~spoiled' PROVE (Orderly /\ Guarding /\ Leaving /\ Resting)'
  BY DEF ServeInv
<1>2. Ahead' = {} /\ Ahead = {} /\ job'.script = <<>> /\ job'.queue = <<>>
  BY <1>1, NoCommands DEF Ahead, NoJob
<1>3. Resting'
  BY <1>2, NoCommands DEF Resting
<1>4. Owed(<<>>) = {}
  BY NoCommands DEF Owed
<1>5. CASE job.name \in {"uninstall_all", "remove"}
  <2>1. /\ host.bin \subseteq {"haproxy"} /\ host.up \subseteq {"haproxy_ssh"} \cup revived
    BY <1>1, <1>5, ThroughBare DEF Bare
  <2>2. \A b \in Kept : ~Live(b)'
    <3> SUFFICES ASSUME NEW b \in Kept PROVE ~Live(b)'
      OBVIOUS
    <3>1. b # "haproxy" /\ b # "haproxy_ssh"
      BY KeptNames
    <3> QED BY <1>1, <2>1, <3>1 DEF Live
  <2> QED BY <1>2, <1>3, <1>4, <2>2 DEF Orderly, Sorted, Guarding, Leaving
<1>6. CASE job.name \notin {"uninstall_all", "remove"}
  <2>1. Working
    BY <1>6, EndingScript DEF TunnelInv, TypeOK
  <2>2. Orderly /\ Guarding /\ Leaving
    BY <1>1, <1>6, <2>1 DEF ServeInv
  <2>3. /\ \A b \in Kept : Live(b)' => Live(b)
        /\ \A n : Guarded(n) => Guarded(n)'
    BY <1>1 DEF Live, Guarded, Held, Reloading, Done
  <2>4. Orderly' /\ Guarding' /\ Leaving'
    BY <1>2, <1>4, <2>2, <2>3, StillServes
  <2> QED BY <1>3, <2>4
<1> QED BY <1>5, <1>6

\* When _uninstall_rest is called, the removal has nothing else left to do.
LEMMA RestCalled ==
  ASSUME TunnelInv', Working', Purging', NEW Q, job'.queue = Q, \A i \in 1..Len(Q) : Q[i] = AutoJob,
         job'.script = UninstallRest
  PROVE  \A b \in Kept : ~Live(b)'
<1>1. Remaining'
  BY DEF TunnelInv, Purge
<1>2. \A c \in Later(Q) : c[1] \in AutoOps
  <2> SUFFICES ASSUME NEW c \in Later(Q) PROVE c[1] \in AutoOps
    OBVIOUS
  <2>1. PICK i \in 1..Len(Q) : c \in Cmds(ScriptOf(Q[i][1], Q[i][2]))
    BY DEF Later
  <2>2. Q[i][1] = "auto"
    <3>1. AutoJob[1] = "auto"
      BY DEF AutoJob
    <3> QED BY <3>1
  <2>3. ScriptOf(Q[i][1], Q[i][2]) = AutoUninstall
    BY <2>2 DEF ScriptOf
  <2> QED BY <2>1, <2>3, AutoCmds
<1>3. PICK e : e = ""
  OBVIOUS
<1>4. Left' = {<<"disable", "haproxy">>, <<"drop_all", e>>} \cup Later(Q)
  <2>1. Cmds(UninstallRest) = {<<"disable", "haproxy">>, <<"drop_all", e>>}
    BY <1>3, UninstallDoes, Zenon
  <2> QED BY <2>1 DEF Left
<1>5. ASSUME NEW b \in Kept, NEW op \in {"wipe", "disable"}
      PROVE  <<op, b>> \notin Left'
  <2>1. b # "haproxy"
    BY KeptNeeds
  <2>2. <<op, b>>[1] \notin AutoOps
    BY DEF AutoOps
  <2>3. <<op, b>> \notin {<<"disable", "haproxy">>, <<"drop_all", e>>}
    BY <2>1
  <2> QED BY <1>2, <1>4, <2>2, <2>3
<1> SUFFICES ASSUME NEW b \in Kept PROVE ~Live(b)'
  OBVIOUS
<1>6. b # "haproxy" /\ b # "haproxy_ssh"
  BY KeptNames
<1>7. b \notin host'.bin
  BY <1>1, <1>5, <1>6 DEF Remaining
<1>8. b \notin host'.up \/ b \in revived'
  BY <1>1, <1>5, <1>6 DEF Remaining
<1> QED BY <1>7, <1>8 DEF Live

LEMMA CallServes ==
  ASSUME TunnelInv, ServeInv, Call
  PROVE  ServeInv'
<1> SUFFICES ASSUME ~spoiled', Working' PROVE (Orderly /\ Guarding /\ Leaving /\ Resting)'
  BY DEF ServeInv
<1>1. /\ ~Idle /\ job.script = <<>> /\ job.queue # <<>> /\ host' = host /\ spoiled' = spoiled /\ revived' = revived
  BY DEF Call, Others
<1>2. Working
  BY <1>1, EndingScript DEF TunnelInv, TypeOK
<1>3. job \in [name : JobNames, queue : Seq(Functions), script : Seq(Commands)]
  BY <1>2 DEF Working
<1>4. Orderly /\ Guarding /\ Leaving /\ Resting
  BY <1>1, <1>2 DEF ServeInv
<1>5. PICK Q \in Seq(Functions) : Q = job.queue
  BY <1>3
<1>6. /\ Tail(Q) \in Seq(Functions) /\ Head(Q) \in Functions /\ Len(Tail(Q)) = Len(Q) - 1 /\ Len(Q) \in Nat \ {0}
      /\ Q[1] = Head(Q) /\ \A i \in 1..Len(Tail(Q)) : Tail(Q)[i] = Q[i+1]
  BY <1>1, <1>5, QueueTail
<1>7. PICK f \in Functions : f = Head(Q)
  BY <1>6
<1>8. PICK s : s = IF ReturnsEarly(f[1], f[2]) THEN <<>> ELSE ScriptOf(f[1], f[2])
  OBVIOUS
<1>9. job'.name = job.name /\ job'.queue = Tail(Q) /\ job'.script = s
  <2>1. job' = [job EXCEPT !.queue = Tail(Q), !.script = s]
    BY <1>5, <1>7, <1>8 DEF Call
  <2> QED BY <1>3, <2>1
<1>10. PICK T : T = Tail(Q)
  OBVIOUS
<1>11. Len(T) = Len(Q) - 1 /\ Len(Q) \in Nat \ {0} /\ \A i \in 1..Len(T) : T[i] = Q[i+1]
  BY <1>6, <1>10
<1>12. f # AutoJob
  <2> SUFFICES ASSUME f = AutoJob PROVE FALSE
    OBVIOUS
  <2>1. 1 \in 1..Len(Q) /\ Q[1] = AutoJob
    BY <1>6, <1>7
  <2>2. job.name = "remove" /\ 1 = Len(Q)
    BY <1>2, <1>5, <2>1 DEF Working
  <2>3. PICK n \in Nat : n = Len(Q)
    BY <1>11
  <2>4. Len(T) = n - 1 /\ n = 1
    BY <1>11, <2>2, <2>3
  <2>5. Cmds(T) = {}
    BY <2>4 DEF Cmds
  <2> QED BY <1>9, <1>10, <2>2, <2>5 DEF Working
<1>13. \A i \in 1..Len(T) : i + 1 \in 1..Len(Q) /\ \A j \in (i+1)..Len(T) : j + 1 \in ((i+1)+1)..Len(Q) /\ j \in 1..Len(T)
  BY <1>11
<1>14. Resting'
  <2> SUFFICES ASSUME NEW i \in 1..Len(T), T[i] = Rest
               PROVE  Purging /\ \A j \in (i+1)..Len(T) : T[j] = AutoJob
    BY <1>9, <1>10 DEF Resting, Purging
  <2>1. i + 1 \in 1..Len(Q) /\ Q[i+1] = Rest
    BY <1>11, <1>13
  <2>2. Purging /\ \A j \in ((i+1)+1)..Len(Q) : Q[j] = AutoJob
    BY <1>4, <1>5, <2>1 DEF Resting
  <2> QED BY <1>11, <1>13, <2>2
<1>15. Ahead = {} /\ Ahead' = Cmds(s)
  BY <1>1, <1>9, NoCommands DEF Ahead
<1>16. Guarding'
  <2> SUFFICES ASSUME NEW b \in Kept, Live(b)', NEW n \in Guards(b)
               PROVE  Guarded(n)'
    BY DEF Guarding
  <2>1. Live(b)
    BY <1>1 DEF Live
  <2>2. Guarded(n)
    BY <1>15, <2>1, <1>4 DEF Guarding
  <2> QED BY <1>1, <2>2 DEF Guarded, Held, Reloading, Call, Others
<1>17. CASE s = <<>>
  <2>1. Cmds(s) = {} /\ Owed(s) = {}
    BY <1>17, NoCommands DEF Owed
  <2>2. Orderly'
    BY <1>9, <1>15, <2>1 DEF Orderly, Sorted
  <2>3. Leaving'
    BY <1>15, <2>1 DEF Leaving
  <2> QED BY <1>14, <1>16, <2>2, <2>3
<1>18. CASE s = ScriptOf(f[1], f[2])
  <2>1. Sound(s) /\ (<<"drop_all", "">> \in Cmds(s) => f = Rest)
    BY <1>12, <1>18, ScriptsSound
  <2>2. Orderly'
    BY <1>9, <1>15, <2>1 DEF Orderly, Sound, Fit
  <2>3. ASSUME NEW b \in Kept, <<"drop_all", "">> \in Cmds(s)
        PROVE  ~Live(b)'
    <3>1. f = Rest
      BY <2>1, <2>3
    <3>2. 1 \in 1..Len(Q) /\ Q[1] = Rest
      BY <1>6, <1>7, <3>1
    <3>3. Purging /\ \A j \in (1+1)..Len(Q) : Q[j] = AutoJob
      BY <1>4, <1>5, <3>2 DEF Resting
    <3>4. \A i \in 1..Len(T) : T[i] = AutoJob
      <4>1. \A i \in 1..Len(T) : i + 1 \in (1+1)..Len(Q)
        BY <1>11
      <4> QED BY <1>11, <3>3, <4>1
    <3>5. s = UninstallRest
      <4>1. f[1] = "rest"
        BY <3>1 DEF Rest
      <4> QED BY <1>18, <4>1 DEF ScriptOf
    <3>6. Purging'
      BY <1>9, <3>3 DEF Purging
    <3> QED BY <1>9, <1>10, <3>4, <3>5, <3>6, CallInv, RestCalled
  <2>4. host'.up \subseteq Services /\ "slowdns" \notin Services
    BY <1>1, HostParts, NameSets DEF TunnelInv, TypeOK
  <2>5. Leaving'
    <3> SUFFICES ASSUME NEW b \in Kept
                 PROVE  /\ Cmds(s) \cap Harmful(b) # {} => <<"wipe", b>> \in Cmds(s) \/ ~Live(b)'
                        /\ <<"wipe", b>> \in Cmds(s) =>
                             <<"disable", b>> \in Cmds(s) \/ b \notin (host.up \ revived)'
                        /\ <<"drop_all", "">> \in Cmds(s) => ~Live(b)'
      BY <1>15 DEF Leaving
    <3>1. /\ Cmds(s) \cap Harmful(b) # {} => <<"wipe", b>> \in Cmds(s)
          /\ <<"wipe", b>> \in Cmds(s) => <<"disable", b>> \in Cmds(s) \/ b = "slowdns"
      BY <2>1 DEF Sound, Fit
    <3> QED BY <2>3, <2>4, <3>1
  <2> QED BY <1>14, <1>16, <2>2, <2>5
<1> QED BY <1>8, <1>17, <1>18

LEMMA ServeInit == Init => ServeInv
<1> SUFFICES ASSUME Init PROVE ServeInv
  OBVIOUS
<1>1. job.script = <<>> /\ job.queue = <<>> /\ host.bin = {} /\ host.up = {}
  BY DEF Init, NoJob
<1>2. Ahead = {} /\ \A b : ~Live(b)
  BY <1>1, NoCommands DEF Ahead, Live
<1>3. Owed(<<>>) = {}
  BY NoCommands DEF Owed
<1>4. Orderly /\ Guarding /\ Leaving
  BY <1>1, <1>2, <1>3 DEF Orderly, Sorted, Guarding, Leaving
<1>5. Resting
  BY <1>1, NoCommands DEF Resting
<1> QED BY <1>4, <1>5 DEF ServeInv

LEMMA ServeStep == TunnelInv /\ ServeInv /\ [Next]_vars => ServeInv'
<1> SUFFICES ASSUME TunnelInv, ServeInv, [Next]_vars PROVE ServeInv'
  OBVIOUS
<1>0. ASSUME spoiled' = TRUE PROVE ServeInv'
  BY <1>0 DEF ServeInv
<1>1. CASE Files \/ Rebuild \/ Systemctl \/ Obtain \/ Verify \/ Nft \/ Catchall
  BY <1>1, CommandedServes DEF Commanded
<1>2. CASE Fail
  BY <1>0, <1>2 DEF Fail
<1>3. CASE Need
  <2>1. CASE Arg \in host.dir
    BY <1>3, <2>1, CommandedServes DEF Commanded
  <2>2. CASE Arg \notin host.dir
    BY <1>0, <1>3, <2>2 DEF Need
  <2> QED BY <2>1, <2>2
<1>4. CASE Cert
  <2>1. CASE Advance
    <3>1. Does("cert", host)
      BY <1>4, <2>1 DEF Cert, Does
    <3> QED BY <3>1, CommandedServes DEF Commanded
  <2>2. CASE ~Advance
    BY <1>4, <2>2, SkipServes DEF Cert
  <2> QED BY <2>1, <2>2
<1>5. CASE Removal
  BY <1>5, RemovalServes
<1>6. CASE ChooseJob
  BY <1>6, ChooseJobServes
<1>7. CASE ChooseTunnel
  BY <1>7, ChooseTunnelServes
<1>8. CASE Call
  BY <1>8, CallServes
<1>9. CASE Done
  BY <1>9, DoneServes
<1>10. CASE Watch
  BY <1>10, WatchServes
<1>11. CASE Cron
  BY <1>11, ReviveServes DEF Cron
<1>12. CASE Kill \/ Raise
  BY <1>0, <1>12 DEF Kill, Raise
<1>13. CASE Reboot
  BY <1>13, RebootServes
<1>14. CASE Duplicate
  BY <1>14, DuplicateServes
<1>15. CASE UNCHANGED vars
  <2>1. \A n : Guarded(n) => Guarded(n)'
    BY <1>15 DEF vars, Guarded, Held, Reloading
  <2> QED BY <1>15, <2>1, WaitingServes DEF vars
<1> QED BY <1>1, <1>2, <1>3, <1>4, <1>5, <1>6, <1>7, <1>8, <1>9, <1>10, <1>11, <1>12, <1>13, <1>14, <1>15
        DEF Next, Panel

\* The chain whose table is loaded translates its range, unless the rule of
\* another program comes before it.
LEMMA RangesApart ==
  /\ Len(Rules) = 4
  /\ Rules[1] = [table |-> "zivpn", to |-> "zivpn", port |-> "zivpn_range"]
  /\ Rules[2] = [table |-> "slowdns", to |-> "dnsdist", port |-> "dns"]
  /\ Rules[3] = [table |-> "hysteria", to |-> "hysteria", port |-> "hysteria_range"]
  /\ Rules[4] = [table |-> "udp_custom", to |-> "udp_custom", port |-> "custom_range"]
BY DEF Rules, Rule

LEMMA Translated ==
  ASSUME NEW k \in 1..4, Rules[k].table \in host.table, host.dup => k \in 1..2
  PROVE  Route(Rules[k].port) = Rules[k].to
<1> DEFINE p == Rules[k].port
           own == Matching(p)
           first == CHOOSE i \in own : \A j \in own : i <= j
<1>1. \A i \in 1..4 : i = 1 \/ i = 2 \/ i = 3 \/ i = 4
  OBVIOUS
<1>2. \A i \in 1..4 : Rules[i].port = p => i = k
  BY <1>1, RangesApart
<1>3. own = {k}
  BY <1>2, RangesApart DEF Matching
<1>4. first = k
  <2>1. \A i \in own : i = k
    BY <1>3
  <2>2. k \in own /\ \A j \in own : k <= j
    BY <1>3
  <2> QED BY <2>1, <2>2
<1>5. (IF host.dup THEN own \cap 1..2 ELSE own) # {}
  BY <1>3
<1> HIDE DEF own
<1> QED BY <1>4, <1>5 DEF Route, own

\* Whatever was installed, removed or restarted before, the port range of a
\* tunnel that runs reaches it: its table is loaded and comes first, that of
\* SlowDNS and ZIVPN even with the rule another program has added; that of
\* SlowDNS but for the moment in which the watchdog replaces its table.
THEOREM RangesSafe == Spec => []RangesReachTunnel
<1>1. TunnelInv /\ ServeInv => RangesReachTunnel
  <2> SUFFICES ASSUME TunnelInv, ServeInv, Idle, ~spoiled,
                      NEW s \in (DOMAIN RangeOf \cap host.up) \ revived, s = "hysteria" => ~host.dup,
                      s = "dnsdist" => watch # "reload"
               PROVE  Route(RangeOf[s]) = s
    BY DEF RangesReachTunnel
  <2>1. Ahead = {} /\ Guarding
    BY IdleJob, NoCommands DEF Ahead, ServeInv
  <2>2. s \in {"zivpn", "dnsdist", "hysteria", "udp_custom"}
    BY DEF RangeOf
  <2>3. s \in Kept
    BY <2>2, KeptNames
  <2>4. Guards(s) \subseteq host.table
    <3>1. Guards(s) \subseteq host.table \cup Reloading
      BY <2>1, <2>3 DEF Guarding, Live, Guarded, Held
    <3>2. s # "dnsdist" => "slowdns" \notin Guards(s)
      BY <2>2 DEF Guards
    <3> QED BY <3>1, <3>2 DEF Reloading
  <2>5. /\ RangeOf["zivpn"] = Rules[1].port /\ Rules[1].to = "zivpn" /\ Rules[1].table = "zivpn"
        /\ RangeOf["dnsdist"] = Rules[2].port /\ Rules[2].to = "dnsdist" /\ Rules[2].table = "slowdns"
    BY RangesApart DEF RangeOf
  <2>6. /\ RangeOf["hysteria"] = Rules[3].port /\ Rules[3].to = "hysteria" /\ Rules[3].table = "hysteria"
        /\ RangeOf["udp_custom"] = Rules[4].port /\ Rules[4].to = "udp_custom" /\ Rules[4].table = "udp_custom"
    BY RangesApart DEF RangeOf
  <2>7. /\ Guards("zivpn") = {"zivpn"} /\ Guards("dnsdist") = {"slowdns"}
        /\ Guards("hysteria") = {"hysteria"} /\ Guards("udp_custom") = {"udp_custom"}
    BY DEF Guards
  <2>8. CASE s = "zivpn"
    BY <2>4, <2>5, <2>7, <2>8, Translated
  <2>9. CASE s = "dnsdist"
    BY <2>4, <2>5, <2>7, <2>9, Translated
  <2>10. CASE s = "hysteria"
    BY <2>4, <2>6, <2>7, <2>10, Translated
  <2>11. CASE s = "udp_custom" /\ ~host.dup
    BY <2>4, <2>6, <2>7, <2>11, Translated
  <2>12. CASE s = "udp_custom" /\ host.dup
    <3>1. Matching("custom_range") \cap 1..2 = {}
      BY RangesApart DEF Matching
    <3>2. Route("custom_range") = "udp_custom"
      BY <2>12, <3>1 DEF Route
    <3> QED BY <2>12, <3>2 DEF RangeOf
  <2> QED BY <2>2, <2>8, <2>9, <2>10, <2>11, <2>12
<1> QED BY <1>1, TunnelInit, TunnelStep, ServeInit, ServeStep, PTL DEF Spec

-----------------------------------------------------------------------------
\* The fourth result: after a full installation everything runs.  A program that
\* is there has its services in place, or the script goes on to enable them or to
\* wipe it.
Starts(s) == <<"restart", s>> \in Ahead \/ (job.script # <<>> /\ Head(job.script) = <<"start", s>>)
Served(s) == s \in host.unit \cup Packages /\ s \in host.enabled /\ (s \in host.up \/ Starts(s))
Serving ==
  \A s \in Lasting : Prog(s) \in host.bin =>
    <<"wipe", Prog(s)>> \in Ahead \/ <<"enable", s>> \in Ahead \/ Served(s)
Units ==
  \A s \in Services \ Packages : <<"enable", s>> \in Ahead => <<"unit", s>> \in Ahead \/ s \in host.unit
Catching ==
  "udp_custom" \in host.bin =>
    \/ <<"wipe", "udp_custom">> \in Ahead \/ <<"catchfile", "udp_custom">> \in Ahead
    \/ Guarded("catchall")
    \/ <<"catchload", "udp_custom">> \in Ahead /\ "catchall" \in host.file
\* HAProxy, before Xray and for it.
HasHaproxy == "haproxy" \in host.bin \/ <<"try", "haproxy">> \in Ahead
Fronted ==
  \/ <<"wipe", "xray">> \in Ahead \/ <<"restart", "haproxy">> \in Ahead
  \/ host.hap = "panel" /\ ("haproxy" \in host.up \/ "haproxy" \notin host.enabled)
Fronting ==
  /\ <<"fetch", "xray">> \in Ahead => HasHaproxy
  /\ "xray" \in host.bin =>
       /\ HasHaproxy
       /\ host.conf = "panel" \/ <<"conf", "panel">> \in Ahead
       /\ <<"wipe", "xray">> \in Ahead \/ "pem" \in host.dir \/ <<"dir", "pem">> \in Ahead
       /\ Fronted
\* What install_all_missing has installed, and what it still has to.
Awaits(p) ==
  \/ <<"fetch", p>> \in Ahead \/ <<"try", p>> \in Ahead
  \/ <<"install", IF p = "dnsdist" THEN "slowdns" ELSE p>> \in Cmds(job.queue)
Progress ==
  job.name = "install_all" =>
    /\ \A f \in Cmds(job.queue) : f[1] = "install"
    /\ \A c \in Ahead : c[1] \notin RemoveOps
    /\ \A p \in Kept : p \in host.bin \/ Awaits(p)
Intact == Serving /\ Units /\ Catching /\ Fronting /\ Progress /\ Briefly(job.script)
Full == status = "full" => Idle /\ ~spoiled /\ Kept \subseteq host.bin
FullInv == (~spoiled /\ Working => Intact) /\ Full

\* Commands a script needs after another.
LEMMA NeedsThen ==
  /\ \A s \in Lasting, op \in {"fetch", "try"} : <<"enable", s>> \in Needs(<<op, Prog(s)>>)
  /\ \A s \in Services : <<"enable", s>> \in Needs(<<"unit", s>>)
  /\ \A op \in {"fetch", "try"} :
       /\ <<"catchfile", "udp_custom">> \in Needs(<<op, "udp_custom">>)
       /\ <<"enable", "haproxy_ssh">> \in Needs(<<op, "haproxy">>)
       /\ {<<"dir", "pem">>, <<"conf", "panel">>, <<"restart", "haproxy">>} \subseteq Needs(<<op, "xray">>)
       /\ <<"restart", "haproxy">> \in Needs(<<op, "haproxy">>)
  /\ <<"catchload", "udp_custom">> \in Needs(<<"catchfile", "udp_custom">>)
  /\ <<"restart", "haproxy">> \in Needs(<<"dir", "pem">>) \cap Needs(<<"conf", "panel">>)
  /\ <<"restart", "dnsdist">> \in Needs(<<"stop", "dnsdist">>)
<1>1. /\ \A s \in Services, op \in {"enable", "restart"} : <<op, s>> \in Commands
      /\ <<"catchfile", "udp_custom">> \in Commands /\ <<"catchload", "udp_custom">> \in Commands
  <2>1. "udp_custom" \in Tables
    BY NameSets
  <2> QED BY <2>1 DEF Commands, UnitOps, NftOps
<1>2. <<"dir", "pem">> \in Commands /\ <<"conf", "panel">> \in Commands
  <2>1. <<"dir", "pem">> \in Commands
    BY NameSets DEF Commands
  <2>2. <<"conf", "panel">> \in Commands
    BY DEF Commands
  <2> QED BY <2>1, <2>2
<1>3. {"haproxy", "haproxy_ssh", "dnsdist"} \subseteq Services /\ Lasting \subseteq Services
  BY NameSets DEF Lasting
<1>4. /\ "xray" \in Kept /\ "udp_custom" \in Kept /\ \A s \in Lasting : Prog(s) \in Kept
  <2>1. \A s \in Lasting : Prog(s) \in Kept
    BY KeptNames
  <2> QED BY <2>1, KeptNames
<1>5. ASSUME NEW s \in Lasting, NEW op \in {"fetch", "try"}
      PROVE  <<"enable", s>> \in Needs(<<op, Prog(s)>>)
  <2>1. PICK p : p = Prog(s)
    OBVIOUS
  <2>2. <<"enable", s>> \in Needs(<<op, p>>)
    BY <1>1, <1>3, <1>4, <2>1 DEF Needs
  <2> QED BY <2>1, <2>2
<1>6. \A s \in Services : <<"enable", s>> \in Needs(<<"unit", s>>)
  BY <1>1 DEF Needs
<1>7. \A op \in {"fetch", "try"} :
        /\ <<"catchfile", "udp_custom">> \in Needs(<<op, "udp_custom">>)
        /\ <<"enable", "haproxy_ssh">> \in Needs(<<op, "haproxy">>)
        /\ <<"restart", "haproxy">> \in Needs(<<op, "haproxy">>)
  BY <1>1, <1>3 DEF Needs
<1>8. \A op \in {"fetch", "try"} :
        {<<"dir", "pem">>, <<"conf", "panel">>, <<"restart", "haproxy">>} \subseteq Needs(<<op, "xray">>)
  BY <1>1, <1>2, <1>3 DEF Needs
<1>9. /\ <<"catchload", "udp_custom">> \in Needs(<<"catchfile", "udp_custom">>)
      /\ <<"restart", "haproxy">> \in Needs(<<"dir", "pem">>)
      /\ <<"restart", "haproxy">> \in Needs(<<"conf", "panel">>)
      /\ <<"restart", "dnsdist">> \in Needs(<<"stop", "dnsdist">>)
  BY <1>1, <1>3 DEF Needs
<1> QED BY <1>5, <1>6, <1>7, <1>8, <1>9

\* Command c of a script that serves what it has begun.
Ran(c) ==
  /\ c \in Commands /\ c = <<c[1], c[2]>> /\ Sane(c) /\ Effect(c, host, host')
  /\ Ahead = {c} \cup Ahead' /\ Needs(c) \subseteq Ahead' /\ \A d \in Ahead' : Needs(d) \subseteq Ahead'
  /\ c[1] \in RemoveOps => \A d \in Ahead' : d[1] \notin MakeOps
  /\ c = Head(job.script) /\ job.script # <<>>
  /\ revived' = revived /\ job'.name = job.name /\ job'.queue = job.queue
LEMMA CommandRuns ==
  ASSUME Working, job.script # <<>>, Advance, Others, Effect(Head(job.script), host, host'), Orderly,
         Briefly(job.script)
  PROVE  /\ Ran(Head(job.script)) /\ Briefly(job'.script)
         /\ Head(job.script) = <<"stop", "sshws">> =>
              \/ <<"wipe", "sshws">> \in Ahead'
              \/ job'.script # <<>> /\ Head(job'.script) = <<"start", "sshws">>
<1> DEFINE c == Head(job.script)
           t == job'.script
<1>1. /\ t = Tail(job.script) /\ job.script \in Seq(Commands) /\ c \in Commands
      /\ Ahead = {c} \cup Ahead' /\ revived' = revived /\ job'.name = job.name /\ job'.queue = job.queue
  BY Advances DEF Others, Working, Ahead
<1>2. /\ Needs(c) \subseteq Ahead' /\ \A d \in Ahead' : Needs(d) \subseteq Ahead'
      /\ Briefly(t)
      /\ c = <<"stop", "sshws">> => t # <<>> /\ Head(t) \in {<<"start", "sshws">>, <<"wipe", "sshws">>}
  BY <1>1, OwedNext DEF Ahead, Orderly
<1>3. c = <<c[1], c[2]>>
  BY <1>1, CommandTypes
<1>4. Sane(c) /\ (c[1] \in RemoveOps => \A d \in Ahead' : d[1] \notin MakeOps)
  BY <1>1 DEF Orderly, Sorted
<1>5. t # <<>> => Head(t) \in Ahead'
  <2>1. t \in Seq(Commands)
    BY <1>1
  <2> HIDE DEF t
  <2>2. t # <<>> => 1 \in 1..Len(t) /\ Head(t) = t[1]
    BY <2>1
  <2> QED BY <2>2 DEF Ahead, Cmds, t
<1> HIDE DEF c, t
<1>6. Ran(c)
  BY <1>1, <1>2, <1>3, <1>4 DEF Ran, c
<1> QED BY <1>2, <1>5, <1>6 DEF c, t

\* A service whose program and unit are there can start.
LEMMA LastingStarts ==
  ASSUME NEW s \in Lasting, NEW h, s \in h.unit \cup Packages, Prog(s) \in h.bin,
         s = "haproxy_ssh" => "haproxy" \in h.bin
  PROVE  Startable(h, s)
<1>1. s # "haproxy"
  BY DEF Lasting
<1>2. CASE s \notin {"ws_dropbear", "ws_stunnel", "ns4", "nv4", "haproxy_ssh"}
  <2>1. Prog(s) = s /\ Owner(s) = s
    BY <1>2, KeptNames DEF Owner
  <2> QED BY <1>1, <2>1 DEF Startable
<1>3. CASE s \in {"ns4", "nv4"}
  <2>1. Prog(s) = "slowdns" /\ Owner(s) = "slowdns"
    BY <1>3, KeptNames DEF Owner
  <2> QED BY <1>1, <2>1 DEF Startable
<1>4. CASE s = "haproxy_ssh"
  <2>1. Owner(s) = "haproxy"
    BY <1>4 DEF Owner
  <2> QED BY <1>1, <1>4, <2>1 DEF Startable
<1>5. CASE s \in {"ws_dropbear", "ws_stunnel"}
  BY <1>1, <1>5 DEF Startable
<1> QED BY <1>2, <1>3, <1>4, <1>5

\* Nothing of a program that stays is taken away.
LEMMA Unharmed ==
  ASSUME NEW c, Ran(c), Leaving, NEW p \in Kept, p \in host.bin, <<"wipe", p>> \notin Ahead
  PROVE  c \notin Harmful(p) /\ c[1] # "drop_all"
<1>1. c \in Ahead /\ c \in Commands
  BY DEF Ran
<1>2. Live(p)
  BY DEF Live
<1>3. c # <<"drop_all", "">>
  BY <1>1, <1>2 DEF Leaving
<1> QED BY <1>1, <1>2, <1>3, DropAll DEF Leaving

LEMMA CommandServing ==
  ASSUME NEW c, Ran(c), Leaving, Serving, Units, Fronting,
         c = <<"stop", "sshws">> => \/ <<"wipe", "sshws">> \in Ahead'
                                    \/ job'.script # <<>> /\ Head(job'.script) = <<"start", "sshws">>
  PROVE  Serving'
<1> SUFFICES ASSUME NEW s \in Lasting, Prog(s) \in host'.bin,
                    <<"wipe", Prog(s)>> \notin Ahead', <<"enable", s>> \notin Ahead'
             PROVE  Served(s)'
  BY DEF Serving
<1>1. PICK p \in Kept : p = Prog(s)
  BY KeptNames
<1>2. /\ c = <<c[1], c[2]>> /\ Sane(c) /\ Effect(c, host, host') /\ Ahead = {c} \cup Ahead'
      /\ Needs(c) \subseteq Ahead' /\ \A d \in Ahead' : Needs(d) \subseteq Ahead'
      /\ c = Head(job.script)
  BY DEF Ran
<1>3. p \in host.bin
  <2> SUFFICES ASSUME p \notin host.bin PROVE FALSE
    OBVIOUS
  <2>1. PICK op \in {"fetch", "try"} : c = <<op, p>>
    BY <1>1, <1>2 DEF Effect, Comes
  <2> QED BY <1>1, <1>2, <2>1, NeedsThen
<1>4. <<"wipe", p>> \notin Ahead
  <2>1. c # <<"wipe", p>>
    <3> SUFFICES ASSUME c = <<"wipe", p>> PROVE FALSE
      OBVIOUS
    <3>1. c[1] = "wipe" /\ c[2] = p
      OBVIOUS
    <3> QED BY <1>1, <1>2, <3>1 DEF Effect, Gives
  <2> QED BY <1>1, <1>2, <2>1
<1>5. c \notin Harmful(p)
  BY <1>3, <1>4, Unharmed
<1>6. \A op \in {"disable", "rmunit"} : ~(c[1] = op /\ c[2] = s)
  <2>1. \A op \in {"disable", "rmunit"} : <<op, s>> \in Harmful(p)
    BY <1>1 DEF Harmful
  <2> QED BY <1>2, <1>5, <2>1
<1>7. s # "haproxy"
  BY DEF Lasting
<1>8. s \in host.unit => s \in host'.unit
  BY <1>2, <1>6 DEF Effect, Leaves
<1>9. CASE c = <<"enable", s>>
  <2>1. c[1] = "enable" /\ c[2] = s
    BY <1>9
  <2>2. s \in host'.unit \cup (Packages \cap host'.bin)
    <3>1. CASE s \in Packages
      <4>1. s = p
        BY <1>1, <1>7, <3>1, KeptNames DEF Packages
      <4> QED BY <1>1, <3>1, <4>1
    <3>2. CASE s \notin Packages
      <4>1. <<"unit", s>> \in Ahead \/ s \in host.unit
        BY <1>2, <1>9, <3>2 DEF Units, Lasting
      <4>2. <<"unit", s>> \notin Ahead
        <5>1. <<"enable", s>> \in Needs(<<"unit", s>>)
          BY NeedsThen DEF Lasting
        <5>2. <<"unit", s>> # c
          BY <1>9
        <5> QED BY <1>2, <5>1, <5>2
      <4> QED BY <1>8, <4>1, <4>2
    <3> QED BY <3>1, <3>2
  <2>3. s = "haproxy_ssh" => "haproxy" \in host'.bin
    <3> SUFFICES ASSUME s = "haproxy_ssh" PROVE "haproxy" \in host'.bin
      OBVIOUS
    <3>1. HasHaproxy
      BY <1>1, <1>3, KeptNames DEF Fronting
    <3>2. <<"try", "haproxy">> \notin Ahead
      <4>1. <<"enable", "haproxy_ssh">> \in Needs(<<"try", "haproxy">>)
        BY NeedsThen
      <4> QED BY <1>2, <1>9, <4>1
    <3> QED BY <1>2, <2>1, <3>1, <3>2 DEF HasHaproxy, Effect, Leaves
  <2>4. Startable(host', s)
    BY <1>1, <2>2, <2>3, LastingStarts
  <2> QED BY <1>2, <2>1, <2>2, <2>4 DEF Effect, Gives, Served
<1>10. CASE c # <<"enable", s>>
  <2>1. Served(s)
    BY <1>1, <1>2, <1>3, <1>4, <1>10 DEF Serving
  <2>2. s \in host'.unit \cup Packages
    BY <1>8, <2>1 DEF Served
  <2>3. s \in host'.enabled
    BY <1>2, <1>6, <1>7, <2>1 DEF Served, Effect, Leaves, Sane
  <2>4. ASSUME c[1] \in {"start", "restart"}, c[2] = s
        PROVE  s \in host'.up
    <3>1. s # "haproxy_ssh"
      BY <1>2, <2>4 DEF Sane
    <3>2. Startable(host', s)
      BY <1>1, <2>2, <3>1, LastingStarts
    <3> QED BY <1>2, <2>4, <3>2 DEF Effect, Gives
  <2>5. s \in host'.up \/ Starts(s)'
    <3>1. CASE Starts(s)
      <4>1. CASE <<"restart", s>> \in Ahead'
        BY <4>1 DEF Starts
      <4>2. CASE c = <<"restart", s>> \/ c = <<"start", s>>
        BY <2>4, <4>2
      <4> QED BY <1>2, <3>1, <4>1, <4>2 DEF Starts
    <3>2. CASE s \in host.up /\ s \notin host'.up
      <4>1. c[2] = s /\ c[1] \in {"stop", "disable", "disable_unless_v2ray", "restart"}
        BY <1>2, <3>2 DEF Effect, Leaves
      <4>2. c = <<"stop", s>> /\ s \in {"sshws", "dnsdist"}
        BY <1>2, <1>6, <1>7, <2>4, <3>2, <4>1 DEF Sane
      <4>3. CASE s = "sshws"
        <5>1. Prog(s) = "sshws"
          BY <4>3, KeptNames
        <5> QED BY <4>2, <4>3, <5>1 DEF Starts
      <4>4. CASE s = "dnsdist"
        BY <1>2, <4>2, <4>4, NeedsThen DEF Starts
      <4> QED BY <4>2, <4>3, <4>4
    <3> QED BY <2>1, <3>1, <3>2 DEF Served
  <2> QED BY <2>2, <2>3, <2>5 DEF Served
<1> QED BY <1>9, <1>10

LEMMA CommandUnits ==
  ASSUME NEW c, Ran(c), Units
  PROVE  Units'
<1> SUFFICES ASSUME NEW s \in Services \ Packages, <<"enable", s>> \in Ahead'
             PROVE  <<"unit", s>> \in Ahead' \/ s \in host'.unit
  BY DEF Units
<1>1. /\ c = <<c[1], c[2]>> /\ Effect(c, host, host') /\ Ahead = {c} \cup Ahead'
      /\ c[1] \in RemoveOps => \A d \in Ahead' : d[1] \notin MakeOps
  BY DEF Ran
<1>2. c[1] # "rmunit"
  <2>1. <<"enable", s>>[1] \in MakeOps /\ "rmunit" \in RemoveOps
    BY DEF MakeOps, RemoveOps
  <2> QED BY <1>1, <2>1
<1>3. CASE c = <<"unit", s>>
  <2>1. c[1] = "unit" /\ c[2] = s
    BY <1>3
  <2> QED BY <1>1, <2>1 DEF Effect, Gives
<1>4. CASE c # <<"unit", s>>
  BY <1>1, <1>2, <1>4 DEF Units, Effect, Leaves
<1> QED BY <1>3, <1>4

LEMMA CatchallHeld ==
  /\ Guarded("catchall") = ("catchall" \in host.table /\ "catchall" \in host.file /\ "catchall" \in host.boot)
  /\ Guarded("catchall")' = ("catchall" \in host'.table /\ "catchall" \in host'.file /\ "catchall" \in host'.boot)
BY DEF Guarded, Held, Reloading

LEMMA CommandCatching ==
  ASSUME NEW c, Ran(c), Leaving, Catching
  PROVE  Catching'
<1> SUFFICES ASSUME "udp_custom" \in host'.bin, <<"wipe", "udp_custom">> \notin Ahead',
                    <<"catchfile", "udp_custom">> \notin Ahead'
             PROVE  Guarded("catchall")' \/ (<<"catchload", "udp_custom">> \in Ahead' /\ "catchall" \in host'.file)
  BY DEF Catching
<1>1. /\ c = <<c[1], c[2]>> /\ Effect(c, host, host') /\ Ahead = {c} \cup Ahead' /\ Needs(c) \subseteq Ahead'
  BY DEF Ran
<1>2. "udp_custom" \in Kept
  BY KeptNames
<1>3. "udp_custom" \in host.bin
  <2> SUFFICES ASSUME "udp_custom" \notin host.bin PROVE FALSE
    OBVIOUS
  <2>1. PICK op \in {"fetch", "try"} : c = <<op, "udp_custom">>
    BY <1>1 DEF Effect, Comes
  <2> QED BY <1>1, <2>1, NeedsThen
<1>4. <<"wipe", "udp_custom">> \notin Ahead
  <2>1. ~(c[1] = "wipe" /\ c[2] = "udp_custom")
    BY <1>1 DEF Effect, Gives
  <2> QED BY <1>1, <2>1
<1>5. c \notin Harmful("udp_custom") /\ c[1] # "drop_all"
  BY <1>2, <1>3, <1>4, Unharmed
<1>6. \A op \in {"nftstop", "nftunlink", "nftdrop"} : ~(c[1] = op /\ c[2] = "catchall")
  <2>1. \A op \in {"nftstop", "nftunlink", "nftdrop"} : <<op, "catchall">> \in Harmful("udp_custom")
    BY DEF Harmful
  <2> QED BY <1>1, <1>5, <2>1
<1>7. "catchall" \in host.file => "catchall" \in host'.file
  BY <1>1, <1>6 DEF Effect, Leaves
<1>8. HasUdpCustom(host)
  BY <1>3 DEF HasUdpCustom
<1>9. CASE c = <<"catchfile", "udp_custom">>
  <2>1. c[1] = "catchfile" /\ <<"catchload", "udp_custom">> \in Needs(c)
    BY <1>9, NeedsThen
  <2> QED BY <1>1, <1>8, <2>1 DEF Effect, Gives
<1>10. CASE c # <<"catchfile", "udp_custom">>
  <2>1. Guarded("catchall") \/ (<<"catchload", "udp_custom">> \in Ahead /\ "catchall" \in host.file)
    BY <1>1, <1>3, <1>4, <1>10 DEF Catching
  <2>2. CASE Guarded("catchall")
    BY <1>1, <1>5, <1>6, <2>2, CatchallHeld DEF Effect, Leaves
  <2>3. CASE c = <<"catchload", "udp_custom">> /\ "catchall" \in host.file
    <3>1. c[1] = "catchload"
      BY <2>3
    <3> QED BY <1>1, <1>7, <1>8, <2>3, <3>1 DEF Effect, Gives, Guarded, Held
  <2> QED BY <1>1, <1>7, <2>1, <2>2, <2>3
<1> QED BY <1>9, <1>10

LEMMA CommandProgress ==
  ASSUME NEW c, Ran(c), Progress
  PROVE  Progress'
<1> SUFFICES ASSUME job'.name = "install_all"
             PROVE  /\ \A f \in Cmds(job'.queue) : f[1] = "install"
                    /\ \A d \in Ahead' : d[1] \notin RemoveOps
                    /\ \A p \in Kept : p \in host'.bin \/ Awaits(p)'
  BY DEF Progress
<1>1. /\ c = <<c[1], c[2]>> /\ Effect(c, host, host') /\ Ahead = {c} \cup Ahead'
      /\ job'.name = job.name /\ job'.queue = job.queue
  BY DEF Ran
<1>2. /\ \A f \in Cmds(job.queue) : f[1] = "install"
      /\ \A d \in Ahead : d[1] \notin RemoveOps
      /\ \A p \in Kept : p \in host.bin \/ Awaits(p)
  BY <1>1 DEF Progress
<1>3. c[1] # "wipe"
  BY <1>1, <1>2 DEF RemoveOps
<1>4. ASSUME NEW p \in Kept, p \notin host'.bin
      PROVE  Awaits(p)'
  <2>1. p \notin host.bin
    BY <1>1, <1>3, <1>4 DEF Effect, Leaves
  <2>2. Awaits(p)
    BY <1>2, <2>1
  <2>3. ~(c[1] \in {"fetch", "try"} /\ c[2] = p)
    BY <1>1, <1>4 DEF Effect, Gives
  <2>4. c # <<"fetch", p>> /\ c # <<"try", p>>
    BY <2>3
  <2> QED BY <1>1, <2>2, <2>4 DEF Awaits
<1> QED BY <1>1, <1>2, <1>4

LEMMA CommandFronting ==
  ASSUME NEW c, Ran(c), Leaving, Fronting
  PROVE  Fronting'
<1>1. /\ c = <<c[1], c[2]>> /\ Sane(c) /\ Effect(c, host, host') /\ Ahead = {c} \cup Ahead'
      /\ Needs(c) \subseteq Ahead' /\ \A d \in Ahead' : Needs(d) \subseteq Ahead'
      /\ c[1] = "conf" => c[2] = "panel"
  BY CommandTypes DEF Ran
<1>2. "haproxy" \notin Kept /\ "pem" \notin Kept /\ "xray" \in Kept
  BY KeptNames
<1>3. HasHaproxy => HasHaproxy'
  <2>1. "haproxy" \in host.bin => "haproxy" \in host'.bin
    BY <1>1, <1>2 DEF Effect, Leaves, Sane
  <2>2. c = <<"try", "haproxy">> => "haproxy" \in host'.bin
    <3>1. c = <<"try", "haproxy">> => c[1] = "try" /\ c[2] = "haproxy"
      OBVIOUS
    <3> QED BY <1>1, <3>1 DEF Effect, Gives
  <2> QED BY <1>1, <2>1, <2>2 DEF HasHaproxy
<1>4. <<"fetch", "xray">> \in Ahead => HasHaproxy'
  BY <1>3 DEF Fronting
<1>5. <<"wipe", "xray">> \in Ahead /\ "xray" \in host'.bin => <<"wipe", "xray">> \in Ahead'
  <2>1. c = <<"wipe", "xray">> => "xray" \notin host'.bin
    <3>1. c = <<"wipe", "xray">> => c[1] = "wipe" /\ c[2] = "xray"
      OBVIOUS
    <3> QED BY <1>1, <3>1 DEF Effect, Gives
  <2> QED BY <1>1, <2>1
<1> SUFFICES ASSUME "xray" \in host'.bin
             PROVE  /\ HasHaproxy'
                    /\ host'.conf = "panel" \/ <<"conf", "panel">> \in Ahead'
                    /\ \/ <<"wipe", "xray">> \in Ahead'
                       \/ "pem" \in host'.dir \/ <<"dir", "pem">> \in Ahead'
                    /\ Fronted'
  BY <1>1, <1>4 DEF Fronting
<1>6. CASE "xray" \notin host.bin
  <2>1. PICK op \in {"fetch", "try"} : c = <<op, "xray">>
    BY <1>1, <1>6 DEF Effect, Comes
  <2>2. c = <<"fetch", "xray">>
    BY <1>1, <2>1 DEF Sane
  <2>3. {<<"dir", "pem">>, <<"conf", "panel">>, <<"restart", "haproxy">>} \subseteq Ahead'
    BY <1>1, <2>2, NeedsThen
  <2> QED BY <1>1, <1>4, <2>2, <2>3 DEF Fronted
<1>7. CASE "xray" \in host.bin
  <2>1. /\ HasHaproxy
        /\ host.conf = "panel" \/ <<"conf", "panel">> \in Ahead
        /\ <<"wipe", "xray">> \in Ahead \/ "pem" \in host.dir \/ <<"dir", "pem">> \in Ahead
        /\ Fronted
    BY <1>7 DEF Fronting
  <2>2. HasHaproxy'
    BY <1>3, <2>1
  <2>3. host'.conf = "panel" \/ <<"conf", "panel">> \in Ahead'
    <3>1. c[1] = "conf" => host'.conf = "panel"
      BY <1>1 DEF Effect, Gives
    <3>2. c = <<"conf", "panel">> => c[1] = "conf"
      OBVIOUS
    <3> QED BY <1>1, <2>1, <3>1, <3>2 DEF Effect, Comes
  <2>4. CASE <<"wipe", "xray">> \in Ahead
    BY <1>5, <2>2, <2>3, <2>4 DEF Fronted
  <2>5. CASE <<"wipe", "xray">> \notin Ahead
    <3>1. c \notin Harmful("xray")
      BY <1>2, <1>7, <2>5, Unharmed
    <3>2. ~(c[1] = "rmdir" /\ c[2] = "pem")
      <4>1. <<"rmdir", "pem">> \in Harmful("xray")
        BY DEF Harmful
      <4> QED BY <1>1, <3>1, <4>1
    <3>3. "pem" \in host'.dir \/ <<"dir", "pem">> \in Ahead'
      <4>1. "pem" \in host.dir => "pem" \in host'.dir
        BY <1>1, <1>2, <3>2 DEF Effect, Leaves, Sane
      <4>2. c = <<"dir", "pem">> => "pem" \in host'.dir
        <5>1. c = <<"dir", "pem">> => c[1] = "dir" /\ c[2] = "pem"
          OBVIOUS
        <5> QED BY <1>1, <5>1 DEF Effect, Gives
      <4> QED BY <1>1, <2>1, <2>5, <4>1, <4>2
    <3>4. <<"restart", "haproxy">> \in Ahead' \/ (host'.conf = "panel" /\ Startable(host', "haproxy"))
      <4>1. <<"dir", "pem">> \in Ahead' => <<"restart", "haproxy">> \in Ahead'
        BY <1>1, NeedsThen
      <4>2. <<"conf", "panel">> \in Ahead' => <<"restart", "haproxy">> \in Ahead'
        BY <1>1, NeedsThen
      <4>3. <<"try", "haproxy">> \in Ahead' => <<"restart", "haproxy">> \in Ahead'
        BY <1>1, NeedsThen
      <4>4. "haproxy" \in Packages /\ Owner("haproxy") = "haproxy"
        BY DEF Packages, Owner
      <4> QED BY <2>2, <2>3, <3>3, <4>1, <4>2, <4>3, <4>4 DEF HasHaproxy, Startable
    <3>5. Fronted'
      <4> SUFFICES ASSUME <<"restart", "haproxy">> \notin Ahead' PROVE Fronted'
        BY DEF Fronted
      <4>1. host'.conf = "panel" /\ Startable(host', "haproxy")
        BY <3>4
      <4>2. CASE c = <<"restart", "haproxy">>
        <5>1. c[1] = "restart" /\ c[2] = "haproxy"
          BY <4>2
        <5> QED BY <1>1, <4>1, <5>1 DEF Effect, Gives, Fronted
      <4>3. CASE c # <<"restart", "haproxy">>
        <5>1. host.hap = "panel" /\ ("haproxy" \in host.up \/ "haproxy" \notin host.enabled)
          BY <1>1, <2>1, <2>5, <4>3 DEF Fronted
        <5>2. host'.hap = "panel"
          BY <1>1, <4>1, <5>1 DEF Effect, Comes
        <5>3. ~(c[1] \in {"fetch", "try"} /\ c[2] = "haproxy")
          BY <1>1, NeedsThen
        <5>4. ~(c[1] = "enable" /\ c[2] = "haproxy") /\ ~(c[1] = "stop" /\ c[2] = "haproxy")
          BY <1>1 DEF Sane, Lasting
        <5>5. ~(c[1] = "restart" /\ c[2] = "haproxy")
          BY <1>1, <4>3
        <5>6. "haproxy" \notin host.enabled => "haproxy" \notin host'.enabled
          BY <1>1, <5>3, <5>4 DEF Effect, Comes
        <5>7. "haproxy" \in host.up => "haproxy" \in host'.up \/ "haproxy" \notin host'.enabled
          BY <1>1, <5>4, <5>5 DEF Effect, Leaves, Gives
        <5> QED BY <5>1, <5>2, <5>6, <5>7 DEF Fronted
      <4> QED BY <4>2, <4>3
    <3> QED BY <2>2, <2>3, <3>3, <3>5
  <2> QED BY <2>4, <2>5
<1> QED BY <1>6, <1>7

\* Nothing of what is there is taken away, and the script keeps what it needs.
LEMMA StillFull ==
  ASSUME Serving, Units, Catching, Fronting, Ahead' \subseteq Ahead,
         \A d \in Ahead : d[1] \notin {"cert", "stop", "start"} => d \in Ahead',
         host'.bin = host.bin, host'.unit = host.unit, host'.dir = host.dir, host'.conf = host.conf,
         Guarded("catchall") => Guarded("catchall")',
         "catchall" \in host.file => "catchall" \in host'.file,
         \A s \in Lasting : Prog(s) \in host.bin /\ Served(s) => Served(s)',
         "xray" \in host.bin /\ Fronted => Fronted'
  PROVE  Serving' /\ Units' /\ Catching' /\ Fronting'
<1>1. Serving'
  <2> SUFFICES ASSUME NEW s \in Lasting, Prog(s) \in host'.bin,
                      <<"wipe", Prog(s)>> \notin Ahead', <<"enable", s>> \notin Ahead'
               PROVE  Served(s)'
    BY DEF Serving
  <2>1. <<"wipe", Prog(s)>> \notin Ahead /\ <<"enable", s>> \notin Ahead
    OBVIOUS
  <2> QED BY <2>1 DEF Serving
<1>2. Units'
  <2> SUFFICES ASSUME NEW s \in Services \ Packages, <<"enable", s>> \in Ahead'
               PROVE  <<"unit", s>> \in Ahead' \/ s \in host'.unit
    BY DEF Units
  <2>1. <<"unit", s>> \in Ahead => <<"unit", s>> \in Ahead'
    OBVIOUS
  <2> QED BY <2>1 DEF Units
<1>3. Catching'
  <2>1. \A op \in {"wipe", "catchfile", "catchload"} :
          <<op, "udp_custom">> \in Ahead => <<op, "udp_custom">> \in Ahead'
    OBVIOUS
  <2> QED BY <2>1 DEF Catching
<1>4. Fronting'
  <2>1. /\ <<"try", "haproxy">> \in Ahead => <<"try", "haproxy">> \in Ahead'
        /\ <<"conf", "panel">> \in Ahead => <<"conf", "panel">> \in Ahead'
        /\ <<"wipe", "xray">> \in Ahead => <<"wipe", "xray">> \in Ahead'
        /\ <<"dir", "pem">> \in Ahead => <<"dir", "pem">> \in Ahead'
    OBVIOUS
  <2> QED BY <2>1 DEF Fronting, HasHaproxy
<1> QED BY <1>1, <1>2, <1>3, <1>4

\* What an orderly script has to give gives what it needs.
LEMMA AheadNeeds ==
  ASSUME Working, Orderly
  PROVE  \A d \in Ahead : Needs(d) \subseteq Ahead
<1> SUFFICES ASSUME NEW d \in Ahead, NEW e \in Needs(d) PROVE e \in Ahead
  OBVIOUS
<1>1. PICK s : s = job.script
  OBVIOUS
<1>2. s \in Seq(Commands) /\ Owed(s) = {} /\ e \in Commands
  BY <1>1 DEF Working, Orderly, Needs
<1>3. PICK i \in 1..Len(s) : s[i] = d
  BY <1>1 DEF Ahead, Cmds
<1>4. PICK j \in (i+1)..Len(s) : s[j] = e
  BY <1>2, <1>3 DEF Owed
<1>5. j \in 1..Len(s)
  BY <1>2, <1>3, <1>4
<1> QED BY <1>1, <1>4, <1>5 DEF Ahead, Cmds

LEMMA CommandedFull ==
  ASSUME TunnelInv, ServeInv, FullInv, Commanded
  PROVE  FullInv'
<1>1. /\ Working /\ job.script # <<>> /\ Advance /\ Others
      /\ Effect(Head(job.script), host, host')
  BY CommandDoes
<1>2. status' = status /\ spoiled' = spoiled
  BY <1>1 DEF Others
<1>3. Full'
  <2>1. ~Idle
    BY <1>1, Advances DEF Idle
  <2> QED BY <1>2, <2>1 DEF FullInv, Full
<1> SUFFICES ASSUME ~spoiled PROVE Intact'
  BY <1>2, <1>3 DEF FullInv
<1>4. Orderly /\ Leaving /\ Intact
  BY <1>1 DEF ServeInv, FullInv
<1>5. PICK c : c = Head(job.script)
  OBVIOUS
<1>6. /\ Ran(c) /\ Briefly(job'.script)
      /\ c = <<"stop", "sshws">> => \/ <<"wipe", "sshws">> \in Ahead'
                                    \/ job'.script # <<>> /\ Head(job'.script) = <<"start", "sshws">>
  BY <1>1, <1>4, <1>5, CommandRuns DEF Intact
<1> QED BY <1>4, <1>6, CommandServing, CommandUnits, CommandCatching, CommandFronting, CommandProgress DEF Intact

\* The panel waits, and nothing is taken away.
LEMMA WaitingFull ==
  ASSUME TunnelInv, ServeInv, FullInv, job' = job, spoiled' = spoiled, status' = status,
         host'.bin = host.bin, host'.unit = host.unit, host'.dir = host.dir, host'.conf = host.conf,
         host'.file = host.file, host'.enabled = host.enabled, \A n : Guarded(n) => Guarded(n)',
         host.up \subseteq host'.up,
         host'.hap = host.hap \/ host'.hap = host.conf
  PROVE  FullInv'
<1>1. Full'
  BY DEF FullInv, Full, Idle
<1> SUFFICES ASSUME ~spoiled, Working PROVE Intact'
  BY <1>1 DEF FullInv, Working
<1>2. Intact /\ Orderly
  BY DEF ServeInv, FullInv
<1>3. Ahead' = Ahead
  BY DEF Ahead
<1>4. \A s \in Lasting : Served(s) => Served(s)'
  BY <1>3 DEF Served, Starts
<1>5. Guarded("catchall") => Guarded("catchall")'
  OBVIOUS
<1>6. "xray" \in host.bin /\ Fronted => Fronted'
  <2> SUFFICES ASSUME "xray" \in host.bin, Fronted, <<"restart", "haproxy">> \notin Ahead PROVE Fronted'
    BY <1>3 DEF Fronted
  <2>1. <<"conf", "panel">> \notin Ahead
    BY <1>2, AheadNeeds, NeedsThen
  <2>2. host.conf = "panel"
    BY <1>2, <2>1 DEF Intact, Fronting
  <2> QED BY <1>3, <2>2 DEF Fronted
<1>7. Serving' /\ Units' /\ Catching' /\ Fronting'
  BY <1>2, <1>3, <1>4, <1>5, <1>6, StillFull DEF Intact
<1>8. Progress'
  BY <1>2, <1>3 DEF Intact, Progress, Awaits
<1> QED BY <1>2, <1>7, <1>8 DEF Intact

LEMMA WatchFull ==
  ASSUME TunnelInv, ServeInv, FullInv, Watch
  PROVE  FullInv'
BY WatchHost, WaitingFull

LEMMA ReviveFull ==
  ASSUME TunnelInv, ServeInv, FullInv, NEW s \in Services, Revive(s)
  PROVE  FullInv'
<1>1. host \in Hosts /\ host' = Started(host, s) /\ job' = job /\ spoiled' = spoiled /\ status' = status
  BY DEF TunnelInv, TypeOK, Revive
<1>2. /\ SameUnits(host, host') /\ host'.enabled = host.enabled /\ host.up \subseteq host'.up
      /\ host'.hap = host.hap \/ host'.hap = host.conf
  BY <1>1, StartedDoes
<1>3. \A n : Guarded(n) => Guarded(n)'
  BY <1>2 DEF SameUnits, Revive, Guarded, Held, Reloading
<1> QED BY <1>1, <1>2, <1>3, WaitingFull DEF SameUnits

LEMMA DuplicateFull ==
  ASSUME TunnelInv, ServeInv, FullInv, Duplicate
  PROVE  FullInv'
<1>1. host' = [host EXCEPT !.dup = TRUE] /\ UNCHANGED <<job, spoiled, status>> /\ host \in Hosts
  BY DEF Duplicate, TunnelInv, TypeOK
<1>2. /\ host'.bin = host.bin /\ host'.unit = host.unit /\ host'.dir = host.dir /\ host'.conf = host.conf
      /\ host'.file = host.file /\ host'.enabled = host.enabled /\ host'.up = host.up /\ host'.hap = host.hap
      /\ host'.table = host.table /\ host'.boot = host.boot
  BY <1>1 DEF Hosts
<1>3. \A n : Guarded(n) => Guarded(n)'
  BY <1>2 DEF Duplicate, Guarded, Held, Reloading
<1> QED BY <1>1, <1>2, <1>3, WaitingFull

LEMMA SkipFull ==
  ASSUME TunnelInv, ServeInv, FullInv, Busy("cert"), UNCHANGED host, Others,
         job' = [job EXCEPT !.script = SubSeq(@, 4, Len(@))]
  PROVE  FullInv'
<1>1. /\ Working /\ job.script # <<>> /\ Head(job.script)[1] = "cert"
      /\ job'.queue = job.queue /\ job'.name = job.name
      /\ Ahead' \subseteq Ahead /\ (Briefly(job.script) => Briefly(job'.script))
      /\ \A c \in Ahead : c[1] \notin {"cert", "stop", "start"} => c \in Ahead'
  BY SkipAhead
<1>2. Full'
  BY <1>1 DEF FullInv, Full, Idle, Others
<1> SUFFICES ASSUME ~spoiled PROVE Intact'
  BY <1>2 DEF FullInv, Others
<1>3. Intact
  BY <1>1 DEF FullInv
<1>4. \A s \in Lasting : Served(s) => Served(s)'
  <2> SUFFICES ASSUME NEW s \in Lasting, Served(s) PROVE Served(s)'
    OBVIOUS
  <2>1. Head(job.script) # <<"start", s>>
    BY <1>1
  <2>2. <<"restart", s>> \in Ahead => <<"restart", s>> \in Ahead'
    BY <1>1
  <2> QED BY <2>1, <2>2 DEF Served, Starts
<1>5. Fronted => Fronted'
  <2>1. \A d \in {<<"wipe", "xray">>, <<"restart", "haproxy">>} : d \in Ahead => d \in Ahead'
    BY <1>1
  <2> QED BY <2>1 DEF Fronted
<1>6. Guarded("catchall") => Guarded("catchall")'
  BY CatchallHeld
<1>7. Serving' /\ Units' /\ Catching' /\ Fronting'
  BY <1>1, <1>3, <1>4, <1>5, <1>6, StillFull DEF Intact
<1>8. Progress'
  <2>1. \A p : Awaits(p) => Awaits(p)'
    <3> SUFFICES ASSUME NEW p, Awaits(p) PROVE Awaits(p)'
      OBVIOUS
    <3>1. \A op \in {"fetch", "try"} : <<op, p>> \in Ahead => <<op, p>> \in Ahead'
      BY <1>1
    <3> QED BY <1>1, <3>1 DEF Awaits
  <2> QED BY <1>1, <1>3, <2>1 DEF Intact, Progress
<1> QED BY <1>1, <1>3, <1>7, <1>8 DEF Intact

\* A reboot of a machine at rest starts what is enabled.
LEMMA RebootFull ==
  ASSUME TunnelInv, ServeInv, FullInv, Reboot
  PROVE  FullInv'
<1>1. /\ host \in Hosts /\ host' = Rebooted(host) /\ status' = status
      /\ job' = NoJob /\ spoiled' = (spoiled \/ ~Idle)
  BY DEF Reboot, TunnelInv, TypeOK
<1>2. PICK U : U = {s \in host.enabled : Startable(host, s)}
  OBVIOUS
<1>3. PICK T : T = host.boot \cap host.file
  OBVIOUS
<1>4. PICK S : S = [host.spared EXCEPT !.table = host.spared.file]
  OBVIOUS
<1>5. host' = [host EXCEPT !.up = U, !.hap = host.conf, !.table = T, !.spared = S, !.dup = FALSE]
  BY <1>1, <1>2, <1>3, <1>4 DEF Rebooted, Hosts
<1>6. /\ host'.bin = host.bin /\ host'.unit = host.unit /\ host'.dir = host.dir /\ host'.conf = host.conf
      /\ host'.file = host.file /\ host'.enabled = host.enabled /\ host'.boot = host.boot
      /\ host'.up = U /\ host'.table = T /\ host'.hap = host.conf
  BY <1>1, <1>5 DEF Hosts
<1>7. Full'
  <2>1. Idle'
    BY <1>1 DEF Idle, NoJob
  <2> QED BY <1>1, <1>6, <2>1 DEF FullInv, Full
<1> SUFFICES ASSUME ~spoiled, Idle PROVE Intact'
  BY <1>1, <1>7 DEF FullInv
<1>8. Working /\ job = NoJob /\ job.script = <<>> /\ job.queue = <<>> /\ Ahead = {} /\ Ahead' = {}
  BY <1>1, IdleJob, NoCommands DEF Ahead
<1>9. Intact
  BY <1>8 DEF FullInv
<1>10. "xray" \in host.bin =>
         "haproxy" \in host.bin /\ host.conf = "panel" /\ "pem" \in host.dir /\ Startable(host, "haproxy")
  <2>1. "haproxy" \in Packages /\ Owner("haproxy") = "haproxy"
    BY DEF Packages, Owner
  <2> QED BY <1>8, <1>9, <2>1 DEF Intact, Fronting, HasHaproxy, Startable
<1>11. ASSUME NEW s \in Lasting, Prog(s) \in host.bin, Served(s)
       PROVE  Served(s)'
  <2>1. s = "haproxy_ssh" => "haproxy" \in host.bin
    BY <1>10, <1>11, KeptNames
  <2>2. Startable(host, s)
    BY <1>11, <2>1, LastingStarts DEF Served
  <2> QED BY <1>2, <1>6, <1>11, <2>2 DEF Served
<1>12. "xray" \in host.bin => Fronted'
  BY <1>2, <1>6, <1>10 DEF Fronted
<1>13. Guarded("catchall") => Guarded("catchall")'
  BY <1>3, <1>6, CatchallHeld
<1>14. Serving' /\ Units' /\ Catching' /\ Fronting'
  BY <1>6, <1>8, <1>9, <1>11, <1>12, <1>13, StillFull DEF Intact
<1>15. Progress' /\ Briefly(job'.script)
  BY <1>1, <1>8, <1>9 DEF Intact, Progress, Idle
<1> QED BY <1>14, <1>15 DEF Intact

LEMMA RemovalFull ==
  ASSUME TunnelInv, ServeInv, FullInv, Removal
  PROVE  FullInv'
<1>1. CASE Busy("drop_all")
  BY <1>1, CommandedFull DEF Commanded
<1>2. CASE ~Busy("drop_all")
  <2>1. PICK op \in {"kill_units", "wipe_all", "crontab_r", "flush", "reboot"} : Busy(op) /\ Advance
    BY <1>2 DEF Removal, Does
  <2>2. op \in AutoOps
    BY DEF AutoOps
  <2>3. Ending
    BY <2>1, <2>2, EndingAt
  <2>4. job'.name = "remove" /\ job'.queue = <<>>
    BY <2>1, <2>3 DEF Ending, Advance
  <2>5. ~Working'
    BY <2>4, NoCommands DEF Working
  <2>6. ~Idle
    BY <2>3 DEF Ending, Idle
  <2>7. status' = status
    BY <1>2 DEF Removal, Does, Others
  <2> QED BY <2>5, <2>6, <2>7 DEF FullInv, Full
<1> QED BY <1>1, <1>2

\* A job begins: that of install_all_missing has every program before it.
LEMMA TakeFull ==
  ASSUME TunnelInv, ServeInv, FullInv, NEW name, NEW Q, Take(name, Q),
         name = "install_all" =>
           /\ \A f \in Cmds(Q) : f[1] = "install"
           /\ \A p \in Kept : <<"install", IF p = "dnsdist" THEN "slowdns" ELSE p>> \in Cmds(Q)
  PROVE  FullInv'
<1>1. /\ job'.name = name /\ job'.queue = Q /\ job'.script = <<>>
      /\ host' = host /\ spoiled' = spoiled /\ Idle /\ status' = "none"
  BY DEF Take
<1>2. Full'
  BY <1>1 DEF Full
<1> SUFFICES ASSUME ~spoiled PROVE Intact'
  BY <1>1, <1>2 DEF FullInv
<1>3. Working /\ job.script = <<>> /\ Ahead = {} /\ Ahead' = {}
  BY <1>1, IdleJob, NoCommands DEF Ahead
<1>4. Intact
  BY <1>3 DEF FullInv
<1>5. /\ \A s \in Lasting : Served(s) => Served(s)'
      /\ Fronted => Fronted'
      /\ Guarded("catchall") => Guarded("catchall")'
  BY <1>1, <1>3, CatchallHeld DEF Served, Starts, Fronted
<1>6. Serving' /\ Units' /\ Catching' /\ Fronting'
  BY <1>1, <1>3, <1>4, <1>5, StillFull DEF Intact
<1>7. Progress'
  BY <1>1, <1>3 DEF Progress, Awaits
<1> QED BY <1>1, <1>3, <1>4, <1>6, <1>7 DEF Intact

LEMMA ChooseJobFull ==
  ASSUME TunnelInv, ServeInv, FullInv, ChooseJob
  PROVE  FullInv'
<1>1. PICK name \in DOMAIN Queues : Take(name, Queues[name])
  BY DEF ChooseJob
<1>2. PICK Q : Q = Queues[name]
  OBVIOUS
<1>3. ASSUME name = "install_all"
      PROVE  /\ \A f \in Cmds(Q) : f[1] = "install"
             /\ \A p \in Kept : <<"install", IF p = "dnsdist" THEN "slowdns" ELSE p>> \in Cmds(Q)
  <2>1. Q = InstallAll
    BY <1>2, <1>3 DEF Queues
  <2>2. PICK n : n = Len(Order)
    OBVIOUS
  <2>3. n = 10 /\ Q = [i \in 1..n |-> <<"install", Order[i]>>]
    <3>1. n = 10
      BY <2>2 DEF Order
    <3> QED BY <2>1, <2>2, <3>1 DEF InstallAll
  <2>4. Len(Q) = n /\ \A i \in 1..n : Q[i] = <<"install", Order[i]>>
    BY <2>3
  <2>5. Cmds(Q) = {<<"install", t>> : t \in Tunnels}
    BY <2>2, <2>4 DEF Cmds, Tunnels
  <2>6. \A p \in Kept : p = "dnsdist" \/ p \in Tunnels
    BY DEF Kept
  <2>7. "slowdns" \in Tunnels
    BY TunnelNames
  <2> QED BY <2>5, <2>6, <2>7
<1>4. Take(name, Q)
  BY <1>1, <1>2
<1> QED BY <1>3, <1>4, TakeFull

LEMMA ChooseTunnelFull ==
  ASSUME TunnelInv, ServeInv, FullInv, ChooseTunnel
  PROVE  FullInv'
<1>1. PICK t \in Offered, f \in {"install", "uninstall"} : Take("one", <<<<f, t>>>>)
  BY DEF ChooseTunnel
<1>2. PICK Q : Q = <<<<f, t>>>>
  OBVIOUS
<1>3. Take("one", Q)
  BY <1>1, <1>2
<1> QED BY <1>3, TakeFull

LEMMA DoneFull ==
  ASSUME TunnelInv, ServeInv, FullInv, Done
  PROVE  FullInv'
<1>1. /\ ~Idle /\ job.script = <<>> /\ job.queue = <<>> /\ job' = NoJob /\ host' = host
      /\ spoiled' = (spoiled /\ job.name \notin {"uninstall_all", "remove"})
      /\ status' = "full" => job.name = "install_all" /\ ~spoiled
  BY DEF Done
<1>2. Ahead' = {} /\ Ahead = {} /\ job'.script = <<>> /\ job'.queue = <<>> /\ job'.name = "none"
  BY <1>1, NoCommands DEF Ahead, NoJob
<1>3. Progress' /\ Briefly(job'.script)
  BY <1>2, NoCommands DEF Progress, Briefly
<1>4. CASE job.name \in {"uninstall_all", "remove"}
  <2>1. host.bin \subseteq {"haproxy"}
    BY <1>1, <1>4, ThroughBare DEF Bare
  <2>2. /\ \A s \in Lasting : Prog(s) \notin host'.bin
        /\ "udp_custom" \notin host'.bin /\ "xray" \notin host'.bin
    <3>1. \A s \in Lasting : Prog(s) # "haproxy"
      BY KeptNames
    <3> QED BY <1>1, <2>1, <3>1
  <2>3. Intact'
    BY <1>2, <1>3, <2>2 DEF Intact, Serving, Units, Catching, Fronting
  <2>4. Full'
    BY <1>1, <1>4 DEF Full
  <2> QED BY <2>3, <2>4 DEF FullInv
<1>5. CASE job.name \notin {"uninstall_all", "remove"}
  <2>1. Working
    BY <1>5, EndingScript DEF TunnelInv, TypeOK
  <2>2. CASE spoiled
    BY <1>1, <1>5, <2>2 DEF FullInv, Full
  <2>3. CASE ~spoiled
    <3>1. Intact
      BY <2>1, <2>3 DEF FullInv
    <3>2. /\ \A s \in Lasting : Served(s) => Served(s)'
          /\ Fronted => Fronted'
          /\ Guarded("catchall") => Guarded("catchall")'
      BY <1>1, <1>2, CatchallHeld DEF Served, Starts, Fronted
    <3>3. Serving' /\ Units' /\ Catching' /\ Fronting'
      BY <1>1, <1>2, <3>1, <3>2, StillFull DEF Intact
    <3>4. Full'
      <4> SUFFICES ASSUME job.name = "install_all" PROVE Full'
        BY <1>1 DEF Full
      <4>1. \A p \in Kept : p \in host.bin
        BY <1>1, <1>2, <3>1, NoCommands DEF Intact, Progress, Awaits
      <4> QED BY <1>1, <1>2, <2>3, <4>1 DEF Full, Idle
    <3> QED BY <1>3, <3>3, <3>4 DEF FullInv, Intact
  <2> QED BY <2>2, <2>3
<1> QED BY <1>4, <1>5

LEMMA CallFull ==
  ASSUME TunnelInv, ServeInv, FullInv, Call
  PROVE  FullInv'
<1>1. /\ ~Idle /\ job.script = <<>> /\ job.queue # <<>> /\ host' = host /\ spoiled' = spoiled /\ status' = status
  BY DEF Call, Others
<1>2. Full'
  BY <1>1 DEF FullInv, Full
<1> SUFFICES ASSUME ~spoiled, Working' PROVE Intact'
  BY <1>1, <1>2 DEF FullInv
<1>3. Working
  BY <1>1, EndingScript DEF TunnelInv, TypeOK
<1>4. job \in [name : JobNames, queue : Seq(Functions), script : Seq(Commands)]
  BY <1>3 DEF Working
<1>5. Intact
  BY <1>3 DEF FullInv
<1>6. PICK Q \in Seq(Functions) : Q = job.queue
  BY <1>4
<1>7. /\ Tail(Q) \in Seq(Functions) /\ Head(Q) \in Functions /\ Len(Q) \in Nat \ {0} /\ Q[1] = Head(Q)
      /\ Cmds(Q) = {Head(Q)} \cup Cmds(Tail(Q))
  BY <1>1, <1>6, QueueTail, CmdsTail
<1>8. PICK f \in Functions : f = Head(Q)
  BY <1>7
<1>9. PICK s : s = IF ReturnsEarly(f[1], f[2]) THEN <<>> ELSE ScriptOf(f[1], f[2])
  OBVIOUS
<1>10. job'.name = job.name /\ job'.queue = Tail(Q) /\ job'.script = s
  <2>1. job' = [job EXCEPT !.queue = Tail(Q), !.script = s]
    BY <1>6, <1>8, <1>9 DEF Call
  <2> QED BY <1>4, <2>1
<1>11. Ahead = {} /\ Ahead' = Cmds(s)
  BY <1>1, <1>10, NoCommands DEF Ahead
\* What is there is left alone, and install_all_missing goes on with f.
<1>12. /\ \A t \in Lasting : Prog(t) \in host.bin =>
            t \in host.unit \cup Packages /\ t \in host.enabled /\ t \in host.up
       /\ "udp_custom" \in host.bin => Guarded("catchall")
       /\ "xray" \in host.bin =>
            /\ "haproxy" \in host.bin /\ host.conf = "panel" /\ "pem" \in host.dir
            /\ host.hap = "panel" /\ ("haproxy" \in host.up \/ "haproxy" \notin host.enabled)
  BY <1>1, <1>5, <1>11 DEF Intact, Serving, Served, Starts, Catching, Fronting, Fronted, HasHaproxy
<1>13. Serving' /\ Catching'
  BY <1>1, <1>12, CatchallHeld DEF Serving, Served, Catching
<1>14. (<<"fetch", "xray">> \in Cmds(s) => <<"try", "haproxy">> \in Cmds(s)) => Fronting'
  BY <1>1, <1>11, <1>12 DEF Fronting, Fronted, HasHaproxy
<1>15. ASSUME job.name = "install_all"
       PROVE  /\ \A g \in Cmds(Tail(Q)) : g[1] = "install"
              /\ f[1] = "install" /\ f[2] \in Tunnels /\ f = <<"install", f[2]>>
              /\ \A p \in Kept : \/ p \in host.bin
                                 \/ <<"install", IF p = "dnsdist" THEN "slowdns" ELSE p>> \in Cmds(Tail(Q))
                                 \/ p = f[2] \/ (p = "dnsdist" /\ f[2] = "slowdns")
  <2>1. /\ \A g \in Cmds(Q) : g[1] = "install"
        /\ \A p \in Kept : p \in host.bin \/ <<"install", IF p = "dnsdist" THEN "slowdns" ELSE p>> \in Cmds(Q)
    BY <1>5, <1>6, <1>11, <1>15 DEF Intact, Progress, Awaits
  <2>2. f[1] = "install"
    BY <1>7, <1>8, <2>1
  <2>3. f \in Asked
    BY <2>2 DEF Functions
  <2>4. f[2] \in Tunnels /\ f = <<"install", f[2]>>
    BY <2>2, <2>3 DEF Asked
  <2>5. ASSUME NEW p \in Kept, <<"install", IF p = "dnsdist" THEN "slowdns" ELSE p>> = f
        PROVE  p = f[2] \/ (p = "dnsdist" /\ f[2] = "slowdns")
    BY <2>5
  <2> QED BY <1>7, <1>8, <2>1, <2>2, <2>4, <2>5
<1>16. CASE ReturnsEarly(f[1], f[2])
  <2>1. s = <<>> /\ Cmds(s) = {}
    BY <1>9, <1>16, NoCommands
  <2>2. Units' /\ Fronting'
    BY <1>11, <1>14, <2>1 DEF Units
  <2>3. Briefly(job'.script)
    BY <1>10, <2>1, NoCommands DEF Briefly
  <2>4. Progress'
    <3> SUFFICES ASSUME job.name = "install_all" PROVE Progress'
      BY <1>10 DEF Progress
    <3>1. f[2] \in host.bin /\ f[2] \in host.unit
      BY <1>15, <1>16 DEF ReturnsEarly
    <3>2. f[2] # "slowdns"
      <4>1. host.unit \subseteq Services /\ "slowdns" \notin Services
        BY NameSets DEF TunnelInv, TypeOK, Hosts
      <4> QED BY <3>1, <4>1
    <3> QED BY <1>1, <1>10, <1>11, <1>15, <2>1, <3>1, <3>2 DEF Progress, Awaits
  <2> QED BY <1>13, <2>2, <2>3, <2>4 DEF Intact
<1>17. CASE ~ReturnsEarly(f[1], f[2])
  <2>1. s = ScriptOf(f[1], f[2])
    BY <1>9, <1>17
  <2>2. f # AutoJob
    <3> SUFFICES ASSUME f = AutoJob PROVE FALSE
      OBVIOUS
    <3>1. f[1] = "auto"
      BY DEF AutoJob
    <3>2. 1 \in 1..Len(Q) /\ Q[1] = AutoJob
      BY <1>7, <1>8
    <3>3. job.name = "remove" /\ 1 = Len(Q)
      BY <1>3, <1>6, <3>2 DEF Working
    <3>4. Cmds(Tail(Q)) = {}
      <4>1. Len(Tail(Q)) = Len(Q) - 1
        BY <1>1, <1>6, QueueTail
      <4> QED BY <1>7, <3>3, <4>1 DEF Cmds
    <3> QED BY <1>10, <3>3, <3>4 DEF Working
  <2>3. Sound(s)
    BY <2>1, <2>2, ScriptsSound
  <2>4. Units' /\ Fronting'
    BY <1>11, <1>14, <2>3 DEF Units, Sound, Fit
  <2>5. Progress'
    <3> SUFFICES ASSUME job.name = "install_all" PROVE Progress'
      BY <1>10 DEF Progress
    <3>1. s = InstallScript[f[2]] /\ f[2] \in Tunnels
      BY <1>15, <2>1 DEF ScriptOf
    <3>2. /\ \A d \in Cmds(s) : d[1] \notin RemoveOps
          /\ <<"fetch", f[2]>> \in Cmds(s) \/ <<"try", f[2]>> \in Cmds(s)
          /\ f[2] = "slowdns" => <<"try", "dnsdist">> \in Cmds(s)
      BY <3>1, InstallsSound DEF Builds
    <3> QED BY <1>1, <1>10, <1>11, <1>15, <3>2 DEF Progress, Awaits
  <2> QED BY <1>10, <1>13, <2>3, <2>4, <2>5 DEF Intact, Sound
<1> QED BY <1>16, <1>17

LEMMA FullInit == Init => FullInv
<1> SUFFICES ASSUME Init PROVE FullInv
  OBVIOUS
<1>1. job.script = <<>> /\ job.name = "none" /\ host.bin = {} /\ status = "none"
  BY DEF Init, NoJob
<1>2. Ahead = {} /\ Briefly(job.script)
  BY <1>1, NoCommands DEF Ahead, Briefly
<1> QED BY <1>1, <1>2 DEF FullInv, Full, Intact, Serving, Units, Catching, Fronting, Progress

LEMMA FullStep == TunnelInv /\ ServeInv /\ FullInv /\ [Next]_vars => FullInv'
<1> SUFFICES ASSUME TunnelInv, ServeInv, FullInv, [Next]_vars PROVE FullInv'
  OBVIOUS
<1>0. ASSUME spoiled' = TRUE, status' = status, ~Idle PROVE FullInv'
  BY <1>0 DEF FullInv, Full
<1>a. \A op : Busy(op) => ~Idle
  BY IdleJob DEF Busy
<1>1. CASE Files \/ Rebuild \/ Systemctl \/ Obtain \/ Verify \/ Nft \/ Catchall
  BY <1>1, CommandedFull DEF Commanded
<1>2. CASE Fail
  BY <1>0, <1>a, <1>2 DEF Fail
<1>3. CASE Need
  <2>1. CASE Arg \in host.dir
    BY <1>3, <2>1, CommandedFull DEF Commanded
  <2>2. CASE Arg \notin host.dir
    BY <1>0, <1>a, <1>3, <2>2 DEF Need
  <2> QED BY <2>1, <2>2
<1>4. CASE Cert
  <2>1. CASE Advance
    <3>1. Does("cert", host)
      BY <1>4, <2>1 DEF Cert, Does
    <3> QED BY <3>1, CommandedFull DEF Commanded
  <2>2. CASE ~Advance
    BY <1>4, <2>2, SkipFull DEF Cert
  <2> QED BY <2>1, <2>2
<1>5. CASE Removal
  BY <1>5, RemovalFull
<1>6. CASE ChooseJob
  BY <1>6, ChooseJobFull
<1>7. CASE ChooseTunnel
  BY <1>7, ChooseTunnelFull
<1>8. CASE Call
  BY <1>8, CallFull
<1>9. CASE Done
  BY <1>9, DoneFull
<1>10. CASE Watch
  BY <1>10, WatchFull
<1>11. CASE Cron
  BY <1>11, ReviveFull DEF Cron
<1>12. CASE Kill \/ Raise
  BY <1>0, <1>12 DEF Kill, Raise
<1>13. CASE Reboot
  BY <1>13, RebootFull
<1>14. CASE Duplicate
  BY <1>14, DuplicateFull
<1>15. CASE UNCHANGED vars
  <2>1. \A n : Guarded(n) => Guarded(n)'
    BY <1>15 DEF vars, Guarded, Held, Reloading
  <2> QED BY <1>15, <2>1, WaitingFull DEF vars
<1> QED BY <1>1, <1>2, <1>3, <1>4, <1>5, <1>6, <1>7, <1>8, <1>9, <1>10, <1>11, <1>12, <1>13, <1>14, <1>15
        DEF Next, Panel

\* Whatever was installed, removed, repaired or restarted before, a full
\* installation that went through leaves every tunnel running behind its rules,
\* and HAProxy, unless it is disabled, with the frontends of Xray; the table the
\* watchdog is replacing comes back.
THEOREM FullServes == Spec => []FullInstallServes
<1>1. TunnelInv /\ ServeInv /\ FullInv => FullInstallServes
  <2> SUFFICES ASSUME TunnelInv, ServeInv, FullInv, status = "full"
               PROVE  /\ Services \ host.up \subseteq {"haproxy"} \ host.enabled
                      /\ Tables \subseteq Held
                      /\ host.hap = "panel"
    BY DEF FullInstallServes, Held
  <2>1. Idle /\ ~spoiled /\ Kept \subseteq host.bin
    BY DEF FullInv, Full
  <2>2. Working /\ job.script = <<>> /\ Ahead = {}
    BY <2>1, IdleJob, NoCommands DEF Ahead
  <2>3. Guarding /\ Intact
    BY <2>1, <2>2 DEF ServeInv, FullInv
  <2>4. \A s \in Lasting : s \in host.up
    <3>1. \A s \in Lasting : Prog(s) \in host.bin
      BY <2>1, KeptNames
    <3> QED BY <2>2, <2>3, <3>1 DEF Intact, Serving, Served, Starts
  <2>5. "xray" \in host.bin /\ "udp_custom" \in host.bin
    BY <2>1, KeptNames
  <2>6. host.hap = "panel" /\ ("haproxy" \in host.up \/ "haproxy" \notin host.enabled)
    BY <2>2, <2>3, <2>5 DEF Intact, Fronting, Fronted
  <2>7. "catchall" \in Held
    BY <2>2, <2>3, <2>5 DEF Intact, Catching, Guarded
  <2>8. \A b \in Kept : Guards(b) \subseteq Held
    BY <2>1, <2>2, <2>3 DEF Guarding, Live, Guarded
  <2>9. /\ \A t \in Tunnels \ {"sshws", "slowdns"} : t \in Held
        /\ {"sshws", "slowdns", "ws_dropbear", "ws_stunnel"} \subseteq Held
    <3>1. \A t \in Tunnels \ {"sshws", "slowdns"} : t \in Kept /\ Guards(t) = {t}
      <4>1. "dnsdist" \notin Tunnels
        BY TunnelNames
      <4> QED BY <4>1, KeptNames DEF Kept
    <3>2. /\ "sshws" \in Kept /\ Guards("sshws") = {"sshws", "ws_dropbear", "ws_stunnel"}
          /\ "dnsdist" \in Kept /\ Guards("dnsdist") = {"slowdns"}
      BY KeptNames
    <3> QED BY <2>8, <3>1, <3>2
  <2>10. Tables \subseteq Held
    BY <2>7, <2>9 DEF Tables
  <2> QED BY <2>4, <2>6, <2>10 DEF Lasting
<1> QED BY <1>1, TunnelInit, TunnelStep, ServeInit, ServeStep, FullInit, FullStep, PTL DEF Spec

=============================================================================
