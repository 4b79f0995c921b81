------------------------------- MODULE Tunnels -------------------------------
(***************************************************************************)
(* The tunnel installers of the panel (install2.py).  An install_* or      *)
(* uninstall_* function is its script: the commands it gives, in order.    *)
(* One command runs per step, so the panel may be killed or the host       *)
(* rebooted between any two, and cron runs beside it: the watchdog that    *)
(* removes foreign NAT rules, and the lines that restart dead services.    *)
(***************************************************************************)
EXTENDS Naturals, Sequences, FiniteSets

CONSTANTS
  Offered,    \* tunnels the administrator handles one by one
  MaxJobs,    \* bound: choices in the menu
  MaxFaults   \* bound: failed downloads, kills, reboots, foreign rules,
              \* and services cron starts under the hands of the panel

Order == <<"dropbear", "ssl_tls", "sshws", "xray", "v2ray", "badvpn",
           "udp_custom", "slowdns", "hysteria", "zivpn">>
Tunnels == {Order[i] : i \in 1..Len(Order)}
Packages == {"haproxy", "dnsdist"}
Services == (Tunnels \ {"slowdns"})
              \cup {"ws_dropbear", "ws_stunnel", "ns4", "nv4", "haproxy", "haproxy_ssh", "dnsdist"}
Tables == Tunnels \cup {"ws_dropbear", "ws_stunnel", "catchall"}
Ranged == {"hysteria", "zivpn"}  \* tunnels whose ports the catchall leaves alone

ASSUME OfferedAssumption == Offered \subseteq Tunnels
ASSUME BoundsAssumption == MaxJobs \in Nat /\ MaxFaults \in Nat

VARIABLES
  host,     \* files, services and tables of the machine
  job,      \* what the panel was asked for: queue of functions, rest of the script
  watch,    \* where kighmu-nft-dedup.py is
  status,   \* history: "full", "purged" or "removed" after a complete job over all tunnels
  spoiled,  \* history: a job failed or was cut short since the last purge
  revived,  \* history: services cron started while the panel was at work, since boot
  jobs, faults

vars == <<host, job, watch, status, spoiled, revived, jobs, faults>>

NoJob == [name |-> "none", queue |-> <<>>, script |-> <<>>]

Init ==
  /\ host = [bin |-> {}, dir |-> {}, unit |-> {}, enabled |-> {}, up |-> {},
             file |-> {}, table |-> {}, boot |-> {}, cron |-> {},
             spared |-> [file |-> {}, table |-> {}],     \* exclusions of the catchall
             conf |-> "default", hap |-> "default",      \* haproxy.cfg, and as it runs
             ns4 |-> "lb", dup |-> FALSE]
  /\ job = NoJob /\ watch = "idle" /\ status = "none" /\ spoiled = FALSE
  /\ revived = {} /\ jobs = 0 /\ faults = 0

-----------------------------------------------------------------------------
\* systemd and the packages.

Owner(s) == CASE s \in {"ns4", "nv4"} -> "slowdns"
              [] s = "haproxy_ssh" -> "haproxy"
              [] OTHER -> s

\* A panel configuration of haproxy names the certificate of Xray.
Startable(h, s) ==
  /\ s \in h.unit \cup Packages
  /\ s \in {"ws_dropbear", "ws_stunnel"} \/ Owner(s) \in h.bin
  /\ (s = "haproxy" /\ h.conf = "panel") => "pem" \in h.dir

Started(h, s) ==
  IF s \in h.up \/ ~Startable(h, s) THEN h
  ELSE [h EXCEPT !.up = @ \cup {s}, !.hap = IF s = "haproxy" THEN h.conf ELSE @]
Stopped(h, s) == [h EXCEPT !.up = @ \ {s}]
Restarted(h, s) == Started(Stopped(h, s), s)
EnabledNow(h, s) ==
  IF s \in h.unit \cup (Packages \cap h.bin)
  THEN Started([h EXCEPT !.enabled = @ \cup {s}], s) ELSE h

\* apt starts and enables the service of a package it installs.
AptInstalled(h, p) ==
  IF p \in h.bin \/ p \notin Packages THEN [h EXCEPT !.bin = @ \cup {p}]
  ELSE EnabledNow([h EXCEPT !.bin = @ \cup {p}, !.dir = @ \cup {p}], p)

HasUdpCustom(h) == "udp_custom" \in h.bin \cup h.dir

-----------------------------------------------------------------------------
\* Scripts.

DeployNft(n) == <<<<"catchfile", n>>, <<"catchload", n>>, <<"nftfile", n>>, <<"nftload", n>>>>
\* Mutant: stopping the service is trusted to have dropped the table.
RemoveNftOnce(n) == <<<<"nftstop", n>>, <<"nftunlink", n>>>>
RemoveNft(n) == <<<<"nftstop", n>>, <<"nftunlink", n>>, <<"nftdrop", n>>>>
EnsureCatchall == <<<<"catchfile", "catchall">>, <<"catchload", "catchall">>>>
RunUnit(s) == <<<<"unit", s>>, <<"enable", s>>>>
EndUnit(s) == <<<<"disable", s>>, <<"rmunit", s>>>>
SshBalancer == <<<<"dir", "haproxy">>, <<"unit", "haproxy_ssh">>, <<"enable", "haproxy_ssh">>>>

\* xray_gen_config, and xray_gen_haproxy with the certificate of Xray.
XrayConf == <<<<"dir", "xray_config">>>>
HaproxyConf == <<<<"need", "haproxy">>, <<"conf", "panel">>>> \o SshBalancer

\* _acme_cert frees port 80 by stopping sshws, unless the certificate will do.
AcmeCert == <<<<"cert", "xray">>, <<"stop", "sshws">>, <<"start", "sshws">>>>

InstallDropbear == <<<<"try", "dropbear">>, <<"dir", "dropbear">>>> \o RunUnit("dropbear") \o DeployNft("dropbear")
InstallSslTls == <<<<"fetch", "ssl_tls">>, <<"verify", "ssl_tls">>>> \o RunUnit("ssl_tls") \o DeployNft("ssl_tls")
InstallWsProxies == RunUnit("ws_dropbear") \o DeployNft("ws_dropbear")
                      \o RunUnit("ws_stunnel") \o DeployNft("ws_stunnel")
InstallSshws == <<<<"fetch", "sshws">>, <<"verify", "sshws">>>> \o RunUnit("sshws")
                  \o DeployNft("sshws") \o InstallWsProxies
InstallBadvpn == <<<<"fetch", "badvpn">>>> \o RunUnit("badvpn") \o DeployNft("badvpn")
InstallUdpCustom == <<<<"fetch", "udp_custom">>, <<"dir", "udp_custom">>>>
                      \o RunUnit("udp_custom") \o DeployNft("udp_custom")
InstallSlowdns ==
  <<<<"try", "dnsdist">>, <<"dir", "slowdns">>, <<"try", "slowdns">>>> \o SshBalancer
    \o <<<<"ns4", "lb">>>> \o RunUnit("ns4") \o RunUnit("nv4")
    \o <<<<"stop", "dnsdist">>, <<"need", "dnsdist">>>> \o DeployNft("slowdns")
    \o <<<<"enable", "dnsdist">>, <<"restart", "dnsdist">>, <<"restart", "ns4">>,
         <<"restart", "nv4">>, <<"cron", "slowdns">>>>

\* Mutant: HAProxy is enabled and started, which changes nothing if apt has.
XrayEnabled == <<<<"enable", "haproxy">>, <<"enable", "xray">>>>
XrayStarted == <<<<"restart", "haproxy">>, <<"enable", "xray">>>>
XrayWatchdog == <<<<"cron", "xray">>>>

\* Mutant: no line of cron for HAProxy.
XrayCronsOnly == <<<<"cron", "services">>>> \o XrayWatchdog
XrayCrons == <<<<"cron", "haproxy">>, <<"cron", "services">>>> \o XrayWatchdog
InstallXray ==
  <<<<"try", "haproxy">>, <<"fetch", "xray">>, <<"dir", "xray">>>> \o AcmeCert \o <<<<"dir", "pem">>>>
    \o XrayConf \o HaproxyConf \o <<<<"unit", "xray">>>> \o DeployNft("xray")
    \o XrayStarted \o XrayCrons
InstallV2ray == <<<<"fetch", "v2ray">>, <<"dir", "v2ray">>>> \o DeployNft("v2ray")
                  \o RunUnit("v2ray") \o <<<<"cron", "v2ray">>>>
InstallHysteria == <<<<"fetch", "hysteria">>, <<"dir", "hysteria">>, <<"unit", "hysteria">>>>
                     \o DeployNft("hysteria") \o <<<<"enable", "hysteria">>>>
InstallZivpn == <<<<"fetch", "zivpn">>, <<"dir", "zivpn">>, <<"unit", "zivpn">>>>
                  \o DeployNft("zivpn") \o EnsureCatchall \o <<<<"enable", "zivpn">>>>

UninstallDropbear == EndUnit("dropbear") \o <<<<"wipe", "dropbear">>>> \o RemoveNft("dropbear")
UninstallSslTls == EndUnit("ssl_tls") \o <<<<"wipe", "ssl_tls">>>> \o RemoveNft("ssl_tls")

\* Mutant: the proxies of install_sshws are forgotten.
UninstallSshwsOnly == EndUnit("sshws") \o <<<<"stop", "sshws">>, <<"wipe", "sshws">>>> \o RemoveNft("sshws")

UninstallSshws == EndUnit("sshws") \o <<<<"stop", "sshws">>, <<"wipe", "sshws">>>> \o RemoveNft("sshws")
                    \o EndUnit("ws_dropbear") \o RemoveNft("ws_dropbear")
                    \o EndUnit("ws_stunnel") \o RemoveNft("ws_stunnel")
UninstallBadvpn == EndUnit("badvpn") \o <<<<"wipe", "badvpn">>>> \o RemoveNft("badvpn")
UninstallUdpCustom == EndUnit("udp_custom") \o <<<<"wipe", "udp_custom">>>> \o RemoveNft("udp_custom")
                        \o RemoveNft("catchall") \o <<<<"rmcron", "dedup">>>>
UninstallSlowdns == EndUnit("ns4") \o EndUnit("nv4") \o <<<<"disable", "dnsdist">>, <<"wipe", "slowdns">>, <<"rmdir", "dnsdist">>>>
                      \o RemoveNft("slowdns") \o <<<<"wipe", "dnsdist">>, <<"rmcron", "slowdns">>>>
UninstallXray == <<<<"disable", "xray">>, <<"disable_unless_v2ray", "haproxy">>, <<"wipe", "xray">>,
                   <<"rmdir", "xray_config">>, <<"rmdir", "pem">>, <<"rmunit", "xray">>,
                   <<"rmcron", "xray">>, <<"rmcron", "haproxy">>>> \o RemoveNft("xray")
UninstallV2ray == <<<<"disable", "v2ray">>, <<"wipe", "v2ray">>>> \o RemoveNft("v2ray")
UninstallHysteria == EndUnit("hysteria") \o <<<<"wipe", "hysteria">>>> \o RemoveNft("hysteria") \o EnsureCatchall
UninstallZivpn == EndUnit("zivpn") \o <<<<"wipe", "zivpn">>>> \o RemoveNft("zivpn") \o EnsureCatchall

InstallScript ==
  [dropbear |-> InstallDropbear, ssl_tls |-> InstallSslTls, sshws |-> InstallSshws,
   xray |-> InstallXray, v2ray |-> InstallV2ray, badvpn |-> InstallBadvpn,
   udp_custom |-> InstallUdpCustom, slowdns |-> InstallSlowdns,
   hysteria |-> InstallHysteria, zivpn |-> InstallZivpn]
UninstallScript ==
  [dropbear |-> UninstallDropbear, ssl_tls |-> UninstallSslTls, sshws |-> UninstallSshws,
   xray |-> UninstallXray, v2ray |-> UninstallV2ray, badvpn |-> UninstallBadvpn,
   udp_custom |-> UninstallUdpCustom, slowdns |-> UninstallSlowdns,
   hysteria |-> UninstallHysteria, zivpn |-> UninstallZivpn]

\* configure_slowdns points NS4 at dropbear, where the installer pointed it at
\* the balancer; _repair_haproxy; _ui_domain_acme_xray.
ConfigureSlowdns == <<<<"ns4", "dropbear">>, <<"restart", "ns4">>, <<"restart", "nv4">>, <<"restart", "dnsdist">>>>
RepairHaproxy == <<<<"rebuild", "pem">>, <<"restart_valid", "haproxy">>>>
ChangeDomain == AcmeCert \o <<<<"dir", "pem">>>> \o HaproxyConf \o <<<<"restart", "haproxy">>>>
UninstallRest == <<<<"disable", "haproxy">>, <<"drop_all", "">>>>
AutoUninstall == <<<<"kill_units", "">>, <<"wipe_all", "">>, <<"crontab_r", "">>, <<"flush", "">>,
                   <<"reboot", "">>>>

\* A function that finds nothing to do returns before its first command.
ReturnsEarly(f, t) ==
  CASE f = "install" -> /\ t \in host.bin \cap host.unit
                        /\ t # "sshws" /\ (t = "xray" => "xray_config" \in host.dir)
    [] f = "configure" -> "slowdns" \notin host.dir
    [] f = "repair" -> "haproxy" \notin host.bin \/ host.conf # "panel"
                         \/ ("haproxy" \in host.up /\ host.hap = "panel")
    [] f = "domain" -> "xray" \notin host.bin
    [] OTHER -> FALSE

ScriptOf(f, t) ==
  CASE f = "install" -> InstallScript[t]
    [] f = "uninstall" -> UninstallScript[t]
    [] f = "configure" -> ConfigureSlowdns
    [] f = "repair" -> RepairHaproxy
    [] f = "domain" -> ChangeDomain
    [] f = "rest" -> UninstallRest
    [] f = "auto" -> AutoUninstall

InstallAll == [i \in 1..Len(Order) |-> <<"install", Order[i]>>]
UninstallOrder == <<"zivpn", "hysteria", "slowdns", "udp_custom", "badvpn",
                    "v2ray", "xray", "sshws", "ssl_tls", "dropbear">>
UninstallAll == [i \in 1..Len(UninstallOrder) |-> <<"uninstall", UninstallOrder[i]>>] \o <<<<"rest", "">>>>

-----------------------------------------------------------------------------
\* One command of the panel.

Idle == job.name = "none"
Fault == faults < MaxFaults /\ faults' = faults + 1
Busy(op) == job.script # <<>> /\ Head(job.script)[1] = op
Arg == Head(job.script)[2]
Advance == job' = [job EXCEPT !.script = Tail(@)]
ReturnNow == job' = [job EXCEPT !.script = <<>>]
Others == UNCHANGED <<watch, status, spoiled, revived, jobs, faults>>
Does(op, h) == Busy(op) /\ host' = h /\ Advance /\ Others

Files ==
  \/ Does("dir", [host EXCEPT !.dir = @ \cup {Arg}])
  \/ Does("rmdir", [host EXCEPT !.dir = @ \ {Arg}])
  \/ Does("unit", [host EXCEPT !.unit = @ \cup {Arg}])
  \/ Does("rmunit", [host EXCEPT !.unit = @ \ {Arg}])
  \/ Does("wipe", [host EXCEPT !.bin = @ \ {Arg}, !.dir = @ \ {Arg}])
  \/ Does("conf", [host EXCEPT !.conf = Arg])
  \/ Does("ns4", [host EXCEPT !.ns4 = Arg])
  \/ Does("cron", [host EXCEPT !.cron = @ \cup {Arg}])
  \/ Does("rmcron", [host EXCEPT !.cron = @ \ {Arg}])

\* _repair_haproxy on a service that is active: the file it cannot read is made
\* again, if the certificate of Xray is there.
Rebuild ==
  \/ Does("rebuild", host)
  \/ "haproxy" \in host.up /\ "xray" \in host.dir /\ Does("rebuild", [host EXCEPT !.dir = @ \cup {Arg}])

Systemctl ==
  \/ Does("start", Started(host, Arg))
  \/ Does("stop", Stopped(host, Arg))
  \/ Does("restart", Restarted(host, Arg))
  \/ Does("restart_valid", IF Startable(host, Arg) THEN Restarted(host, Arg) ELSE host)
  \/ Does("enable", EnabledNow(host, Arg))
  \/ Does("disable", Stopped([host EXCEPT !.enabled = @ \ {Arg}], Arg))
  \/ Does("disable_unless_v2ray",
          IF "v2ray" \in host.bin THEN host
          ELSE Stopped([host EXCEPT !.enabled = @ \ {Arg}], Arg))

\* A download or a package: it may fail, and then some installers go on (try),
\* others return (fetch), after a binary that does not run too (verify).
Obtain ==
  /\ Busy("fetch") \/ Busy("try")
  /\ host' = AptInstalled(host, Arg) /\ Advance /\ Others
Verify == Does("verify", host)
Fail ==
  /\ Busy("fetch") \/ Busy("verify") \/ (Busy("try") /\ Arg \notin host.bin)
  /\ Fault
  /\ IF Busy("try") THEN Advance ELSE ReturnNow
  /\ spoiled' = TRUE
  /\ UNCHANGED <<host, watch, status, revived, jobs>>

\* Writing into a directory that is missing raises, and the panel is gone.
Need ==
  \/ Does("need", host) /\ Arg \in host.dir
  \/ /\ Busy("need") /\ Arg \notin host.dir
     /\ job' = NoJob /\ spoiled' = TRUE
     /\ UNCHANGED <<host, watch, status, revived, jobs, faults>>
Cert ==
  /\ Busy("cert")
  /\ \/ Advance
     \/ "pem" \in host.dir /\ job' = [job EXCEPT !.script = SubSeq(@, 4, Len(@))]
  /\ UNCHANGED host /\ Others

\* _deploy_nft and _remove_nft, and the catchall of udp-custom, whose service
\* is only started: a table that is loaded keeps the exclusions it has.
Nft ==
  \/ Does("nftfile", [host EXCEPT !.file = @ \cup {Arg}])
  \/ Does("nftload", [host EXCEPT !.table = @ \cup {Arg}, !.boot = @ \cup {Arg}])
  \/ Does("nftstop", [host EXCEPT !.table = @ \ {Arg}, !.boot = @ \ {Arg}])
  \/ Does("nftunlink", [host EXCEPT !.file = @ \ {Arg}])
  \/ Does("nftdrop", [host EXCEPT !.table = @ \ {Arg}])

CatchallFile(h) == [h EXCEPT !.file = @ \cup {"catchall"}, !.spared.file = Ranged \cap (h.bin \cup h.dir)]
LoadCatchall(h) ==
  IF "catchall" \notin h.file THEN h
  ELSE [h EXCEPT !.table = @ \cup {"catchall"}, !.spared.table = h.spared.file]
StartCatchall(h) ==
  [(IF "catchall" \in h.table THEN h ELSE LoadCatchall(h)) EXCEPT
     !.boot = @ \cup {"catchall"}, !.cron = @ \cup {"dedup"}]

Catchall ==
  \/ Does("catchfile", IF HasUdpCustom(host) THEN CatchallFile(host) ELSE host)
  \/ Does("catchload", IF HasUdpCustom(host) THEN StartCatchall(host) ELSE host)

-----------------------------------------------------------------------------
\* Removal of everything, and a reboot.

Rebooted(h) ==
  LET up == {s \in h.enabled : Startable(h, s)} IN
  [h EXCEPT !.up = up, !.hap = h.conf, !.table = h.boot \cap h.file,
            !.spared.table = h.spared.file, !.dup = FALSE]

\* What list-unit-files and the patterns of _auto_uninstall_all miss.
Missed == {"ws_stunnel"}
WsProxies == {"ws_dropbear", "ws_stunnel"}

Removal ==
  \/ Does("drop_all", [host EXCEPT !.table = @ \cap WsProxies, !.dup = FALSE,
                                   !.boot = @ \cap (WsProxies \cup {"catchall"})])
  \/ Does("kill_units", [host EXCEPT !.up = @ \cap Missed, !.enabled = @ \cap Missed, !.unit = @ \cap Missed,
                                     !.boot = {}])
  \/ Does("wipe_all", [host EXCEPT !.bin = @ \cap Packages, !.dir = {}, !.file = {}, !.conf = "default"])
  \/ Does("crontab_r", [host EXCEPT !.cron = {}])
  \/ Does("flush", [host EXCEPT !.table = {}, !.bin = {}, !.dup = FALSE])
  \/ /\ Busy("reboot")
     /\ host' = Rebooted(host) /\ Advance /\ watch' = "idle" /\ revived' = {}
     /\ UNCHANGED <<status, spoiled, jobs, faults>>

-----------------------------------------------------------------------------
\* The menu: the panel takes a job, calls its functions in turn, and is done.

Queues ==
  [install_all |-> InstallAll, uninstall_all |-> UninstallAll,
   remove |-> UninstallAll \o <<<<"auto", "">>>>,
   configure |-> <<<<"configure", "">>>>, repair |-> <<<<"repair", "">>>>, domain |-> <<<<"domain", "">>>>]

Take(name, queue) ==
  /\ Idle /\ jobs < MaxJobs
  /\ jobs' = jobs + 1 /\ status' = "none"
  /\ job' = [name |-> name, queue |-> queue, script |-> <<>>]
  /\ UNCHANGED <<host, watch, spoiled, revived, faults>>

ChooseJob == \E name \in DOMAIN Queues : Take(name, Queues[name])
ChooseTunnel == \E t \in Offered, f \in {"install", "uninstall"} : Take("one", <<<<f, t>>>>)

Call ==
  /\ ~Idle /\ job.script = <<>> /\ job.queue # <<>>
  /\ LET f == Head(job.queue)[1] t == Head(job.queue)[2] IN
     job' = [job EXCEPT !.queue = Tail(@), !.script = IF ReturnsEarly(f, t) THEN <<>> ELSE ScriptOf(f, t)]
  /\ UNCHANGED host /\ Others

Done ==
  /\ ~Idle /\ job.script = <<>> /\ job.queue = <<>>
  /\ job' = NoJob
  /\ status' = CASE job.name = "uninstall_all" -> "purged"
                 [] job.name = "remove" -> "removed"
                 [] job.name = "install_all" /\ ~spoiled -> "full"
                 [] OTHER -> "none"
  /\ spoiled' = (spoiled /\ job.name \notin {"uninstall_all", "remove"})
  /\ UNCHANGED <<host, watch, revived, jobs, faults>>

-----------------------------------------------------------------------------
\* Cron: kighmu-nft-dedup.py, every minute, access by access.

WatchTo(from, to, h) ==
  /\ watch = from /\ watch' = to /\ host' = h
  /\ UNCHANGED <<job, status, spoiled, revived, jobs, faults>>

WatchStart == "dedup" \in host.cron /\ HasUdpCustom(host) /\ WatchTo("idle", "look", host)
WatchLook ==
  \E to \in {IF "catchall" \notin host.file THEN "prio"
            ELSE IF "catchall" \in host.table THEN "boot" ELSE "load"} : WatchTo("look", to, host)
WatchLoad == WatchTo("load", "prio", LoadCatchall(host))
WatchBoot == WatchTo("boot", "prio", [host EXCEPT !.boot = @ \cup {"catchall"}])
WatchPrio ==
  \E to \in {IF "slowdns" \in host.file \ host.table THEN "drop" ELSE "dedupe"} : WatchTo("prio", to, host)
WatchDrop == WatchTo("drop", "reload", [host EXCEPT !.table = @ \ {"slowdns"}])
WatchReload ==
  WatchTo("reload", "dedupe", [host EXCEPT !.table = @ \cup ({"slowdns"} \cap host.file)])

WatchDedupe == WatchTo("dedupe", "idle", [host EXCEPT !.dup = FALSE])

Watch == WatchStart \/ WatchLook \/ WatchLoad \/ WatchBoot \/ WatchPrio \/ WatchDrop
           \/ WatchReload \/ WatchDedupe

\* The lines of cron that restart a service they find dead, enabled or not.
Watched == [xray |-> {"xray"}, haproxy |-> {"haproxy"}, v2ray |-> {"v2ray"}, slowdns |-> {"dnsdist", "ns4", "nv4"},
            services |-> {"hysteria", "zivpn", "udp_custom", "sshws", "ssl_tls", "dropbear"}, dedup |-> {}]

Revive(s) ==
  /\ \E c \in host.cron : s \in Watched[c]
  /\ s \notin host.up /\ Startable(host, s)
  /\ host' = Started(host, s)
  /\ IF Idle THEN UNCHANGED <<revived, faults>>
     ELSE Fault /\ revived' = revived \cup {s}
  /\ UNCHANGED <<job, watch, status, spoiled, jobs>>

-----------------------------------------------------------------------------
\* Faults.

\* The panel is killed: the session that runs it is closed.
Kill ==
  /\ Fault /\ ~Idle
  /\ job' = NoJob /\ spoiled' = TRUE
  /\ UNCHANGED <<host, watch, status, revived, jobs>>

Reboot ==
  /\ Fault
  /\ host' = Rebooted(host) /\ watch' = "idle" /\ revived' = {}
  /\ job' = NoJob /\ spoiled' = (spoiled \/ ~Idle)
  /\ UNCHANGED <<status, jobs>>

\* Another program adds its own "dnat to :36712" for every port, 53 included.
Duplicate ==
  /\ Fault
  /\ host' = [host EXCEPT !.dup = TRUE]
  /\ UNCHANGED <<job, watch, status, spoiled, revived, jobs>>

\* The binary under test answers too late: the exception ends the panel.
Raise == Busy("verify") /\ Kill

Panel == Files \/ Rebuild \/ Systemctl \/ Obtain \/ Verify \/ Raise \/ Fail \/ Need \/ Cert \/ Nft \/ Catchall \/ Removal
           \/ ChooseJob \/ ChooseTunnel \/ Call \/ Done

Cron == \E s \in Services : Revive(s)

Next == Panel \/ Watch \/ Cron \/ Kill \/ Reboot \/ Duplicate

\* Cron runs the watchdog every minute, and the lines that restart services.
Spec == Init /\ [][Next]_vars /\ WF_vars(Watch) /\ WF_vars(Cron)

-----------------------------------------------------------------------------
\* Where a datagram goes: the chains in the order of their priority, and the
\* first that translates it decides.  The rule of another program (-100) ranks
\* with those of hysteria and udp-custom.

Rule(t, to, p) == [table |-> t, to |-> to, port |-> p]

\* Mutant: the priority slowdns had before, after the rules of others.
OldRules ==
  <<Rule("zivpn", "zivpn", "zivpn_range"), Rule("hysteria", "hysteria", "hysteria_range"),
    Rule("udp_custom", "udp_custom", "custom_range"), Rule("slowdns", "dnsdist", "dns")>>
Rules ==
  <<Rule("zivpn", "zivpn", "zivpn_range"), Rule("slowdns", "dnsdist", "dns"),
    Rule("hysteria", "hysteria", "hysteria_range"), Rule("udp_custom", "udp_custom", "custom_range")>>

CatchallPorts ==
  {"custom_range"} \cup {t \o "_range" : t \in Ranged \ host.spared.table}
Matching(p) == {i \in 1..Len(Rules) : Rules[i].table \in host.table /\ p = Rules[i].port}
Route(p) ==
  LET own == Matching(p)
      first == CHOOSE i \in own : \A j \in own : i <= j
      before == IF host.dup THEN own \cap 1..2 ELSE own IN
  IF before # {} THEN Rules[first].to
  ELSE IF host.dup \/ ("catchall" \in host.table /\ p \in CatchallPorts) THEN "udp_custom"
  ELSE "nobody"

RangeOf == [zivpn |-> "zivpn_range", dnsdist |-> "dns", hysteria |-> "hysteria_range",
            udp_custom |-> "custom_range"]

-----------------------------------------------------------------------------
\* The table the watchdog has deleted and is about to load from its file.
Reloading == IF watch = "reload" THEN {"slowdns"} ELSE {}

\* After install_all_missing went through, every tunnel runs behind its rules,
\* HAProxy runs with the frontends of Xray and not with those apt started it
\* with, and a reboot brings all of that back (the table the watchdog is just
\* replacing is as good as there): HAProxy, which uninstall_xray has
\* disabled and no installer enables again, with the help of cron.
FullInstallServes ==
  status = "full" =>
    /\ Services \ host.up \subseteq {"haproxy"} \ host.enabled
    /\ Tables \subseteq host.table \cup Reloading
    /\ host.hap = "panel"
FullInstallRecovers == status = "full" ~> (status # "full" \/ Services \subseteq host.up)

\* uninstall_all_active leaves no table and no service but the SSH balancer, and
\* _auto_uninstall_all nothing at all, whatever failed, was killed or was
\* installed before; a service cron restarts between the stop and the removal
\* of its unit survives until the machine reboots.
PurgeLeavesNothing ==
  /\ status = "purged" => host.table = {} /\ host.up \subseteq {"haproxy_ssh"} \cup revived
  /\ status = "removed" => host.table = {} /\ host.up = {}

\* The watchdog that reloads a table while _remove_nft takes it away does not
\* leave it behind: with the panel done, a loaded table has its file.
TableHasFile == Idle /\ ~spoiled /\ watch = "idle" => host.table \subseteq host.file

\* Whatever was installed and removed before, the port range of a tunnel that
\* runs reaches it, that of SlowDNS and ZIVPN even with the rule another program
\* has added; that of SlowDNS but for the moment in which the watchdog replaces
\* its table.
RangesReachTunnel ==
  Idle /\ ~spoiled =>
    \A s \in (DOMAIN RangeOf \cap host.up) \ revived :
       (s = "hysteria" => ~host.dup) /\ (s = "dnsdist" => watch # "reload") => Route(RangeOf[s]) = s

=============================================================================
