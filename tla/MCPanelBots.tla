------------------------------ MODULE MCPanelBots ------------------------------
(* The instance TLC checks: a reseller whose bot is public behind a code, and  *)
(* one whose bot answers one Telegram user and may sell accounts of Xray only. *)
EXTENDS PanelBots

CONSTANT c1

PublicOrPrivate ==
  {[is |-> "on", due |-> FALSE, max |-> 1, code |-> TRUE, tgid |-> 0, tunnels |-> {"ssh"}],
   [is |-> "on", due |-> FALSE, max |-> 1, code |-> FALSE, tgid |-> c1, tunnels |-> {"xray"}]}
===============================================================================
