------------------------------- MODULE NetSta -------------------------------
(***************************************************************************)
(* The station's network interface (net.c), which always gets its address   *)
(* by DHCP: tkl_wifi_station_connect asks for nothing else.  sta_ip_down is *)
(* called by the application's thread and by the supplicant's, sta_ip_start *)
(* by the latter.  A netifapi call runs in the tcpip thread; its caller     *)
(* waits.  lwIP itself is external: netif_set_up and a new address call the *)
(* status callback of the interface, and the address is zero unless DHCP is *)
(* bound.                                                                  *)
(***************************************************************************)
EXTENDS StationStatus

VARIABLES
  sta_ip_start_flag,
  netif   \* up; cb, whether wm_netif_status_callback is its callback; dhcp

netVars == <<sta_ip_start_flag, netif>>

NetInit ==
  /\ sta_ip_start_flag = FALSE
  /\ netif = [up |-> FALSE, cb |-> FALSE, dhcp |-> "off"]

\* wm_netif_status_callback
wm_netif_status_callback(n) ==
  IF n.cb /\ n.up /\ n.dhcp = "bound" THEN <<Status("GOT_IP")>> ELSE <<>>

\* A slip: the flag stays set.
sta_ip_down_again(p) ==
  /\ At(p, "IpDown")
  /\ UNCHANGED sta_ip_start_flag
  /\ Then(p, IF sta_ip_start_flag
             THEN <<Step("NetDown"), Step("CbNull"), Step("DhcpStop")>> ELSE <<>>)
  /\ UNCHANGED <<netif, statusVars>>

\* The test and the reset of the flag are one step: a thread that comes between
\* them does what it does before or after both.
sta_ip_down(p) ==
  /\ At(p, "IpDown")
  /\ sta_ip_start_flag' = FALSE
  /\ Then(p, IF sta_ip_start_flag
             THEN <<Step("NetDown"), Step("CbNull"), Step("DhcpStop")>> ELSE <<>>)
  /\ UNCHANGED <<netif, statusVars>>

\* A slip: the callback is registered last, as it is for a static address.
configure_callback_last ==
  <<Step("NetDown"), Step("CbNull"), Step("NetUp"), Step("DhcpStart"), Step("CbSet")>>

\* net_configure_address.  The address is set to zero while the interface is
\* down and has no callback, so that nobody sees it.
net_configure_address ==
  <<Step("NetDown"), Step("CbNull"), Step("CbSet"), Step("NetUp"), Step("DhcpStart")>>

sta_ip_start(p) ==
  LET got == /\ g_connect_transient_status = "CONNECTED"
             /\ netif.up /\ netif.dhcp = "bound"
  IN  /\ At(p, "IpStart")
      /\ sta_ip_start_flag' = TRUE
      /\ Then(p, IF ~sta_ip_start_flag THEN net_configure_address
                 ELSE IF got THEN <<Status("GOT_IP")>> ELSE <<>>)
      /\ UNCHANGED <<netif, statusVars>>

\* netif_set_status_callback, a store by the thread itself
SetCallback(p) ==
  \/ At(p, "CbNull") /\ netif' = [netif EXCEPT !.cb = FALSE]
  \/ At(p, "CbSet") /\ netif' = [netif EXCEPT !.cb = TRUE]

\* What the tcpip thread does for a call of netifapi.  A netif that is added is
\* a new one; one that is removed is brought down.
NetifApi(p) ==
  \/ At(p, "NetDown") /\ netif' = [netif EXCEPT !.up = FALSE]
  \/ At(p, "NetUp") /\ netif' = [netif EXCEPT !.up = TRUE]
  \/ At(p, "DhcpStart") /\ netif' = [netif EXCEPT !.dhcp = "selecting"]
  \/ At(p, "DhcpStop") /\ netif' = [netif EXCEPT !.dhcp = "off"]
  \/ At(p, "AddNetif") /\ netif' = [up |-> FALSE, cb |-> FALSE, dhcp |-> "off"]
  \/ At(p, "RemoveNetif") /\ netif' = [netif EXCEPT !.up = FALSE]

Interface(p) ==
  /\ \/ /\ SetCallback(p)
        /\ Then(p, <<>>)
     \/ /\ todo["tcpip"] = <<>>
        /\ NetifApi(p)
        /\ todo' = [todo EXCEPT ![p] = Tail(@),
                                !["tcpip"] = IF netif'.up /\ ~netif.up
                                             THEN wm_netif_status_callback(netif') ELSE <<>>]
  /\ UNCHANGED <<sta_ip_start_flag, statusVars>>

\* DHCP gets an address, or loses it, which is not reported.
DhcpBind ==
  /\ todo["tcpip"] = <<>>
  /\ netif.up /\ netif.dhcp = "selecting"
  /\ netif' = [netif EXCEPT !.dhcp = "bound"]
  /\ todo' = [todo EXCEPT !["tcpip"] = wm_netif_status_callback(netif')]
  /\ UNCHANGED <<sta_ip_start_flag, statusVars>>

DhcpLost ==
  /\ todo["tcpip"] = <<>>
  /\ netif.dhcp = "bound"
  /\ netif' = [netif EXCEPT !.dhcp = "selecting"]
  /\ UNCHANGED <<todo, sta_ip_start_flag, statusVars>>

NetStep(p) == sta_ip_down(p) \/ sta_ip_start(p) \/ Interface(p)
=============================================================================
