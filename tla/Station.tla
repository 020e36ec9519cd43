------------------------------ MODULE Station ------------------------------
(***************************************************************************)
(* The wifi station: the application's calls (tkl_wifi.c, wlan_ui.c), the   *)
(* supplicant's thread that carries them out and reacts to the link         *)
(* (ctrl_iface.c, main_supplicant.c, hostapd_intf.c), the thread that gets  *)
(* the messages of the firmware (rw_msg_rx.c), and the network interface.   *)
(* Of the supplicant's own state machine, which is third-party code, only   *)
(* what calls into the rest is kept; the firmware is external.              *)
(***************************************************************************)
EXTENDS NetSta

CONSTANTS
  Modes,      \* the work modes the application asks for
  Failures,   \* how the firmware reports a join that fails ...
  Losses,     \* ... and a link that is lost
  MaxMail     \* bound: messages in wpah_queue (64 in the code)

ASSUME StationAssumption ==
  /\ Modes \subseteq {"POWERDOWN", "SNIFFER", "STATION", "SOFTAP", "STATIONAP"}
  /\ Failures \subseteq {"PASSWORD_WRONG", "ASSOC_FULL", "CONNECT_FAILED", "DISCONNECTED"}
  /\ Losses \subseteq {"BEACON_LOSE", "DISCONNECTED", "PASSWORD_WRONG"}
  /\ MaxMail \in Nat \ {0}

VARIABLES
  wf_mode,
  wpa,       \* the supplicant: not started, or its wpa_state; "astray" is
             \* WPA_ASSOCIATED without a network
  disconnected, \* wpa_s->disconnected: it is not to look for a network
  scan,      \* the supplicant waits for the result of a scan
  mail,      \* wpah_queue
  signaled,  \* SIGDISASSOC is pending; the signals of a kind are one
  link,      \* the firmware's link, which a request of the supplicant starts
  leaving    \* the firmware was told to disconnect and has not said that it has

wpasVars == <<wpa, disconnected, scan, mail, signaled>>
airVars == <<link, leaving>>
vars == <<todo, statusVars, netVars, wf_mode, wpasVars, airVars>>

Init ==
  /\ StatusInit /\ NetInit
  /\ wf_mode = "POWERDOWN"
  /\ wpa = "off" /\ disconnected = FALSE /\ scan = FALSE /\ mail = <<>> /\ signaled = FALSE
  /\ link = "none" /\ leaving = FALSE

Idle(p) == todo[p] = <<>>
Do(p, steps) == Idle(p) /\ todo' = [todo EXCEPT ![p] = steps]

(***************************************************************************)
(* The application.                                                        *)
(***************************************************************************)
Cmd(c) == StepOf("Cmd", c)

\* bk_wlan_start_sta and bk_wlan_start_sta_fast
bk_wlan_start_sta ==
  <<Step("IpDown"), Cmd("DISCONNECT"), Status("IDLE"), Cmd("ENABLE"), Cmd("CONNECT")>>

bk_wlan_stop(mode) ==
  <<Status("IDLE")>> \o
    IF mode = "STATION" THEN <<Step("IpDown"), Cmd("DISABLE")>> ELSE <<>>

wf_wk_mode_exit(mode) ==
  CASE mode = "STATION" -> bk_wlan_stop("STATION")
    [] mode = "SOFTAP" -> bk_wlan_stop("SOFT_AP")
    [] mode = "STATIONAP" -> bk_wlan_stop("SOFT_AP") \o bk_wlan_stop("STATION")
    [] OTHER -> <<>>

Call(steps) ==
  /\ Do("app", steps)
  /\ UNCHANGED <<statusVars, netVars, wpasVars, airVars>>

\* tkl_wifi_station_connect and tkl_wifi_station_fast_connect
StationConnect ==
  /\ Call(<<Step("SetStatusCb")>> \o bk_wlan_start_sta)
  /\ UNCHANGED wf_mode

SetWorkMode(mode) ==
  /\ mode # wf_mode   \* nothing is done otherwise
  /\ Call(wf_wk_mode_exit(wf_mode))
  /\ wf_mode' = mode

StopAp ==
  /\ Call(bk_wlan_stop("SOFT_AP"))
  /\ UNCHANGED wf_mode

\* wpa_ctrl_request: the command goes to the supplicant's thread, and the caller
\* waits for its semaphore.
Request ==
  /\ At("app", "Cmd") /\ Len(mail) < MaxMail
  /\ mail' = Append(mail, Arg("app"))
  /\ Then("app", <<Step("Wait")>>)
  /\ UNCHANGED <<statusVars, netVars, wf_mode, wpa, disconnected, scan, signaled, airVars>>

(***************************************************************************)
(* The supplicant's thread.  eloop_run pops a message, handles the pending  *)
(* signals, and only then the message.                                     *)
(***************************************************************************)
\* It has a network to leave.
Engaged == wpa \in {"associating", "associated", "completed"}

Take(m) ==
  /\ Idle("wpas") /\ ~signaled
  /\ mail # <<>> /\ Head(mail) = m
  /\ mail' = Tail(mail)
  /\ UNCHANGED <<statusVars, netVars, wf_mode, signaled>>

\* Do the steps, then set the semaphore of the caller.
Answer(steps) == todo' = [todo EXCEPT !["wpas"] = steps \o <<Step("Ack")>>]

Ack ==
  /\ At("wpas", "Ack")
  /\ todo' = [todo EXCEPT !["wpas"] = <<>>, !["app"] = Tail(@)]
  /\ UNCHANGED <<statusVars, netVars, wf_mode, wpasVars, airVars>>

\* What it does without a network, and the end of what takes it there.
Away == IF disconnected THEN "disconnected" ELSE "scanning"
Over == IF disconnected THEN <<Step("ReconnectOver")>> ELSE <<>>

\* A slip: nobody listens.
notify_nobody == <<>>
\* WLAN_EVENT_DISCONNECTED for wlan_internal_notify_func
notify_disconnected == <<Step("IpDown")>>

\* SM_DISCONNECT_REQ, whose confirmation comes through the thread that gets the
\* messages of the firmware, behind those sent before.
Deauth ==
  /\ At("wpas", "Deauth") /\ Idle("rx")
  /\ link' = "none" /\ leaving' = (leaving \/ link # "none")
  /\ Then("wpas", <<>>)
  /\ UNCHANGED <<statusVars, netVars, wf_mode, wpasVars>>

\* wpa_supplicant_deauthenticate, where the application did not ask for it
deauthenticate == <<Status("CONNECT_FAILED"), Step("Deauth")>> \o notify_disconnected \o Over

\* The deauthentication that the application asked for sets no status
\* (sta_active_disconnection), but its end does.
Disconnect ==
  /\ Take("DISCONNECT")
  /\ wpa' = IF wpa = "off" THEN "off" ELSE "disconnected"
  /\ disconnected' = (wpa # "off")
  /\ Answer(IF Engaged THEN <<Step("Deauth")>> \o notify_disconnected \o <<Step("ReconnectOver")>>
            ELSE <<>>)
  /\ UNCHANGED <<scan, airVars>>

Enable ==
  /\ Take("ENABLE")
  /\ wpa' = IF wpa = "off" THEN "disconnected" ELSE wpa
  /\ Answer(IF wpa = "off" THEN <<Step("AddNetif")>> ELSE <<>>)
  /\ UNCHANGED <<disconnected, scan, airVars>>

\* supplicant_main_exit unregisters the notifier before it deauthenticates:
\* sta_ip_down is not called.
Disable ==
  /\ Take("DISABLE")
  /\ wpa' = "off" /\ disconnected' = FALSE /\ scan' = FALSE
  /\ Answer((IF wpa # "off" THEN <<Step("RemoveNetif")>> ELSE <<>>) \o
            (IF Engaged THEN <<Status("CONNECT_FAILED"), Step("Deauth"), Step("ReconnectOver")>>
             ELSE <<>>))
  /\ UNCHANGED airVars

\* WPA_CTRL_CMD_SELECT_NETWORK: nothing is done by a station that is associated
\* with the network.
Connect ==
  LET starts == wpa \in {"disconnected", "scanning"}
  IN  /\ Take("CONNECT")
      /\ wpa' = IF starts THEN "scanning" ELSE wpa
      /\ disconnected' = (disconnected /\ ~starts /\ wpa # "astray")
      /\ Answer(<<>>)
      /\ UNCHANGED <<scan, airVars>>

\* EVENT_ASSOC, in whatever state the supplicant is: it takes the firmware's
\* word for the network it is associated with.  When it has given its own up
\* the firmware may name none, the old one or one that is not configured.
wpa_supplicant_event_assoc ==
  LET goes(state, steps) == wpa' = state /\ todo' = [todo EXCEPT !["wpas"] = steps]
  IN  \/ goes("associated", <<>>)
      \/ goes("completed", <<Step("IpStart")>>)   \* a network without keys
      \/ ~Engaged /\ goes("astray", <<>>)
      \/ ~Engaged /\ goes(Away, deauthenticate)

\* WPA_CTRL_EVENT_CONNECT_IND; a supplicant that is not started ignores it.
ConnectInd ==
  \/ /\ Take("assoc")
     /\ IF wpa = "off" THEN UNCHANGED <<todo, wpa>> ELSE wpa_supplicant_event_assoc
     /\ UNCHANGED <<disconnected, scan, airVars>>
  \/ /\ Take("reject")
     /\ wpa' = IF wpa = "off" THEN "off" ELSE Away
     /\ UNCHANGED <<todo, disconnected, scan, airVars>>

\* The keys are agreed, over the link: WPA_COMPLETED.
KeysAgreed ==
  /\ wpa = "associated" /\ link = "joined" /\ ~signaled
  /\ wpa' = "completed"
  /\ Do("wpas", <<Step("IpStart")>>)
  /\ UNCHANGED <<statusVars, netVars, wf_mode, disconnected, scan, mail, signaled, airVars>>

\* wpa_supplicant_timeout: no association, or no keys, in time
AuthTimeout ==
  /\ wpa \in {"associating", "associated", "astray"} /\ ~signaled
  /\ wpa' = Away
  /\ Do("wpas", IF Engaged THEN deauthenticate ELSE <<>>)
  /\ UNCHANGED <<statusVars, netVars, wf_mode, disconnected, scan, mail, signaled, airVars>>

\* A slip: a disassociation only breaks off an association under way.
NoticedAssociating == wpa = "associating"
\* wpa_state > WPA_SCANNING
Noticed == Engaged \/ wpa = "astray"

\* wpa_driver_disassoc_sig_handler: EVENT_DISASSOC
Disassoc ==
  /\ Idle("wpas") /\ signaled
  /\ signaled' = FALSE
  /\ wpa' = IF Noticed THEN Away ELSE wpa
  /\ todo' = [todo EXCEPT !["wpas"] = IF Noticed THEN notify_disconnected \o Over ELSE <<>>]
  /\ UNCHANGED <<statusVars, netVars, wf_mode, disconnected, scan, mail, airVars>>

\* wpa_send_scan_req, then wpa_get_scan_rst and the request to join a network
\* that was found.  (A message that waits is handled in the same round of
\* eloop_run; that it is handled first loses no order of effects.)
ScanStart ==
  /\ wpa \in {"scanning", "astray"} /\ ~disconnected /\ ~scan /\ ~signaled /\ mail = <<>>
  /\ scan' = TRUE
  /\ Do("wpas", <<Status("SCANNING")>>)
  /\ UNCHANGED <<statusVars, netVars, wf_mode, wpa, disconnected, mail, signaled, airVars>>

\* The firmware tells the end of the scan behind all it told before, the end of
\* a link it was to leave too.
ScanDone(result) ==
  LET join == wpa = "scanning" /\ result = "found"
  IN  /\ scan /\ ~signaled /\ mail = <<>> /\ Idle("rx") /\ ~leaving
      /\ scan' = FALSE
      /\ Do("wpas", <<Status("SCAN_OVER")>> \o
                    IF result = "none" THEN <<Status("NO_AP_FOUND")>> ELSE <<>>)
      /\ wpa' = IF join THEN "associating" ELSE wpa
      /\ link' = IF join THEN "requested" ELSE link
      /\ UNCHANGED <<statusVars, netVars, wf_mode, disconnected, mail, signaled, leaving>>

(***************************************************************************)
(* The messages of the firmware.                                           *)
(***************************************************************************)
Firmware(from, to, steps) ==
  /\ link = from /\ ~leaving
  /\ link' = to
  /\ Do("rx", steps)
  /\ UNCHANGED <<statusVars, netVars, wf_mode, wpasVars, leaving>>

\* SM_CONNCTION_START_IND
RxStart == Firmware("requested", "joining", <<Status("CONNECTING")>>)

\* SM_ASSOC_IND, SM_CONNECT_IND
RxAssoc == Firmware("joining", "joined", <<Step("AssocInd"), StepOf("Post", "assoc")>>)

\* SM_AUTHEN_FAIL_IND or SM_ASSOC_FAIL_INID, SM_CONNECT_IND
RxFail(v) == Firmware("joining", "none", <<Status(v), StepOf("Post", "reject")>>)

\* SM_BEACON_LOSE_IND or SM_DISASSOC_IND, SM_DISCONNECT_IND
RxLost(v) == Firmware("joined", "none", <<Status(v), Step("Signal")>>)

\* SM_DISCONNECT_IND, the answer to SM_DISCONNECT_REQ
RxLeft ==
  /\ leaving /\ leaving' = FALSE
  /\ Do("rx", <<Step("Signal")>>)
  /\ UNCHANGED <<statusVars, netVars, wf_mode, wpasVars, link>>

\* wpa_ctrl_event_copy
Post ==
  /\ At("rx", "Post") /\ Len(mail) < MaxMail
  /\ mail' = Append(mail, Arg("rx"))
  /\ Then("rx", <<>>)
  /\ UNCHANGED <<statusVars, netVars, wf_mode, wpa, disconnected, scan, signaled, airVars>>

\* mhdr_disconnect_ind: wpa_handler_signal, which has no effect while no handler
\* is registered.
Signal ==
  /\ At("rx", "Signal")
  /\ signaled' = (wpa # "off")
  /\ Then("rx", <<>>)
  /\ UNCHANGED <<statusVars, netVars, wf_mode, wpa, disconnected, scan, mail, airVars>>

(***************************************************************************)
Dhcp ==
  \/ DhcpBind /\ link = "joined" /\ wpa = "completed"
  \/ DhcpLost

ThreadStep(p) ==
  /\ \/ StatusStep(p) /\ UNCHANGED netVars
     \/ NetStep(p)
  /\ UNCHANGED <<wf_mode, wpasVars, airVars>>

App == StationConnect \/ StopAp \/ \E mode \in Modes : SetWorkMode(mode)

Commands == Disconnect \/ Enable \/ Disable \/ Connect
Eloop == Commands \/ ConnectInd \/ Disassoc \/ Deauth \/ KeysAgreed \/ AuthTimeout
Scan == ScanStart \/ \E result \in {"found", "none"} : ScanDone(result)
Rx == RxStart \/ RxAssoc \/ (\E v \in Failures : RxFail(v)) \/ (\E v \in Losses : RxLost(v))

Next ==
  \/ App \/ Request \/ Ack
  \/ Eloop \/ Scan
  \/ Rx \/ RxLeft \/ Post \/ Signal
  \/ \E p \in Threads : ThreadStep(p)
  \/ (Dhcp /\ UNCHANGED <<wf_mode, wpasVars, airVars>>)

Spec == Init /\ [][Next]_vars

(***************************************************************************)
(* Properties.                                                             *)
(***************************************************************************)
\* No thread is in the middle of something and nothing is under way to the
\* supplicant.
Settled == /\ \A p \in Threads : Idle(p)
           /\ mail = <<>> /\ ~signaled /\ ~leaving

\* Whatever calls and losses of the link overlapped the last sta_ip_start and
\* sta_ip_down, the interface of a station that is connected is up, asks for an
\* address and tells the station when it has one.
ConnectedMeansConfigured ==
  Settled /\ wpa = "completed" =>
    sta_ip_start_flag /\ netif.up /\ netif.cb /\ netif.dhcp # "off"

\* The application of a connected station with an address was told so, and was
\* told nothing else since: the callbacks of four threads, which run outside the
\* lock that orders the statuses, do not leave an older status behind.
AddressIsReported ==
  Settled /\ wpa = "completed" /\ netif.dhcp = "bound" => connect_status = "GOT_IP"

\* A flag left set makes the next sta_ip_start do nothing.  It is set only while
\* the station is connected, or was stopped in the middle of connecting, which
\* the next call of tkl_wifi_station_connect makes up for.
FlagMeansConnected == Settled /\ sta_ip_start_flag => wpa \in {"completed", "off"}

\* A connected station with an address has a link.  A disassociation that
\* overtakes the indication of its connection leaves a station of an open network
\* connected without one; but no loss of a link, nor one of several that make up
\* one signal, is missed by a station that got its address over the link.
LossNoticed == Settled /\ wpa = "completed" /\ netif.dhcp = "bound" => link = "joined"
=============================================================================
