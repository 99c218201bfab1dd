------------------------ MODULE MCFirewallVpnService ------------------------
(* Small instances of FirewallVpnService for TLC, and what the repository  *)
(* says of the service that the code does not do.                          *)
EXTENDS FirewallVpnService

-----------------------------------------------------------------------------
(* IMPLEMENTATION_GUIDE.md:112-113: "Start the VPN service", "Try          *)
(* accessing internet from a non-blocked app (should work)".  A tunnel     *)
(* that was established gets a reader, or the VPN is stopped again.  The   *)
(* static scope is cancelled for good by the first stop of the process.    *)
StartIsServed ==
    pc[Main] = "launch" ~> ((\E n \in Tunnels : reader[n] = "loop") \/ ~isRunning)

(* README.md:11: "Real-time Updates: Dynamic blocking list updates without  *)
(* VPN restart".  A list that changes under a running VPN reaches the      *)
(* filter and the VPN goes on running, unless the switch is turned off.    *)
(* The collector restarts the VPN instead, and a restart cancels the scope *)
(* it runs in, so that it never starts the VPN again.                      *)
UpdatesAreServed ==
    \A i \in Instances :
        LiveCollector(i) /\ isRunning /\ cache[i] # store
            ~> ~switchState \/ [](cache[i] = store /\ (isRunning \/ ~switchState))

(* IMPLEMENTATION_GUIDE.md:124: "Verify proper cleanup when VPN is         *)
(* stopped".  Between two callbacks, a tunnel that is up is the one the    *)
(* static field holds, so that a stop can close it.  Of two cleanup        *)
(* handlers, the second can null the field after a new tunnel was put in   *)
(* it; no later stop finds that tunnel.                                    *)
UpTunnelIsHeld == pc[Main] = "idle" => open \subseteq {vpnInterface}
=============================================================================
