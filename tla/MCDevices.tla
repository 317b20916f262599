---- MODULE MCDevices ----
\* The connections, the devices, the stack and the DHCP client share no
\* variable, so the steps of a behaviour are those of one of them, the present
\* one, and their states add up.
EXTENDS Tcp, VirtioBlk, VirtioNet, NetStack, Dhcp, TLC

VARIABLE present

mcContent == CHOOSE c \in Contents : TRUE

Init ==
    /\ present \in {"tcp", "block", "net", "stack", "dhcp"}
    /\ TcpInit /\ BlkInit /\ NetInit /\ StackInit /\ DhcpInit
    /\ present # "block" => \A c \in Sectors : disk[c] = mcContent

\* Bound: units of both directions together, of the four that OutUnits and
\* InUnits allow on a link.
mcUnits == 3
mcTcpNext == TcpNext /\ \A l \in Talkers : given'[l] + peer'[l].out <= mcUnits

Next ==
    \/ present = "tcp" /\ mcTcpNext /\ UNCHANGED <<bvars, nvars, stack_vars, dhcp_vars, present>>
    \/ present = "block" /\ BlkNext /\ UNCHANGED <<tcp_vars, nvars, stack_vars, dhcp_vars, present>>
    \/ present = "net" /\ NetNext /\ UNCHANGED <<tcp_vars, bvars, stack_vars, dhcp_vars, present>>
    \/ present = "stack" /\ StackNext /\ UNCHANGED <<tcp_vars, bvars, nvars, dhcp_vars, present>>
    \/ present = "dhcp" /\ DhcpNext /\ UNCHANGED <<tcp_vars, bvars, nvars, stack_vars, present>>

Spec == Init /\ [][Next]_<<tcp_vars, bvars, nvars, stack_vars, dhcp_vars, present>>

mcAddrOf == [n \in Names |-> IF n = "x" THEN {21, 22} ELSE {31}]
mcStored == [n \in Names |-> n]
mcPool == 1 :> {11, 12}

====
