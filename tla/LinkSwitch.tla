----------------------------- MODULE LinkSwitch -----------------------------
(***************************************************************************)
(* What a tunnelLink promises the router, which starts and stops it as if  *)
(* both took effect at once: a switch.  While it is on, one tunnel at a    *)
(* time is open; it may fail, and be replaced by a new one.  Only start()  *)
(* turns the switch on, and a tunnel that was closed is never open again.  *)
(* TunnelLink implements it.                                               *)
(***************************************************************************)
EXTENDS Naturals

VARIABLES
    on,      \* started and not stopped
    starts,  \* times it was turned on
    serial,  \* tunnels opened so far
    open     \* the serials of the tunnels that are open

SwitchInit == on = FALSE /\ starts = 0 /\ serial = 0 /\ open = {}

\* A new tunnel is the only one that is open.
NewTunnel == serial' = serial + 1 /\ open' = {serial + 1}

Start   == ~on /\ on' = TRUE /\ starts' = starts + 1 /\ NewTunnel
Stop    == on /\ on' = FALSE /\ open' = {} /\ UNCHANGED <<starts, serial>>
Fail    == open # {} /\ open' = {} /\ UNCHANGED <<on, starts, serial>>
Replace == on /\ NewTunnel /\ UNCHANGED <<on, starts>>

SwitchSpec ==
    SwitchInit /\ [][Start \/ Stop \/ Fail \/ Replace]_<<on, starts, serial, open>>
=============================================================================
