------------------------------ MODULE Gateway ------------------------------
(***************************************************************************)
(* The gateway nodes (node_gateway/): main's loop of NUM_CYCLES cycles --  *)
(* receive a frame, store it, and on the master drain the store through    *)
(* the modem -- with role_election.c and the HAL the build uses,           *)
(* hal_lora.c.  Every gateway runs the same program on its own state, so   *)
(* each variable is a function of the gateway.  The flash is the bounded   *)
(* FIFO that StoreForward is proved to implement; it is RAM, so a reset    *)
(* loses it.  The radio and the cellular network are the environment.      *)
(***************************************************************************)
EXTENDS Naturals, Sequences

CONSTANTS
    Gateways,
    Frame,          \* what the radio can deliver (SF_SLOT_SIZE bytes)
    MaxSlots,       \* SF_MAX_SLOTS
    NumCycles,      \* NUM_CYCLES of main.c
    NoFrame         \* an rx_packet or out buffer with nothing in it

ASSUME GatewaySlotsAssumption == MaxSlots \in Nat \ {0}
ASSUME NumCyclesAssumption == NumCycles \in Nat
ASSUME NoFrameAssumption == NoFrame \notin Frame

VARIABLES
    pc,         \* where main stands: the next call it makes, or "off"
    simDetect,  \* the SIM_DETECT pin: is a SIM card inserted?
    role,       \* current_role, elected once per boot
    cycle,      \* i of main's loop
    rx_packet,  \* the frame received in this cycle
    out,        \* the frame read back from the flash, about to be sent
    flash,      \* frames stored, oldest first
    covered,    \* is the cellular network reachable for this node?
    accepted,   \* ghost: frames the flash took since boot, in order
    handed,     \* ghost: frames given to hal_modem_send_sms since boot
    delivered   \* ghost: those of them the network carried

programVars == <<pc, role, cycle, rx_packet, out, flash>>
ghosts == <<accepted, handed, delivered>>
vars == <<programVars, simDetect, covered, ghosts>>

Full(g) == Len(flash[g]) >= MaxSlots

-----------------------------------------------------------------------------

Init ==
    /\ pc = [g \in Gateways |-> "off"]
    /\ simDetect \in [Gateways -> BOOLEAN]
    /\ role = [g \in Gateways |-> "UNSET"]
    /\ cycle = [g \in Gateways |-> 0]
    /\ rx_packet = [g \in Gateways |-> NoFrame]
    /\ out = [g \in Gateways |-> NoFrame]
    /\ flash = [g \in Gateways |-> << >>]
    /\ covered = [g \in Gateways |-> TRUE]
    /\ accepted = [g \in Gateways |-> << >>]
    /\ handed = [g \in Gateways |-> << >>]
    /\ delivered = [g \in Gateways |-> << >>]

\* Mutant of HalInit: sf_init is not called.
HalInitKeepsFlash(g) ==
    /\ pc[g] = "off"
    /\ pc' = [pc EXCEPT ![g] = "elect"]
    /\ rx_packet' = [rx_packet EXCEPT ![g] = NoFrame]
    /\ out' = [out EXCEPT ![g] = NoFrame]
    /\ role' = [role EXCEPT ![g] = "UNSET"]
    /\ cycle' = [cycle EXCEPT ![g] = 0]
    /\ accepted' = [accepted EXCEPT ![g] = << >>]
    /\ handed' = [handed EXCEPT ![g] = << >>]
    /\ delivered' = [delivered EXCEPT ![g] = << >>]
    /\ UNCHANGED <<flash, simDetect, covered>>

\* hal_init: sf_init empties the store.  The ghosts start over with it.
HalInit(g) ==
    /\ pc[g] = "off"
    /\ pc' = [pc EXCEPT ![g] = "elect"]
    /\ flash' = [flash EXCEPT ![g] = << >>]
    /\ rx_packet' = [rx_packet EXCEPT ![g] = NoFrame]
    /\ out' = [out EXCEPT ![g] = NoFrame]
    /\ role' = [role EXCEPT ![g] = "UNSET"]
    /\ cycle' = [cycle EXCEPT ![g] = 0]
    /\ accepted' = [accepted EXCEPT ![g] = << >>]
    /\ handed' = [handed EXCEPT ![g] = << >>]
    /\ delivered' = [delivered EXCEPT ![g] = << >>]
    /\ UNCHANGED <<simDetect, covered>>

\* role_election_run: the role is read from the pin, once.
Elect(g) ==
    /\ pc[g] = "elect"
    /\ role' = [role EXCEPT ![g] = IF simDetect[g] THEN "MASTER" ELSE "SLAVE"]
    /\ pc' = [pc EXCEPT ![g] = IF NumCycles > 0 THEN "rx" ELSE "done"]
    /\ UNCHANGED <<cycle, rx_packet, out, flash, simDetect, covered, ghosts>>

\* Mutant of EndCycle: <= in the loop condition.
EndCycleOneMore(g) ==
    /\ cycle' = [cycle EXCEPT ![g] = @ + 1]
    /\ pc' = [pc EXCEPT ![g] = IF cycle[g] < NumCycles THEN "rx" ELSE "done"]

\* The cycle is over: the next one, or main returns.  (continue and the end
\* of the loop body are the same step.)
EndCycle(g) ==
    /\ cycle' = [cycle EXCEPT ![g] = @ + 1]
    /\ pc' = [pc EXCEPT ![g] = IF cycle[g] + 1 < NumCycles THEN "rx" ELSE "done"]

\* hal_radio_rx delivers a frame to every gateway of H: one transmission is
\* heard by those that happen to listen.
Hear(H, f) ==
    /\ \A g \in H : pc[g] = "rx"
    /\ rx_packet' = [g \in Gateways |-> IF g \in H THEN f ELSE rx_packet[g]]
    /\ pc' = [g \in Gateways |-> IF g \in H THEN "write" ELSE pc[g]]
    /\ UNCHANGED <<role, cycle, out, flash, simDetect, covered, ghosts>>

Receive(g, f) == Hear({g}, f)

\* Mutant of ReceiveFails: a failed reception does not use up the cycle.
ReceiveFailsAgain(g) ==
    /\ pc[g] = "rx"
    /\ UNCHANGED vars

\* hal_radio_rx fails: timeout, end of file, a line that is no frame.  The
\* cycle is used up.
ReceiveFails(g) ==
    /\ pc[g] = "rx"
    /\ EndCycle(g)
    /\ UNCHANGED <<role, rx_packet, out, flash, simDetect, covered, ghosts>>

\* Mutant of Write: the pin is read again in place of the elected role.
WriteReadsPin(g) ==
    /\ pc[g] = "write"
    /\ ~ Full(g)
    /\ flash' = [flash EXCEPT ![g] = Append(@, rx_packet[g])]
    /\ accepted' = [accepted EXCEPT ![g] = Append(@, rx_packet[g])]
    /\ IF simDetect[g]
         THEN pc' = [pc EXCEPT ![g] = "drain"] /\ UNCHANGED cycle
         ELSE EndCycle(g)
    /\ UNCHANGED <<role, rx_packet, out, simDetect, covered, handed, delivered>>

\* Mutant of Write: the master continues as after HAL_FULL.
WriteSkipsDrain(g) ==
    /\ pc[g] = "write"
    /\ ~ Full(g)
    /\ flash' = [flash EXCEPT ![g] = Append(@, rx_packet[g])]
    /\ accepted' = [accepted EXCEPT ![g] = Append(@, rx_packet[g])]
    /\ EndCycle(g)
    /\ UNCHANGED <<role, rx_packet, out, simDetect, covered, handed, delivered>>

\* hal_flash_write takes the frame; the master goes on to drain, the slave
\* has finished its cycle.
Write(g) ==
    /\ pc[g] = "write"
    /\ ~ Full(g)
    /\ flash' = [flash EXCEPT ![g] = Append(@, rx_packet[g])]
    /\ accepted' = [accepted EXCEPT ![g] = Append(@, rx_packet[g])]
    /\ IF role[g] = "MASTER"
         THEN pc' = [pc EXCEPT ![g] = "drain"] /\ UNCHANGED cycle
         ELSE EndCycle(g)
    /\ UNCHANGED <<role, rx_packet, out, simDetect, covered, handed, delivered>>

\* hal_flash_write answers HAL_FULL: the frame is dropped and continue skips
\* the drain, on the master too.
WriteFull(g) ==
    /\ pc[g] = "write"
    /\ Full(g)
    /\ EndCycle(g)
    /\ UNCHANGED <<role, rx_packet, out, flash, simDetect, covered, ghosts>>

\* Mutant of Drain: the frame read stays in the flash.
DrainPeeks(g) ==
    /\ pc[g] = "drain"
    /\ flash[g] # << >>
    /\ out' = [out EXCEPT ![g] = Head(flash[g])]
    /\ pc' = [pc EXCEPT ![g] = "send"]
    /\ UNCHANGED <<role, cycle, rx_packet, flash, simDetect, covered, ghosts>>

\* The master reads the oldest frame back; it leaves the flash here.
Drain(g) ==
    /\ pc[g] = "drain"
    /\ flash[g] # << >>
    /\ out' = [out EXCEPT ![g] = Head(flash[g])]
    /\ flash' = [flash EXCEPT ![g] = Tail(@)]
    /\ pc' = [pc EXCEPT ![g] = "send"]
    /\ UNCHANGED <<role, cycle, rx_packet, simDetect, covered, ghosts>>

DrainEmpty(g) ==
    /\ pc[g] = "drain"
    /\ flash[g] = << >>
    /\ EndCycle(g)
    /\ UNCHANGED <<role, rx_packet, out, flash, simDetect, covered, ghosts>>

\* Mutant of Send: a frame the network refused is put back and retried at once.
SendRetries(g) ==
    /\ pc[g] = "send"
    /\ handed' = [handed EXCEPT ![g] = IF covered[g] THEN Append(@, out[g]) ELSE @]
    /\ delivered' = [delivered EXCEPT ![g] = IF covered[g] THEN Append(@, out[g]) ELSE @]
    /\ flash' = [flash EXCEPT ![g] = IF covered[g] THEN @ ELSE <<out[g]>> \o @]
    /\ out' = [out EXCEPT ![g] = NoFrame]
    /\ pc' = [pc EXCEPT ![g] = "drain"]
    /\ UNCHANGED <<role, cycle, rx_packet, simDetect, covered, accepted>>

\* hal_modem_send_sms: the network carries the frame or it does not; main
\* looks at no result.
Send(g) ==
    /\ pc[g] = "send"
    /\ handed' = [handed EXCEPT ![g] = Append(@, out[g])]
    /\ delivered' = [delivered EXCEPT ![g] = IF covered[g] THEN Append(@, out[g]) ELSE @]
    /\ out' = [out EXCEPT ![g] = NoFrame]
    /\ pc' = [pc EXCEPT ![g] = "drain"]
    /\ UNCHANGED <<role, cycle, rx_packet, flash, simDetect, covered, accepted>>

\* Everything main does on its own, without a frame from outside.
Local(g) ==
    \/ HalInit(g)
    \/ Elect(g)
    \/ ReceiveFails(g)
    \/ Write(g)
    \/ WriteFull(g)
    \/ Drain(g)
    \/ DrainEmpty(g)
    \/ Send(g)

Program(g) == Local(g) \/ \E f \in Frame : Receive(g, f)

-----------------------------------------------------------------------------
(* The environment: reset or power loss, a technician moving a SIM card,   *)
(* the cellular network coming and going.                                  *)

Reset(g) ==
    /\ pc[g] # "off"
    /\ pc' = [pc EXCEPT ![g] = "off"]
    /\ UNCHANGED <<role, cycle, rx_packet, out, flash, simDetect, covered, ghosts>>

MoveSim(g) ==
    /\ simDetect' = [simDetect EXCEPT ![g] = ~ @]
    /\ UNCHANGED <<programVars, covered, ghosts>>

Coverage(g) ==
    /\ covered' = [covered EXCEPT ![g] = ~ @]
    /\ UNCHANGED <<programVars, simDetect, ghosts>>

Next ==
    \E g \in Gateways :
        \/ Program(g)
        \/ Reset(g)
        \/ MoveSim(g)
        \/ Coverage(g)

\* hal_radio_rx returns within LORA_RX_TIMEOUT_MS, so the program never
\* stays in a call; the radio, resets and the network owe nothing.
Spec == Init /\ [][Next]_vars /\ \A g \in Gateways : WF_vars(Local(g))

-----------------------------------------------------------------------------

TypeOK ==
    /\ pc \in [Gateways -> {"off", "elect", "rx", "write", "drain", "send", "done"}]
    /\ simDetect \in [Gateways -> BOOLEAN]
    /\ role \in [Gateways -> {"UNSET", "SLAVE", "MASTER"}]
    /\ cycle \in [Gateways -> 0 .. NumCycles]
    /\ rx_packet \in [Gateways -> Frame \cup {NoFrame}]
    /\ out \in [Gateways -> Frame \cup {NoFrame}]
    /\ flash \in [Gateways -> Seq(Frame)]
    /\ covered \in [Gateways -> BOOLEAN]
    /\ accepted \in [Gateways -> Seq(Frame)]
    /\ handed \in [Gateways -> Seq(Frame)]
    /\ delivered \in [Gateways -> Seq(Frame)]

\* What the node still holds of the frames it accepted, oldest first.
Held(g) == (IF out[g] = NoFrame THEN << >> ELSE <<out[g]>>) \o flash[g]

(***************************************************************************)
(* Every frame the flash accepted is handed to the modem once, in the      *)
(* order of arrival, or is still held in that order: between the two sides *)
(* of the drain loop nothing is lost, repeated or overtaken.               *)
(***************************************************************************)
HandedInOrder ==
    \A g \in Gateways : pc[g] # "off" => handed[g] \o Held(g) = accepted[g]

(***************************************************************************)
(* A slave hands nothing to the modem, and a master listens again only     *)
(* with an empty flash, whatever happened to the SIM card since it was     *)
(* elected.  The second half is what keeps the continue on HAL_FULL, which *)
(* skips the drain, from stranding a master's frames for ever.             *)
(***************************************************************************)
RoleGovernsFlash ==
    \A g \in Gateways :
        /\ role[g] # "MASTER" /\ pc[g] # "off" =>
               pc[g] \notin {"drain", "send"} /\ handed[g] = << >>
        /\ role[g] = "MASTER" /\ pc[g] \in {"rx", "write", "done"} => flash[g] = << >>

(***************************************************************************)
(* A frame is dropped for lack of room only by a slave in a cycle numbered *)
(* MaxSlots or later.  With NUM_CYCLES = 4 and twenty slots, no frame ever *)
(* is: every cycle stores at most one.                                     *)
(***************************************************************************)
DropsOnlyOnLateSlave ==
    \A g \in Gateways :
        pc[g] = "write" /\ Full(g) => role[g] = "SLAVE" /\ cycle[g] >= MaxSlots

(***************************************************************************)
(* The master's drain ends: a frame it accepted has left for the modem     *)
(* before the next frame is awaited, unless the node is reset.             *)
(***************************************************************************)
MasterDrains ==
    \A g \in Gateways :
        (pc[g] = "drain") ~>
            (pc[g] = "off" \/ (pc[g] \in {"rx", "done"} /\ handed[g] = accepted[g]))

(***************************************************************************)
(* main comes to its end: no mix of missed frames, full stores and drains  *)
(* keeps a node in its loop.                                               *)
(***************************************************************************)
LoopEnds == \A g \in Gateways : (pc[g] = "rx") ~> (pc[g] \in {"off", "done"})

-----------------------------------------------------------------------------
(* What comments and documentation say and the code does not do.           *)

(***************************************************************************)
(* README.md: "Data is preserved during cellular outages".  A frame the    *)
(* flash accepted was delivered or is still held.                          *)
(***************************************************************************)
DataPreserved ==
    \A g \in Gateways :
        pc[g] # "off" => Len(delivered[g]) + Len(Held(g)) = Len(accepted[g])

=============================================================================
