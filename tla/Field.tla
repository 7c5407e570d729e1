------------------------------- MODULE Field -------------------------------
(***************************************************************************)
(* One site: a collector on the air and the gateways around it, composed   *)
(* of the Collector and Gateway modules.  The radio is a lossy broadcast:  *)
(* a transmission reaches any of the gateways that are inside hal_radio_rx *)
(* at that moment, or none, and nobody acknowledges or repeats it.  The    *)
(* cellular side carries a frame to the cloud or loses it.  What the site  *)
(* promises is the README's rolling redundancy: a reading survives the     *)
(* loss of one frame because the next one repeats it.                      *)
(***************************************************************************)
EXTENDS Naturals, Sequences

CONSTANTS
    Data, Loops, SeqMod, Interval, Zero,    \* of the collector
    Gateways, NumCycles, NoFrame,           \* of the gateways
    MaxSlots,
    MaxTx,          \* bound: readings taken
    MaxColResets,   \* bound: resets of the collector
    MaxFaults       \* bound: gateway resets and network changes together

ASSUME SiteSeqAssumption == SeqMod \in Nat \ {0}
ASSUME SiteSlotsAssumption == MaxSlots \in Nat \ {0}

VARIABLES
    colPc, global_seq, scenario, loop, ciphertext, previous, has_previous,
    tx_packet, colFlash, lastSent,          \* the collector
    gwPc, simDetect, role, cycle, rx_packet, out, gwFlash, covered,
    accepted, handed, delivered,            \* the gateways
    cloud,      \* the frames that reached the cloud
    died,       \* ghost: frames a reset or a network outage destroyed
                \* inside a master
    air,        \* ghost: every transmission, in order, with its frame, the
                \* masters that heard it and the collector's boot number
    boots,      \* ghost: resets of the collector so far
    faults      \* ghost: gateway resets and network changes so far

Col == INSTANCE Collector WITH pc <- colPc, flash <- colFlash
Gw == INSTANCE Gateway WITH pc <- gwPc, flash <- gwFlash, Frame <- Col!Frame

colVars == <<colPc, global_seq, scenario, loop, ciphertext, previous, has_previous,
             tx_packet, colFlash, lastSent>>
gwVars == <<gwPc, simDetect, role, cycle, rx_packet, out, gwFlash, covered,
            accepted, handed, delivered>>
siteVars == <<cloud, died, air, boots, faults>>
vars == <<colVars, gwVars, siteVars>>

Masters(H) == { g \in H : role[g] = "MASTER" }

\* The frames a gateway has in hand.
Inside(g) ==
    { gwFlash[g][i] : i \in 1 .. Len(gwFlash[g]) }
        \cup (IF gwPc[g] = "send" THEN {out[g]} ELSE {})
        \cup (IF gwPc[g] = "write" THEN {rx_packet[g]} ELSE {})

-----------------------------------------------------------------------------

Init ==
    /\ Col!Init
    /\ Gw!Init
    /\ cloud = {}
    /\ died = {}
    /\ air = << >>
    /\ boots = 0
    /\ faults = 0

\* The collector works by itself up to the transmission.
CollectorStep ==
    /\ \/ Col!Boot
       \/ Len(air) < MaxTx /\ \E d \in Data : Col!Sample(d)
       \/ Col!Build
       \/ Col!Store
    /\ UNCHANGED <<gwVars, siteVars>>

\* One LoRa transmission: the gateways in H hear it, the others do not.
Broadcast(H) ==
    /\ Col!Transmit
    /\ Gw!Hear(H, tx_packet)
    /\ air' = Append(air, [frame |-> tx_packet, heard |-> Masters(H), boot |-> boots])
    /\ UNCHANGED <<cloud, died, boots, faults>>

\* A gateway's program; a frame handed to the modem reaches the cloud or
\* is gone.
GatewayStep(g) ==
    /\ Gw!Local(g)
    /\ cloud' = IF gwPc[g] = "send" /\ covered[g] THEN cloud \cup {out[g]} ELSE cloud
    /\ died' = IF gwPc[g] = "send" /\ ~ covered[g] THEN died \cup {out[g]} ELSE died
    /\ UNCHANGED <<colVars, air, boots, faults>>

CollectorReset ==
    /\ boots < MaxColResets
    /\ Col!Reset
    /\ boots' = boots + 1
    /\ UNCHANGED <<gwVars, cloud, died, air, faults>>

GatewayReset(g) ==
    /\ faults < MaxFaults
    /\ Gw!Reset(g)
    /\ faults' = faults + 1
    /\ died' = IF role[g] = "MASTER" THEN died \cup Inside(g) ELSE died
    /\ UNCHANGED <<colVars, cloud, air, boots>>

Network(g) ==
    /\ faults < MaxFaults
    /\ Gw!Coverage(g)
    /\ faults' = faults + 1
    /\ UNCHANGED <<colVars, cloud, died, air, boots>>

Next ==
    \/ CollectorStep
    \/ \E H \in SUBSET Gateways : Broadcast(H)
    \/ CollectorReset
    \/ \E g \in Gateways : GatewayStep(g) \/ GatewayReset(g) \/ Network(g)

Spec ==
    /\ Init /\ [][Next]_vars
    /\ WF_vars(CollectorStep \/ \E H \in SUBSET Gateways : Broadcast(H))
    /\ \A g \in Gateways : WF_vars(GatewayStep(g))

-----------------------------------------------------------------------------

\* The frames that left a master's radio and are not lost.
Alive == cloud \cup UNION { Inside(g) : g \in Gateways }

Halves(F) == { f.cur : f \in F } \cup { f.prev : f \in F }

(***************************************************************************)
(* A reading taken by the collector survives if a master heard its own     *)
(* frame or the next frame of the same boot: it is in the cloud or on its  *)
(* way inside a gateway, unless a reset or an outage destroyed the frame   *)
(* in the master.  No other way of losing it exists: not a full flash, not *)
(* a missed cycle, not the other gateways.                                 *)
(***************************************************************************)
Repeated(i) == i < Len(air) /\ air[i + 1].boot = air[i].boot

ReadingSurvivesOneLoss ==
    \A i \in 1 .. Len(air) :
        (air[i].heard # {} \/ (Repeated(i) /\ air[i + 1].heard # {}))
            => air[i].frame.cur \in Halves(Alive \cup died)

(***************************************************************************)
(* The cloud receives only what the collector transmitted, from a master   *)
(* that heard it, and each master's frames in the order of transmission:   *)
(* the frames a gateway delivered since its boot are those of a strictly   *)
(* increasing series of transmissions it heard, over resets of the         *)
(* collector and wraps of its number.                                      *)
(***************************************************************************)
HeardInOrder(sent, n, g, frames) ==
    \E at \in [1 .. Len(frames) -> 1 .. n] :
        /\ \A j \in 1 .. Len(frames) :
               sent[at[j]].frame = frames[j] /\ g \in sent[at[j]].heard
        /\ \A j, k \in 1 .. Len(frames) : j < k => at[j] < at[k]

CloudFromAir ==
    /\ \A f \in cloud : \E i \in 1 .. Len(air) : air[i].frame = f /\ air[i].heard # {}
    /\ \A g \in Gateways : HeardInOrder(air, Len(air), g, delivered[g])

(***************************************************************************)
(* A reading a master heard reaches the cloud if nothing is reset and the  *)
(* network stays: the whole way is driven by the gateway's own program.    *)
(***************************************************************************)
HeardReachesCloud ==
    \A i \in 1 .. MaxTx :
        (Len(air) >= i /\ air[i].heard # {})
            ~> (Len(air) >= i /\ air[i].frame \in cloud \cup died)

=============================================================================
