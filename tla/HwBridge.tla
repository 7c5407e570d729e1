------------------------------ MODULE HwBridge ------------------------------
(***************************************************************************)
(* hw_bridge.py: a collector on a bench, its console on a serial line, and *)
(* the bridge at the other end, which posts to /ingest what it reads.  The *)
(* line loses characters.  Of what the node prints the bridge looks at the *)
(* two lines with the number of a reading (test_runner_run and on_tx) and  *)
(* the line with its frame (hal_radio_tx).                                 *)
(***************************************************************************)
EXTENDS Collector

CONSTANTS
    MaxLines,   \* bound: lines printed and not yet read
    MaxDamage   \* bound: lines damaged and posts failed

ASSUME BenchAssumption == MaxLines \in Nat \ {0} /\ MaxDamage \in Nat

VARIABLES
    console,    \* lines printed and not yet read, numbers and frames
    hw_seq,     \* seq of run
    damage,     \* ghost: damaged lines and failed posts
    missed      \* ghost: readings transmitted that /ingest will not store

benchVars == <<console, hw_seq, damage, missed>>
hwVars == <<vars, benchVars>>

Number(n) == [number |-> n]
FrameLine(f) == [frame |-> f]
IsNumber(l) == "number" \in DOMAIN l
Line == [number : SeqNo] \cup [frame : Frame]

HwInit ==
    /\ Init
    /\ console = << >> /\ hw_seq = 0
    /\ damage = 0 /\ missed = 0

-----------------------------------------------------------------------------
(* The node prints.                                                        *)

Room == Len(console) < MaxLines

\* A line with the number n comes through, or damaged: beyond recognition, or
\* as a number that lacks digits of n, a smaller one.
PrintNumber(n) ==
    /\ Room
    /\ \/ console' = Append(console, Number(n)) /\ UNCHANGED damage
       \/ /\ damage < MaxDamage
          /\ damage' = damage + 1
          /\ \/ UNCHANGED console
             \/ \E m \in 0 .. n - 1 : console' = Append(console, Number(m))
    /\ UNCHANGED <<hw_seq, missed>>

\* A frame comes through, or not: fewer than 100 digits are skipped, and a wrong
\* digit fails the server's checksum.
PrintFrame(f) ==
    /\ Room
    /\ \/ console' = Append(console, FrameLine(f)) /\ UNCHANGED <<damage, missed>>
       \/ /\ damage < MaxDamage
          /\ damage' = damage + 1 /\ missed' = missed + 1
          /\ UNCHANGED console
    /\ UNCHANGED hw_seq

\* Each step of the collector with what it prints.
NodePrints ==
    \/ (\E d \in Data : Sample(d)) /\ PrintNumber(global_seq)
    \/ Build /\ PrintNumber(global_seq)
    \/ Transmit /\ PrintFrame(tx_packet)

NodeIsSilent == (Boot \/ Store \/ Reset) /\ UNCHANGED benchVars

-----------------------------------------------------------------------------
(* The bridge reads.                                                       *)

NextLine == console # << >> /\ console' = Tail(console) /\ UNCHANGED vars

\* Mutant of ReadNumber: numbers only grow.
ReadNumberGrows ==
    /\ NextLine
    /\ IsNumber(Head(console))
    /\ hw_seq' = IF Head(console).number > hw_seq THEN Head(console).number ELSE hw_seq
    /\ UNCHANGED <<damage, missed>>

ReadNumber ==
    /\ NextLine
    /\ IsNumber(Head(console))
    /\ hw_seq' = Head(console).number
    /\ UNCHANGED <<damage, missed>>

\* Mutant of PostFrame: the bridge counts for itself after a post.
PostFrameCounts ==
    /\ NextLine
    /\ ~ IsNumber(Head(console))
    /\ missed' = missed + (IF Head(console).frame.cur.seq = hw_seq THEN 0 ELSE 1)
    /\ hw_seq' = hw_seq + 1
    /\ UNCHANGED damage

\* The frame's first half is posted under the number read last; force=true:
\* the server stores it if it opens under this number.
PostFrame ==
    /\ NextLine
    /\ ~ IsNumber(Head(console))
    /\ missed' = missed + (IF Head(console).frame.cur.seq = hw_seq THEN 0 ELSE 1)
    /\ UNCHANGED <<hw_seq, damage>>

\* No answer, or an error: printed, and not posted again.
PostFails ==
    /\ NextLine
    /\ ~ IsNumber(Head(console))
    /\ damage < MaxDamage
    /\ damage' = damage + 1 /\ missed' = missed + 1
    /\ UNCHANGED hw_seq

BridgeReads == ReadNumber \/ PostFrame \/ PostFails

HwNext == NodePrints \/ NodeIsSilent \/ BridgeReads

\* Both programs run; a reset is not fair.
HwSpec ==
    /\ HwInit /\ [][HwNext]_hwVars
    /\ WF_hwVars(NodePrints \/ ((Boot \/ Store) /\ UNCHANGED benchVars))
    /\ WF_hwVars(BridgeReads)

-----------------------------------------------------------------------------

\* The data are what the declarations say.
HwTypeOK ==
    /\ TypeOK
    /\ console \in Seq(Line)
    /\ Len(console) <= MaxLines
    /\ hw_seq \in SeqNo
    /\ damage \in 0 .. MaxDamage
    /\ missed \in Nat

(***************************************************************************)
(* A damaged line or a failed post costs at most the reading it belongs    *)
(* to: a stale or mangled number, which the bridge remembers from line to  *)
(* line, never makes the server refuse another reading, not after a reset  *)
(* of the node or a wrap of the number either.                             *)
(***************************************************************************)
DamageCostsOneReading == missed <= damage

=============================================================================
