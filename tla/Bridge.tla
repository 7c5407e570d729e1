------------------------------- MODULE Bridge -------------------------------
(***************************************************************************)
(* sim_bridge.py: one program between the emulated nodes and the cloud.    *)
(* Its main thread reads the collector's console and posts every           *)
(* ciphertext to /ingest.  With --gateway it also queues every LoRa frame, *)
(* a feeder thread writes the queue to the gateway's console, and a reader *)
(* thread posts what the gateway sends to /sms.  The consoles are pipes.   *)
(* A reading is its place in the collector's console, and a frame that of  *)
(* the reading it carries first; the reading before it is its other half.  *)
(* The gateway is the master that Gateway.tla models, seen from outside:   *)
(* each of its NumCycles cycles reads a frame and sends it.  Of the server *)
(* it has what the two kinds of posts store.                               *)
(***************************************************************************)
EXTENDS Naturals, Sequences

CONSTANTS
    NumReadings,    \* bound: readings the collector's console shows
    SeqMod,         \* sequence numbers: they wrap
    NumCycles,      \* NUM_CYCLES of the gateway
    PipeSize        \* lines the gateway's stdin holds unread

ASSUME BridgeAssumption ==
    /\ NumReadings \in Nat /\ NumCycles \in Nat
    /\ SeqMod \in Nat \ {0} /\ PipeSize \in Nat \ {0}

VARIABLES
    mpc,                \* main: "read", "post", "stop", "terminate", "join", "ended"
    line,               \* the next line of the collector's console: <<reading, place>>
    current_seq,
    expect_hex_next,
    packets_sent,
    lora_queue,
    stop_event,
    fpc,                \* feeder: "test", "get", "write", "closed" or "dead"; "none" without
    hex_str,            \* the frame in its hand, or 0
    rpc,                \* gateway reader: "read", "post", "join" or "ended"
    gwAlive,            \* the gateway's process
    gwCycle,            \* cycles of it used up
    gwIn, gwOut,        \* its console: frames unread, SMS lines unread
    posts,              \* requests made to /ingest, in order
    smsPosts,           \* frames posted to /sms, in order
    unhandled,          \* posts the server has not handled, by index
    unhandledSms,       \* smsPosts it has not handled, by index
    rows                \* sensor_readings

consoleVars == <<line, current_seq, expect_hex_next>>
mainVars == <<mpc, consoleVars, packets_sent>>
feederVars == <<fpc, hex_str>>
gwVars == <<gwAlive, gwCycle, gwIn, gwOut>>
serverVars == <<unhandled, unhandledSms, rows>>
otherVars == <<feederVars, rpc, gwVars, smsPosts>>   \* not main's, nor the server's
vars == <<mainVars, lora_queue, stop_event, feederVars, rpc, gwVars, posts,
          serverVars, smsPosts>>

Running == mpc # "ended"    \* the other threads are daemons
Gateway == fpc # "none"     \* args.gateway

\* The sequence number of the n-th reading, a uint16_t that starts at 0.
Number(n) == (n - 1) % SeqMod

\* What the collector prints for a reading and the bridge looks at: "TX #" of
\* test_runner and of on_tx, the payload and the ciphertext, each a title and
\* a hex line, and the LoRa frame.
Lines == <<"tx", "tx", "packed", "payload", "encrypted", "ciphertext", "frame">>
HexLines == {"payload", "ciphertext"}

Init ==
    /\ mpc = "read" /\ line = <<1, 1>>
    /\ current_seq = 0 /\ expect_hex_next = FALSE /\ packets_sent = 0
    /\ lora_queue = << >> /\ stop_event = FALSE
    /\ \/ fpc = "test" /\ rpc = "read" /\ gwAlive = TRUE
       \/ fpc = "none" /\ rpc = "none" /\ gwAlive = FALSE
    /\ hex_str = 0 /\ gwCycle = 0 /\ gwIn = << >> /\ gwOut = << >>
    /\ posts = << >> /\ smsPosts = << >>
    /\ unhandled = {} /\ unhandledSms = {} /\ rows = {}

-----------------------------------------------------------------------------
(* The main thread.                                                        *)

\* for raw_line in proc.stdout: the next line is one of these.
ReadLine(kinds) ==
    /\ mpc = "read"
    /\ line[1] <= NumReadings
    /\ Lines[line[2]] \in kinds
    /\ line' = IF line[2] < Len(Lines) THEN <<line[1], line[2] + 1>> ELSE <<line[1] + 1, 1>>
    /\ UNCHANGED <<packets_sent, stop_event, otherVars, unhandledSms, rows>>

ReadSeq ==
    /\ ReadLine({"tx"})
    /\ current_seq' = Number(line[1])
    /\ expect_hex_next' = FALSE
    /\ UNCHANGED <<mpc, lora_queue, posts, unhandled>>

\* Mutant of ReadTitle: every title of a hex line is taken for the ciphertext's.
ReadAnyTitle ==
    /\ ReadLine({"packed", "encrypted"})
    /\ expect_hex_next' = TRUE
    /\ UNCHANGED <<mpc, current_seq, lora_queue, posts, unhandled>>

ReadTitle ==
    /\ ReadLine({"encrypted"})
    /\ expect_hex_next' = TRUE
    /\ UNCHANGED <<mpc, current_seq, lora_queue, posts, unhandled>>

\* The expected hex line is posted.
ReadHex ==
    /\ expect_hex_next
    /\ ReadLine(HexLines)
    /\ expect_hex_next' = FALSE
    /\ mpc' = "post"
    /\ posts' = Append(posts, [seq |-> current_seq, of |-> line[1], hex |-> Lines[line[2]]])
    /\ unhandled' = unhandled \cup {Len(posts')}
    /\ UNCHANGED <<current_seq, lora_queue>>

\* Lines the loop looks at in vain.  (The line after the ciphertext's title is
\* always hex, so the reset of expect_hex_next at any other is never needed.)
ReadOther ==
    /\ ~expect_hex_next
    /\ ReadLine({"packed"} \cup HexLines)
    /\ UNCHANGED <<mpc, current_seq, expect_hex_next, lora_queue, posts, unhandled>>

ReadFrame ==
    /\ ~expect_hex_next
    /\ ReadLine({"frame"})
    /\ lora_queue' = IF Gateway THEN Append(lora_queue, line[1]) ELSE lora_queue
    /\ UNCHANGED <<mpc, current_seq, expect_hex_next, posts, unhandled>>

\* Mutant of PostReturns: a request that timed out is posted again.
PostRetried ==
    /\ mpc = "post"
    /\ IF Len(posts) \in unhandled /\ Len(posts) <= NumReadings
       THEN /\ posts' = Append(posts, posts[Len(posts)])
            /\ unhandled' = unhandled \cup {Len(posts')}
            /\ UNCHANGED <<mpc, packets_sent>>
       ELSE /\ mpc' = "read"
            /\ packets_sent' = packets_sent + 1
            /\ UNCHANGED <<posts, unhandled>>
    /\ UNCHANGED <<consoleVars, lora_queue, stop_event, otherVars, unhandledSms, rows>>

\* Mutant of PostReturns: without the timeout.
PostWaits ==
    /\ mpc = "post" /\ Len(posts) \notin unhandled
    /\ mpc' = "read"
    /\ packets_sent' = packets_sent + 1
    /\ UNCHANGED <<consoleVars, lora_queue, stop_event, otherVars, posts, serverVars>>

\* post_ingest returns, with an answer or after five seconds; either counts.
PostReturns ==
    /\ mpc = "post"
    /\ mpc' = "read"
    /\ packets_sent' = packets_sent + 1
    /\ UNCHANGED <<consoleVars, lora_queue, stop_event, otherVars, posts, serverVars>>

\* Steps of the end, from one call of main to the next.
Ends(here, next) ==
    /\ mpc = here
    /\ mpc' = next
    /\ UNCHANGED <<consoleVars, packets_sent, lora_queue, posts, serverVars>>

\* Ctrl+C, or the end of the collector's console.
Interrupt ==
    /\ Ends("read", "stop") \/ Ends("post", "stop")
    /\ UNCHANGED <<stop_event, otherVars>>

\* Without a gateway nothing is left to end.
Return ==
    /\ ~Gateway
    /\ Ends("stop", "ended")
    /\ UNCHANGED <<stop_event, otherVars>>

SetStop ==
    /\ Gateway
    /\ Ends("stop", "terminate")
    /\ stop_event' = TRUE
    /\ UNCHANGED otherVars

\* Mutant of Terminate: wait without a timeout, and no kill.
TerminateWaits ==
    /\ ~gwAlive
    /\ Ends("terminate", "join")
    /\ UNCHANGED <<stop_event, otherVars>>

\* terminate, wait, and kill after three seconds: the gateway is gone.
Terminate ==
    /\ Ends("terminate", "join")
    /\ gwAlive' = FALSE
    /\ UNCHANGED <<stop_event, feederVars, rpc, gwCycle, gwIn, gwOut, smsPosts>>

\* gw_thread.join(timeout=3), and main returns.
Join ==
    /\ Ends("join", "ended")
    /\ UNCHANGED <<stop_event, otherVars>>

Main ==
    \/ ReadSeq
    \/ ReadTitle
    \/ ReadHex
    \/ ReadOther
    \/ ReadFrame
    \/ PostReturns
    \/ Return
    \/ SetStop
    \/ Terminate
    \/ Join

-----------------------------------------------------------------------------
(* The feeder thread.                                                      *)

\* while not stop_event.is_set(); after it, stdin_writer.close().
FeederTest ==
    /\ fpc = "test"
    /\ fpc' = IF stop_event THEN "closed" ELSE "get"
    /\ UNCHANGED <<hex_str, lora_queue>>

\* Mutant of FeederGet: the newest frame first.
FeederGetNewest ==
    /\ fpc = "get" /\ lora_queue # << >>
    /\ hex_str' = lora_queue[Len(lora_queue)]
    /\ lora_queue' = SubSeq(lora_queue, 1, Len(lora_queue) - 1)
    /\ fpc' = "write"

FeederGet ==
    /\ fpc = "get" /\ lora_queue # << >>
    /\ hex_str' = Head(lora_queue)
    /\ lora_queue' = Tail(lora_queue)
    /\ fpc' = "write"

\* Mutant of FeederEmpty: queue.Empty is not caught and ends the thread.
FeederEmptyEnds ==
    /\ fpc = "get" /\ lora_queue = << >>
    /\ fpc' = "dead"
    /\ UNCHANGED <<hex_str, lora_queue>>

\* Half a second without a frame: queue.Empty.
FeederEmpty ==
    /\ fpc = "get" /\ lora_queue = << >>
    /\ fpc' = "test"
    /\ UNCHANGED <<hex_str, lora_queue>>

\* Mutant of FeederWrite: write does not wait for room.
FeederWriteAnyway ==
    /\ fpc = "write" /\ gwAlive
    /\ gwIn' = Append(gwIn, hex_str)
    /\ hex_str' = 0
    /\ fpc' = "test"
    /\ UNCHANGED lora_queue

\* write and flush block while the pipe is full.
FeederWrite ==
    /\ fpc = "write" /\ gwAlive /\ Len(gwIn) < PipeSize
    /\ gwIn' = Append(gwIn, hex_str)
    /\ hex_str' = 0
    /\ fpc' = "test"
    /\ UNCHANGED lora_queue

\* The gateway is gone: write raises, and nothing catches it.
FeederBreaks ==
    /\ fpc = "write" /\ ~gwAlive
    /\ fpc' = "dead"
    /\ UNCHANGED <<hex_str, lora_queue>>

Feeder ==
    /\ Running
    /\ \/ FeederWrite
       \/ (FeederTest \/ FeederGet \/ FeederEmpty \/ FeederBreaks) /\ UNCHANGED gwIn
    /\ UNCHANGED <<mainVars, stop_event, rpc, gwAlive, gwCycle, gwOut, posts, serverVars,
                   smsPosts>>

-----------------------------------------------------------------------------
(* The gateway reader thread, and the world around the program.            *)

ReadSms ==
    /\ rpc = "read" /\ gwOut # << >>
    /\ smsPosts' = Append(smsPosts, Head(gwOut))
    /\ unhandledSms' = unhandledSms \cup {Len(smsPosts')}
    /\ gwOut' = Tail(gwOut)
    /\ rpc' = "post"

\* post_sms returns, with an answer or after five seconds; the server may still
\* have to handle the request (Sms).
SmsReturns ==
    /\ rpc = "post"
    /\ rpc' = "read"
    /\ UNCHANGED <<gwOut, smsPosts, unhandledSms>>

\* The end of the gateway's console, then feeder.join(timeout=2).
GatewayGone ==
    /\ rpc = "read" /\ gwOut = << >> /\ ~gwAlive
    /\ rpc' = "join"
    /\ UNCHANGED <<gwOut, smsPosts, unhandledSms>>

JoinFeeder ==
    /\ rpc = "join"
    /\ rpc' = "ended"
    /\ UNCHANGED <<gwOut, smsPosts, unhandledSms>>

Reader ==
    /\ Running
    /\ ReadSms \/ SmsReturns \/ GatewayGone \/ JoinFeeder
    /\ UNCHANGED <<mainVars, lora_queue, stop_event, feederVars, gwAlive, gwCycle, gwIn,
                   posts, unhandled, rows>>

\* The gateway hears a frame and sends it.
GatewayCycle ==
    /\ gwAlive /\ gwIn # << >> /\ gwCycle < NumCycles
    /\ gwCycle' = gwCycle + 1
    /\ gwOut' = Append(gwOut, Head(gwIn))
    /\ gwIn' = Tail(gwIn)
    /\ UNCHANGED <<mainVars, lora_queue, stop_event, feederVars, rpc, gwAlive, posts,
                   serverVars, smsPosts>>

\* Its emulator ends: by itself, or by the Ctrl+C that also reaches it.
GatewayExits ==
    /\ gwAlive
    /\ gwAlive' = FALSE
    /\ UNCHANGED <<mainVars, lora_queue, stop_event, feederVars, rpc, gwCycle, gwIn, gwOut,
                   posts, serverVars, smsPosts>>

\* The server handles a post to /ingest, maybe long after the bridge gave up on
\* it.  force=true: it stores whatever parses, and only a ciphertext under its
\* own number does.  (A database that fails is SimApp's matter.)
Ingest(i) ==
    /\ unhandled' = unhandled \ {i}
    /\ rows' = IF posts[i].hex = "ciphertext" /\ posts[i].seq = Number(posts[i].of)
               THEN rows \cup {[path |-> "ingest", post |-> i, slot |-> 0, of |-> posts[i].of]}
               ELSE rows
    /\ UNCHANGED <<mainVars, lora_queue, stop_event, otherVars, posts, unhandledSms>>

\* The halves of a frame that the server can read: its search for the number of
\* a half starts at 0, and a wrong guess ends it.  The first frame has no second.
FoundSlots(frame) == { s \in 0 .. 1 : frame - s > 0 /\ Number(frame - s) = 0 }

\* It handles a post to /sms: every half found is stored, whatever is stored of
\* this reading already.
Sms(k) ==
    /\ unhandledSms' = unhandledSms \ {k}
    /\ rows' = rows \cup { [path |-> "sms", post |-> k, slot |-> s, of |-> smsPosts[k] - s] :
                              s \in FoundSlots(smsPosts[k]) }
    /\ UNCHANGED <<mainVars, lora_queue, stop_event, otherVars, posts, unhandled>>

Next ==
    \/ Main
    \/ Interrupt
    \/ Feeder
    \/ Reader
    \/ GatewayCycle
    \/ GatewayExits
    \/ \E i \in unhandled : Ingest(i)
    \/ \E k \in unhandledSms : Sms(k)

Spec ==
    /\ Init /\ [][Next]_vars
    /\ WF_vars(Main) /\ WF_vars(Feeder) /\ WF_vars(Reader) /\ WF_vars(GatewayCycle)

-----------------------------------------------------------------------------

Frames == 1 .. NumReadings

\* A row tells the path and the post it came by, the half, and the reading.
Row == [path : {"ingest", "sms"}, post : Frames, slot : 0 .. 1, of : Frames]

RowsOK ==
    /\ rows \subseteq Row
    /\ \A r \in rows :
          r.post \in IF r.path = "ingest" THEN DOMAIN posts \ unhandled
                                         ELSE DOMAIN smsPosts \ unhandledSms

TypeOK ==
    /\ mpc \in {"read", "post", "stop", "terminate", "join", "ended"}
    /\ line \in (1 .. NumReadings + 1) \X (1 .. Len(Lines))
    /\ current_seq \in 0 .. SeqMod - 1 /\ packets_sent \in 0 .. NumReadings
    /\ expect_hex_next \in BOOLEAN /\ stop_event \in BOOLEAN /\ gwAlive \in BOOLEAN
    /\ fpc \in {"test", "get", "write", "closed", "dead", "none"}
    /\ hex_str \in Frames \cup {0}
    /\ rpc \in {"read", "post", "join", "ended", "none"}
    /\ gwCycle \in 0 .. NumCycles
    /\ \A q \in {lora_queue, gwIn, gwOut, smsPosts} : q \in Seq(Frames)
    /\ Len(gwIn) <= PipeSize
    /\ posts \in Seq([seq : 0 .. SeqMod - 1, of : Frames, hex : HexLines])
    /\ unhandled \subseteq DOMAIN posts /\ unhandledSms \subseteq DOMAIN smsPosts
    /\ RowsOK

\* What goes to /ingest is the ciphertext of a reading, under the number of
\* this reading, reading after reading, though number and hex come from
\* different lines and the payload in the clear is printed between them.
IngestMatches ==
    \A i \in DOMAIN posts :
        /\ posts[i].hex = "ciphertext"
        /\ posts[i].seq = Number(posts[i].of)

\* force=true switches dedup off and /sms has none, and no row is unique by the
\* schema: a reading may be stored by /ingest, by its own frame and by the half
\* that repeats it in the next.  None of the three ever stores it twice: what
\* timed out here may still be stored there, so it must not be posted again, and
\* no thread or pipe may pass a frame on twice.
StoredOncePerPath ==
    \A a, b \in rows :
        a.path = b.path /\ a.slot = b.slot /\ a.of = b.of => a = b

\* The frames on their way through queue, feeder, pipe, gateway and reader,
\* with those already posted to /sms, are at any time all frames queued so
\* far, each once and in order: no thread loses, repeats or overtakes one.
PipelineInOrder ==
    LET inHand == IF hex_str = 0 THEN << >> ELSE <<hex_str>>
        chain == smsPosts \o gwOut \o gwIn \o inHand \o lora_queue
    IN /\ \A i \in DOMAIN chain : chain[i] = i
       /\ Len(chain) = IF Gateway THEN line[1] - 1 ELSE 0

\* While the program and the gateway run, a frame that is queued reaches
\* /sms: an idle queue or a full pipe holds it up, no more.
FramesReachCloud ==
    \A n \in (1 .. NumCycles) \cap Frames :
        [](n \in {lora_queue[i] : i \in DOMAIN lora_queue} =>
               <>(n \in {smsPosts[i] : i \in DOMAIN smsPosts}
                    \/ ~gwAlive \/ stop_event))

\* A cloud that does not answer holds up no reading: unless interrupted, the
\* bridge posts them all.
EveryReadingPosted ==
    <>(packets_sent = NumReadings \/ mpc \notin {"read", "post"})

\* Whatever the gateway, the feeder and the cloud do, an interrupted bridge ends.
InterruptedEnds == mpc = "stop" ~> mpc = "ended"

=============================================================================
