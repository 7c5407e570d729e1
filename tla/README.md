# SenseGate: models, checks and proofs

TLA+ specifications of the SenseGate pipeline: a data collector node that reads
a machine's PLC and transmits encrypted frames over LoRa, gateway nodes that
relay them through a cellular modem, and a cloud server that stores them. Paths
below are relative to the repository (`src/` in `PROJECT.json`).

## 1. Inventory

| Part | Source | State | Operations |
|---|---|---|---|
| Store-and-forward ring | `lib/store_forward.c` | `buffer`, `head`, `tail`, `count` (RAM) | `sf_init`, `sf_write`, `sf_read` |
| Rolling redundancy | `lib/rolling_buffer.c` | `previous`, `has_previous` (RAM) | `rolling_buffer_init`, `rolling_buffer_build` |
| Collector | `node_collector/src/main.c`, `test_runner.c`, `hal_sim.c` | `global_seq`, loop positions, both buffers above | `hal_init`, per reading: pack, encrypt, build, store, transmit |
| Gateway | `node_gateway/src/main.c`, `role_election.c`, `hal_lora.c` | role, cycle, the ring, two stack buffers | `hal_init`, election, receive, store, drain, send |
| Payload codec | `lib/payload_packer.c`, `cloud/lambda/payload_parser.py` | none | pack, unpack, parse, CRC16 |
| AES-128-CTR | `lib/aes_ctr.c`, `hal_sim.c` (nonce), `cloud/lambda/aes_decrypt.py` | `round_key`, `initialized` | init, crypt, nonce |
| Machine simulator | `node_collector/src/modbus_sim.c`, `hal_sim.c` (`hal_sensor_read`) | `sim_regs` | init, tick, read |
| Cloud server (as run) | `cloud/lambda/sim_app.py`, `cloud/database/schema.sql` | one shared connection `_db_conn` and its transaction; two tables | `/ingest`, `/sms`, `/readings`, `/summary` |
| Twilio webhook | `cloud/lambda/handler.py`, `app.py` | `_db_conn` reused, `sequence_log` | signature, sequence recovery, dedup, insert |
| QEMU bridge | `sim_bridge.py` | a queue, two threads, `stop_event`, the last `TX #` | read a firmware line, post, feed the gateway |
| Serial bridge | `hw_bridge.py` | the last `TX #` | read a line, post |
| Unused or passive | `hal_hw.c`, the collector's `hal_lora.c`, the gateway's `hal_sim.c`, Grafana, docker, seed data | | |

How they meet: the collector's frame is the current and the previous ciphertext.
The radio is a one-way broadcast without acknowledgement; a gateway hears it only
while it is inside `hal_radio_rx`. The gateway never decrypts. The master hands
frames to the modem; the cloud decrypts both halves. With the bridge, the same
readings also reach the cloud by `/ingest`. The server stores what it reads of either
path: a reading may have a row by `/ingest` and one by each of the two halves that
carry it.

What makes each part correct, and what is hard about it:

- *Ring*: oldest frame first, and full and empty answered exactly when they hold;
  three redundant variables wrap independently.
- *Collector*: a frame repeats exactly the reading of the frame transmitted before
  it, over the wrap of the 16-bit number, with the store full and after a reset
  between any two steps.
- *Gateway*: frames leave in order, each once; a full store must not stop the
  master; the role is read once while the SIM card may move; the drain and the loop
  end.
- *Site*: a reading is lost only when both frames that carry it are.
- *Cipher*: the cloud opens both halves of a frame, with AES from another library; no
  two blocks of a boot share a counter.
- *Serial bridge*: number and frame come on different lines of a line that loses
  characters; damage must not spread to other readings.
- *QEMU bridge*: number and ciphertext are told apart from the lines around them; three
  threads pass frames on without losing, repeating or overtaking one; a post that timed
  out may still be stored, so it must not be repeated; a dead gateway or a silent cloud
  holds up neither the readings nor the end.
- *Server*: threads share one transaction, so a commit or a rollback is never of a
  thread's own statements alone; the database may fail at any call.

`PROJECT.json` lists the hazards at their lines with the properties that cover them.

## 2. Modules

| Module | Models | Relation to the others |
|---|---|---|
| `BoundedFifo` | what a bounded FIFO promises | abstract specification |
| `StoreForward` | `lib/store_forward.c` | implements `BoundedFifo` (refinement `Fifo`) |
| `Collector` | the collector node | its flash is the FIFO that `StoreForward` implements |
| `Gateway` | any number of gateway nodes | likewise |
| `Field` | one collector, its gateways, radio and network | `INSTANCE`s of `Collector` and `Gateway` |
| `SimApp` | request threads, shared connection, database | separate: the cloud side |
| `Bridge` | `sim_bridge.py`, with `--gateway` and without: three threads, two emulators, HTTP | sees `Gateway`'s master from outside, one frame in and out per cycle |
| `Payload` | the payload codec in C and Python, the reading generator | pure functions, a machine of four steps around them |
| `Sensor` | the machine's registers and `hal_sensor_read` | extends `Payload`, a second source of readings |
| `AesCtr` | `lib/aes_ctr.c` and the nonce, byte by byte | pure functions |
| `StdAes` | AES and CTR by their definition, the cloud's library | reference for `AesCtr` |
| `CipherLink` | bytes of a frame from packing to the cloud's decryption | extends both; shows what `Collector` takes a ciphertext to be |
| `HwBridge` | `hw_bridge.py` on a serial line | extends `Collector` with its console |
| `Webhook` | `handler.py` up to where every event ends | separate |
| `StoreForwardProofs`, `GatewayProofs`, `CollectorProofs`, `CipherLinkProofs`, `FieldProofs`, `SimAppProofs`, `BridgeProofs`, `PayloadProofs` | theorems for all constants | extend their module (`CollectorProofs` extends `HwBridge`, `PayloadProofs` `Sensor`) |
| `MCStoreForward`, `MCCollector`, `MCGateway`, `MCField`, `MCSimApp`, `MCBridge`, `MCPayload`, `MCCipherLink` | small instances | extend their module (`MCCollector` extends `HwBridge`, `MCPayload` `Sensor`) |

**State and actions against the code.** In `StoreForward` the variables are the C
statics, and `ret` is what the last call answered; `SfWriteOk`/`SfWriteFull` and
`SfReadOk`/`SfReadEmpty` are the branches of the two functions. Only `sf_init`
zeroes the array, as in C: what a read leaves in its slot stays there.

In `Collector` `pc` names the step of `on_tx` about to run. A ciphertext is the
record of what was packed: the nonce is derived from device and sequence number, and
CTR under one nonce is a bijection. `global_seq` is taken modulo `SeqMod`; the
timestamp is a function of it, as in `test_runner_run`. The PLC values are a small
set. `Reset` can happen before any step and loses everything.

In `HwBridge` each step of the collector that prints a line the bridge looks for appends
it to `console`, unharmed, mangled or not at all. A cut decimal number is a smaller one;
a damaged frame is skipped or fails the server's checksum, so it counts as `missed`.
`hw_seq` is `seq` of `run`; `damage` and `missed` are ghosts. The server of this model
stores a frame exactly when it opens under the number it was posted with, which
`CipherLink` and `Payload` justify. A serial error ends the program and is left out.

In `CipherLink` a byte is the set of its one bits and a block a sequence of 16 bytes.
`AesCtr` follows the C functions one by one, tables included; the recursion over rounds
and blocks is written with recursive functions. `StdAes` computes the S-box as inverse
and affine map and multiplies in GF(2^8), so an error in a table of `AesCtr` is a
difference between the two. Behaviours start at power-on, or in a node that has
already sent readings up to a number near a carry (`Joined`).

In `Sensor` `sim_regs` are the 14 registers; `Poll` is `modbus_sim_tick` followed by
`hal_sensor_read`. `Machine` states what the machine did without any register or field.

In `Webhook` `db_conn` also says whether the reused connection is in a failed
transaction. A ciphertext is the function from the number guessed to the number read.
The byte positions 26 and 27 are compared with `PAYLOAD_SIZE`: no event passes.

In `Gateway` each variable is a function of the node. `pc` names the call `main`
makes next: `rx`, `write`, `drain` (the `hal_flash_read` in the loop's condition) and
`send`. `continue` and the end of the loop body are both `EndCycle`. `simDetect` is
what `hal_get_role` answers: `sim_role` in `hal_lora.c`, which `hal_sim_set_role` sets
and which is to become the SIM_DETECT pin. In the build as it stands nobody calls
`hal_sim_set_role`, so every node is elected master; the model also covers slaves,
because `role_election.c` and `main.c` do. `accepted`, `handed` and `delivered` are
ghosts, since boot.

In `Field` a transmission reaches any set of gateways that are in `rx` at that
moment. `air` records every transmission with the masters that heard it, and `died`
the frames that a reset or an outage destroyed inside a master. `CloudFromAir` does not
compare sequence numbers, which start over at a wrap and at a reset: it asks for a strictly
increasing series of heard transmissions that are the delivered frames (`HeardInOrder`).

In `SimApp` each request is a thread and each psycopg2 call is one step. A
connection has psycopg2's view (`closed`, `begun`) and the server's (`alive`,
`aborted`, uncommitted `rows` and `log`). A dead session is noticed only by a failed
call; the commit of an aborted transaction is a rollback that does not raise; an
insert into the log waits for another transaction's entry with the same key; `autocommit`
cannot be set inside a transaction, not even to the value it has (`GetDbConfigure`). These
are PostgreSQL's and psycopg2's behaviours, marked external in the map. One device is
modelled: the dedup key is then the sequence number.

In `Bridge` `mpc`, `fpc` and `rpc` are the places of the main thread, the feeder and the
gateway reader. The collector's console is the fixed list `Lines` of what it prints for
a reading, read one line at a time; a reading is its place there, and `Number` its
sequence number, which wraps at `SeqMod`. A post leaves a request in
`unhandled` (`/ingest`) or `unhandledSms` (`/sms`), which the server may handle at any
later time or never (`Ingest`, `Sms`); `post_ingest` and `post_sms`
return at any time, which is an answer or the five-second timeout. `rows` is
`sensor_readings`, each row with the path, the post and the half it came by. `Sms` stores
every half whose number the search from 0 finds (`FoundSlots`), also when the reading has
rows already (`sim_app.py:221`); a frame repeats the reading before it, so reading 1, number 0,
gets one row by `/ingest`, one by the first SMS and one by the second. `StoredOncePerPath`
allows these three and says that none of them is ever there twice: with `force=true`, an
unconditional insert and no unique column in `schema.sql`, only what the bridge posts
decides that. The gateway's stdin
is a pipe of `PipeSize` lines in which `write` blocks, and raises once the process is
gone. When `main` returns the daemon threads are gone (`Running`). Without `--gateway` the
other threads never start (`Gateway` is false) and nothing is queued.

In `Payload` a number is the set of the weights of its one bits and a payload the set of
the positions of its one bits, so shifts and masks are set operations and no width is
lost. `PackTerms` and `UnpackTerms` have one row per term of the C source, with its
byte, shifts and mask; `Layout` is the table of the Python side. Noise on the radio
flips bits of the ciphertext, which CTR passes on to the same bits of the payload.

## 3. Runs

Every passing run finishes within four minutes.

| Run | Bounds | Shows |
|---|---|---|
| `store_forward` | 3 slots, 2 packets | index and count stay consistent, and the ring is a bounded FIFO |
| `collector` | numbers modulo 4, two scenarios, 2 slots, two values, 2 console lines, 2 damages | frames carry consecutive readings one interval apart, repeat the frame sent last, the flash keeps the first frames, every reading is sent; damage on the serial line costs one reading each |
| `gateway` | 1 node, 2 slots, 4 cycles, 2 frames | order, roles, drops, the drain ends, the loop ends |
| `gateway_outage` | the same | **violated**: "Data is preserved during cellular outages" (`README.md:111`) |
| `field` | 2 gateways, 2 cycles, 1 slot, 2 readings, 1 collector reset, 1 gateway fault | a reading survives one lost frame; only what was transmitted reaches the cloud, in order; what a master heard arrives |
| `simapp` | 2 requests, 2 threads, 2 numbers, 2 faults | answers are true and row and log agree, short of a fault or a clash over a new connection within an overlap; without an overlap no duplicate among posts to `/ingest` without force, and one fault costs one reading; every request is answered |
| `bridge` | 3 readings, numbers modulo 2, 2 cycles, a pipe of 1 line | hex and number match, no reading stored twice by `/ingest` or twice by the same half of an SMS, no frame lost or overtaken, frames arrive, a silent cloud blocks nothing, an interrupt ends the program |
| `payload` | extremes of every scenario and field, 5 burst shapes at 200 positions | both codecs agree bit by bit, readings survive, bursts are caught, polled readings arrive as the machine's |
| `cipher` | 3 recorded readings, numbers around every carry and the wrap, 2 readings and a reset | the cloud opens both halves, no counter repeats, the ciphertexts are those of `test_decrypt.py` |
| `simapp_lost` | 2 threads, no fault | **violated**: a forced reading answered stored is in the DB (`sim_bridge.py:11`) |
| `webhook` | numbers modulo 3, 2 iterations | **violated**: the search for the number "Returns (seq, plaintext_28) or None" (`handler.py:74`) |
| `simapp_sms` | 1 thread | **violated**: the SMS search converges (`sim_app.py:202`) |

**Why the bounds are enough.** The ring's behaviour depends on the position of the
indices only through the wrap, and three slots have every combination of full, empty
and wrapped; the proofs remove the bound. Four numbers wrap while the scenarios are in
their second round, and two slots fill before that; with two lines under way and two
damages both numbers of a reading can be lost and a stale one kept over a reset or the wrap. Four cycles against two slots let a slave
fill its store and drop frames twice; one gateway suffices there because nodes share
nothing, and `Field` has two. Two readings in `Field` are one frame and the frame that
repeats it; the role mix, resets and losses are free. Two requests over two numbers
give a first sending and a resend or a bystander, one after the other or overlapping;
the ghost `overlapped` tells which, and the properties that an overlap breaks are
conditional on it (with a fault, `FaultsOrThreads`), as the violations show they must
be. Three readings in `Bridge` leave one more than the gateway's cycles, so a frame
stays in the pipe, one in the feeder's hand and the queue fills; two numbers wrap at the
third reading, and the two frames that arrive both carry reading 1. In `Payload` each field
is tested with all its bits alone and with all but its bits, in the width of its C type,
which shows any bit of a term that lands outside its field; the checksum is linear, so
what noise it catches does not depend on the reading. The polls of `Sensor` are
around every step of a register and both sides of the point where the running time outgrows
its field. Here too the proofs remove the bound. In `cipher` the numbers are those where a byte of the nonce changes, and two
readings make one frame with both halves; the proof covers every number, key and payload. `MaxConns` is not lower than the number
of connections any behaviour within the fault bound opens: were it not, a thread would
stop before connecting and `EveryRequestAnswered` would fail. Deadlock is checked
except for `Field`, `SimApp` and `Bridge`, which may stop, their inputs being bounded or their program over.

**Fairness.** The collector's and the gateways' programs are weakly fair: they are
single-threaded loops whose calls return (`lora_recv` has a timeout). Each request
thread is weakly fair: the operating system schedules it, and in psycopg2 a waiting
call proceeds when the lock is released. Resets, the network, SIM moves, arrivals and
faults are never fair. In `Bridge` the three
threads and the gateway are weakly fair, the server, the interrupt and the end of the
emulator never; the collector's emulator is taken to end when terminated, since
`sim_bridge.py:235` waits for it without a timeout. The collector's program and the bridge's on the serial line are weakly fair, the
damage is not. In QEMU `fgets` on stdin blocks instead of timing out; the
fairness of `ReceiveFails` then stands for the end of the input.

**What the violations mean.** `gateway_outage`: `main.c` removes the frame from the
store before the send and ignores the result. `simapp_lost`: thread A connects and
publishes the connection; thread B uses it and inserts its row; A's `autocommit = False`
raises inside B's transaction, A's except clause rolls it back, and B commits nothing and
answers `stored: true`. A statement that fails in one thread does the same to the other
(not needed here: the run has no fault). `webhook`: bytes 26 and 27 are those of a former
28-byte payload; the IndexError ends the handler, before the linear scan and in it.
`simapp_sms`: a wrong guess fails the CRC and the exception ends the search, so only
number 0 is found.

Statements of the documentation that the code does not meet and that have no run:

- after a reset of the collector the next frame recovers nothing ("the next one
  automatically recovers it", `README.md:98`), which is why `ReadingSurvivesOneLoss` asks
  for two frames of one boot;
- the collector never reads its store back ("Buffer drains automatically",
  `README.md:112`), and a slave never forwards ("Packets forwarded to master via LoRa",
  `role_election.c:30`);
- the machine clock does not advance at the wrap of the sequence number
  ("advance machine clock by SIM_TX_INTERVAL_MS per packet", `test_runner.c:132`); `FramesAreConsecutive` says where it starts over;
- dedup (`schema.sql:47`) does not hold for requests that overlap: both may test before
  either inserts, and `ON CONFLICT DO NOTHING` hides the collision. `SerialDedup` states
  what is left;
- the simulated running time is not a daily sum (`payload_packer.h:17`) and outgrows its
  17 bits; `MachineAsPolled` states what arrives.

## 4. Proofs

`StoreForwardProofs`, for every `MaxSlots \in Nat \ {0}` and any packets:

- `TypeCorrect`, `RingAlwaysConsistent`: by induction; the lemmas bound `%` on a sum
  of an index and at most a ring's length.
- `RingImplementsFifo`: the mapping reads `count` slots from `head`. A write appends
  to this sequence (`WriteAppends`) and a read takes its head (`ReadTakesOldest`);
  every step is a step of `BoundedFifo` or a stutter. `RingConsistent` is the
  strengthening: without it a write could land on a live slot.

`GatewayProofs`, for any set of gateways, any `MaxSlots \in Nat \ {0}`, `NumCycles \in
Nat` and frames other than `NoFrame`: type correctness, `HandedInOrder`,
`RoleGovernsFlash` and `DropsOnlyOnLateSlave`. None is inductive alone. `IInv` adds,
for each node that is on: in its loop the cycle counts (`cycle < NumCycles`, without
which `TypeOK` is not preserved); a frame is in `rx_packet` at `write` and in `out`
exactly at `send` (without which `HandedInOrder` is not preserved); the role is unset
exactly before the election; a slave stores at most one frame per cycle
(`Len(flash) <= cycle`, from which the drop bound follows); a master holds frames only
between `drain` and `send`. `OneNodeEnough` reduces each step to the node that takes
it; there is one lemma per action.

`CollectorProofs`, for any data and loops, any `SeqMod`, `Interval`, `MaxSlots` and console
(all positive) and any bound on the damage: `HwTypeOK`, `FramesAreConsecutive`,
`RepeatsLastSent` and `FlashKeepsFirstFrames` of the collector on its bench. The inductive
`IInv` adds two facts. `NumberInv`: while a reading is drawn the rolling buffer holds the reading sent last and the number in
hand follows it (without which the frame built next need not be consecutive, nor repeat
it); from `build` on, the reading or frame in hand has that number. `FlashInv`: while the
flash has room it holds every frame since boot, so its length and the number agree. That
counting wraps in step with the count (`ModSuccessor`) rests on the uniqueness of
quotient and remainder, proved there. `BenchStepsAreCollectorSteps`: each step of the
bench is a step of the collector or leaves it alone.

In the same module, under the same assumptions: `DamageCostsOneReading` of the bench. It
counts in advance: the readings missed, the frames on the console that will be read under another
number than their own (`Refused`), and the frame in the node's hands if its number was
lost (`Doomed`) are together at most the damage (`DamageInv`). `AppendRefused` and
`TailRefused` say how a line printed and a line read change the count.

`CipherLinkProofs`, for any 16-byte key, any payloads, any set of starting numbers and any
number of readings: `CountersNeverRepeat`, that no two blocks encrypted since boot share a
counter unless they are the same block of the same number. `CountersFresh` says nothing of
where the counters come from; the inductive `CountersInv` adds that each was made from its
number, as nonce (block 0) or the nonce's successor (block 1). Then `CounterTells` finds
number and block again: `WeightsInjective` (a byte's bits determine it), `NonceEndsInZero`
and `NextOfNonce` (the successor of a nonce differs from it in the last byte only).
Nothing is assumed of the block cipher.

`CloudReadsEveryFrame`, in the same module, is `CloudReadsFrame` for the same keys, payloads
and numbers. Its one hypothesis is `SboxAgrees`: the 256 bytes of the table in `aes_ctr.c`
are inverse and affine map of the definition. That is a fact about constants, an evaluation
and not an argument; TLC makes it at every start of the `cipher` run (`SboxAssumption` in
`MCCipherLink`). The rest of AES is proved, for every key and every block:

- *products*: the definition sums over pairs of bits and asks for the parity, C shifts and
  reduces. One more term changes the parity (`OddAdd`, `SumToNext`), so a
  product by 1 is the byte, by x its `xtime` (`XtimeDoubles`), by x + 1 both, and a column
  of `MixColumns` is the definition's, row by row (`MixedIs`);
- *round keys*: C appends 44 words, each from the one before and the one four before; the
  definition makes key after key, each byte a running sum down the column. C's words satisfy
  `Schedule` (`WordsAreSchedule`), a sum with one term more is the next word
  (`SameNextKey`), and the round constants of C are the powers of x (`RconIsPower`), so the
  eleven keys agree (`RoundKeysAre`), by induction over the rounds;
- *rounds*: both are ten steps from the same start, equal step by step (`SameRound`,
  `Follows`), hence the blocks are (`SameBlock`), and `SboxesSuffice` concludes that the
  two block ciphers are the same function (`BlocksAgree`).

From there: the nonce in C is the nonce in Python (`SameNonce`), the two counters and blocks
of a payload are the library's (`TwoBlocks`, `TwoStdBlocks`), the exclusive or undoes itself
(`CloudOpens`), the halves of a frame are cut where they were joined (`Halves`). The
inductive `FrameInv` says that the buffer holds the last payload encrypted under its number,
and the frame the buffer and what it held before; the number before the next is this one,
over the wrap too (`BeforeNext`).

`CipherTypes` is the module's `TypeOK`: round keys, ciphertexts, frames and counters are
bytes and have the length of the C arrays. It uses the lemmas above for what the key
schedule and a block return, and does not need `SboxAgrees`.

`FieldProofs`, for any gateways, data and loops, any `SeqMod` and `MaxSlots` (both
positive), any number of cycles, transmissions, resets and faults:
`ReadingSurvivesOneLoss` and `CloudFromAir`. `IInv` adds four facts. `RollingInv`: the
rolling buffer holds the reading of this boot's last transmission, so the frame under way
repeats it (without which nothing is known of the next frame's second half). `MasterInv`:
a master has at most one frame, in its packet buffer, its flash or its hand, and what it
had at a reset is counted in `died`. `KeptInv`: every frame heard by a master is in the
cloud, in a master or in `died`, so no step of a gateway may lose one unseen. `OrderInv`:
the frame in a master's hand was heard at an index of `air` before which everything delivered finds its place; hence
delivering it prolongs the series (`OrderAppend`), and a longer `air` keeps it
(`OrderGrows`). `NodeKeeps` reduces a gateway's step to the node that takes it.

`SimAppProofs`, for any set of requests, any numbers, connections and faults: `TypeOK`,
`AnswersAreTrue`, `RowAndLogTogether`, `SerialDedup` and `FaultCostsOneReading`. The
assumptions are that sequence numbers and bounds are naturals, that the kinds are the four
the code has, and that `None` is no connection. Three invariants run side by side, because the code
is right for three different reasons. `BaseInv`: types, which variables a thread holds at
which call, and that a connection not yet opened is fresh. `SharedInv`, while nothing
failed and no thread met a connection half configured: every connection is well, a row is
committed or on its request's connection, and an entry of the log comes with its row,
whoever commits. `SerialInv`, while no requests overlap: at most one thread is active, all
that is uncommitted is its own and on the connection the next request would use, and a dead
or aborted connection holds nothing; so the log is exact whenever the next `SELECT` reads it.
`CostInv` counts: the readings failed, the thread that is failing (`Busy`) and a connection
that will fail the next one (`Broken`) are together at most the faults. `Goes` and `Raise`
say what a step does to threads, apart from the nested records of the connections.

`BridgeProofs`, for any `NumReadings`, `NumCycles`, positive `PipeSize`, with `--gateway` and
without: `TypeOK`, `IngestMatches`, `StoredOncePerPath` and `PipelineInOrder`, for any
positive `SeqMod` too. `MainInv`: what
main remembers (`current_seq`, `expect_hex_next`) follows from the line it reads next.
`PostsInv`: there is one request to `/ingest` for each ciphertext read, the i-th for reading i.
`RowsInv`: a row by `/ingest` is of the reading its post is of, a row by half s of the k-th post to
`/sms` of reading k - s, since by `OrderInv` this post carries frame k (`SmsPostsInOrder`). So path,
half and reading determine the post, and a post is handled once: the server's order and the
timeouts do not matter.
`HandInv`: the feeder has a frame while it writes and none when it asks for the next. `OrderInv`: the i-th frame of
the chain from `smsPosts` back to `lora_queue` is frame i, and the chain is as long as the
readings begun before this line. There is a lemma for each step; a step of a thread moves a
frame between neighbours in the chain, which leaves the chain as it was (`SameChain`).

`PayloadProofs`, for any readings in the width of their C types, any noise bursts within 16
bits, any polled numbers of 16 bits and any base time below 2^31 for all of them:
`SensorTypeOK`, `PackersAgree`, `ReadingSurvives`, `BurstCaught` and `MachineAsPolled`. The
inductive `SensorInv` says what each of the four stages leaves behind. Below it are four
arguments:

- *layout*: field by field, where the terms of C put a bit of a value, that no other field
  puts one there, and that the terms of the unpacking and the table of Python take it back;
- *checksum*: the value of C (mask in every turn) and of Python (mask once per byte) is the
  last of 23 registers; the registers of a disturbed and of an undisturbed payload differ by
  registers made from the noise alone, and a burst leaves the last of them other than zero:
  from a zero at the end one would get back, turn by turn, to a zero at the burst;
- *numbers*: a number below 2^n is the sum of the weights of its bits, recovered one weight
  at a time;
- *recursive functions*: `LeastElement`, `Climb` and `StepByStep` give existence and
  properties of a function defined by steps over a range, in place of the induction
  theorems that take an operator (`CipherLinkProofs` has its own, for rounds and words).

Only model-checked, and why:

- liveness (`MasterDrains`, `LoopEnds`, `EveryReadingSent`, `HeardReachesCloud`,
  `EveryRequestAnswered`, `FramesReachCloud`, `EveryReadingPosted`, `InterruptedEnds`), which
  the provers do not reach;
- of `CipherLink`, `AsRecorded` and the hypothesis `SboxAgrees`: evaluations of AES on three
  recorded readings and of a table of 256 bytes, which TLC makes and no prover needs to.

## 5. Not modelled

The CRC's detection power beyond short bursts, radio timing and the JSON and HTML around
requests; the accidental pass of a wrong CRC (1 in 65536) in the SMS search; several
devices at the server (the bridge's `--device-id` is the collector's, and `/sms` takes an
unknown sender for device 1). Of the bridge's posts, the timeout stands for an end of the
wait: `urlopen`'s five seconds are per socket operation, and reading the body of an error
answer (`sim_bridge.py:87`) might raise. How many frames a gateway hears in its cycles is
the radio's affair: on hardware it may end without one, since a reception that times out
uses up a cycle; `LoopEnds` only says that it ends. `hal_hw.c` and the collector's `hal_lora.c` are not built and do not
compile against `hal.h` (they return `HAL_*`, it declares `SG_HAL_*`); the gateway's
`hal_sim.c` is replaced by `hal_lora.c` in `CMakeLists.txt`. What `handler.py` does after the
search is unreachable (its insert, at line 182, would also miss the columns
`pallet_rotations`, `program_number` and `pallet_perimeter`, which `schema.sql` declares NOT NULL).

Four listed hazards have no property. Unforced posts of one reading to `/ingest` that overlap
(`sim_app.py:131`): the code stores both, and `SerialDedup` is about the rest of dedup, faults
and resends one after the other. A gateway that receives a frame shorter than 50
bytes (`hal_lora.c:124` does not compare the length): the only transmitter sends 50. The
aborted transaction that `handler.py:236` leaves on the reused connection: no statement
follows. The dedup log that never forgets a number (`sim_app.py:54`): both bridges post with
force.

## 6. Plan

Done: ring, collector, gateway, site, server, QEMU bridge, codec, cipher, machine
simulator, serial bridge, webhook as far as it runs; proofs of ring, gateway, collector,
serial bridge, codec and machine simulator, counters, AES against its definition, decryption, site, server and QEMU bridge.

Next: the abstract specification of a site (a lossy channel that delivers in order) and
`Field` as its implementation, from the lemmas `FieldProofs` has.
