------------------------------- MODULE Sensor -------------------------------
(***************************************************************************)
(* The machine's controller as modbus_sim.c plays it, and hal_sensor_read  *)
(* of hal_sim.c, which polls it over 16-bit registers: a third source of   *)
(* readings for pack_payload.  (In the build test_runner.c fills the       *)
(* readings itself and nothing calls hal_sensor_read; here a node gets all *)
(* its readings from one of the two.)                                      *)
(***************************************************************************)
EXTENDS Payload

CONSTANTS
    Polled,     \* the sequence numbers polled
    BaseTs      \* SIM_BUILD_TS

UINT16_MAX == 65535

ASSUME PolledAssumption == Polled \subseteq 0 .. UINT16_MAX
ASSUME BaseTsAssumption == BaseTs \in Nat /\ BaseTs + 60 * UINT16_MAX <= 2147483647

VARIABLE sim_regs   \* MB_REG_...: the holding registers 40001 to 40014

sensorVars == <<vars, sim_regs>>

LowByte(n) == n % 256

High(n) == (n \div 65536) % 65536
\* Mutant of Low: the mask is forgotten.
LowUnmasked(n) == n

Low(n) == n % 65536

\* Mutant of Join: the high word is not moved far enough.
JoinByte(high, low) == 256 * high + low

\* (uint32_t)high << 16 | low
Join(high, low) == 65536 * high + low

Registers(state, pallet_id, wrap_time, wrap_transit, rotations, program, run_s, alarm_s, ts) ==
    [STATE |-> state, PALLET_HIGH |-> High(pallet_id), PALLET_LOW |-> Low(pallet_id),
     WRAP_TIME |-> wrap_time, WRAP_TRANSIT |-> wrap_transit, ROTATIONS |-> rotations,
     PROGRAM |-> program, PERIMETER |-> 3, RUN_HIGH |-> High(run_s), RUN_LOW |-> Low(run_s),
     ALARM_HIGH |-> High(alarm_s), ALARM_LOW |-> Low(alarm_s),
     TS_HIGH |-> High(ts), TS_LOW |-> Low(ts)]

\* modbus_sim_init
Registers0 == Registers(30, 159307, 458, 710, 15, 0, 4000, 0, BaseTs)

\* modbus_sim_tick
Ticked(seq) ==
    Registers(IF seq % 20 < 10 THEN 30 ELSE 31, 159307 + seq \div 10, 450 + (seq % 30),
              700 + (seq % 50), 820 + (seq % 20), 15, 60 * seq,
              IF seq > 5 THEN 2 * (seq - 5) ELSE 0, BaseTs + 60 * seq)

\* What hal_sensor_read makes of the registers (modbus_sim_read_registers hands
\* over all of them), with the number and the device that on_tx adds.
HalSensorRead(regs, seq) ==
    LET number ==
            [state |-> LowByte(regs.STATE), pallet_id |-> Join(regs.PALLET_HIGH, regs.PALLET_LOW),
             wrap_time |-> regs.WRAP_TIME, wrap_transit |-> regs.WRAP_TRANSIT,
             rotations |-> regs.ROTATIONS, program |-> LowByte(regs.PROGRAM),
             perimeter |-> regs.PERIMETER, running |-> Join(regs.RUN_HIGH, regs.RUN_LOW),
             alarm |-> Join(regs.ALARM_HIGH, regs.ALARM_LOW),
             timestamp |-> Join(regs.TS_HIGH, regs.TS_LOW), seq_number |-> seq, device_id |-> 1]
    IN [f \in Field |-> Bits(number[f])]

-----------------------------------------------------------------------------

SensorInit == Init /\ sim_regs = Registers0

\* A reading polled and packed: the registers tick, then they are read.
Poll(seq) ==
    /\ sim_regs' = Ticked(seq)
    /\ Pack(HalSensorRead(sim_regs', seq))

SensorNext ==
    \/ Next /\ (stage = "none" => sim_regs = Registers0) /\ UNCHANGED sim_regs
    \/ \E seq \in Polled : Poll(seq)

SensorSpec == SensorInit /\ [][SensorNext]_sensorVars

-----------------------------------------------------------------------------

\* The data are what the declarations say: the registers have 16 bits.
SensorTypeOK == TypeOK /\ \A reg \in DOMAIN sim_regs : sim_regs[reg] \in 0 .. UINT16_MAX

\* The number below 2^31 of a set of weights, added up from weight 0 on.
Value(bits) ==
    LET sum[n \in 0 .. 31] ==
            IF n = 0 THEN 0 ELSE sum[n - 1] + (IF n - 1 \in bits THEN 2^(n - 1) ELSE 0)
    IN sum[31]

\* What the machine did up to reading seq, as far as a payload can say it: the
\* running time has 17 bits there, enough for the first 2184 minutes.
Machine(seq) ==
    [state |-> IF (seq \div 10) % 2 = 0 THEN 30 ELSE 31, pallet_id |-> 159307 + seq \div 10,
     wrap_time |-> 450 + (seq % 30), wrap_transit |-> 700 + (seq % 50),
     rotations |-> 820 + (seq % 20), program |-> 15, perimeter |-> 3,
     running |-> (60 * seq) % 2^17, alarm |-> IF seq < 5 THEN 0 ELSE 2 * seq - 10,
     timestamp |-> BaseTs + 60 * seq, seq_number |-> seq, device_id |-> 1]

\* A polled reading reaches the cloud as what the machine did when its number
\* was drawn: nothing of it is torn between two registers, or lost to the width
\* of a register or of a field, except the running time that the field cannot
\* hold (modbus_sim.h:12, payload_packer.h:17).
MachineAsPolled ==
    LET seq == Value(fields.seq_number)
    IN stage = "parsed" /\ noise = {} /\ sim_regs # Registers0 =>
           \A f \in Field : Value(parsed[f]) = Machine(seq)[f]

=============================================================================
