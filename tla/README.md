# Heli-FC: specification and verification

TLA+ models of the flight controller in `src/`, model-checked with TLC and, for the
properties that matter most, proved with TLAPS for every value of the constants.
The firmware runs on one Cortex-M0 without interrupts or an operating system: one
loop polls the radio, advances the IMU by one stage and writes five outputs. What
makes it hard is time: a clock that wraps every second, timeouts of nearly equal
length, a receiver that must keep a transmitter's schedule through lost packets, and
controllers that remember things across flights.

Paths below are under `src/src/` unless they say otherwise.

## The system

| Component | State | Operations | Talks to |
|---|---|---|---|
| S-FHSS receiver (`sfhss.c`) | phase, bound transmitter, hop code and index, slot grid (`slotStart`, `frameThisSlot`, `skipCount`), `lastFrameTime`, `sigLost`, channel data | `SFHSS_Poll`, `SFHSS_HasSignal`, `SFHSS_QuietForImu` | CC2500 over SPI; called by the main loop each pass |
| Main loop (`main.c`) | arming, motor slew and its timestamps, IMU stage, `stab_gain`, `g_stab`, outputs | one pass | everything |
| Stabiliser (`stabilize.c`) | targets, steering flags, PID integrals, spool seed, recorder window | `Stabilize_Compute`, `Stabilize_Reset` | called in IMU stage 2; its correction is held in `g_stab` |
| Orientation (`orientation.c`) | angles, rates, gyro trim and its window | `Orientation_Update` | called in IMU stage 1 |
| IMU driver (`mpu6500.c`) | address, `g_mpu_ok`, calibration; the wires | probe, init, calibrate, read | bit-banged I2C; read in stage 0 |
| Time base (`main.c`, `sfhss.c`) | SysTick, wrapping at 1 s | `micros`, `elapsed`, `elapsed_us`, `since_signed` | everyone |
| CC2500 driver (`spi_rc.c`) | chip registers, FIFO | reset, strobes, register and FIFO access | receiver |
| Boot (`main.c`) | clock source, watchdog | `clock_init`, then radio, then IMU | everything |
| LEDs (`main.c`, `spi_rc.c`) | two pins | set at the end of each pass | the pilot |
| Flight recorder (`stabilize.c`) | window accumulators, ring | written by `Stabilize_Compute` | read over SWD by `src/tools` |

What makes each correct, and where it is hard:

- **Receiver.** It must never report a signal on a dead link, although the age of the
  last frame is only known modulo one second; it must stay on the transmitter's
  channel and phase while frames are lost; it must give up and find the transmitter
  again from any state; it must never change its transmitter. Polls come late, the
  FIFO overflows, other transmitters and damaged packets are received.
- **Main loop.** Silence must stop the motors whatever the polls and the stick do;
  the motor must not jump; the IMU must be read even if no quiet moment is offered;
  ground time must reset the controllers before the next take-off.
- **Stabiliser.** Only the stick may move the bank that is held; a reset forgets all
  of the flight before it; the integral must not wind up on the ground.
- **Boot.** Crystal, radio chip and IMU may be slow or dead, and the processor may be reset at any moment while the
  chips keep their power. Every channel must get its own calibration, a late or resetting IMU must be found and keep its
  settings, no number of retries may starve the watchdog, and the main loop must be reached whatever is dead.
- **The two drivers.** A FIFO count read while a byte arrives may be anything; a packet must be neither cut nor
  overlooked. An IMU left in the middle of a transfer holds the bus; the probe must free it.
- **LEDs.** The red one is the only sign of a dead IMU, and the dark half of its slow blink must not be mistaken for health.
- **Orientation and calibration.** Motion must not become bias, at boot or later, and
  rest must heal what did.

## Modules

| Module | Models | Composes |
|---|---|---|
| `MicrosTime` | `elapsed`, `since_signed` and sums on a clock modulo `Wrap` | |
| `HopSequence` | `next_channel`, with its `uint8_t` arithmetic; the channels met in one cycle (`Ahead`) | |
| `HopWalk` | the hop rule walked channel by channel | `HopSequence` |
| `SfhssReceiver` | `SFHSS_Poll` branch by branch, `parse_packet`, the FIFO as the poll sees it | both |
| `SignalContract` | abstract: what the main loop may rely on | |
| `RadioLink` | transmitter, strays, passing time and the receiver | `SfhssReceiver`, implements `SignalContract` |
| `FlightLoop` | one pass of the main loop with the red LED, time between passes | `MicrosTime`, uses `SignalContract` as its radio |
| `AttitudeHold` | the cyclic half of `Stabilize_Compute` (attitude mode), `Stabilize_Reset` | |
| `GroundTrim` | `Orientation_Update`'s trim, `MPU6500_CalibrateGyro`, the true motion | |
| `RadioBoot` | `clock_init`, `CC2500_Reset`, the calibration of `SFHSS_Init`, the chip | |
| `ImuBoot` | `MPU6500_Init` and the calibration after it, the chip, corrupted transfers | shares `pc` and the watchdog with `RadioBoot` |
| `Boot` | `Reset_Handler` up to the main loop, with power and processor resets | `RadioBoot`, `ImuBoot` |
| `I2cBus` | `probe_address` in pulses of SCL, and a chip caught in a transfer | |
| `RxFifo` | `CC2500_ReadRxBytes`, the drain loop of `SFHSS_Poll` byte by byte, and what each of its phases does to the FIFO | |

`MCRadioLink`, `MCAttitudeHold`, `MCGroundTrim` and `MCRxFifo` hold the values of constants that a
configuration file cannot write, and the scale they keep. `*Proofs` modules hold the
theorems.

`RadioLink` and `FlightLoop` are not multiplied with each other. `SignalContract` stands
between them: a signal comes up with an accepted frame only, is taken down no earlier
than `Loss` and no later than `Loss + Slack` after the last one. `RadioLink` is shown to
implement it (`HonoursContract`, checked and proved) with `signal` mapped to
`txaddr` and `sigLost`; `FlightLoop` uses the actions of the contract, and nothing
else, for its radio.

### How the models relate to the code

- **Atomicity.** Nothing preempts the loop, so `SFHSS_Poll`, a pass, a compute and an
  update are one action each, with everything they do in the order they do it. Time
  passes between them, in `Elapse` and `Tick`. A poll is taken as instantaneous: the
  value of `now` is read once per pass in the code too (`main.c:657`).
- **Receiver.** `PollStartBind` to `PollGiveUp` are the paths through `SFHSS_Poll`. The
  drain loop consumes the FIFO packet by packet (`NRead`, `AddrAfter`, `Accepted`): the
  first intact packet binds an unbound receiver, later ones of the same drain are
  compared with it. `Latch` runs before the frames of the same poll are read, as in the
  code. `hop` outside the CONNECTED phase does not flush and leaves the FIFO as it is. Packets
  are whole here; the parts of packets that such a hop leaves behind are the business of `RxFifo`. Statistics, the timing ring and
  packet snapshots are left out: nothing in the firmware reads them.
- **Main loop.** `Pass` is `Poll`, then `ImuPass`, then either `DriveOutputs` or
  `Failsafe`, with primed values where the code reads what the poll of the same pass has
  just written. The swash mix is abstracted to what moves it: nothing, the stick, or the
  stick and a correction. The bench modes are compiled out and not modelled.
- **Stabiliser.** `Steer` keeps the order of the code: push with the one-sided leash,
  or capture on release, then the ceiling. The filters and the D and B terms only
  shape numbers; the setpoint relax factor is any of `Relaxes`, the airborne gate any of
  `Gates`. The trims `STAB_ATT_*_TRIM_DEG` are 0. When the loop does not engage, it drops
  the correction along with the reset, so `Stabilize_Reset` clears `spool`.
- **Ground trim.** A sample is the true rotation plus the offset that sensor and
  calibration leave, so properties can say how far an estimate is from the truth. Means
  are kept as sums over a window (`trim` is `Window` times `g_gyro_trim_dps`), which is
  exact. Whether a sample counts as ground is free: the loop decides it by throttle and
  signal, a stage after the sample was read, and hand-carrying counts as ground. `Reboot`
  stands for power-up and for a watchdog reset in any motion.
- **LED.** `ShowLed` is the red half of the switch at the end of a pass; the phase of the receiver is free
  there, `dark` is the time since the LED was last lit. Blue restates the phase and is left out.
- **Boot.** One action per stage, and one per round of every loop that waits. The unit of time is the
  `busy_delay(48000)` of about 3 ms between two tries of the IMU; transfers take none. A chip that is not ready makes each
  poll last a unit, the worst case. The CC2500 works or is dead with its SO held low (reads as ready and idle) or
  high (reads as neither). The calibration register `fscal` changes when a calibration ends, so a read that comes too early
  returns the neighbour's value. Any transfer to the IMU may be corrupted: a read then fails, a
  write is lost, since `MPU6500_WriteReg` drops the acknowledgement. It wakes
  `wake` delays after power-up; while it resets it may answer and forgets what is written.
  `ResetProcessor` restarts the boot and leaves the chips as they are (`caldata` too: it lies in RAM that start-up does not clear);
  it stands for the reset pin, a debugger and the watchdog. `FlightLoop` starts where `Boot` ends: its `mpu` is the `ok` of
  this module.
- **I2C.** A step is a pulse of SCL, from low to low, or a START or STOP. That is as fine as it need be: within a pulse SDA does not
  change while SCL is high, the processor looks at it there, and the chip takes a bit at the rising edge and drives the next one
  after the falling edge, so no interleaving of the two edges is lost. `i2c_write_byte` and `i2c_read_byte` are nine pulses each, `stage` is
  the place in `i2c_read_reg`. A wire is low if anyone pulls it low (`Wire`). A START or STOP that the chip's own hold on SDA hides is not
  seen: a hidden STOP leaves SCL high, and the hidden START after it, or one alone, is one more pulse to the chip. `i2c_init_gpio` makes both pins low outputs for a moment, before they are let go: which of the wires
  falls first is free, and SCL rises first. The chip begins in any state of any transfer, read or write.
- **FIFO.** Time passes while a register or a byte is clocked out. A byte arrives in one unit, and a
  count read in that unit may come out as any of `Garbled` besides the true one. When the drain is over each phase does what it
  does in the code: `Rebind` flushes, `Search` and `Follow` flush after an overflow or a rejected frame, `Follow` also on its hop, and the
  hop that ends the search is `Hop`: SIDLE and SRX without SFRX. It aborts the packet that streams in, and what has come of that stays in
  the FIFO, so from there on the FIFO need not hold whole packets. Whether a frame that was read is valid, and whether the window of the slot is over, is free:
  `parse_packet` looks at bytes, and those may belong to two packets.
  `SfhssReceiver` takes packets for whole and a poll for instantaneous. A frame misread after `Hop` is to it a lost or a
  damaged one; that it is taken for a good one is not part of that model.

## Runs

Twelve runs; every property of a passing run has a mutant (`PROJECT.json`, defined beside the
definition it replaces) that the run must catch.

| Run | Shows | Bounds |
|---|---|---|
| `HopAnyCode` | *violation*: codes 30 and 31 leave the table | all 32 codes |
| `RadioLink` | `SignalIsFresh`, `AgeIsTrue`, `ConnectedIsLive`, `QuietIsQuiet`, `FlywheelKeepsStep`, `BondIsKept`, `HonoursContract`; `CampIsMet`: the walk of every transmitter comes by where the receiver camps | below |
| `RadioLive` | `LinkIsFound`: a transmitter that stays on is followed again and again | below, 3 channels, no strays |
| `Flight` | `SilenceStopsMotors`, `LiveRiseIsBounded`, `ImuIsRead`, `GroundResetsStab`, `DarkMeansFit` | with and without a gyro; wrap 8, loss limit 4, IMU period 1, pass 1, blink 1 |
| `MotorRise` | *violation*: the slew timestamp goes stale in an outage | wrap and limit of `Flight`, no gyro, a finer slew |
| `TailSpool` | *violation*: the tail starts from PWM_CENTER, not from off | gyro; wrap 12, loss limit 6, IMU period 2 |
| `BootThrottle` | *violation*: the boot value of the throttle is full, not low | as `MotorRise` |
| `AttitudeHold` | `DisturbanceKeepsBank`, `StickLeads`, `ResetForgetsBank`, `WindupNeedsFlight`, `FlightsAreSeparate` | one axis (the code does the same to both), five attitudes, sticks of both signs |
| `GroundTrim` | `RestReadsZero`, `TrimNeedsStillGround`, `TrimErrorIsSmall` | two axes, window of 3, motions below and above the spread, offsets below and above the limit |
| `Boot` | `EveryChannelIsTuned`, `SlowWakeIsFound`, `ResetSparesSettings`, `RetriesAreFed`, `BootAdvances`, `BootEnds` | below |
| `I2cBus` | `TransferFreesBus`, `OneTransferHeals`, `FoundIsThere` | three rounds of the probe, from every state of the chip |
| `RxFifo` | `ReadsWholePackets`, `PacketIsSeen`, `JamIsCleared`, `SearchIsAligned` | the real sizes, the pace in tenths of a byte |

**Scale of the radio.** One unit is about 1.4 ms. A slot is 5 units (6.8 ms), DATA2 trails by
1 (1.6 ms), the hop window is 1 (2.1 ms), polls are at most 2 apart. The loss limit is 14,
the wrap 19 and the fallback 2 slots instead of 64. What the scale keeps is the order of the
deadlines: `FallbackCount * Interval + Window2nd + MaxGap <= SignalLoss` (437 ms before
500 ms), a poll between loss limit and wrap, and half a wrap longer than a slot; all of them are
assumptions of `RadioLink` that TLC evaluates. Four channels are the fewest on which the hop rule's skipped
residue, a wrong channel and a channel not visited yet are different things; liveness runs
on three. Two transmitters and one damaged packet are enough for every branch of
`parse_packet`; the FIFO holds two packets, so DATA1 with DATA2, a damaged packet before either, and an overflow
all occur. A poll drains two, so with this FIFO it leaves none behind: what the hop without a flush may leave is checked in `RxFifo`, not here.

**Scale of the main loop.** A wrap of two loss limits is what the code has
(`micros` 1 s, limit 0.5 s), so an outage can outlast a turn of the clock and a timestamp can be
a turn old. The pass is one unit and the escape hatch three IMU periods, so a read can be due and quiet, due and not quiet,
and overdue; a ramp of two units is cut short and completed.

The slow blink is `now >> 17`, 0..7 on a clock below 1 000 000: the last window before the wrap is a lit one, and
`BlinkAssumption` keeps that.

**Scale of the boot.** What counts is on which side of a budget the chips' times fall. There are five tries of the probe (30 in
the code, about 90 ms) and four delays after the chip's reset (20, about 60 ms), against a chip that needs up to 9 to wake and 6
to reset; the calibration waits four polls (2000) for one that may take five. Two channels (30) tell a
channel's own value from its neighbour's, from an earlier boot's and from noise. The watchdog bites after 3 delays, fewer than any of the
waits has rounds; the crystal's budget is 5 and the CC2500 is polled 4 times, so both may outlast it. `RetriesAreFed` therefore begins after
them, with the first channel.
`EveryChannelIsTuned`, `SlowWakeIsFound` and `ResetSparesSettings` speak of chips that keep to the budgets; the others of all.

**Scale of the bus.** The wires, the bytes and the addresses are the real ones. One address answers in the second round at the latest, so
three rounds show a heal and what follows it; the theorems hold for any number. `CHECK_DEADLOCK` is off, since the model stops after them.

**Scale of the FIFO.** The sizes are the real ones: 15 bytes to a packet, 64 in the FIFO, eight re-reads, two packets in a poll. The unit
is a tenth of a byte on the air, 6 us. A status read takes any of 6, 7 or 8 of them, each time anew: 38 to 50 us. That holds both numbers the code
gives, "all 8 re-reads (~350us)" (39 us a read) and "each extra FIFO read is ~400us" (16 transfers; a status read has two of them, 50 us). A byte of
a FIFO read takes 4. A garbled read is one of the counts the code tells apart. The re-reads may find no answer: TLC reaches a poll that goes on
with its ninth reading, in the search too, a FIFO read that runs dry on it, and a FIFO out of step with the packets while connected.

**Views and symmetry.** `GroundTrim` is checked with the axes symmetric, and with a view that
drops the extremes and the sum of a window that has not begun: the first sample overwrites them
unread.

**Fairness.** `RadioLive` and `Boot` need it. `RadioLink`'s `FairSpec` states three conditions. Weak fairness of `Poll`: the
main loop polls on every pass and is reset by the watchdog if it does not. Weak fairness of time
passing. Strong fairness of `TickFrame`: if a slot in which a packet could be received comes again and
again, one is received: a radio channel that loses every packet for ever cannot be
followed by any receiver. Nothing is assumed about the receiver's own choices; it has none.
`Boot`'s `FairSpec` is weak fairness of its steps: the processor runs. That resets stop is the premise of `BootEnds`, not an assumption.

## What is proved

`tlapm` proves all 8 proof modules from the named assumptions on the constants, with no
step left out. The assumptions are ranges (positive lengths, subsets of the integers) and a few
inequalities, each with what makes it true of the code:

- `SignalLoss + MaxGap <= Wrap`: a poll falls between the loss limit and the wrap (0.5 s against a pass of milliseconds).
- `FallbackCount * Interval + Window2nd + MaxGap <= SignalLoss`: 437 ms and a pass before 500 ms. `Window2nd + 2 * MaxGap <= Interval`:
  a window and two passes within a slot. `2 * (Interval + Window2nd + MaxGap) < Wrap`: all that
  `since_signed` compares lies within half a turn.
- `3 * ImuPeriod + 3 * Slack < Wrap`: the IMU age is read before it wraps. `Slack < Wrap`.
- `BlinkAssumption`: a pass falls into every half of the blink, and the last window before the wrap is a lit one.
- `PaceAssumption`: a status read is shorter than a byte on the air (50 us at most by the code's numbers, against 62). Of two reads in a row at most one then
  meets an arriving byte. `FifoAssumption`: the FIFO holds twice what a poll drains (64 >= 2 * 2 * 15).
- `SettleSteps <= Attempts` (20 and 30). `WatchdogAssumption`: the watchdog outlasts two delays of about 3 ms.

- **Hop rule** (`HopWalkProofs`): it stays in the table and is injective, for every number of channels and every code below it, and it is
  one cycle (`WalkMeetsAll`) if the number of channels plus one is a prime. The rule is addition of `hopcode + 1` modulo that prime,
  with a second addition when the residue is the one that is no channel; the proof counts residues: as many hops as there are residues, no
  two of them to the same one, so all are met. That the walk so defined is the walk of the code is an induction over its length, done
  as a least counterexample (`LeastElement`), since the library's induction theorems cannot be instantiated. 31 is proved prime.
- **Clock** (at the head of `RadioLinkProofs`, two lemmas again in `FlightLoopProofs`): `elapsed` is exact below one turn and forgets turns, `since_signed`
  is exact up to half a turn. These three lemmas carry every later argument about time.
- **Receiver and link** (`RadioLinkProofs`): type correctness and every property of the `RadioLink` run. `CampIsMet` is the cycle of the
  hop rule brought to the transmitter's walk, proved for a prime and, with no hypothesis about primes, for the thirty channels of the
  firmware (`ThirtyChannelsAreMet`). The age kept in the code wraps, so `SignalIsFresh` is not inductive. `AgeIsTrue` is: while the signal is up the
  wrapped age is the true one and was below the limit at the last poll, hence never reaches a
  turn. The refinement of `SignalContract` follows from it step by step.
  `GridInv` says where the grid can be: the distance from the slot in progress to the clock is the silence since the last frame, and
  the trail if that was a DATA2, less an interval for every slot the grid has moved on. With the budget for blind slots this bounds the
  silence of a connected receiver below the loss limit (`ConnectedIsLive`).
  `FlywheelKeepsStep` needs to know what lies in the FIFO as well (`FifoInv`: a packet of the pilot was sent since the last poll, in the slot in
  progress and on the channel both are on), and is proved for a FIFO of at most two packets. That is a hypothesis of the theorem, not of the
  model: with a third the poll would leave one behind, to be read as the next slot's. The air has no room for it: a slot carries
  two, and a poll comes before the next. `QuietIsQuiet` starts from a receiver in step, and is then arithmetic of grid and slot.
- **Main loop** (`FlightLoopProofs`): type correctness, `SilenceStopsMotors`,
  `LiveRiseIsBounded`, `ImuIsRead`, `GroundResetsStab`, `DarkMeansFit`. The strengthenings: `StopInv`
  (the outputs belong to the signal as of the last pass), `SlewInv` (after a live pass the slew
  timestamp is exactly as old as the pass), `StageInv` (each IMU stage bounds the age of the last
  read), `GroundInv` (each stage bounds how long the loop can have been on the ground without a reset),
  `LedInv` (a dead IMU: the LED has been dark since the last pass, or in the dark window at hand, or in the one before it and no pass has come yet).
- **Stabiliser** (`AttitudeHoldProofs`): all six properties. `BankInv` adds that a steering flag
  implies a deflection since the reset: without it a stale flag could capture a
  bank. `SpoolInv` ties the spool seed to the number of calls.
- **Ground trim** (`GroundTrimProofs`): all four properties, for every window length. The
  invariant says what an open window knows: its sum lies between n times its extremes; rest
  in it puts the offset between them; a fast turn puts one of them the spread away; a rest
  as long as the open window fills it with the offset, and one of a whole window more has closed a
  window filled so. The trim's error bound and the healing follow.
- **Boot** (`BootProofs`): everything but `BootEnds`, for every number of channels, tries and delays. For the radio the strengthening
  says that a chip within its budgets has finished the calibration it was asked for before it is read, and that the channels below `chan`
  hold their own. For the IMU it is about progress: every try takes one delay off what is left until the chip is awake, every
  round after the reset one off what is left of its reset, so whoever started within the
  budget is through when the budget is spent. A processor reset in the middle of the chip's reset is why
  `SettleSteps <= Attempts` is needed: the chip may be silent
  for as long as that reset goes on, and the next boot must still be trying when it ends. For the watchdog it bounds the time since the last
  refresh: two delays from the first channel on, and before that only by how far the wait has come. `BootAdvances` is the safety half of `BootEnds`: `StepsLeft`, a number fixed by the budgets,
  falls with every step of the boot, so there is no loop that a slow or dead part could hold it in. What remains of `BootEnds` is that a step is
  always possible until the main loop is reached and is taken, which needs ENABLED and fairness and stays with TLC.

- **I2C** (`I2cBusProofs`): all three properties and type correctness, from every state of the chip and for every number of rounds. Both ends
  count pulses, so the argument is about phase. `StepInv`: a chip that is not sending is in step with the driver, for either it saw the START,
  or it held SDA low for an acknowledgement just then, and its next byte begins with the driver's all the same. `AnswerInv`: while the answer is
  read, a sender is never behind the driver's count of bits, so the pulse on which it listens for an acknowledgement comes by the ninth of that byte.
  SDA is released throughout: nobody but the chip pulls it, the sender hears a NACK and lets go, and the STOP is seen. This is
  `TransferFreesBus`, and it rests on the driver going on through a failed write: a transfer broken off there would not read the byte.
  From a free bus a transfer to the chip goes through bit by bit (`MineInv`), which gives `OneTransferHeals`. A transfer to the
  other address (`TheirsInv`): the two addresses differ in the last bit compared, so from the second START on the chip is silent, or a sender out of step with
  the driver, and stays so. A sender in the last pulse of the answer would be in step by `AnswerInv`; so the answer ends in a bit that nobody drives, a 1,
  and both identities end in 0. `FoundIsThere` thus rests on the values of the identities, not only on the protocol.

- **FIFO** (`RxFifoProofs`): all four properties, for every packet length, number of tries and pace within the assumptions, and for whatever a
  garbled count may be. The invariant `RxInv` has four threads. The pace (`AirInv`, `AnswerInv`): a byte comes at least a byte's time after the one before, so of the
  last reading and the one that is due, one is clear of it. Two readings that agree, or that both show a packet, are then not both wrong, and the
  smaller one is not too large. The FIFO read in hand (`TakeInv`). The overflow: a poll that missed the bit has taken no
  more than a poll drains, and what it leaves is enough for the next one (`OverInv`), whose readings nothing garbles, since in a jam no byte comes
  in (`JamInv`): its first answer tells it, and every phase flushes. The alignment (`AlignInv`): the search begins with an empty FIFO, an unsettled answer or
  a rejected frame in it ends with a flush, or with the hop that ends the search, so the next poll of a search finds whole packets and what has come of the one
  that streams in. It is said of the search alone because it is false of a connected receiver.
  The arithmetic is division by the packet length, in four lemmas. `ReadsWholePackets` and `PacketIsSeen` are about settled answers; that eight
  re-reads settle one is not claimed.

**Only model-checked.** `LinkIsFound` and `BootEnds`: liveness is out of the prover's reach (the measure of `BootEnds` is proved). Every
invariant and action property of a passing run is proved. The four violations are counterexamples and need no proof.

## Where the code and its comments disagree

Each is a run that TLC finds violated; the trace is the explanation.

1. `sfhss.h:25` promises a hop index of 0..29. The hop code is five unchecked bits of the frame
   (`sfhss.c:178`), and 30 or 31 lead past the calibration table. (`HopAnyCode`)
2. `main.c:218` promises a bounded rise of the motor. `slew_prev` is not refreshed in an outage and its age wraps,
   so the first live pass may raise the motor by up to half the range. (`MotorRise`; while
   live the bound holds, `LiveRiseIsBounded`)
3. `main.c:758` promises a tail that spools from off. While disengaged the correction holds PWM_CENTER, which
   drives the tail until stage 2 first runs. (`TailSpool`)
4. `sfhss.c:278` sets the throttle "low until first frame". The channel is reversed, so 880 is full, and a
   frame without CH1-4 brings the signal up. (`BootThrottle`)

Smaller observations, without a run:

- `fs_prev` (`main.c:916`) has the fault of `slew_prev` in the freewheel decay.
- The rebind after 64 blind slots comes about 437 ms after the last frame, "just under the 500ms failsafe latch" (`sfhss.c:20`); "by the
  time we give up and rebind, the outputs are already in failsafe anyway" is then wrong: a receiver that gives up is always still live
  (`ConnectedIsLive`), and the outputs stay live on the abandoned link for about 63 ms.
- `mpu6500.h:96` says of `g_mpu_ok` "config verified". Only the identity is: no setting is read back, and
  `MPU6500_WriteReg` drops the acknowledgements. A lost write, or a chip whose reset takes the ~100 ms of `mpu6500.c:221` beside a
  wait of about 60, is a gyro in use without its settings. `ResetSparesSettings` therefore has both as premises.
- Nothing in `src/` starts or configures the IWDG, so its timeout is the board's: `README.md:99` and `docs/heli.md:35` of the repository
  say ~60 ms, `tools/postflight.tcl:8` ~400 ms. A dead crystal uses a budget of "~60ms" without a refresh (`main.c:459`), and a CC2500 that holds SO high
  1000 polls without one (`spi_rc.c:151`). With a watchdog of 60 ms either would be a reset loop. `RetriesAreFed` leaves both out, and `BootEnds` has as its premise that resets stop.
- `SFHSS_Init` drops the answer of `CC2500_WaitState` (`sfhss.c:294`): a chip that has not calibrated after 2000 polls is read all the same, and the
  channel keeps its neighbour's value for the session. `EveryChannelIsTuned` speaks of chips that keep to the budget.
- A CC2500 whose SO is stuck low passes every wait, and its calibration table is noise; `g_cc2500_partnum` is read and never looked at.
- `spi_rc.c:109` says that the only question of the caller is whether a full packet is there. `sfhss.c:371` takes the overflow bit of
  the same answer, and two reads that both show a packet are accepted unequal: a garbled overflow bit gets through and costs a restart, and
  the DATA2 that streams in. "Consecutive reads legitimately never agree" (`spi_rc.c:107`) needs the erratum at the pace stated there: a read is shorter than a byte.
- When the eight re-reads settle nothing, `CC2500_ReadRxBytes` returns its ninth reading, which may be garbled: `SFHSS_Poll` then reads 15 bytes of a FIFO that
  holds fewer, or of a packet that is still streaming in, and the rest of it shifts the frames after it.
- "Residual junk is bounded: every hop is hop_flush()" (`sfhss.c:408`) is not so of the hop that ends the search (`sfhss.c:435`). A DATA2 cut off by it stays in part, and the frames after
  it are shifted until one is rejected (`rx_restart`) or the window of the slot ends (`hop_flush`). "The frame marker and CRC_OK bit fully validate" (`sfhss.c:171-172`) is said of whole frames: both are bytes at
  a fixed place, and in a shifted frame they are bytes of a payload. The search itself is safe from this (`SearchIsAligned`).
- The relax factor of the yaw integral (`stabilize.c:471`, "so stick work / release transients can't load it") filters the setpoint at 12 Hz: after a
  release it freezes the integral for three or four ticks of 10 ms, less than the ESC lag of 60 ms and more that the comments give.
- `main.c:11` and `sfhss.c:356` still speak of a clock modulo 2^24, `main.c:544` of a slew reset on disarm, `spi_rc.c:3` and `:46` and
  `mpu6500.c:29` of a TIM14 interrupt; all of the code runs in the main loop.
- The ground trim is taken on all axes or on none, so a boot calibration that captured 10 dps or more on one axis keeps all three
  untrimmed, and nothing shows it: `RestReadsZero` holds for offsets below the limit.
- `g_mpu_ok` is the boot's verdict. A bus that dies in flight reads as rates near zero (`mpu6500.c:155` ignores the burst's
  result), and the red LED stays dark: `DarkMeansFit` speaks of the verdict.

## Not modelled

- **Tail half of the stabiliser** (`stabilize.c:450-577`). Feedforward, PID, stop gain and clamp are real arithmetic without a state that a
  guard reads: the only memory is the yaw integral, bounded by its limit and cleared by the reset that `AttitudeHold` models. Whether its
  wind-up on the ground matters is a question of the airframe's dynamics, which a discrete model would have to invent. The working-point
  probe is written for SWD and read by nothing.
- **Angles** (`orientation.c:75-155`): a complementary filter over floats with a trust weight; the stabiliser takes any attitude (`Angles`), so
  nothing it promises depends on the filter.
- **Waits without a budget** (`clock_init`: PLLRDY and the clock switch): taken to succeed.
- Pin, timer and PWM set-up (straight-line register writes), single bits on the SPI pins (chip select frames every
  access), the blue LED, the IMU's burst reads, statistics and debug rings.
- The bench modes of `main.c`, receive modes 1 to 4 of `sfhss.c` and cyclic modes 0 and 1 of `stabilize.c` (compiled out), the bring-up programs
  `test_*.c`, the host tools.

Modelling idealises: floats are integers at a scale, a packet's contents are its kind, sender and integrity.

## Plan

Done, in this order: clock and hop rule, receiver, link and contract, main loop, attitude hold, ground trim, boot, the two
drivers, the LED, the drain with its hops, with the theorems above. What is left:

- **Composition of the controllers**: `FlightLoop`'s stages 1 and 2 with `GroundTrim` and `AttitudeHold` as instances, so
  that on-ground, engagement and reset come from the loop instead of being free. The theorems hold for the free inputs, so
  they carry over; the composition would show which of the inputs really occur.
