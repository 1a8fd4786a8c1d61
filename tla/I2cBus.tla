------------------------------- MODULE I2cBus -------------------------------
(***************************************************************************)
(* The two wires between the processor and the IMU.  SDA is low when       *)
(* anyone pulls it low.  The processor may have been reset in the middle   *)
(* of a transfer, and the chip, which kept its power, is then still in it: *)
(* it may be sending a byte, holding SDA low, and neither START nor STOP   *)
(* can be seen while it does.  What is modelled is probe_address, tried    *)
(* again and again, from any such state of the chip.                       *)
(*                                                                         *)
(* A step is a pulse of SCL, from low to low.  SDA does not change while   *)
(* SCL is high, except in a START or a STOP, and the processor looks at it *)
(* there; the chip takes a bit when SCL rises and drives SDA when it       *)
(* falls.  i2c_start begins, and i2c_stop ends, with SCL high.             *)
(***************************************************************************)
EXTENDS Integers

CONSTANTS
  Tries,    \* rounds of probe_address that are looked at
  NoAddr    \* no address has answered yet

ASSUME TriesAssumption == Tries \in Nat \ {0}
ASSUME AddrAssumption == NoAddr \notin {"low", "high"}

(* 0x68 and 0x69, MPU_REG_WHO_AM_I, and the identities that are accepted.  *)
Address == [low |-> <<1, 1, 0, 1, 0, 0, 0>>, high |-> <<1, 1, 0, 1, 0, 0, 1>>]
WhoAmI == <<0, 1, 1, 1, 0, 1, 0, 1>>
MPU6500 == <<0, 1, 1, 1, 0, 0, 0, 0>>
ICM20689 == <<1, 0, 0, 1, 1, 0, 0, 0>>

VARIABLES
  stage, clock,   \* the part of the transfer, and the pulse of a byte
  target,         \* the address that is tried
  tries,          \* rounds of probe_address that have begun
  acked, value,   \* ok and *out of i2c_read_reg
  addr,           \* g_mpu_addr
  strap,          \* the chip's own address
  mode,           \* what the chip is doing
  role,           \* which byte it is about
  n,              \* bits of that byte that are through, or the one it sends
  match,          \* the bits so far are the awaited ones
  who,            \* its register pointer is at WHO_AM_I
  pull            \* the chip's hold on SDA: 0 is low

master == <<stage, clock, target, tries, acked, value, addr>>
chip == <<mode, role, n, match, who, pull>>
vars == <<master, chip, strap>>

Stages == {"gpio", "release", "start", "address", "register", "restart", "again",
           "answer", "stop", "done"}
Modes == {"idle", "receive", "ack", "send", "hear"}
Roles == {"address", "read", "register", "data"}

(* Any moment of any transfer, as far as the chip knows.                   *)
Init ==
  /\ stage = "gpio" /\ clock = 1 /\ target = "low" /\ tries = 0
  /\ acked = TRUE /\ value = [i \in 1 .. 8 |-> 0] /\ addr = NoAddr
  /\ strap \in DOMAIN Address
  /\ mode \in Modes /\ match \in BOOLEAN /\ who \in BOOLEAN
  /\ role \in CASE mode = "idle" -> {"address"} [] mode = "receive" -> Roles \ {"read"}
              [] mode = "ack" -> Roles [] OTHER -> {"read"}
  /\ n \in CASE mode = "receive" -> 0 .. 7 [] mode = "send" -> 1 .. 8 [] OTHER -> {0}
  /\ pull \in CASE mode = "ack" -> {0} [] mode = "send" -> {0, 1} [] OTHER -> {1}

-----------------------------------------------------------------------------
(* The chip.                                                               *)
Wire(a, b) == IF a = 1 /\ b = 1 THEN 1 ELSE 0

Rest ==
  /\ mode' = "idle" /\ role' = "address" /\ n' = 0 /\ match' = TRUE /\ pull' = 1
  /\ UNCHANGED who

(* The next bit of its address, or of the register of interest.            *)
Awaited ==
  CASE role = "address" /\ n < 7 -> {Address[strap][n + 1]}
    [] role = "register" -> {WhoAmI[n + 1]}
    [] OTHER -> {0, 1}

(* It takes a bit.  After the eighth it acknowledges, unless the address   *)
(* is another one's.                                                       *)
Receive(bit) ==
  /\ mode = "receive"
  /\ LET matched == match /\ bit \in Awaited
         about == IF role = "address" /\ n = 7 /\ bit = 1 THEN "read" ELSE role
     IN \/ /\ n < 7
           /\ n' = n + 1 /\ match' = matched
           /\ UNCHANGED <<mode, role, who, pull>>
        \/ /\ n = 7 /\ (about \in {"address", "read"} => matched)
           /\ mode' = "ack" /\ n' = 0 /\ pull' = 0
           /\ role' = about /\ match' = matched
           /\ UNCHANGED who
        \/ n = 7 /\ about \in {"address", "read"} /\ ~matched /\ Rest

(* It drives a bit: of its identity, or of a register that is not known.   *)
Drive(i) ==
  /\ mode' = "send" /\ n' = i
  /\ pull' \in IF who THEN {ICM20689[i]} ELSE {0, 1}
  /\ UNCHANGED <<role, match, who>>

AfterAck ==
  /\ mode = "ack"
  /\ IF role = "read"
     THEN Drive(1)
     ELSE /\ mode' = "receive" /\ n' = 0 /\ match' = TRUE /\ pull' = 1
          /\ role' = IF role = "address" THEN "register" ELSE "data"
          /\ who' = (role = "register" /\ match)

Send ==
  /\ mode = "send"
  /\ \/ n < 8 /\ Drive(n + 1)
     \/ /\ n = 8
        /\ mode' = "hear" /\ n' = 0 /\ pull' = 1 /\ who' = FALSE
        /\ UNCHANGED <<role, match>>

(* A byte is sent: the processor wants another one if it acknowledges.     *)
Hear(bit) ==
  /\ mode = "hear"
  /\ IF bit = 0 THEN Drive(1) ELSE Rest

(* A pulse of SCL with this level on SDA.                                  *)
Pulse(bit) ==
  \/ Receive(bit) \/ AfterAck \/ Send \/ Hear(bit)
  \/ mode = "idle" /\ UNCHANGED chip

(* SDA falls while SCL is high, which the chip sees unless it holds SDA    *)
(* low; then SCL falls.                                                    *)
START ==
  \/ /\ pull = 1
     /\ mode' = "receive" /\ role' = "address" /\ n' = 0 /\ match' = TRUE /\ pull' = 1
     /\ UNCHANGED who
  \/ pull = 0 /\ Pulse(0)

(* SCL rises with SDA low, and SDA is let go of.                           *)
STOP == IF pull = 1 THEN Rest ELSE UNCHANGED chip

-----------------------------------------------------------------------------
(* The processor.                                                          *)
Enter(next) == stage' = next /\ clock' = 1

(* The pins become outputs, low until they are let go.  The wires fall     *)
(* together, in either order: if SDA is first it is a START, if not the    *)
(* pulse that the reset broke into is over.  Then SCL rises before SDA.    *)
i2c_init_gpio ==
  \/ /\ stage = "gpio" /\ Enter("release")
     /\ START \/ \E bit \in {0, 1} : Pulse(Wire(bit, pull))
     /\ UNCHANGED <<target, tries, acked, value, addr, strap>>
  \/ /\ stage = "release" /\ Enter("done")
     /\ STOP
     /\ UNCHANGED <<target, tries, acked, value, addr, strap>>

i2c_start ==
  /\ stage = "start" /\ Enter("address")
  /\ START
  /\ UNCHANGED <<target, tries, acked, value, addr, strap>>

i2c_restart ==
  /\ stage = "restart" /\ Enter("again")
  /\ START
  /\ UNCHANGED <<target, tries, acked, value, addr, strap>>

i2c_stop ==
  /\ stage = "stop" /\ Enter("done")
  /\ STOP
  /\ UNCHANGED <<target, tries, acked, value, addr, strap>>

(* The bytes of i2c_read_reg, and what follows each of them.               *)
Bit(i) ==
  CASE stage = "address" -> IF i = 8 THEN 0 ELSE Address[target][i]
    [] stage = "register" -> WhoAmI[i]
    [] stage = "again" -> IF i = 8 THEN 1 ELSE Address[target][i]

After ==
  CASE stage = "address" -> "register" [] stage = "register" -> "restart"
    [] stage = "again" -> "answer" [] stage = "answer" -> "stop"

NextPulse == IF clock < 9 THEN clock' = clock + 1 /\ UNCHANGED stage ELSE Enter(After)

(* Mutant: a transfer is broken off when a byte is not acknowledged.       *)
i2c_write_byte_breaks_off ==
  /\ stage \in {"address", "register", "again"}
  /\ LET level == Wire(IF clock < 9 THEN Bit(clock) ELSE 1, pull)
     IN Pulse(level) /\ acked' = (acked /\ (clock = 9 => level = 0))
  /\ IF acked' THEN NextPulse ELSE Enter("stop")
  /\ UNCHANGED <<target, tries, value, addr, strap>>

(* Eight bits, and SDA released for the acknowledgement.                   *)
i2c_write_byte ==
  /\ stage \in {"address", "register", "again"}
  /\ LET level == Wire(IF clock < 9 THEN Bit(clock) ELSE 1, pull)
     IN Pulse(level) /\ acked' = (acked /\ (clock = 9 => level = 0))
  /\ NextPulse
  /\ UNCHANGED <<target, tries, value, addr, strap>>

ReadByte(ack) ==
  /\ stage = "answer"
  /\ LET level == Wire(IF clock < 9 THEN 1 ELSE 1 - ack, pull)
     IN Pulse(level) /\ value' = IF clock < 9 THEN [value EXCEPT ![clock] = level] ELSE value
  /\ NextPulse
  /\ UNCHANGED <<target, tries, acked, addr, strap>>

(* Mutant: the only byte is acknowledged, as if another one were wanted.   *)
i2c_read_byte_more == ReadByte(1)

i2c_read_byte == ReadByte(0)

(* i2c_read_reg, from its first line.                                      *)
Read(target_) ==
  /\ target' = target_ /\ Enter("start")
  /\ acked' = TRUE /\ value' = [i \in 1 .. 8 |-> 0]

(* Mutant: an acknowledgement is enough.                                   *)
AnswersAnything == acked

(* The answer counts if every byte was acknowledged and it is an identity. *)
Identified == acked /\ value \in {MPU6500, ICM20689}

(* A transfer is over: the address is found, or the next one is tried; the *)
(* low address first, then the high one, then both again.                  *)
probe_address ==
  /\ stage = "done" /\ addr = NoAddr
  /\ \/ /\ tries > 0 /\ Identified /\ addr' = target
        /\ UNCHANGED <<stage, clock, target, tries, acked, value>>
     \/ /\ ~(tries > 0 /\ Identified) /\ UNCHANGED addr
        /\ IF tries > 0 /\ target = "low" THEN Read("high") /\ UNCHANGED tries
           ELSE tries < Tries /\ tries' = tries + 1 /\ Read("low")
  /\ UNCHANGED <<chip, strap>>

Next ==
  \/ i2c_init_gpio \/ i2c_start \/ i2c_write_byte \/ i2c_restart \/ i2c_read_byte
  \/ i2c_stop \/ probe_address

Spec == Init /\ [][Next]_vars

-----------------------------------------------------------------------------
TypeOK ==
  /\ stage \in Stages /\ clock \in 1 .. 9
  /\ target \in DOMAIN Address /\ tries \in 0 .. Tries
  /\ acked \in BOOLEAN /\ value \in [1 .. 8 -> {0, 1}]
  /\ addr \in DOMAIN Address \cup {NoAddr} /\ strap \in DOMAIN Address
  /\ mode \in Modes /\ role \in Roles /\ n \in 0 .. 8
  /\ match \in BOOLEAN /\ who \in BOOLEAN /\ pull \in {0, 1}

(* However the processor was reset, the chip is through with whatever it   *)
(* was doing when a transfer has ended, to either address: the nine pulses *)
(* of its last byte, with SDA released, meet every sender where it listens *)
(* for its acknowledgement, and then the STOP is seen.                     *)
TransferFreesBus == stage = "done" /\ tries > 0 => mode = "idle" /\ pull = 1

(* In whatever transfer the processor was reset, one transfer heals the    *)
(* bus.  The second, of either address, is answered if it is to the chip.  *)
OneTransferHeals ==
  stage = "done" /\ target = strap /\ (target = "high" \/ tries > 1) => Identified

(* A wire that is stuck low reads as an acknowledgement, and a chip that   *)
(* is still sending may answer with any byte: the address that is taken is *)
(* the chip's own all the same.                                            *)
FoundIsThere == addr # NoAddr => addr = strap
=============================================================================
