---------------------------- MODULE I2cBusProofs ----------------------------
(***************************************************************************)
(* The probe heals the bus, and finds the chip that is there, from every   *)
(* state of the chip and for every number of rounds.                       *)
(***************************************************************************)
EXTENDS I2cBus, TLAPS

Bytes == {"address", "register", "again", "answer"}

(* What each state of the chip does to SDA.                                *)
ChipInv ==
  /\ mode = "receive" => n \in 0 .. 7
  /\ mode = "send" => n \in 1 .. 8
  /\ mode = "ack" => pull = 0
  /\ mode \in {"idle", "receive", "hear"} => pull = 1

(* A chip that is not sending is in step with the processor: either it has *)
(* seen the START, or it held SDA low for an acknowledgement just then,    *)
(* and its next byte begins with the processor's all the same.             *)
StepInv ==
  /\ stage \notin Bytes => clock = 1
  /\ stage \in Bytes \cup {"restart"} =>
       /\ mode = "receive" => n = clock - 1
       /\ mode = "ack" => clock = 9

(* A sender's next acknowledgement falls into the byte that is read.       *)
AnswerInv ==
  /\ stage = "answer" =>
       /\ mode \in {"receive", "ack"} => role \in {"register", "data"}
       /\ mode = "send" => n >= clock
  /\ stage = "stop" => mode \in {"idle", "receive"}

(* There has been a transfer before this one.                              *)
Healed == target = "high" \/ tries > 1

FreeInv ==
  /\ TransferFreesBus
  /\ stage \in {"gpio", "release"} => tries = 0 /\ target = "low"
  /\ stage = "start" /\ Healed => mode = "idle" /\ pull = 1

(* A transfer to the chip, from a free bus.                                *)
Mine ==
  /\ stage \in Stages \ {"gpio", "release"} => acked
  /\ stage = "address" /\ clock < 9 => mode = "receive" /\ role = "address" /\ match
  /\ stage = "address" /\ clock = 9 => mode = "ack" /\ role = "address"
  /\ stage = "register" /\ clock < 9 => mode = "receive" /\ role = "register" /\ match
  /\ stage = "register" /\ clock = 9 => mode = "ack" /\ role = "register" /\ match
  /\ stage \in {"restart", "again"} => who
  /\ stage = "restart" => mode = "receive"
  /\ stage = "again" /\ clock < 9 => mode = "receive" /\ role = "address" /\ match
  /\ stage = "again" /\ clock = 9 => mode = "ack" /\ role = "read"
  /\ stage = "answer" /\ clock < 9 =>
       mode = "send" /\ n = clock /\ who /\ pull = ICM20689[clock]
  /\ stage = "answer" => \A i \in 1 .. clock - 1 : value[i] = ICM20689[i]
  /\ stage \in {"stop", "done"} => \A i \in 1 .. 8 : value[i] = ICM20689[i]

MineInv == target = strap /\ Healed => Mine

(* A transfer to the other address.  From the second START on the chip is  *)
(* silent, or sends out of step: its acknowledgements and the processor's  *)
(* never meet, so the last bit of the answer is one that nobody drives.    *)
TheirsInv ==
  target # strap =>
    /\ stage \in {"again", "answer"} =>
         /\ mode = "send" => n # clock
         /\ mode = "hear" => clock # 9
    /\ stage = "again" =>
         /\ mode # "ack"
         /\ mode = "receive" => role = "address" /\ (clock = 8 => ~match)
    /\ stage = "answer" /\ clock = 9 => value[8] = 1
    /\ stage \in {"stop", "done"} /\ tries > 0 => value[8] = 1

IInv ==
  /\ TypeOK /\ ChipInv /\ StepInv /\ AnswerInv /\ FreeInv
  /\ MineInv /\ TheirsInv /\ FoundIsThere

USE TriesAssumption, AddrAssumption

LEMMA InitHolds == Init => IInv
<1> SUFFICES ASSUME Init PROVE IInv
  OBVIOUS
<1>1. TypeOK
  BY DEF Init, TypeOK, Stages, Modes, Roles, Address
<1>2. ChipInv /\ StepInv /\ AnswerInv
  BY DEF Init, ChipInv, StepInv, AnswerInv, Bytes, Modes
<1>3. FreeInv /\ MineInv /\ TheirsInv /\ FoundIsThere
  BY DEF Init, FreeInv, TransferFreesBus, Healed, MineInv, Mine, TheirsInv, FoundIsThere, Stages
<1> QED
  BY <1>1, <1>2, <1>3 DEF IInv

(* A pulse, by what the chip is at.                                        *)
ChipTypeOK ==
  /\ mode \in Modes /\ role \in Roles /\ n \in 0 .. 8
  /\ match \in BOOLEAN /\ who \in BOOLEAN /\ pull \in {0, 1}

LEMMA IdentityBits == \A i \in 1 .. 8 : ICM20689[i] \in {0, 1}
BY DEF ICM20689

LEMMA PulseHolds ==
  ASSUME ChipTypeOK, ChipInv, NEW bit \in {0, 1}, Pulse(bit)
  PROVE  ChipTypeOK' /\ ChipInv'
<1>0. /\ mode \in {"idle", "receive", "ack", "send", "hear"} /\ n \in 0 .. 8
      /\ role \in {"address", "read", "register", "data"} /\ pull \in {0, 1}
  BY DEF ChipTypeOK, Modes, Roles
<1>1. /\ mode' \in {"idle", "receive", "ack", "send", "hear"} 
      /\ role' \in {"address", "read", "register", "data"}
  BY <1>0 DEF Pulse, Receive, AfterAck, Send, Hear, Drive, Rest, chip
<1>2. pull' \in {0, 1}
  BY <1>0, IdentityBits DEF Pulse, Receive, AfterAck, Send, Hear, Drive, Rest, chip, ChipInv
<1>3. n' \in 0 .. 8
  BY <1>0 DEF Pulse, Receive, AfterAck, Send, Hear, Drive, Rest, chip, ChipInv
<1>4. ChipInv'
  BY <1>0 DEF Pulse, Receive, AfterAck, Send, Hear, Drive, Rest, chip, ChipInv
<1>5. match' \in BOOLEAN /\ who' \in BOOLEAN
  BY DEF Pulse, Receive, AfterAck, Send, Hear, Drive, Rest, chip, ChipTypeOK
<1> QED
  BY <1>1, <1>2, <1>3, <1>4, <1>5 DEF ChipTypeOK, Modes, Roles

LEMMA STARTHolds == ASSUME ChipTypeOK, ChipInv, START PROVE ChipTypeOK' /\ ChipInv'
<1>1. CASE pull = 1
  BY <1>1 DEF START, ChipTypeOK, ChipInv, Modes, Roles
<1>2. CASE Pulse(0)
  BY <1>2, PulseHolds
<1> QED
  BY <1>1, <1>2 DEF START

LEMMA STOPHolds == ASSUME ChipTypeOK, ChipInv, STOP PROVE ChipTypeOK' /\ ChipInv'
<1>1. CASE pull = 1
  BY <1>1 DEF STOP, Rest, ChipTypeOK, ChipInv, Modes, Roles
<1>2. CASE pull # 1
  BY <1>2 DEF STOP, chip, ChipTypeOK, ChipInv
<1> QED
  BY <1>1, <1>2

(* What goes out on the wires.                                             *)
LEMMA LevelType ==
  ASSUME NEW a, NEW b
  PROVE  /\ Wire(a, b) \in {0, 1}
         /\ b = 0 => Wire(a, b) = 0
         /\ a = 1 /\ b \in {0, 1} => Wire(a, b) = b
BY DEF Wire

LEMMA ChipHolds ==
  ASSUME TypeOK, ChipInv, Next
  PROVE  ChipTypeOK' /\ ChipInv'
<1>0. ChipTypeOK
  BY DEF TypeOK, ChipTypeOK
<1>1. CASE i2c_init_gpio
  BY <1>0, <1>1, PulseHolds, STARTHolds, STOPHolds, LevelType DEF i2c_init_gpio
<1>2. CASE i2c_start \/ i2c_restart \/ i2c_stop
  BY <1>0, <1>2, STARTHolds, STOPHolds DEF i2c_start, i2c_restart, i2c_stop
<1>3. CASE i2c_write_byte
  BY <1>0, <1>3, PulseHolds, LevelType DEF i2c_write_byte
<1>4. CASE i2c_read_byte
  BY <1>0, <1>4, PulseHolds, LevelType DEF i2c_read_byte, ReadByte
<1>5. CASE probe_address
  BY <1>0, <1>5 DEF probe_address, chip, ChipTypeOK, ChipInv
<1> QED
  BY <1>1, <1>2, <1>3, <1>4, <1>5 DEF Next

LEMMA NextPulseType ==
  ASSUME NextPulse, stage \in Bytes, clock \in 1 .. 9
  PROVE  stage' \in Stages /\ clock' \in 1 .. 9
BY DEF NextPulse, Enter, After, Bytes, Stages

LEMMA TypeHolds ==
  ASSUME TypeOK, ChipInv, Next
  PROVE  TypeOK'
<1>0. ChipTypeOK'
  BY ChipHolds
<1>1. CASE i2c_init_gpio \/ i2c_start \/ i2c_restart \/ i2c_stop
  <2>1. stage' \in Stages /\ clock' = 1
    BY <1>1 DEF i2c_init_gpio, i2c_start, i2c_restart, i2c_stop, Enter, Stages
  <2>2. UNCHANGED <<target, tries, acked, value, addr, strap>>
    BY <1>1 DEF i2c_init_gpio, i2c_start, i2c_restart, i2c_stop
  <2> QED
    BY <1>0, <2>1, <2>2 DEF TypeOK, ChipTypeOK
<1>2. CASE i2c_write_byte
  <2>1. stage' \in Stages /\ clock' \in 1 .. 9
    BY <1>2, NextPulseType DEF i2c_write_byte, TypeOK, Bytes
  <2>2. acked' \in BOOLEAN /\ UNCHANGED <<target, tries, value, addr, strap>>
    BY <1>2 DEF i2c_write_byte
  <2> QED
    BY <1>0, <2>1, <2>2 DEF TypeOK, ChipTypeOK
<1>3. CASE i2c_read_byte
  <2>1. stage' \in Stages /\ clock' \in 1 .. 9
    BY <1>3, NextPulseType DEF i2c_read_byte, ReadByte, TypeOK, Bytes
  <2>2. UNCHANGED <<target, tries, acked, addr, strap>>
    BY <1>3 DEF i2c_read_byte, ReadByte
  <2>3. value' \in [1 .. 8 -> {0, 1}]
    BY <1>3, LevelType DEF i2c_read_byte, ReadByte, TypeOK
  <2> QED
    BY <1>0, <2>1, <2>2, <2>3 DEF TypeOK, ChipTypeOK
<1>4. CASE probe_address
  <2>1. stage' \in Stages /\ clock' \in 1 .. 9 /\ target' \in DOMAIN Address
    BY <1>4 DEF probe_address, Read, Enter, TypeOK, Stages, Address
  <2>2. tries' \in 0 .. Tries
    BY <1>4 DEF probe_address, TypeOK
  <2>3. acked' \in BOOLEAN /\ addr' \in DOMAIN Address \cup {NoAddr}
    BY <1>4 DEF probe_address, Read, TypeOK
  <2>4. value' \in [1 .. 8 -> {0, 1}]
    BY <1>4 DEF probe_address, Read, TypeOK
  <2>5. strap' = strap
    BY <1>4 DEF probe_address
  <2> QED
    BY <1>0, <2>1, <2>2, <2>3, <2>4, <2>5 DEF TypeOK, ChipTypeOK
<1> QED
  BY <1>1, <1>2, <1>3, <1>4 DEF Next

-----------------------------------------------------------------------------
(* After a START the chip is at the first bit of a byte, or is a sender    *)
(* that did not see it.                                                    *)
LEMMA AfterSTART ==
  ASSUME ChipTypeOK, ChipInv, START
  PROVE  /\ mode' = "receive" => n' = 0
         /\ mode' # "ack"
         /\ mode \in {"idle", "receive", "hear"} =>
              mode' = "receive" /\ role' = "address" /\ match' = TRUE /\ who' = who
         /\ mode # "ack" /\ mode' = "receive" => role' = "address"
         /\ mode = "send" /\ mode' = "send" => n' = n + 1
BY DEF START, Pulse, Receive, AfterAck, Send, Hear, Drive, Rest, chip, ChipTypeOK, ChipInv

(* What a pulse makes of a chip that is not sending.                       *)
LEMMA AfterPulse ==
  ASSUME ChipTypeOK, ChipInv, NEW bit \in {0, 1}, Pulse(bit)
  PROVE  /\ mode = "idle" => mode' = "idle"
         /\ mode = "receive" /\ n < 7 => mode' = "receive" /\ n' = n + 1 /\ role' = role
         /\ mode = "receive" /\ n = 7 =>
              \/ mode' = "idle"
              \/ mode' = "ack" /\ (role # "address" => role' = role)
         /\ mode = "ack" =>
              \/ mode' = "receive" /\ n' = 0 /\ role' \in {"register", "data"}
              \/ mode' = "send" /\ n' = 1 /\ role = "read"
         /\ mode = "send" =>
              \/ mode' = "send" /\ n' = n + 1 /\ n < 8
              \/ mode' = "hear" /\ n = 8
         /\ mode = "hear" =>
              \/ mode' = "idle"
              \/ mode' = "send" /\ n' = 1 /\ bit = 0
<1>1. CASE mode \in {"idle", "ack"}
  BY <1>1 DEF Pulse, Receive, AfterAck, Send, Hear, Drive, chip
<1>2. CASE mode = "receive"
  BY <1>2 DEF Pulse, Receive, AfterAck, Send, Hear, Rest
<1>3. CASE mode = "send"
  BY <1>3 DEF Pulse, Receive, AfterAck, Send, Hear, Drive
<1>4. CASE mode = "hear"
  BY <1>4 DEF Pulse, Receive, AfterAck, Send, Hear, Drive, Rest
<1> QED
  BY <1>1, <1>2, <1>3, <1>4 DEF ChipTypeOK, Modes

(* A pulse of a byte.                                                      *)
LEMMA BytePulse ==
  ASSUME TypeOK, i2c_write_byte \/ i2c_read_byte
  PROVE  /\ stage \in Bytes /\ clock \in 1 .. 9
         /\ clock < 9 => stage' = stage /\ clock' = clock + 1
         /\ clock = 9 => stage' = After /\ clock' = 1
         /\ \E bit \in {0, 1} : Pulse(bit) /\ (clock = 9 \/ stage = "answer" => bit = pull)
         /\ UNCHANGED <<target, tries, addr, strap>>
<1>1. /\ stage \in Bytes /\ clock \in 1 .. 9 /\ NextPulse
      /\ UNCHANGED <<target, tries, addr, strap>>
  BY DEF i2c_write_byte, i2c_read_byte, ReadByte, Bytes, TypeOK
<1>2. /\ clock < 9 => stage' = stage /\ clock' = clock + 1
      /\ clock = 9 => stage' = After /\ clock' = 1
  BY <1>1 DEF NextPulse, Enter
<1>3. pull \in {0, 1}
  BY DEF TypeOK
<1>4. CASE i2c_write_byte
  <2> DEFINE level == Wire(IF clock < 9 THEN Bit(clock) ELSE 1, pull)
  <2>1. Pulse(level) /\ stage # "answer"
    BY <1>4 DEF i2c_write_byte
  <2>2. level \in {0, 1} /\ (clock = 9 => level = pull)
    BY <1>3, LevelType
  <2> QED
    BY <1>1, <1>2, <2>1, <2>2
<1>5. CASE i2c_read_byte
  <2> DEFINE level == Wire(IF clock < 9 THEN 1 ELSE 1 - 0, pull)
  <2>1. Pulse(level)
    BY <1>5 DEF i2c_read_byte, ReadByte
  <2>2. level \in {0, 1} /\ level = pull
    BY <1>3, LevelType
  <2> QED
    BY <1>1, <1>2, <2>1, <2>2
<1> QED
  BY <1>4, <1>5

LEMMA StepHolds ==
  ASSUME TypeOK, ChipInv, StepInv, Next
  PROVE  StepInv'
<1>0. ChipTypeOK
  BY DEF TypeOK, ChipTypeOK
<1>1. CASE i2c_init_gpio \/ i2c_stop \/ probe_address
  <2>1. stage' \in {"release", "done", "start"}
    BY <1>1 DEF i2c_init_gpio, i2c_stop, probe_address, Read, Enter
  <2>2. clock' = 1
    BY <1>1 DEF i2c_init_gpio, i2c_stop, probe_address, Read, Enter, StepInv, Bytes
  <2> QED
    BY <2>1, <2>2 DEF StepInv, Bytes
<1>2. CASE i2c_start \/ i2c_restart
  <2>1. START /\ clock' = 1
    BY <1>2 DEF i2c_start, i2c_restart, Enter
  <2>2. /\ mode' = "receive" => n' = 0
        /\ mode' # "ack"
    BY <1>0, <2>1, AfterSTART
  <2> QED
    BY <2>1, <2>2 DEF StepInv
<1>3. CASE i2c_write_byte \/ i2c_read_byte
  <2>1. PICK bit \in {0, 1} : Pulse(bit)
    BY <1>3, BytePulse
  <2>2. /\ stage \in Bytes /\ clock \in 1 .. 9
        /\ clock < 9 => stage' = stage
        /\ clock' = IF clock < 9 THEN clock + 1 ELSE 1
    BY <1>3, BytePulse
  <2>3. /\ mode = "receive" => n = clock - 1
        /\ mode = "ack" => clock = 9
    BY <2>2 DEF StepInv
  <2>4. /\ mode' = "receive" => n' = clock' - 1
        /\ mode' = "ack" => clock' = 9
    BY <1>0, <2>1, <2>2, <2>3, AfterPulse DEF ChipTypeOK, ChipInv, Modes
  <2> QED
    BY <2>2, <2>4 DEF StepInv
<1> QED
  BY <1>1, <1>2, <1>3 DEF Next

(* Which function leads to a stage.                                        *)
LEMMA StageIs ==
  ASSUME TypeOK, Next
  PROVE  /\ stage' = "answer" =>
              \/ i2c_write_byte /\ stage = "again" /\ clock = 9
              \/ i2c_read_byte /\ stage = "answer" /\ clock < 9
         /\ stage' = "again" =>
              \/ i2c_restart
              \/ i2c_write_byte /\ stage = "again" /\ clock < 9
         /\ stage' = "stop" => i2c_read_byte /\ stage = "answer" /\ clock = 9
         /\ stage' = "done" => i2c_init_gpio \/ i2c_stop \/ probe_address
         /\ stage' = "start" => probe_address
<1>1. /\ i2c_init_gpio => stage' \in {"release", "done"}
      /\ i2c_start => stage' = "address"
      /\ i2c_restart => stage' = "again"
      /\ i2c_stop => stage' = "done"
      /\ probe_address => stage' \in {"done", "start"}
  BY DEF i2c_init_gpio, i2c_start, i2c_restart, i2c_stop, probe_address, Read, Enter
<1>2. CASE i2c_write_byte \/ i2c_read_byte
  <2>1. /\ i2c_write_byte => stage \in {"address", "register", "again"}
        /\ i2c_read_byte => stage = "answer"
    BY DEF i2c_write_byte, i2c_read_byte, ReadByte
  <2>2. /\ clock \in 1 .. 9
        /\ clock < 9 => stage' = stage
        /\ clock = 9 => stage' = After
    BY <1>2, BytePulse
  <2>3. /\ stage = "address" => After = "register"
        /\ stage = "register" => After = "restart"
        /\ stage = "again" => After = "answer"
        /\ stage = "answer" => After = "stop"
    BY DEF After
  <2> QED
    BY <1>2, <2>1, <2>2, <2>3
<1> QED
  BY <1>1, <1>2 DEF Next

LEMMA AnswerHolds ==
  ASSUME TypeOK, ChipInv, StepInv, AnswerInv, Next
  PROVE  AnswerInv'
<1>0. ChipTypeOK
  BY DEF TypeOK, ChipTypeOK
<1>1. CASE stage' \notin {"answer", "stop"}
  BY <1>1 DEF AnswerInv
<1>2. CASE stage' \in {"answer", "stop"}
  <2>1. /\ i2c_write_byte \/ i2c_read_byte
        /\ \/ stage' = "answer" /\ stage = "again" /\ clock = 9
           \/ stage' = "answer" /\ stage = "answer" /\ clock < 9
           \/ stage' = "stop" /\ stage = "answer" /\ clock = 9
    BY <1>2, StageIs
  <2>2. PICK bit \in {0, 1} : Pulse(bit) /\ bit = pull
    BY <2>1, BytePulse
  <2>3. clock \in 1 .. 9 /\ clock' = IF clock < 9 THEN clock + 1 ELSE 1
    BY <2>1, BytePulse
  <2>4. /\ mode = "receive" => n = clock - 1
        /\ mode = "ack" => clock = 9
    BY <2>1 DEF StepInv, Bytes
  <2>5. mode = "hear" => mode' = "idle"
    BY <1>0, <2>2, AfterPulse DEF ChipInv
  <2>6. CASE stage' = "answer"
    <3>1. mode' \in {"receive", "ack"} => role' \in {"register", "data"}
      BY <1>0, <2>1, <2>2, <2>4, <2>5, <2>6, AfterPulse
         DEF AnswerInv, ChipTypeOK, ChipInv, Modes
    <3>2. mode' = "send" => n' >= clock'
      BY <1>0, <2>1, <2>2, <2>3, <2>4, <2>5, <2>6, AfterPulse
         DEF AnswerInv, ChipTypeOK, ChipInv, Modes
    <3> QED
      BY <2>6, <3>1, <3>2 DEF AnswerInv
  <2>7. CASE stage' = "stop"
    <3>1. stage = "answer" /\ clock = 9
      BY <2>1, <2>7
    <3>2. mode # "receive" /\ (mode = "ack" => role \in {"register", "data"}) /\ mode # "send"
      BY <2>4, <3>1 DEF AnswerInv, ChipInv
    <3>3. mode' \in {"idle", "receive"}
      BY <1>0, <2>2, <2>5, <3>2, AfterPulse DEF ChipTypeOK, Modes
    <3> QED
      BY <2>7, <3>3 DEF AnswerInv
  <2> QED
    BY <1>2, <2>6, <2>7
<1> QED
  BY <1>1, <1>2

LEMMA FreeHolds ==
  ASSUME TypeOK, ChipInv, AnswerInv, FreeInv, Next
  PROVE  FreeInv'
<1>1. stage' \in {"gpio", "release"} => tries' = 0 /\ target' = "low"
  <2>1. CASE i2c_init_gpio
    BY <2>1 DEF i2c_init_gpio, FreeInv
  <2>2. CASE i2c_start \/ i2c_restart \/ i2c_stop \/ probe_address
    BY <2>2 DEF i2c_start, i2c_restart, i2c_stop, probe_address, Read, Enter, FreeInv
  <2>3. CASE i2c_write_byte \/ i2c_read_byte
    BY <2>3, BytePulse DEF Bytes, After
  <2> QED
    BY <2>1, <2>2, <2>3 DEF Next
<1>2. CASE i2c_stop
  <2>1. mode' = "idle" /\ pull' = 1 /\ stage' = "done"
    BY <1>2 DEF i2c_stop, Enter, STOP, Rest, AnswerInv, ChipInv
  <2> QED
    BY <1>1, <2>1 DEF FreeInv, TransferFreesBus
<1>3. CASE i2c_init_gpio
  <2>1. tries' = 0 /\ stage' # "start"
    BY <1>3 DEF i2c_init_gpio, Enter, FreeInv
  <2> QED
    BY <1>1, <2>1 DEF FreeInv, TransferFreesBus
<1>4. CASE probe_address
  <2>1. mode' = mode /\ pull' = pull /\ stage = "done"
    BY <1>4 DEF probe_address, chip
  <2>2. CASE tries > 0
    <3>1. mode = "idle" /\ pull = 1
      BY <2>1, <2>2 DEF FreeInv, TransferFreesBus
    <3> QED
      BY <1>1, <2>1, <3>1 DEF FreeInv, TransferFreesBus
  <2>3. CASE ~(tries > 0)
    <3>1. stage' = "start" /\ target' = "low" /\ tries' = 1
      BY <1>4, <2>3 DEF probe_address, Read, Enter, TypeOK
    <3> QED
      BY <1>1, <3>1 DEF FreeInv, TransferFreesBus, Healed
  <2> QED
    BY <2>2, <2>3
<1>5. CASE ~(i2c_stop \/ i2c_init_gpio \/ probe_address)
  <2>1. stage' \notin {"done", "start"}
    BY <1>5, StageIs
  <2> QED
    BY <1>1, <2>1 DEF FreeInv, TransferFreesBus
<1> QED
  BY <1>2, <1>3, <1>4, <1>5

-----------------------------------------------------------------------------
(* The bits that are sent.                                                 *)
LEMMA SentBits ==
  /\ \A i \in 1 .. 8 : WhoAmI[i] \in {0, 1}
  /\ \A a \in DOMAIN Address, i \in 1 .. 7 : Address[a][i] \in {0, 1}
  /\ Address["low"][7] # Address["high"][7]
  /\ DOMAIN Address = {"low", "high"}
BY DEF WhoAmI, Address

(* A pulse with the bit that the chip is waiting for.                      *)
LEMMA Awaits ==
  ASSUME ChipTypeOK, ChipInv, mode = "receive", match, NEW bit \in Awaited, Pulse(bit)
  PROVE  /\ who' = who
         /\ n < 7 => mode' = "receive" /\ role' = role /\ match'
         /\ n = 7 =>
              /\ mode' = "ack" /\ match'
              /\ role' = IF role = "address" /\ bit = 1 THEN "read" ELSE role
<1>1. Receive(bit)
  BY DEF Pulse, AfterAck, Send, Hear
<1>2. CASE n < 7
  <2>1. n # 7
    BY <1>2
  <2> QED
    BY <1>1, <1>2, <2>1 DEF Receive
<1>3. CASE n = 7
  <2>1. ~(n < 7)
    BY <1>3
  <2> QED
    BY <1>1, <1>3, <2>1 DEF Receive
<1> QED
  BY <1>1, <1>2, <1>3 DEF Receive

(* A write of a byte: the level of the wire, and what becomes of ok.       *)
LEMMA WritePulse ==
  ASSUME TypeOK, ChipInv, StepInv, i2c_write_byte
  PROVE  /\ mode = "receive" /\ clock < 9 => Pulse(Bit(clock))
         /\ mode = "ack" /\ acked => Pulse(0) /\ acked'
<1>1. clock \in 1 .. 9 /\ stage \in {"address", "register", "again"} /\ pull \in {0, 1}
  BY DEF TypeOK, i2c_write_byte
<1>2. clock < 9 => Bit(clock) \in {0, 1}
  BY <1>1, SentBits DEF Bit, TypeOK
<1>3. CASE mode = "receive" /\ clock < 9
  <2>1. Wire(Bit(clock), pull) = Bit(clock)
    BY <1>2, <1>3 DEF Wire, ChipInv
  <2>2. Pulse(Wire(IF clock < 9 THEN Bit(clock) ELSE 1, pull))
    BY DEF i2c_write_byte
  <2> QED
    BY <1>3, <2>1, <2>2
<1>4. CASE mode = "ack" /\ acked
  <2>1. Wire(IF clock < 9 THEN Bit(clock) ELSE 1, pull) = 0
    BY <1>4, LevelType DEF ChipInv
  <2> QED
    BY <1>4, <2>1 DEF i2c_write_byte
<1> QED
  BY <1>3, <1>4

(* A byte written to the chip that was waiting for it.                     *)
LEMMA MineWritten ==
  ASSUME TypeOK, ChipInv, StepInv, target = strap, Mine, i2c_write_byte
  PROVE  Mine'
<1>0. ChipTypeOK /\ clock \in 1 .. 9 /\ stage \in {"address", "register", "again"} /\ acked
  BY DEF TypeOK, ChipTypeOK, i2c_write_byte, Mine, Stages
<1>1. CASE clock < 9
  <2>1. stage' = stage /\ clock' = clock + 1
    BY <1>1, BytePulse
  <2>2. mode = "receive" /\ match /\ n = clock - 1
    BY <1>0, <1>1 DEF Mine, StepInv, Bytes
  <2>3. role = IF stage = "register" THEN "register" ELSE "address"
    BY <1>0, <1>1 DEF Mine
  <2>4. Bit(clock) \in Awaited
    <3>1. CASE stage = "register"
      BY <1>0, <2>2, <2>3, <3>1 DEF Bit, Awaited
    <3>2. CASE stage # "register" /\ clock < 8
      BY <1>0, <2>2, <2>3, <3>2 DEF Bit, Awaited
    <3>3. CASE stage # "register" /\ clock = 8
      BY <1>0, <2>2, <2>3, <3>3 DEF Bit, Awaited
    <3> QED
      BY <1>0, <1>1, <3>1, <3>2, <3>3
  <2>5. Pulse(Bit(clock))
    BY <1>1, <2>2, WritePulse
  <2>6. /\ who' = who
        /\ n < 7 => mode' = "receive" /\ role' = role /\ match'
        /\ n = 7 =>
             /\ mode' = "ack" /\ match'
             /\ role' = IF role = "address" /\ Bit(clock) = 1 THEN "read" ELSE role
    BY <1>0, <2>2, <2>4, <2>5, Awaits
  <2>7. acked'
    <3> DEFINE level == Wire(IF clock < 9 THEN Bit(clock) ELSE 1, pull)
    <3>1. acked' = (acked /\ (clock = 9 => level = 0))
      BY DEF i2c_write_byte
    <3>2. clock # 9
      BY <1>0, <1>1
    <3> HIDE DEF level
    <3> QED
      BY <1>0, <3>1, <3>2, Zenon
  <2>8. CASE clock < 8
    BY <1>0, <2>1, <2>2, <2>3, <2>6, <2>7, <2>8 DEF Mine
  <2>9. CASE clock = 8
    <3>1. stage \in {"address", "again"} => Bit(clock) = IF stage = "again" THEN 1 ELSE 0
      BY <2>9 DEF Bit
    <3> QED
      BY <1>0, <2>1, <2>2, <2>3, <2>6, <2>7, <2>9, <3>1 DEF Mine
  <2> QED
    BY <1>0, <1>1, <2>8, <2>9
<1>2. CASE clock = 9
  <2>1. stage' = After /\ clock' = 1
    BY <1>2, BytePulse
  <2>2. mode = "ack" /\ Pulse(0) /\ acked'
    BY <1>0, <1>2, WritePulse DEF Mine
  <2>3. AfterAck
    BY <2>2 DEF Pulse, Receive, Send, Hear
  <2>4. CASE stage = "address"
    <3>1. stage' = "register" /\ role = "address"
      BY <1>2, <2>1, <2>4 DEF After, Mine
    <3>2. mode' = "receive" /\ role' = "register" /\ match'
      BY <2>3, <3>1 DEF AfterAck
    <3> QED
      BY <2>1, <2>2, <3>1, <3>2 DEF Mine
  <2>5. CASE stage = "register"
    <3>1. stage' = "restart" /\ role = "register" /\ match
      BY <1>2, <2>1, <2>5 DEF After, Mine
    <3>2. mode' = "receive" /\ who'
      BY <2>3, <3>1 DEF AfterAck
    <3> QED
      BY <2>1, <2>2, <3>1, <3>2 DEF Mine
  <2>6. CASE stage = "again"
    <3>1. stage' = "answer" /\ role = "read" /\ who
      BY <1>2, <2>1, <2>6 DEF After, Mine
    <3>2. mode' = "send" /\ n' = 1 /\ who' /\ pull' = ICM20689[1]
      BY <2>3, <3>1 DEF AfterAck, Drive
    <3> QED
      BY <2>1, <2>2, <3>1, <3>2 DEF Mine
  <2> QED
    BY <1>0, <2>4, <2>5, <2>6
<1> QED
  BY <1>0, <1>1, <1>2

(* The answer, bit by bit.                                                 *)
LEMMA MineRead ==
  ASSUME TypeOK, target = strap, Mine, i2c_read_byte
  PROVE  Mine'
<1>0. clock \in 1 .. 9 /\ stage = "answer" /\ acked /\ value \in [1 .. 8 -> {0, 1}]
  BY DEF TypeOK, i2c_read_byte, ReadByte, Mine, Stages
<1>1. acked' /\ \A i \in 1 .. clock - 1 : value[i] = ICM20689[i]
  BY <1>0 DEF i2c_read_byte, ReadByte, Mine
<1>2. CASE clock < 9
  <2>1. mode = "send" /\ n = clock /\ who /\ pull = ICM20689[clock] /\ pull \in {0, 1}
    BY <1>0, <1>2 DEF Mine, TypeOK
  <2>2. stage' = "answer" /\ clock' = clock + 1
    BY <1>0, <1>2, BytePulse
  <2>3. value' = [value EXCEPT ![clock] = ICM20689[clock]]
    BY <1>2, <2>1, LevelType DEF i2c_read_byte, ReadByte
  <2>4. \A i \in 1 .. clock' - 1 : value'[i] = ICM20689[i]
    BY <1>0, <1>1, <1>2, <2>2, <2>3
  <2>5. Send
    <3>1. PICK bit \in {0, 1} : Pulse(bit)
      BY BytePulse
    <3> QED
      BY <2>1, <3>1 DEF Pulse, Receive, AfterAck, Hear
  <2>6. clock < 8 => mode' = "send" /\ n' = clock + 1 /\ who' /\ pull' = ICM20689[clock + 1]
    <3> SUFFICES ASSUME clock < 8
                 PROVE  mode' = "send" /\ n' = clock + 1 /\ who' /\ pull' = ICM20689[clock + 1]
      OBVIOUS
    <3>1. n # 8
      BY <1>0, <2>1
    <3>2. Drive(clock + 1)
      BY <2>1, <2>5, <3>1 DEF Send
    <3> QED
      BY <2>1, <3>2 DEF Drive
  <2> QED
    BY <1>0, <1>1, <1>2, <2>2, <2>4, <2>6 DEF Mine
<1>3. CASE clock = 9
  <2>1. stage' = "stop" /\ value' = value
    BY <1>0, <1>3, BytePulse DEF i2c_read_byte, ReadByte, After
  <2> QED
    BY <1>1, <1>3, <2>1 DEF Mine
<1> QED
  BY <1>0, <1>2, <1>3

LEMMA MineHolds ==
  ASSUME TypeOK, ChipInv, StepInv, FreeInv, MineInv, Next
  PROVE  MineInv'
<1> SUFFICES ASSUME target' = strap', Healed' PROVE Mine'
  BY DEF MineInv
<1>0. ChipTypeOK
  BY DEF TypeOK, ChipTypeOK
<1>1. CASE i2c_init_gpio
  BY <1>1 DEF i2c_init_gpio, FreeInv, Healed
<1>2. CASE probe_address
  <2>1. CASE stage' = "start"
    <3>1. acked'
      BY <1>2, <2>1 DEF probe_address, Read
    <3> QED
      BY <2>1, <3>1 DEF Mine
  <2>2. CASE stage' # "start"
    <3>1. UNCHANGED <<stage, clock, target, tries, acked, value, strap>> /\ stage = "done"
      BY <1>2, <2>2 DEF probe_address, Read, Enter
    <3>2. Mine
      BY <3>1 DEF MineInv, Healed
    <3> QED
      BY <3>1, <3>2 DEF Mine
  <2> QED
    BY <2>1, <2>2
<1>3. CASE ~(i2c_init_gpio \/ probe_address)
  <2>1. UNCHANGED <<target, tries, strap>>
    BY <1>3, BytePulse DEF Next, i2c_start, i2c_restart, i2c_stop
  <2>2. target = strap /\ Healed /\ Mine
    BY <2>1 DEF MineInv, Healed
  <2>3. CASE i2c_start
    <3>1. stage = "start" /\ stage' = "address" /\ clock' = 1 /\ acked' = acked /\ START
      BY <2>3 DEF i2c_start, Enter
    <3>2. mode = "idle" /\ acked
      BY <2>2, <3>1 DEF FreeInv, Mine, Stages
    <3>3. mode' = "receive" /\ role' = "address" /\ match'
      BY <1>0, <3>1, <3>2, AfterSTART
    <3> QED
      BY <3>1, <3>2, <3>3 DEF Mine
  <2>4. CASE i2c_restart
    <3>1. stage = "restart" /\ stage' = "again" /\ clock' = 1 /\ acked' = acked /\ START
      BY <2>4 DEF i2c_restart, Enter
    <3>2. mode = "receive" /\ acked /\ who
      BY <2>2, <3>1 DEF Mine, Stages
    <3>3. mode' = "receive" /\ role' = "address" /\ match' /\ who'
      BY <1>0, <3>1, <3>2, AfterSTART
    <3> QED
      BY <3>1, <3>2, <3>3 DEF Mine
  <2>5. CASE i2c_stop
    <3>1. stage = "stop" /\ stage' = "done" /\ acked' = acked /\ value' = value
      BY <2>5 DEF i2c_stop, Enter
    <3>2. acked /\ \A i \in 1 .. 8 : value[i] = ICM20689[i]
      BY <2>2, <3>1 DEF Mine, Stages
    <3> QED
      BY <3>1, <3>2 DEF Mine
  <2> QED
    BY <1>3, <2>2, <2>3, <2>4, <2>5, MineWritten, MineRead DEF Next
<1> QED
  BY <1>1, <1>2, <1>3

-----------------------------------------------------------------------------
(* A chip that is out of step with the processor stays so.                 *)
LEMMA OutOfStep ==
  ASSUME TypeOK, ChipInv, TheirsInv, target # strap, stage \in {"again", "answer"}, mode # "ack",
         i2c_write_byte \/ i2c_read_byte
  PROVE  /\ mode' = "send" => n' # clock'
         /\ mode' = "hear" => clock' # 9
<1>1. PICK bit \in {0, 1} : Pulse(bit)
  BY BytePulse
<1>2. clock \in 1 .. 9 /\ clock' = IF clock < 9 THEN clock + 1 ELSE 1
  BY BytePulse
<1>3. /\ mode = "send" => n # clock
      /\ mode = "hear" => clock # 9
  BY DEF TheirsInv
<1>4. ChipTypeOK
  BY DEF TypeOK, ChipTypeOK
<1>5. CASE mode \in {"idle", "receive"}
  BY <1>1, <1>4, <1>5, AfterPulse DEF ChipInv
<1>6. CASE mode = "send"
  BY <1>1, <1>2, <1>3, <1>4, <1>6, AfterPulse DEF ChipInv
<1>7. CASE mode = "hear"
  BY <1>1, <1>2, <1>3, <1>4, <1>7, AfterPulse
<1> QED
  BY <1>4, <1>5, <1>6, <1>7 DEF ChipTypeOK, Modes

(* The second address byte, to the other address: the last bit that is     *)
(* compared differs.                                                       *)
LEMMA TheirsWritten ==
  ASSUME TypeOK, ChipInv, StepInv, TheirsInv, target # strap, stage = "again", i2c_write_byte
  PROVE  /\ mode' # "ack"
         /\ mode' = "receive" => role' = "address" /\ (clock' = 8 => ~match')
<1>0. ChipTypeOK /\ clock \in 1 .. 9
  BY DEF TypeOK, ChipTypeOK
<1>1. PICK bit \in {0, 1} : Pulse(bit)
  BY BytePulse
<1>2. mode # "ack" /\ (mode = "receive" => n = clock - 1 /\ role = "address" /\ (clock = 8 => ~match))
  BY DEF TheirsInv, StepInv, Bytes
<1>3. CASE mode # "receive"
  BY <1>0, <1>1, <1>2, <1>3, AfterPulse DEF ChipTypeOK, Modes
<1>4. CASE mode = "receive"
  <2>1. clock < 9 /\ clock' = clock + 1 /\ n \in 0 .. 7
    BY <1>0, <1>2, <1>4, BytePulse DEF ChipInv
  <2>2. CASE clock < 7
    <3>1. mode' = "receive" /\ role' = "address"
      BY <1>0, <1>1, <1>2, <1>4, <2>2, AfterPulse
    <3>2. clock' # 8
      BY <1>0, <2>1, <2>2
    <3> QED
      BY <3>1, <3>2
  <2>3. CASE clock = 7
    <3>1. n = 6 /\ n < 7 /\ n # 7 /\ n + 1 = 7
      BY <1>2, <1>4, <2>3
    <3>2. Bit(clock) = Address[target][7] /\ Awaited = {Address[strap][7]}
      BY <1>2, <1>4, <2>3, <3>1 DEF Bit, Awaited
    <3>3. Bit(clock) \notin Awaited
      BY <3>2, SentBits DEF TypeOK
    <3>4. Receive(Bit(clock))
      <4>1. Pulse(Bit(clock))
        BY <1>4, <2>1, WritePulse
      <4> QED
        BY <1>4, <4>1 DEF Pulse, AfterAck, Send, Hear
    <3> QED
      BY <1>2, <1>4, <3>1, <3>3, <3>4 DEF Receive
  <2>4. CASE clock = 8
    <3>1. n = 7 /\ ~(n < 7) /\ role = "address" /\ ~match
      BY <1>2, <1>4, <2>4
    <3>2. Receive(bit)
      BY <1>1, <1>4 DEF Pulse, AfterAck, Send, Hear
    <3>3. Rest
      BY <3>1, <3>2 DEF Receive
    <3> QED
      BY <3>3 DEF Rest
  <2> QED
    BY <1>0, <2>1, <2>2, <2>3, <2>4
<1> QED
  BY <1>3, <1>4

(* The last bit of the answer is one that nobody drives.                   *)
LEMMA TheirsRead ==
  ASSUME TypeOK, ChipInv, StepInv, AnswerInv, TheirsInv, target # strap, i2c_read_byte
  PROVE  clock >= 8 => value'[8] = 1
<1>0. clock \in 1 .. 9 /\ stage = "answer" /\ value \in [1 .. 8 -> {0, 1}]
  BY DEF TypeOK, i2c_read_byte, ReadByte
<1>1. CASE clock = 8
  <2>1. mode # "ack" /\ mode # "send"
    BY <1>0, <1>1 DEF StepInv, AnswerInv, TheirsInv, ChipInv, Bytes
  <2>2. pull = 1
    BY <2>1 DEF ChipInv, TypeOK, Modes
  <2>3. value' = [value EXCEPT ![8] = Wire(1, pull)]
    BY <1>1 DEF i2c_read_byte, ReadByte
  <2> QED
    BY <1>0, <2>2, <2>3, LevelType
<1>2. CASE clock = 9
  <2>1. value' = value
    BY <1>2 DEF i2c_read_byte, ReadByte
  <2> QED
    BY <1>0, <1>2, <2>1 DEF TheirsInv
<1> QED
  BY <1>0, <1>1, <1>2

LEMMA TheirsHolds ==
  ASSUME TypeOK, ChipInv, StepInv, AnswerInv, FreeInv, TheirsInv, Next
  PROVE  TheirsInv'
<1> SUFFICES ASSUME target' # strap' PROVE TheirsInv'
  BY DEF TheirsInv
<1>0. ChipTypeOK /\ clock \in 1 .. 9
  BY DEF TypeOK, ChipTypeOK
<1>1. CASE i2c_init_gpio
  <2>1. stage' \in {"release", "done"} /\ tries' = 0
    BY <1>1 DEF i2c_init_gpio, Enter, FreeInv
  <2> QED
    BY <2>1 DEF TheirsInv
<1>2. CASE probe_address
  <2>1. CASE stage' = "start"
    BY <2>1 DEF TheirsInv
  <2>2. CASE stage' # "start"
    <3>1. UNCHANGED <<stage, target, tries, value, strap>> /\ stage = "done"
      BY <1>2, <2>2 DEF probe_address, Read, Enter
    <3> QED
      BY <3>1 DEF TheirsInv
  <2> QED
    BY <2>1, <2>2
<1>3. CASE ~(i2c_init_gpio \/ probe_address)
  <2>1. UNCHANGED <<target, tries, strap>> /\ target # strap
    BY <1>3, BytePulse DEF Next, i2c_start, i2c_restart, i2c_stop
  <2>2. CASE i2c_start
    <3>1. stage' = "address"
      BY <2>2 DEF i2c_start, Enter
    <3> QED
      BY <3>1 DEF TheirsInv
  <2>3. CASE i2c_restart
    <3>1. stage' = "again" /\ clock' = 1 /\ START /\ mode # "ack"
      BY <2>3 DEF i2c_restart, Enter, StepInv, Bytes
    <3>2. mode' # "ack" /\ (mode' = "receive" => role' = "address")
      BY <1>0, <3>1, AfterSTART
    <3>3. mode' = "send" => n' # 1
      <4>1. mode' = "send" => mode = "send" /\ n' = n + 1
        BY <1>0, <3>1, AfterSTART DEF ChipTypeOK, Modes
      <4> QED
        BY <4>1 DEF ChipInv
    <3> QED
      BY <3>1, <3>2, <3>3 DEF TheirsInv
  <2>4. CASE i2c_stop
    <3>1. stage = "stop" /\ stage' = "done" /\ value' = value
      BY <2>4 DEF i2c_stop, Enter
    <3> QED
      BY <2>1, <3>1 DEF TheirsInv
  <2>5. CASE i2c_write_byte
    <3>1. CASE stage # "again"
      <4>1. stage' \notin {"again", "answer", "stop", "done"}
        BY <2>5, <3>1, StageIs DEF i2c_write_byte, i2c_read_byte, ReadByte,
           i2c_init_gpio, i2c_stop, i2c_restart, probe_address
      <4> QED
        BY <4>1 DEF TheirsInv
    <3>2. CASE stage = "again"
      <4>1. stage' \in {"again", "answer"} /\ (stage' = "answer" => clock' = 1)
        BY <1>0, <2>5, <3>2, BytePulse DEF After
      <4>2. mode # "ack"
        BY <2>1, <3>2 DEF TheirsInv
      <4>3. /\ mode' = "send" => n' # clock'
            /\ mode' = "hear" => clock' # 9
        BY <2>1, <2>5, <3>2, <4>2, OutOfStep
      <4>4. /\ mode' # "ack"
            /\ mode' = "receive" => role' = "address" /\ (clock' = 8 => ~match')
        BY <2>1, <2>5, <3>2, TheirsWritten
      <4> QED
        BY <4>1, <4>3, <4>4 DEF TheirsInv
    <3> QED
      BY <3>1, <3>2
  <2>6. CASE i2c_read_byte
    <3>1. stage = "answer" /\ (clock >= 8 => value'[8] = 1)
      BY <2>1, <2>6, TheirsRead DEF i2c_read_byte, ReadByte
    <3>2. CASE clock < 9
      <4>1. stage' = "answer" /\ clock' = clock + 1
        BY <2>6, <3>1, <3>2, BytePulse
      <4>2. mode # "ack"
        BY <3>1, <3>2 DEF StepInv, Bytes
      <4>3. /\ mode' = "send" => n' # clock'
            /\ mode' = "hear" => clock' # 9
        BY <2>1, <2>6, <3>1, <4>2, OutOfStep
      <4>4. clock' = 9 => value'[8] = 1
        BY <1>0, <3>1, <4>1
      <4> QED
        BY <4>1, <4>3, <4>4 DEF TheirsInv
    <3>3. CASE clock = 9
      <4>1. stage' = "stop"
        BY <2>6, <3>1, <3>3, BytePulse DEF After
      <4>2. value'[8] = 1
        BY <3>1, <3>3
      <4> QED
        BY <4>1, <4>2 DEF TheirsInv
    <3> QED
      BY <1>0, <3>2, <3>3
  <2> QED
    BY <1>3, <2>2, <2>3, <2>4, <2>5, <2>6 DEF Next
<1> QED
  BY <1>1, <1>2, <1>3

(* An identity ends in a zero.                                             *)
LEMMA FoundHolds ==
  ASSUME TypeOK, TheirsInv, FoundIsThere, Next
  PROVE  FoundIsThere'
<1>1. CASE addr' = addr
  <2>1. strap' = strap
    BY BytePulse DEF Next, i2c_init_gpio, i2c_start, i2c_restart, i2c_stop, probe_address
  <2> QED
    BY <1>1, <2>1 DEF FoundIsThere
<1>2. CASE addr' # addr
  <2>1. probe_address
    BY <1>2, BytePulse DEF Next, i2c_init_gpio, i2c_start, i2c_restart, i2c_stop
  <2>2. addr' = target /\ strap' = strap /\ stage = "done" /\ tries > 0 /\ Identified
    BY <1>2, <2>1 DEF probe_address
  <2>3. value[8] # 1
    BY <2>2 DEF Identified, MPU6500, ICM20689
  <2>4. target = strap
    BY <2>2, <2>3 DEF TheirsInv
  <2> QED
    BY <2>2, <2>4 DEF FoundIsThere
<1> QED
  BY <1>1, <1>2

-----------------------------------------------------------------------------
LEMMA StepsHold == IInv /\ [Next]_vars => IInv'
<1> SUFFICES ASSUME IInv, [Next]_vars PROVE IInv'
  OBVIOUS
<1>1. CASE Next
  <2>0. /\ TypeOK /\ ChipInv /\ StepInv /\ AnswerInv /\ FreeInv
        /\ MineInv /\ TheirsInv /\ FoundIsThere
    BY DEF IInv
  <2>1. TypeOK' /\ ChipInv'
    BY <1>1, <2>0, TypeHolds, ChipHolds
  <2>2. StepInv' /\ AnswerInv' /\ FreeInv'
    BY <1>1, <2>0, StepHolds, AnswerHolds, FreeHolds
  <2>3. MineInv' /\ TheirsInv' /\ FoundIsThere'
    BY <1>1, <2>0, MineHolds, TheirsHolds, FoundHolds
  <2> QED
    BY <2>1, <2>2, <2>3 DEF IInv
<1>2. CASE UNCHANGED vars
  <2> USE <1>2 DEF vars, master, chip
  <2>1. TypeOK' /\ ChipInv'
    BY DEF IInv, TypeOK, ChipInv
  <2>2. StepInv' /\ AnswerInv' /\ FreeInv'
    BY DEF IInv, StepInv, AnswerInv, FreeInv, TransferFreesBus, Healed
  <2>3. MineInv' /\ TheirsInv' /\ FoundIsThere'
    BY DEF IInv, MineInv, Healed, Mine, TheirsInv, FoundIsThere
  <2> QED
    BY <2>1, <2>2, <2>3 DEF IInv
<1> QED
  BY <1>1, <1>2

(* In every state the bus can reach, from every state of the chip, the     *)
(* chip and i2c_read_reg are where IInv says.                              *)
THEOREM BusInvariant == Spec => []IInv
BY InitHolds, StepsHold, PTL DEF Spec

(* The state keeps its type: g_mpu_addr is one of the two addresses or     *)
(* none, and a byte that is read has eight bits.                           *)
THEOREM BusTypeCorrect == Spec => []TypeOK
<1>1. IInv => TypeOK
  BY DEF IInv
<1> QED
  BY <1>1, BusInvariant, PTL

(* At the end of every transfer of probe_address the chip has let go of    *)
(* SDA and is idle, whatever the processor's reset had broken into.        *)
THEOREM TransferAlwaysFreesBus == Spec => []TransferFreesBus
<1>1. IInv => TransferFreesBus
  BY DEF IInv, FreeInv
<1> QED
  BY <1>1, BusInvariant, PTL

(* From the second transfer on, i2c_read_reg to the chip's own address     *)
(* ends with every acknowledgement and the chip's identity.                *)
THEOREM OneTransferAlwaysHeals == Spec => []OneTransferHeals
<1>1. IInv => OneTransferHeals
  <2> SUFFICES ASSUME IInv, stage = "done", target = strap, target = "high" \/ tries > 1
               PROVE  Identified
    BY DEF OneTransferHeals
  <2>1. acked /\ \A i \in 1 .. 8 : value[i] = ICM20689[i]
    BY DEF IInv, MineInv, Healed, Mine, Stages
  <2>2. value \in [1 .. 8 -> {0, 1}]
    BY DEF IInv, TypeOK
  <2>3. ICM20689 \in [1 .. 8 -> {0, 1}]
    BY DEF ICM20689
  <2>4. value = ICM20689
    BY <2>1, <2>2, <2>3
  <2> QED
    BY <2>1, <2>4 DEF Identified
<1> QED
  BY <1>1, BusInvariant, PTL

(* probe_address never takes an address that the chip does not have.       *)
THEOREM FoundIsAlwaysThere == Spec => []FoundIsThere
<1>1. IInv => FoundIsThere
  BY DEF IInv
<1> QED
  BY <1>1, BusInvariant, PTL
=============================================================================
