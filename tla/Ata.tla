--------------------------------- MODULE Ata ---------------------------------
(***************************************************************************)
(* The polling ATA driver (drivers/ata.c) and the two drives of the        *)
(* primary bus, which may be absent, slow, or refuse a command.            *)
(*                                                                         *)
(* The drives share the registers: a status read shows the drive that was  *)
(* selected last, and a drive that is busy or holds data ignores what is   *)
(* written to them, commands included.  A sector number goes to LbaRegs    *)
(* registers of RADIX values, one write each.                              *)
(*                                                                         *)
(* All callers use the primary master.  The shell's calls (fs/fat.c,       *)
(* shell/shell.c) take no lock and leave interrupts on: a program's        *)
(* sys_exec, which runs with interrupts off, may read sectors between any  *)
(* two steps of them.                                                      *)
(***************************************************************************)
EXTENDS Integers, Sequences

CONSTANTS
    Lbas,            \* the sector numbers asked for
    LbaRegs,         \* registers that hold a sector number, 4
    RADIX,           \* values of one of them
    Words,           \* words of a sector, 256
    Texts,           \* the sectors written
    Garbage,         \* a word that may be anything
    TIMEOUT          \* polls of a wait loop, 100000

\* The sectors that the registers can address, 2^28.
LBA28 == RADIX ^ LbaRegs
Sectors == 0..(LBA28 - 1)

Drives == {0, 1}
ATA_PRIMARY_MASTER == 0
ATA_PRIMARY_SLAVE == 1

ASSUME AtaAssumption ==
    /\ Lbas \subseteq Nat
    /\ LbaRegs \in Nat \ {0} /\ RADIX \in Nat \ {0} /\ Words \in Nat \ {0}
    /\ TIMEOUT \in Nat \ {0}

VARIABLES
    \* The bus.
    kind,            \* what each drive is: "none", "ata" or "atapi"
    floating,        \* an empty bus reads as ones
    dev,             \* the drives' state
    medium,          \* the drives' sectors
    selected,        \* the drive the registers select
    registers,       \* the digits of the sector number
    \* The driver.
    drives,          \* present and is_atapi
    stage,           \* where the driver is in the call
    op,              \* the call in progress
    timeout,         \* polls left of its wait loop
    parked           \* the shell's call, while a program's sys_exec reads

bus == <<kind, floating, dev, medium, selected, registers>>
driver == <<drives, stage, op, timeout, parked>>
ata_vars == <<bus, driver>>

\* The words of a sector: of one that is written, and of those the disks hold at
\* first, every one something else.
Sector(text) == [i \in 1..Words |-> <<text, i>>]
Blank(d, s) == Sector(<<d, s>>)

NoCall == [call |-> "none", drive |-> 0, lba |-> 0, value |-> <<>>, done |-> 0,
           stale |-> FALSE, crossed |-> FALSE]
Nothing == [stage |-> "none", op |-> NoCall, timeout |-> 0]
AtRest == [phase |-> "idle", cmd |-> "none", lba |-> 0, value |-> <<>>]
Refusal == [AtRest EXCEPT !.phase = "error"]

-----------------------------------------------------------------------------
(***************************************************************************)
(* The drives.                                                             *)
(***************************************************************************)
Empty == \A d \in Drives : kind[d] = "none"

\* The status register.
Status ==
    IF kind[selected] = "none"
    THEN IF floating THEN {"BSY", "DRDY", "DRQ", "ERR"} ELSE {}
    ELSE [idle |-> {"DRDY"}, error |-> {"DRDY", "ERR"}, data |-> {"DRDY", "DRQ"},
          busy |-> {"BSY"}, writing |-> {"BSY"}][dev[selected].phase]

\* The selected drive takes no register and no command.
Occupied == dev[selected].phase \in {"busy", "writing", "data"}

\* The sector number in the registers.
Address ==
    LET upto[n \in 0..LbaRegs] ==
            IF n = 0 THEN 0 ELSE upto[n - 1] + registers[n - 1] * RADIX ^ (n - 1)
    IN upto[LbaRegs]

\* A command for the drive d.
Command(d, cmd, lba) ==
    dev' = IF kind[d] = "none" \/ dev[d].phase \in {"busy", "writing", "data"} THEN dev
           ELSE [dev EXCEPT ![d] =
                    IF kind[d] = "atapi" THEN Refusal
                    ELSE [phase |-> "busy", cmd |-> cmd, lba |-> lba, value |-> <<>>]]

\* The drive has done what it was told, or not.
Answer(d) ==
    /\ dev[d].phase = "busy"
    /\ \/ /\ dev[d].cmd = "flush"
          /\ dev' = [dev EXCEPT ![d] = AtRest]
       \/ /\ dev[d].cmd = "write"
          /\ dev' = [dev EXCEPT ![d].phase = "data"]
       \/ /\ dev[d].cmd = "identify"
          /\ dev' = [dev EXCEPT ![d].phase = "data",
                                ![d].value = [i \in 1..Words |-> Garbage]]
       \/ /\ dev[d].cmd = "read"
          /\ dev' = [dev EXCEPT ![d].phase = "data", ![d].value = medium[d][dev[d].lba]]
       \/ dev' = [dev EXCEPT ![d] = Refusal]
    /\ UNCHANGED <<kind, floating, medium, selected, registers, driver>>

\* The drive puts a sector on the medium, or cannot.
Commit(d) ==
    /\ dev[d].phase = "writing"
    /\ \/ /\ medium' = [medium EXCEPT ![d][dev[d].lba] = dev[d].value]
          /\ dev' = [dev EXCEPT ![d] = AtRest]
       \/ /\ dev' = [dev EXCEPT ![d] = Refusal]
          /\ UNCHANGED medium
    /\ UNCHANGED <<kind, floating, selected, registers, driver>>

-----------------------------------------------------------------------------
(***************************************************************************)
(* ata_wait_bsy and ata_wait_drq, one poll: what the caller does next is   *)
(* OnReady or OnFailure.                                                   *)
(***************************************************************************)
StartWait(next) == stage' = next /\ timeout' = TIMEOUT

PollAgain ==
    /\ timeout' = timeout - 1
    /\ UNCHANGED <<bus, drives, stage, op, parked>>

\* MUTANT: the loop has no end.
WaitBsyForever(OnReady, OnFailure) ==
    \/ "BSY" \notin Status /\ OnReady
    \/ "BSY" \in Status /\ UNCHANGED ata_vars

WaitBsy(OnReady, OnFailure) ==
    \/ timeout > 0 /\ "BSY" \notin Status /\ OnReady
    \/ timeout > 0 /\ "BSY" \in Status /\ PollAgain
    \/ timeout = 0 /\ OnFailure

\* MUTANT: an error counts as an answer.
WaitDrqLenient(OnReady, OnFailure) ==
    \/ timeout > 0 /\ Status \intersect {"ERR", "DRQ"} # {} /\ OnReady
    \/ timeout > 0 /\ Status \intersect {"ERR", "DRQ"} = {} /\ PollAgain
    \/ timeout = 0 /\ OnFailure

WaitDrq(OnReady, OnFailure) ==
    \/ timeout > 0 /\ "ERR" \in Status /\ OnFailure
    \/ timeout > 0 /\ "ERR" \notin Status /\ "DRQ" \in Status /\ OnReady
    \/ timeout > 0 /\ Status \intersect {"ERR", "DRQ"} = {} /\ PollAgain
    \/ timeout = 0 /\ OnFailure

-----------------------------------------------------------------------------
(***************************************************************************)
(* ata_init: ata_identify for the master, then for the slave.              *)
(***************************************************************************)
Absent == [present |-> FALSE, is_atapi |-> FALSE]

AtaInit ==
    /\ kind \in [Drives -> {"none", "ata", "atapi"}]
    /\ floating \in {b \in BOOLEAN : b => Empty}
    /\ dev = [d \in Drives |-> AtRest]
    /\ medium = [d \in Drives |-> [s \in Sectors |-> Blank(d, s)]]
    /\ selected = ATA_PRIMARY_MASTER
    /\ drives = [d \in Drives |-> Absent]
    /\ registers = [r \in 0..(LbaRegs - 1) |-> 0]
    /\ stage = "identify" /\ op = NoCall
    /\ timeout = 0 /\ parked = Nothing

\* The result of one identification; the next one, or the end of ata_init.
Identified(info) ==
    /\ drives' = [drives EXCEPT ![op.drive] = info]
    /\ op' = IF op.drive = ATA_PRIMARY_MASTER
             THEN [NoCall EXCEPT !.drive = ATA_PRIMARY_SLAVE] ELSE NoCall
    /\ stage' = IF op.drive = ATA_PRIMARY_MASTER THEN "identify" ELSE "idle"
    /\ timeout' = 0
    /\ UNCHANGED <<kind, floating, medium, selected, registers, parked>>

\* Select, zeros to the registers, and command.
IdentifyCommand ==
    /\ stage = "identify"
    /\ \/ Occupied /\ UNCHANGED <<selected, registers, dev>>
       \/ /\ ~Occupied
          /\ selected' = op.drive
          /\ registers' = [r \in DOMAIN registers |-> 0]
          /\ Command(op.drive, "identify", 0)
    /\ stage' = "identify status"
    /\ UNCHANGED <<kind, floating, medium, drives, op, timeout, parked>>

\* A status of zero means no drive.
IdentifyStatus ==
    /\ stage = "identify status"
    /\ \/ Status = {} /\ Identified(Absent) /\ UNCHANGED dev
       \/ /\ Status # {}
          /\ StartWait("identify bsy")
          /\ UNCHANGED <<bus, drives, op, parked>>

\* The LBA registers of an ATAPI drive hold its signature.
IdentifyBsy ==
    /\ stage = "identify bsy"
    /\ WaitBsy(
           \/ /\ kind[selected] = "atapi"
              /\ Identified([present |-> TRUE, is_atapi |-> TRUE])
              /\ UNCHANGED dev
           \/ /\ kind[selected] # "atapi"
              /\ StartWait("identify drq")
              /\ UNCHANGED <<bus, drives, op, parked>>,
           Identified(Absent) /\ UNCHANGED dev)

IdentifyDrq ==
    /\ stage = "identify drq"
    /\ WaitDrq(
           /\ dev' = [dev EXCEPT ![selected] = AtRest]
           /\ Identified([present |-> TRUE, is_atapi |-> FALSE]),
           Identified(Absent) /\ UNCHANGED dev)

-----------------------------------------------------------------------------
(***************************************************************************)
(* ata_read_sector and ata_write_sector.                                   *)
(***************************************************************************)
\* The call is between its first register and its last word.
Midway == stage \in {"registers", "drq", "read", "write"} /\ (stage = "registers" => op.done > 0)

\* A call of the shell, or a read by a program that interrupts it.
Call(call, lba, value) ==
    /\ drives[ATA_PRIMARY_MASTER].present
    /\ \/ stage = "idle" /\ UNCHANGED parked
       \/ /\ stage \in {"bsy", "registers", "drq", "read", "delay", "write", "flush", "flush bsy"}
          /\ parked = Nothing
          /\ call = "read"
          /\ parked' = [stage |-> stage, timeout |-> timeout,
                        op |-> [op EXCEPT !.crossed = @ \/ Midway]]
    /\ op' = [NoCall EXCEPT !.call = call, !.drive = ATA_PRIMARY_MASTER, !.lba = lba,
                            !.value = value]
    /\ StartWait("bsy")
    /\ UNCHANGED <<bus, drives>>

\* The call returns -1, or 0 after its last word: to the shell, or to sys_exec,
\* after which the shell's call goes on.
Return ==
    /\ parked' = Nothing
    /\ \/ /\ parked = Nothing
          /\ stage' = "idle" /\ op' = NoCall /\ timeout' = 0
       \/ /\ parked # Nothing
          /\ stage' = parked.stage /\ op' = parked.op /\ timeout' = parked.timeout
    /\ UNCHANGED <<bus, drives>>

\* The wait looks at the drive that is selected, not at the one asked for.
WaitReady ==
    /\ stage = "bsy"
    /\ WaitBsy(/\ stage' = "registers" /\ timeout' = 0
               /\ UNCHANGED <<bus, drives, op, parked>>,
               Return)

\* The n-th register that is written: the highest digit goes with the drive.
Register(n) == IF n = 0 THEN LbaRegs - 1 ELSE n - 1
Digit(lba, r) == (lba \div RADIX ^ r) % RADIX

\* MUTANT: the drive is not selected.
WriteRegisterOnly ==
    /\ stage = "registers"
    /\ op.done < LbaRegs
    /\ registers' = [registers EXCEPT ![Register(op.done)] = Digit(op.lba, Register(op.done))]
    /\ op' = [op EXCEPT !.done = @ + 1]
    /\ UNCHANGED <<kind, floating, dev, medium, selected, drives, stage, timeout, parked>>

WriteRegister ==
    /\ stage = "registers"
    /\ op.done < LbaRegs
    /\ op' = [op EXCEPT !.done = @ + 1, !.stale = @ \/ Occupied]
    /\ \/ Occupied /\ UNCHANGED <<selected, registers>>
       \/ /\ ~Occupied
          /\ registers' = [registers EXCEPT ![Register(op.done)] =
                               Digit(op.lba, Register(op.done))]
          /\ selected' = IF op.done = 0 THEN op.drive ELSE selected
    /\ UNCHANGED <<kind, floating, dev, medium, drives, stage, timeout, parked>>

Issue ==
    /\ stage = "registers"
    /\ op.done = LbaRegs
    /\ op' = [op EXCEPT !.done = 0, !.stale = @ \/ Occupied]
    /\ Command(selected, op.call, Address)
    /\ StartWait("drq")
    /\ UNCHANGED <<kind, floating, medium, selected, registers, drives, parked>>

WaitData ==
    /\ stage = "drq"
    /\ WaitDrq(/\ stage' = op.call /\ timeout' = 0
               /\ UNCHANGED <<bus, drives, op, parked>>,
               Return)

\* A word comes in; a drive that has none to give gives anything.
ReadWord ==
    LET d == dev[selected]
        gives == d.phase = "data" /\ d.cmd # "write"
        value == Append(op.value, IF gives THEN Head(d.value) ELSE Garbage)
    IN /\ stage = "read"
       /\ dev' = IF ~gives THEN dev
                 ELSE [dev EXCEPT ![selected] =
                          IF Len(d.value) = 1 THEN AtRest ELSE [d EXCEPT !.value = Tail(@)]]
       /\ op' = [op EXCEPT !.value = value]
       /\ stage' = IF Len(value) = Words THEN "delay" ELSE "read"
       /\ UNCHANGED <<kind, floating, medium, selected, registers, drives, timeout, parked>>

\* The 400ns after the last word.
ReadEnd == stage = "delay" /\ Return

\* A word goes out; a drive that does not wait for one takes none.  With the last
\* one the drive begins to write.
WriteWord ==
    LET d == dev[selected]
        takes == d.phase = "data" /\ d.cmd = "write"
        value == Append(d.value, op.value[op.done + 1])
    IN /\ stage = "write"
       /\ dev' = IF ~takes THEN dev
                 ELSE [dev EXCEPT ![selected] =
                          [d EXCEPT !.value = value, !.phase = IF Len(value) = Words THEN "writing" ELSE @]]
       /\ op' = [op EXCEPT !.done = @ + 1]
       /\ stage' = IF op.done + 1 = Words THEN "flush" ELSE "write"
       /\ UNCHANGED <<kind, floating, medium, selected, registers, drives, timeout, parked>>

\* CACHE FLUSH, which a drive that still writes ignores.
Flush ==
    /\ stage = "flush"
    /\ Command(selected, "flush", 0)
    /\ StartWait("flush bsy")
    /\ UNCHANGED <<kind, floating, medium, selected, registers, drives, op, parked>>

\* The result of the wait is not looked at, nor the error bit.
FlushWait ==
    /\ stage = "flush bsy"
    /\ WaitBsy(Return, Return)

-----------------------------------------------------------------------------
Driver ==
    \/ IdentifyCommand
    \/ IdentifyStatus
    \/ IdentifyBsy
    \/ IdentifyDrq
    \/ WaitReady
    \/ WriteRegister
    \/ Issue
    \/ WaitData
    \/ ReadWord
    \/ ReadEnd
    \/ WriteWord
    \/ Flush
    \/ FlushWait

ata_read_sector(lba) == Call("read", lba, <<>>)
ata_write_sector(lba, text) == Call("write", lba, Sector(text))

AtaNext ==
    \/ \E lba \in Lbas : ata_read_sector(lba)
    \/ \E lba \in Lbas, text \in Texts : ata_write_sector(lba, text)
    \/ Driver
    \/ \E d \in Drives : Answer(d)
    \/ \E d \in Drives : Commit(d)

\* What runs goes on, and the shell gets its turns between the programs, which sleep or
\* end as those of user/ do; the drives may never answer.
AtaFairness ==
    /\ WF_ata_vars(Driver)
    /\ SF_ata_vars(Driver /\ parked = Nothing)
AtaSpec == AtaInit /\ [][AtaNext]_ata_vars /\ AtaFairness

-----------------------------------------------------------------------------
(***************************************************************************)
(* Properties.                                                             *)
(***************************************************************************)
\* Nothing came between the call's registers and its last word, and the drive was
\* not still at an earlier command when they were written.
Undisturbed == ~op.stale /\ ~op.crossed

\* A read that is about to return 0 has what the sector of the drive it was asked
\* for holds: whatever drive was selected before, also when a write before it
\* returned while its drive was still writing, and although a program's read came
\* between any two steps of it outside that window.
ReadExact ==
    (stage = "delay" /\ Undisturbed) => op.value = medium[op.drive][op.lba % LBA28]

\* A drive is handed a sector to write by the last word of a write, and by nothing
\* else: the drive and the sector the call was asked for, with all of its words.
\* So a write that returns -1 has changed nothing, and one that returns 0 has
\* handed over its sector - ata_write_sector does not look at the status after its
\* flush, and returns 0 also when the drive then refuses it.
WriteOutcome ==
    [][Undisturbed =>
           LET handed == {d \in Drives : dev[d].phase # "writing" /\ dev'[d].phase = "writing"}
           IN /\ handed # {} <=> stage = "write" /\ stage' = "flush"
              /\ \A d \in handed :
                     /\ d = op.drive
                     /\ dev'[d].lba = op.lba % LBA28
                     /\ dev'[d].value = op.value]_ata_vars

\* A write that returns 0 has its sector on the medium ("Wait for completion",
\* drivers/ata.c:343).  It may not, when the wait runs out or the drive refuses:
\* Ata_flush.cfg shows it.
WriteStored ==
    [][(stage = "flush bsy" /\ stage' = "idle" /\ Undisturbed) =>
           medium[op.drive][op.lba % LBA28] = op.value]_ata_vars

\* Every identification and every call returns, even if the drive never answers, and
\* however often programs interrupt it that leave the shell its turns.
CallsReturn == (stage # "idle") ~> (stage = "idle")
=============================================================================
