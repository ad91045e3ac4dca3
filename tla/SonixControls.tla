---------------------------- MODULE SonixControls ----------------------------
(***************************************************************************)
(* SonixCtrls, CaptureFlash, CaptureLED and CameraSN (capSonixCtrls.cpp):  *)
(* the serial flash and the I2C bus behind the camera's bridge chip, which *)
(* the program drives register by register over uvc_get_xu_asic and        *)
(* uvc_set_xu_asic.  A procedure is the sequence of register accesses it   *)
(* makes; the chip, the flash and the LED driver are external and are      *)
(* modelled by the commands the source sends them.  The procedures take no *)
(* lock: one thread calls them (UvcControls shows what two would do).      *)
(* The library project (libCamera.cbp) leaves this file out and ctrl-gen.c  *)
(* disables the register functions it calls; they are modelled as written. *)
(***************************************************************************)
EXTENDS UvcControls

CONSTANTS Page,       \* bytes of a flash page (256 in the code)
          Sector,     \* bytes of a flash sector (4096)
          Burst,      \* bytes uvc_get_xu_flash returns (8)
          Base,       \* address of the first byte CaptureFlash uses
          Texts,      \* strings that are written, without the NUL
          MaxCalls    \* bound on the calls of a behaviour

SonixAssumption ==
    /\ {Page, Sector, Burst} \subseteq Nat \ {0}
    /\ Base \in Nat /\ Base % Sector = 0
    /\ MaxCalls \in Nat
ASSUME SonixAssumption

VARIABLES prog,   \* register accesses the running call still makes
          job,    \* the running or the last call
          mode,   \* flash mode, bit 0 of register 0x1080
          cs,     \* chip select of the flash, bit 0 of register 0x1091
          shift,  \* bytes sent since the flash was selected
          wel,    \* write enable latch of the flash
          flash,  \* contents of the flash
          stored, \* history: the text CaptureFlash has written last
        spilled, \* history: a text longer than a sector has been written
          i2c,    \* the I2C registers 0x10d0 .. 0x10d7
          driver, \* registers of the LED driver, address 0x30
          point,  \* the register the driver was pointed to
          gpio,   \* bit 0 of register 0x1006: the LED of a B version
          regLED, \* CaptureLED::regLED
          level,  \* CaptureLED::m_dValue: "off", "dim" or "on"
        hidden, \* history: channels that Init switched off behind m_dValue
          calls   \* calls so far

flashVars == <<mode, cs, shift, wel, flash, stored, spilled>>
busVars == <<i2c, driver, point>>
ledVars == <<busVars, gpio, regLED, level, hidden>>
sonixVars == <<prog, job, flashVars, ledVars, calls>>

Erased == 255
Nul == 0
Area == Base .. Base + 2 * Sector - 1
LedAddress == 48

-----------------------------------------------------------------------------
(* Procedures: XU_Asic_Write(0x1082, b) puts a byte on the bus of the      *)
(* flash, the trigger 0x1081 and bSF_WaitRdy pace it; the writes to 0x1080 *)
(* and 0x1091, whole or by EnableAddr and DisableAddr, concern bit 0.      *)

Put(b) == <<[op |-> "byte", val |-> b]>>
Select == <<[op |-> "cs", val |-> 0]>>
Deselect == <<[op |-> "cs", val |-> 1]>>
FlashMode(on) == <<[op |-> "mode", val |-> on]>>

\* The three address bytes of an erase or a program command.

AddressBytes(a) ==
    Put((a \div 65536) % 256) \o Put((a % 65536) \div 256) \o Put(a % 256)

WriteEnable == Select \o Put(6) \o Deselect

\* SF_CMDread_Status: asks until the flash is not busy.
ReadStatus == Select \o Put(5) \o Deselect

DisableWriteProtect ==
    FlashMode(1) \o WriteEnable \o ReadStatus
    \o Select \o Put(1) \o Put(0) \o Deselect \o ReadStatus \o FlashMode(0)

PageErase(a) ==
    FlashMode(1) \o WriteEnable \o ReadStatus
    \o Select \o Put(129) \o AddressBytes(a) \o Deselect
    \o ReadStatus \o FlashMode(0)

SectorErase(a) ==
    FlashMode(1) \o WriteEnable \o ReadStatus
    \o Select \o Put(32) \o AddressBytes(a) \o Deselect
    \o ReadStatus \o FlashMode(0)

\* XU_SF_Write's loop: one program command a page, a write enable between.
\* Mutant: the page boundary is noticed one byte late.
ProgramPages_LateBoundary(a, data) ==
    FoldLeftDomain(LAMBDA cmds, j :
            LET at == a + j - 1
            IN  cmds
                \o (IF j = 1 THEN Select \o Put(2) \o AddressBytes(at)
                    ELSE IF at % Page = 1
                    THEN WriteEnable \o Select \o Put(2) \o AddressBytes(at)
                    ELSE <<>>)
                \o Put(data[j])
                \o (IF (at + 1) % Page = 1 \/ j = Len(data)
                    THEN Deselect ELSE <<>>),
        <<>>, data)

ProgramPages(a, data) ==
    FoldLeftDomain(LAMBDA cmds, j :
            LET at == a + j - 1
            IN  cmds
                \o (IF j = 1 THEN Select \o Put(2) \o AddressBytes(at)
                    ELSE IF at % Page = 0
                    THEN WriteEnable \o Select \o Put(2) \o AddressBytes(at)
                    ELSE <<>>)
                \o Put(data[j])
                \o (IF (at + 1) % Page = 0 \/ j = Len(data)
                    THEN Deselect ELSE <<>>),
        <<>>, data)

XU_SF_Write(a, data) ==
    DisableWriteProtect
    \o (IF Len(data) > Page THEN SectorErase(a) ELSE PageErase(a))
    \o ReadStatus \o FlashMode(1) \o WriteEnable
    \o ProgramPages(a, data) \o FlashMode(0)

\* XU_SF_Read over uvc_get_xu_flash: whole bursts and a rest, never past a
\* segment of 64 KB.
XU_SF_Read(a, length) ==
    LET valid == IF 65536 - (a % 65536) < length
                 THEN 65536 - (a % 65536) ELSE length
        loop  == valid \div Burst
        \* uvc_get_xu_flash: the device gets 19 bits of the address
        Chunk(at, n) == [k \in 1 .. n |-> flash[(at % 524288) + k - 1]]
    IN  FoldLeftDomain(LAMBDA out, i : out \o Chunk(a + (i - 1) * Burst, Burst),
                       <<>>, [i \in 1 .. loop |-> 0])
        \o Chunk(a + loop * Burst, valid % Burst)

-----------------------------------------------------------------------------
(* I2C: XU_I2C_WriteEx fills 0x10d2 .. 0x10d6, addresses first, clears the *)
(* rest and triggers with 0x10d7; XU_I2C_ReadEx writes the address alone   *)
(* and then triggers a read.  Callers use one address and one data byte.   *)

I2cReg(n, v) == <<[op |-> "i2c", reg |-> n, val |-> v]>>

I2cWriteEx(slave, addr, data) ==
    LET body == <<addr>> \o data \o <<0, 0, 0, 0>>
    IN  I2cReg(0, 128 + (1 + Len(data)) * 16) \o I2cReg(1, slave)
        \o I2cReg(2, body[1]) \o I2cReg(3, body[2]) \o I2cReg(4, body[3])
        \o I2cReg(5, body[4]) \o I2cReg(6, body[5]) \o I2cReg(7, 16)
        \o I2cReg(0, i2c[0]) \o I2cReg(2, 0) \o I2cReg(3, 0) \o I2cReg(4, 0)
        \o I2cReg(5, 0)

I2cReadEx(slave, addr) ==
    I2cWriteEx(slave, addr, <<>>)
    \o I2cReg(0, 130 + 16) \o I2cReg(1, slave)
    \o I2cReg(2, 0) \o I2cReg(3, 0) \o I2cReg(4, 0) \o I2cReg(5, 0)
    \o I2cReg(6, 0) \o I2cReg(7, 16)
    \o <<[op |-> "take"]>>
    \o I2cReg(2, 0) \o I2cReg(3, 0) \o I2cReg(4, 0) \o I2cReg(5, 0)

-----------------------------------------------------------------------------
Job(call, arg, out) == [call |-> call, arg |-> arg, out |-> out]

SonixInit ==
    /\ Init
    /\ prog = <<>>
    /\ job = Job("none", None, None)
    /\ mode = 0 /\ cs = 1 /\ shift = <<>> /\ wel = FALSE
    /\ flash = [a \in Area |-> 7]
    /\ i2c = [n \in 0 .. 7 |-> 0]
    /\ stored = None /\ spilled = FALSE
    /\ driver = [n \in 0 .. 10 |-> 0]
    /\ point = 0
    /\ gpio = 0
    /\ regLED = {}
    /\ level = [ch \in 0 .. 2 |-> "off"] /\ hidden = {}
    /\ calls = 0

MayDrive ==
    /\ family = "sonix"
    /\ prog = <<>>
    /\ calls < MaxCalls
    /\ calls' = calls + 1

\* CaptureFlash::Write: the text and its NUL.
FlashWrite(text) ==
    /\ MayDrive
    /\ prog' = XU_SF_Write(Base, Append(text, Nul))
    /\ job' = Job("write", text, None)
    /\ stored' = text /\ spilled' = (spilled \/ Len(text) >= Sector)
    /\ UNCHANGED <<family, result, tableVars, asicVars, ledVars>>
    /\ UNCHANGED <<mode, cs, shift, wel, flash>>

\* CaptureFlash::Read: page by page, up to an empty page or a page that ends
\* with NUL or an erased byte; what comes back is a C string.  For a length
\* of 0 err is not initialised, and both of its outcomes are the empty string.

ReadText(length) ==
    LET n == length \div Page
        PageData(i) ==
            [k \in 1 .. Page |->
                LET got == XU_SF_Read(Base + i * Page,
                                   IF i = n THEN length % Page ELSE Page)
                IN  IF k <= Len(got) THEN got[k] ELSE Nul]
        Ends(i) == \/ PageData(i)[1] \in {Nul, Erased}
                   \/ PageData(i)[Page] \in {Nul, Erased}
        Kept(i) == IF PageData(i)[1] \in {Nul, Erased} THEN <<Nul>>
                   ELSE IF Ends(i) THEN [PageData(i) EXCEPT ![Page] = Nul]
                   ELSE PageData(i)
        stop == CHOOSE i \in 0 .. n :
                    (Ends(i) \/ i = n) /\ \A k \in 0 .. i - 1 : ~Ends(k)
        data == FoldLeftDomain(LAMBDA out, i : out \o Kept(i - 1),
                               <<>>, [i \in 1 .. stop + 1 |-> 0])
        nul  == {k \in DOMAIN data : data[k] = Nul}
        Least(S) == CHOOSE x \in S : \A y \in S : x <= y
    IN  SubSeq(data, 1, Least(nul) - 1)

FlashRead(length) ==
    /\ MayDrive
    /\ prog' = <<>>
    /\ job' = Job("read", length, ReadText(length))
    /\ UNCHANGED <<family, result, tableVars, asicVars, flashVars, ledVars>>

\* CaptureLED::GetValue returns level; SetValue; "dim" is a value the driver rounds to 0.  Of the two
\* I2C writes the level is left out for a channel that goes off.

LedOf(ch, v) == IF v = "on" THEN regLED \union {ch} ELSE regLED \ {ch}

LedBits(S) == MapThenSumSet(LAMBDA ch : 4 ^ ch, S)

LedWrites(pairs) ==
    FoldLeft(LAMBDA cmds, w : cmds \o I2cWriteEx(LedAddress, w[1], <<w[2]>>),
             <<>>, pairs)

LedSetValue(ch, v) ==
    /\ MayDrive
    /\ level' = [level EXCEPT ![ch] = v]
    /\ regLED' = LedOf(ch, v)
    /\ hidden' = hidden \ {ch}
    /\ gpio' = IF v = "off" THEN 0 ELSE 1
    /\ prog' = (IF v = "on"
                THEN I2cWriteEx(LedAddress, 6 + ch, <<159>>) ELSE <<>>)
               \o I2cWriteEx(LedAddress, 4, <<LedBits(regLED')>>)
    /\ job' = Job("led", ch, v)
    /\ UNCHANGED <<family, result, tableVars, asicVars, flashVars, busVars>>

\* CaptureLED::Init, at any time: channel 0 goes on and the others off, whose
\* m_dValue stays; and the destructor (a new object starts with all off).
LedInit ==
    /\ MayDrive
    /\ regLED' = {0}
    /\ hidden' = (hidden \ {0}) \union {ch \in 1 .. 2 : level[ch] = "on"}
    /\ level' = [level EXCEPT ![0] = "on"]
    /\ prog' = LedWrites(<< <<0, 120>>, <<1, 128>>, <<2, 0>>, <<3, 0>>,
                            <<5, 0>>, <<10, 1>>, <<6, 71>>, <<7, 0>>, <<8, 0>> >>)
               \o I2cWriteEx(LedAddress, 4, <<LedBits(regLED')>>)
    /\ job' = Job("ledinit", None, None)
    /\ UNCHANGED <<family, result, tableVars, asicVars, flashVars, busVars, gpio>>

LedClose ==
    /\ MayDrive
    /\ regLED' = {}
    /\ level' = [ch \in 0 .. 2 |-> "off"] /\ hidden' = {}
    /\ prog' = I2cWriteEx(LedAddress, 4, <<0>>)
    /\ job' = Job("ledclose", None, None)
    /\ UNCHANGED <<family, result, tableVars, asicVars, flashVars, busVars, gpio>>

LedRead(n) ==
    /\ MayDrive
    /\ prog' = I2cReadEx(LedAddress, n)
    /\ job' = Job("i2cread", n, None)
    /\ UNCHANGED <<family, result, tableVars, asicVars, flashVars, ledVars>>

-----------------------------------------------------------------------------
(* The chip executes the next access.                                      *)

\* What the flash does with the bytes it was sent when it is deselected.
Command == IF shift = <<>> THEN 0 ELSE shift[1]
CommandAddress == shift[2] * 65536 + shift[3] * 256 + shift[4]
ErasedBy(size) ==
    [a \in Area |-> IF a \div size = CommandAddress \div size
                    THEN Erased ELSE flash[a]]
\* Programming wraps within the page and is right on erased bytes only; on
\* others it clears bits, for which 0 stands.
Programmed ==
    [a \in Area |->
        LET start == (CommandAddress \div Page) * Page
            hits  == {k \in 5 .. Len(shift) :
                        a = start + ((CommandAddress + k - 5) % Page)}
        IN  IF hits = {} THEN flash[a]
            ELSE IF flash[a] = Erased
                 THEN shift[CHOOSE k \in hits : \A h \in hits : h <= k]
                 ELSE 0]

FlashExecutes ==
    /\ wel' = CASE Command = 6 -> TRUE
                [] Command \in {1, 2, 32, 129} -> FALSE
                [] OTHER -> wel
    /\ flash' = CASE Command = 129 /\ wel -> ErasedBy(Page)
                  [] Command = 32 /\ wel  -> ErasedBy(Sector)
                  [] Command = 2 /\ wel   -> Programmed
                  [] OTHER -> flash

FlashAccess ==
    /\ prog # <<>>
    /\ Head(prog).op \in {"byte", "cs", "mode"}
    /\ prog' = Tail(prog)
    /\ LET c == Head(prog)
       IN  /\ mode' = IF c.op = "mode" THEN c.val ELSE mode
           /\ cs' = IF c.op = "cs" THEN c.val ELSE cs
           /\ shift' = IF c.op = "byte" THEN Append(shift, c.val)
                       ELSE IF c.op = "cs" THEN <<>> ELSE shift
           /\ IF c.op = "cs" /\ c.val = 1 /\ cs = 0 /\ mode = 1
              THEN FlashExecutes ELSE UNCHANGED <<wel, flash>>
    /\ UNCHANGED <<family, result, tableVars, asicVars, job, stored, spilled>>
    /\ UNCHANGED <<ledVars, calls>>

\* Register 0x10d7 starts the transaction the other registers describe.
I2cAccess ==
    /\ prog # <<>>
    /\ Head(prog).op = "i2c"
    /\ prog' = Tail(prog)
    /\ LET c     == Head(prog)
           count == (i2c[0] \div 16) % 8
           reads == (i2c[0] \div 2) % 2 = 1
           go    == c.reg = 7 /\ i2c[1] = LedAddress
       IN  /\ i2c' = IF go /\ reads THEN [i2c EXCEPT ![6] = driver[point]]
                     ELSE [i2c EXCEPT ![c.reg] = c.val]
           /\ point' = IF go /\ ~reads THEN i2c[2] ELSE point
           /\ driver' = IF go /\ ~reads /\ count = 2
                        THEN [driver EXCEPT ![i2c[2]] = i2c[3]] ELSE driver
    /\ UNCHANGED <<family, result, tableVars, asicVars, job, flashVars>>
    /\ UNCHANGED <<gpio, regLED, level, hidden, calls>>

I2cTake ==
    /\ prog # <<>>
    /\ Head(prog).op = "take"
    /\ prog' = Tail(prog)
    /\ job' = [job EXCEPT !.out = i2c[6]]
    /\ UNCHANGED <<family, result, tableVars, asicVars, flashVars, ledVars, calls>>

SonixNext ==
    \/ \E text \in Texts : FlashWrite(text)
    \/ \E n \in (0 .. 2 * Page + 1) \union {Sector, Sector + Page} : FlashRead(n)
    \/ \E ch \in 0 .. 2, v \in {"off", "dim", "on"} : LedSetValue(ch, v)
    \/ LedInit
    \/ LedClose
    \/ \E n \in {4, 6, 7, 8} : LedRead(n)
    \/ FlashAccess
    \/ I2cAccess
    \/ I2cTake
    \/ Next /\ UNCHANGED sonixVars

SonixSpec == SonixInit /\ [][SonixNext]_<<vars, sonixVars>>

-----------------------------------------------------------------------------
\* Types; a byte sent over the bus fits in eight bits.
SonixTypeOK ==
    /\ \A k \in DOMAIN shift : shift[k] \in 0 .. 255
    /\ mode \in 0 .. 1 /\ cs \in 0 .. 1
    /\ flash \in [Area -> 0 .. 255]
    /\ driver \in [0 .. 10 -> 0 .. 255]
    /\ regLED \subseteq 0 .. 2 /\ hidden \subseteq 0 .. 2
    /\ calls \in 0 .. MaxCalls

\* XU_SF_Write: when it returns, the flash holds the text and its NUL, over all
\* pages of a sector and whatever was there before, nothing outside the sector
\* has changed, and the flash is deselected and out of flash mode.  One sector
\* is erased however long the text is: what a text programs beyond it depends
\* on what was there, and changes it.
FlashWritten ==
    prog = <<>> /\ job.call = "write" =>
        /\ \A k \in 1 .. Len(stored) + 1 :
              k <= Sector => flash[Base + k - 1] = Append(stored, Nul)[k]
        /\ ~spilled => \A a \in Base + Sector .. Base + 2 * Sector - 1 : flash[a] = 7
        /\ cs = 1 /\ mode = 0

\* CaptureFlash::Read after Write: the text, cut to the length asked for, as far
\* as both stay in the sector that Write erases.
FlashReadsBack ==
    (job.call = "read" /\ stored # None /\ (Len(stored) < Sector \/ job.arg <= Sector)) =>
        job.out = SubSeq(stored, 1, IF job.arg < Len(stored) THEN job.arg
                                    ELSE Len(stored))

\* CaptureLED: between calls the driver's enable register has the bits of
\* exactly the channels that are on, as GetValue tells it, but for those that
\* Init switched off without telling, and XU_I2C_ReadEx returns the register it
\* was asked for.
LedDriverMatches ==
    prog = <<>> =>
        /\ driver[4] = LedBits({ch \in 0 .. 2 : level[ch] = "on"} \ hidden)
        /\ job.call = "i2cread" => job.out = driver[job.arg]

\* Between calls the flash and the LED driver hold what the calls said, after
\* any sequence of register accesses of XU_SF_Write, XU_SF_Read and CaptureLED.
PeripheralsMatch == SonixTypeOK /\ FlashWritten /\ FlashReadsBack /\ LedDriverMatches

=============================================================================
