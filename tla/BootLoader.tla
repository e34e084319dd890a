----------------------------- MODULE BootLoader -----------------------------
(***************************************************************************)
(* boot_code.c, what the boot ROM does, with its waits as one step: choose *)
(* a boot mode, read the flash header, move its own record (buffers, copy  *)
(* of the header and stack, boot_code_t) out of the way of the sections to *)
(* load, load them block by block and jump.                                *)
(*                                                                         *)
(* Memory is a function from byte addresses to what was put there: a byte  *)
(* of the flash is named by its flash address, everything the loader keeps *)
(* in its record is Record.  The DMA writes memory some time between the   *)
(* request and the return of the call.                                     *)
(***************************************************************************)
EXTENDS Naturals, Sequences

CONSTANTS
  Addr,        (* bound: the byte addresses                                *)
  L2Base,      (* 0x1C000000                                               *)
  L2End,       (* 0x1D000000                                               *)
  RecordSize,  (* sizeof(boot_code_t)                                      *)
  BlockSize,   (* FLASH_BLOCK_SIZE                                         *)
  WordSize,    (* 4, the transfers' granularity                            *)
  MaxNbArea,   (* MAX_NB_AREA                                              *)
  Images,      (* bound: the flash headers, sequences of areas             *)
  Record, Unset

Area == [start : Nat, ptr : Nat, size : Nat, blocks : Nat]

(* The headers the tool chain writes: sections sorted by address, apart,   *)
(* aligned to words, with the number of blocks their size asks for.        *)
WellFormed(img) ==
  /\ Len(img) <= MaxNbArea
  /\ \A i \in 1 .. Len(img) :
       /\ img[i].ptr % WordSize = 0
       /\ img[i].blocks = (img[i].size + BlockSize - 1) \div BlockSize
       /\ \A j \in i + 1 .. Len(img) : img[i].ptr + img[i].size <= img[j].ptr

ASSUME BootAssumption ==
  /\ L2Base \in Nat /\ L2End \in Nat /\ RecordSize \in Nat
  /\ BlockSize \in Nat \ {0} /\ WordSize \in Nat \ {0}
  /\ BlockSize % WordSize = 0 /\ L2Base % WordSize = 0
  /\ \A img \in Images : img \in Seq(Area) /\ WellFormed(img)

VARIABLES
  pc,          (* the call or loop the boot code is in                     *)
  image,       (* the header in flash                                      *)
  area, block, (* i of findDataFit, i of loadBinaryAndStart and load_section *)
  addr,        (* the record in use, data                                  *)
  waiting,     (* inside flash_read or wait_clock_ref                      *)
  busy,        (* the DMA works on a request                               *)
  mem          (* the memory                                               *)

bootVars == <<pc, image, area, block, addr, waiting, busy, mem>>

Reads == {"HEADER", "AREAS", "NEWHEADER", "NEWAREAS", "LOAD"}
Waits == {"POWERUP", "JTAGWAIT"}

-----------------------------------------------------------------------------
(* Does the record at a overlap area x?                                    *)
OverlapsStart(a, x) == a >= x.ptr /\ a < x.ptr + x.size
Overlaps(a, x) ==
  \/ a >= x.ptr /\ a < x.ptr + x.size
  \/ a < x.ptr /\ a + RecordSize > x.ptr

(* The next block boundary, by masking.                                    *)
AlignUp(n) == LET m == n + BlockSize - 1 IN m - (m % BlockSize)
RoundUp(n) == LET m == n + WordSize - 1 IN m - (m % WordSize)

IsL2Section(x) == x.ptr >= L2Base /\ x.ptr < L2End

Last == area > Len(image)

(* iterSize, area_addr and flash_addr of load_section: all blocks before   *)
(* this one were whole.                                                    *)
Left == image[area].size - block * BlockSize
IterSizeDown == IF BlockSize > Left THEN Left - (Left % WordSize) ELSE BlockSize
IterSize == IF BlockSize > Left THEN RoundUp(Left) ELSE BlockSize
AreaAddr == image[area].ptr + block * BlockSize
FlashAddr == image[area].start + block * BlockSize

Loaded(m) ==
  [a \in Addr |-> IF a >= AreaAddr /\ a < AreaAddr + IterSize
                    THEN FlashAddr + (a - AreaAddr) ELSE m[a]]
Noted(m) ==
  [a \in Addr |-> IF a >= addr /\ a < addr + RecordSize THEN Record ELSE m[a]]

-----------------------------------------------------------------------------
Init ==
  /\ pc = "MAIN" /\ image \in Images
  /\ area = 1 /\ block = 0 /\ addr = L2Base
  /\ waiting = FALSE /\ busy = FALSE
  /\ mem = [a \in Addr |-> Unset]

GoTo(p) == pc' = p /\ UNCHANGED <<image, area, block, addr>>

(* bootFromOther and choose_boot_mode: the JTAG register and the boot pad  *)
(* decide.  The mode that asks to look again is a stuttering step.         *)
Main ==
  /\ pc = "MAIN"
  /\ \E p \in {"POWERUP", "JTAG", "ABORT", "HANG"} : GoTo(p)

(* bootFromJtag: has the loader outside announced the binary?              *)
JtagPoll ==
  /\ pc = "JTAG"
  /\ \E p \in {"JTAGWAIT", "JTAGENTRY"} : GoTo(p)

(* findDataFit, one iteration.                                             *)
Fit ==
  /\ pc = "FIT"
  /\ IF Last
       THEN pc' = "NEWHEADER" /\ area' = 1 /\ UNCHANGED addr
       ELSE /\ addr' = IF Overlaps(addr, image[area])
                         THEN AlignUp(image[area].ptr + image[area].size) ELSE addr
            /\ area' = area + 1
            /\ UNCHANGED pc
  /\ UNCHANGED <<image, block>>

(* loadBinaryAndStart: the next section, or deinit and jump_to_entry.      *)
NextSection ==
  /\ pc = "LOAD"
  /\ ~Last /\ block = image[area].blocks
  /\ area' = area + 1 /\ block' = 0
  /\ UNCHANGED <<pc, image, addr>>
Jump ==
  /\ pc = "LOAD" /\ Last
  /\ GoTo("ENTRY")

(* The memcpy out of the flash buffer.                                     *)
Copy ==
  /\ pc = "COPY"
  /\ mem' = Loaded(mem)
  /\ pc' = "LOAD" /\ block' = block + 1
  /\ UNCHANGED <<image, area, addr>>

(* Software between two calls.                                             *)
Local ==
  \/ (Main \/ JtagPoll \/ Fit \/ NextSection \/ Jump) /\ UNCHANGED mem
  \/ Copy

Calls ==
  /\ pc \in Reads \cup Waits
  /\ pc = "LOAD" => ~Last /\ block # image[area].blocks

(* What follows the return of flash_read and wait_clock_ref.               *)
AfterHeader(areas, none) == GoTo(IF Len(image) > 0 THEN areas ELSE none)
AfterCall ==
  \/ pc = "POWERUP" /\ GoTo("HEADER")
  \/ pc = "JTAGWAIT" /\ GoTo("JTAG")
  \/ pc = "HEADER" /\ AfterHeader("AREAS", "FIT")
  \/ pc = "AREAS" /\ GoTo("FIT")
  \/ pc = "NEWHEADER" /\ AfterHeader("NEWAREAS", "LOAD")
  \/ pc = "NEWAREAS" /\ GoTo("LOAD")
  \/ /\ pc = "LOAD"
     /\ IF IsL2Section(image[area])
          THEN block' = block + 1 /\ UNCHANGED <<pc, image, area, addr>>
          ELSE GoTo("COPY")

(* The data of a request: a block of a section, or the header, the areas   *)
(* or a block for the flash buffer, all three in the record.               *)
Transfer ==
  /\ busy /\ busy' = FALSE
  /\ mem' = IF pc = "LOAD" /\ IsL2Section(image[area]) THEN Loaded(mem) ELSE Noted(mem)

-----------------------------------------------------------------------------
DoLocal == ~waiting /\ Local /\ UNCHANGED <<waiting, busy>>
Call ==
  /\ ~waiting /\ Calls
  /\ waiting' = TRUE /\ busy' = (pc \in Reads)
  /\ UNCHANGED <<pc, image, area, block, addr, mem>>
DoTransfer == Transfer /\ UNCHANGED <<pc, image, area, block, addr, waiting>>
Return ==
  /\ waiting /\ ~busy
  /\ waiting' = FALSE
  /\ AfterCall
  /\ UNCHANGED <<busy, mem>>

Next == DoLocal \/ Call \/ DoTransfer \/ Return

Spec == Init /\ [][Next]_bootVars

-----------------------------------------------------------------------------
(* Once placed, the record is apart from every byte the loading writes,    *)
(* those of the last word beyond a section's end included: the loader      *)
(* overwrites neither its stack nor the areas it goes by.                  *)
Placed == {"NEWHEADER", "NEWAREAS", "LOAD", "COPY", "ENTRY"}
Apart(x) == x.ptr + RoundUp(x.size) <= addr \/ addr + RecordSize <= x.ptr
RecordApart == pc \in Placed => \A i \in 1 .. Len(image) : Apart(image[i])

(* At the jump, every byte of every section is in its place.               *)
SectionsInPlace ==
  pc = "ENTRY" =>
    \A i \in 1 .. Len(image) : \A o \in 0 .. image[i].size - 1 :
      mem[image[i].ptr + o] = image[i].start + o
=============================================================================
