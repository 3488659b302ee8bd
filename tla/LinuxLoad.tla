------------------------------ MODULE LinuxLoad ------------------------------
(***************************************************************************)
(* The Linux boot protocol of the loader: common/protos/linux_x86.c, and   *)
(* linux_risc.c for the architectures booted through UEFI tables.  A       *)
(* kernel is placed at the first address its header allows, the modules    *)
(* are concatenated into one initrd, and the memory map is copied into the *)
(* zero page and, past its end, into a setup_data node.                    *)
(*                                                                         *)
(* Addresses are words; a MiB has MiB of them, and a "4-byte" boundary is  *)
(* every other word.                                                       *)
(***************************************************************************)
EXTENDS Integers, Sequences, SequencesExt, FiniteSets

CONSTANTS MiB,            \* words of a MiB
          Top32, TopMem,  \* 4 GiB and the end of memory, in MiB
          E820_MAX,       \* E820_MAX_ENTRIES_ZEROPAGE
          LinuxJobs       \* kernels, modules and machines: see MCLinuxLoad

VARIABLES lx,             \* the boot: kernel header, modules, machine
          ln,             \* pc, places and sizes chosen so far
          ram,            \* what is in every word of memory
          free,           \* the MiB blocks that are MEMMAP_USABLE
          e820            \* [zero, ext]: the two tables

linuxVars == <<lx, ln, ram, free, e820>>

Empty == <<"empty">>
UpTo2(n) == n + (n % 2)
CeilMiB(n) == (n + MiB - 1) \div MiB
x86 == lx.arch = "x86"

(* memmap_alloc_range on whole blocks.                                      *)
Blocks(base, words) == base..base + CeilMiB(words) - 1
Fits(base, words) == Blocks(base, words) \subseteq free

-----------------------------------------------------------------------------
LinuxInit ==
  /\ lx \in LinuxJobs
  /\ ln = [pc |-> "header", kernel |-> -1, size |-> 0, initrd |-> -1, total |-> 0,
           at |-> 0, next |-> 1, sixty4 |-> FALSE, why |-> "none", entry |-> -1]
  /\ ram = [w \in 0..TopMem * MiB - 1 |-> Empty]
  /\ free = lx.free
  /\ e820 = [zero |-> <<>>, ext |-> <<>>, room |-> 0]

StopL(why) == ln' = [ln EXCEPT !.pc = "panic", !.why = why] /\ UNCHANGED <<lx, ram, free, e820>>

(* The room a kernel takes: its file, or what its header says it grows to;  *)
(* an old arm64 kernel says nothing and gets headroom and a text offset.    *)
OldArm64 == lx.arch = "aarch64" /\ lx.init = 0
kernel_alloc_size ==
  IF x86 /\ lx.version < 522 THEN lx.file
  ELSE IF OldArm64 THEN lx.file + lx.headroom
  ELSE IF lx.init > lx.file THEN lx.init ELSE lx.file
text_offset == IF OldArm64 THEN 1 ELSE IF lx.arch \in {"aarch64", "riscv"} THEN lx.text ELSE 0

(* The checks of the setup header (x86) or of verify_kernel.                *)
ReadHeader ==
  /\ ln.pc = "header"
  /\ IF lx.bad THEN StopL("header")
     ELSE /\ ln' = [ln EXCEPT !.pc = "place", !.size = kernel_alloc_size]
          /\ UNCHANGED <<lx, ram, free, e820>>

(* x86: the search for a load address.                                      *)
xlf_64bit_entry == lx.uefi64 /\ lx.version >= 524 /\ lx.xlf
kernel_addr_limit == IF xlf_64bit_entry THEN TopMem * 4 ELSE Top32
kernel_align == IF lx.version >= 517 /\ lx.align > 1 THEN lx.align ELSE 1
kernel_addr_max == IF CeilMiB(ln.size) <= kernel_addr_limit
                   THEN kernel_addr_limit - CeilMiB(ln.size) ELSE 0
kernel_search_start ==
  IF lx.version >= 522 /\ lx.pref >= 1 /\ lx.pref <= kernel_addr_max /\ CeilMiB(ln.size) <= kernel_addr_limit
  THEN lx.pref ELSE 1
relocatable_kernel == lx.version >= 517 /\ lx.reloc
AlignedUp(a, k) == ((a + k - 1) \div k) * k

(* The loop; -1 for each of its panics.                                     *)
RECURSIVE KernelWalk(_)
KernelWalk(a) ==
  IF Fits(a, ln.size) THEN a
  ELSE IF ~relocatable_kernel THEN -1
  ELSE IF a >= Top32 - 1 \/ a + kernel_align > kernel_addr_max THEN -1
  ELSE KernelWalk(a + kernel_align)

Filled(base, n, what) ==
  [w \in DOMAIN ram |-> IF w \in base..base + n - 1 THEN <<what, w - base>> ELSE ram[w]]

Loaded(base, offset) ==
  /\ ln' = [ln EXCEPT !.pc = "modules", !.kernel = base + offset,
                      !.sixty4 = x86 /\ base >= Top32]
  /\ free' = free \ Blocks(base, ln.size + offset * MiB)
  /\ ram' = Filled((base + offset) * MiB, lx.file, "kernel")
  /\ UNCHANGED <<lx, e820>>

PlaceKernel ==
  /\ ln.pc = "place" /\ x86
  /\ LET start == AlignedUp(kernel_search_start, kernel_align)
         a == IF start > kernel_addr_max THEN -1 ELSE KernelWalk(start)
     IN  IF a < 0 THEN StopL("kernel") ELSE Loaded(a, 0)

(* linux_risc.c: room for text_offset and the image on a 2 MiB boundary,    *)
(* wherever the allocator finds it.                                         *)
AllocKernel ==
  /\ ln.pc = "place" /\ ~x86
  /\ LET room(a) == a % 2 = 0 /\ Fits(a, ln.size + text_offset * MiB)
     IN  \/ \E a \in 0..TopMem : room(a) /\ Loaded(a, text_offset)
         \/ ~(\E a \in 0..TopMem : room(a)) /\ StopL("kernel")

(* The modules' sizes add up; each is padded so that the next starts on a   *)
(* 4-byte boundary (in NotPadded it does not).                              *)
NotPadded(n) == lx.modules[n]
Padded(n) == UpTo2(lx.modules[n])
Sum(n) == FoldLeft(LAMBDA acc, k : acc + Padded(k), 0, [k \in 1..n |-> k])

OpenModules ==
  /\ ln.pc = "modules"
  /\ IF lx.missing THEN StopL("module")
     ELSE /\ ln' = IF lx.modules = <<>> THEN [ln EXCEPT !.pc = "e820"]
                   ELSE [ln EXCEPT !.pc = "initrd", !.total = Sum(Len(lx.modules))]
          /\ UNCHANGED <<lx, ram, free, e820>>

(* Downwards from initrd_addr_max in steps of a MiB; a 64-bit kernel takes  *)
(* any memory when that fails.                                              *)
initrd_top == IF lx.version <= 514 \/ lx.initrdMax = 0 THEN lx.defaultTop ELSE lx.initrdMax
RECURSIVE InitrdWalk(_)
InitrdWalk(b) == IF b < 1 THEN -1 ELSE IF Fits(b, ln.total) THEN b ELSE InitrdWalk(b - 1)

TakeInitrd(b, high) ==
  /\ ln' = [ln EXCEPT !.pc = "copy", !.initrd = b, !.at = b * MiB, !.sixty4 = @ \/ high]
  /\ free' = free \ Blocks(b, ln.total)
  /\ UNCHANGED <<lx, ram, e820>>

PlaceInitrd ==
  /\ ln.pc = "initrd" /\ x86
  /\ LET b == IF ln.total > initrd_top * MiB THEN -2
              ELSE InitrdWalk((initrd_top * MiB - ln.total) \div MiB)
         high == {a \in 1..TopMem : Fits(a, ln.total)}
     IN  CASE b >= 1 -> TakeInitrd(b, FALSE)
           [] b = -1 /\ xlf_64bit_entry /\ high # {} -> \E a \in high : TakeInitrd(a, TRUE)
           [] OTHER -> StopL("initrd")

AllocInitrd ==
  /\ ln.pc = "initrd" /\ ~x86
  /\ \/ \E a \in 0..TopMem : Fits(a, ln.total) /\ TakeInitrd(a, FALSE)
     \/ ~(\E a \in 0..TopMem : Fits(a, ln.total)) /\ StopL("initrd")

(* fread and the zeroed padding; the window arm64 kernels ask for.          *)
InWindow ==
  LET low == IF ln.kernel < ln.initrd THEN ln.kernel ELSE ln.initrd
      base == (low \div lx.gib) * lx.gib
      kEnd == ln.kernel * MiB + ln.size
      iEnd == ln.initrd * MiB + ln.total
  IN  (IF kEnd > iEnd THEN kEnd ELSE iEnd) - base * MiB <= lx.window * MiB

CopyModule ==
  /\ ln.pc = "copy"
  /\ IF ln.next > Len(lx.modules)
     THEN IF lx.arch = "aarch64" /\ ~InWindow THEN StopL("window")
          ELSE ln' = [ln EXCEPT !.pc = "e820"] /\ UNCHANGED <<lx, ram, free, e820>>
     ELSE LET n == ln.next
              m == lx.modules[n]
          IN  /\ ram' = [w \in DOMAIN ram |->
                           IF w \in ln.at..ln.at + m - 1 THEN <<"module", n, w - ln.at>>
                           ELSE IF x86 /\ w \in ln.at + m..ln.at + Padded(n) - 1 THEN <<"zero">>
                           ELSE ram[w]]
              /\ ln' = [ln EXCEPT !.next = @ + 1, !.at = @ + Padded(n)]
              /\ UNCHANGED <<lx, free, e820>>

(* Screen, RSDP and the reservation of the overflow table, while memory can *)
(* still be allocated; then the boot services end and the map is final.     *)
ReserveE820 ==
  /\ ln.pc = "e820"
  /\ ln' = [ln EXCEPT !.pc = IF x86 THEN "fill" ELSE "enter", !.next = 1]
  /\ e820' = [e820 EXCEPT !.room = IF lx.version >= 521 /\ lx.rawMax > E820_MAX
                                   THEN lx.rawMax - E820_MAX ELSE 0]
  /\ UNCHANGED <<lx, ram, free>>

FillE820 ==
  /\ ln.pc = "fill"
  /\ IF ln.next > Len(lx.raw) THEN ln' = [ln EXCEPT !.pc = "enter"] /\ UNCHANGED <<lx, ram, free, e820>>
     ELSE LET e == lx.raw[ln.next]
              on == [ln EXCEPT !.next = @ + 1]
          IN  CASE e.type = "loader" -> ln' = on /\ UNCHANGED <<lx, ram, free, e820>>
                [] e.type # "loader" /\ Len(e820.zero) < E820_MAX ->
                     ln' = on /\ e820' = [e820 EXCEPT !.zero = Append(@, e)] /\ UNCHANGED <<lx, ram, free>>
                [] e.type # "loader" /\ Len(e820.zero) >= E820_MAX /\ Len(e820.ext) < e820.room ->
                     ln' = on /\ e820' = [e820 EXCEPT !.ext = Append(@, e)] /\ UNCHANGED <<lx, ram, free>>
                [] OTHER -> StopL("e820")

(* The image's first word, or where a LoongArch header says.                *)
jump_to_kernel == ln.kernel * MiB + (IF lx.arch = "loongarch" THEN lx.jump ELSE 0)

(* linux_spinup or, at 0x200 bytes in, linux_spinup64.                      *)
EnterLinux ==
  /\ ln.pc = "enter"
  /\ ln' = [ln EXCEPT !.pc = "entered",
              !.entry = IF ~x86 THEN jump_to_kernel
                        ELSE IF ln.sixty4 /\ xlf_64bit_entry THEN ln.kernel * MiB + 1
                        ELSE (ln.kernel * MiB) % (Top32 * MiB)]
  /\ UNCHANGED <<lx, ram, free, e820>>

LinuxNext ==
  ReadHeader \/ PlaceKernel \/ AllocKernel \/ OpenModules \/ PlaceInitrd \/ AllocInitrd
    \/ CopyModule \/ ReserveE820 \/ FillE820 \/ EnterLinux

-----------------------------------------------------------------------------
LinuxTypeOK ==
  /\ ln.pc \in {"header", "place", "modules", "initrd", "copy", "e820", "fill", "enter", "entered", "panic"}
  /\ free \subseteq lx.free
  /\ Len(e820.zero) <= E820_MAX /\ Len(e820.ext) <= e820.room

(* A kernel that is entered lies whole and untouched where the jump goes:   *)
(* all its file is there (no module was read over it), on its alignment,    *)
(* in memory that was usable, with the room it grows into kept free of the  *)
(* initrd; nothing above 4 GiB is handed over through the 32-bit entry.     *)
KernelWhole ==
  ln.pc = "entered" =>
    /\ \A i \in 0..lx.file - 1 : ram[ln.kernel * MiB + i] = <<"kernel", i>>
    /\ Blocks(ln.kernel, ln.size) \subseteq lx.free \ free
    /\ x86 => ln.kernel % kernel_align = 0
    /\ ln.initrd >= 0 => Blocks(ln.kernel, ln.size) \cap Blocks(ln.initrd, ln.total) = {}
    /\ ln.entry \in ln.kernel * MiB..ln.kernel * MiB + 1
    /\ (x86 /\ ln.entry = ln.kernel * MiB) =>
          ln.kernel * MiB + ln.size <= Top32 * MiB /\ ln.initrd * MiB + ln.total <= Top32 * MiB

(* The initrd is the modules in order, each on a 4-byte boundary right      *)
(* after the padding of the one before, and on x86 it ends below            *)
(* initrd_addr_max unless the 64-bit entry is used.                         *)
InitrdRight ==
  (ln.pc = "entered" /\ lx.modules # <<>>) =>
    /\ \A n \in 1..Len(lx.modules) : \A i \in 0..lx.modules[n] - 1 :
         ram[ln.initrd * MiB + Sum(n - 1) + i] = <<"module", n, i>>
    /\ \A n \in 1..Len(lx.modules) : Sum(n - 1) % 2 = 0
    /\ \A n \in 1..Len(lx.modules) : (x86 /\ lx.modules[n] # Padded(n)) =>
         ram[ln.initrd * MiB + Sum(n) - 1] = <<"zero">>
    /\ (x86 /\ ~ln.sixty4) => ln.initrd * MiB + ln.total <= initrd_top * MiB

(* The two tables together are the firmware's map without the loader's own  *)
(* types, in order, and the overflow table reserved before the boot         *)
(* services ended is never too small.                                       *)
E820Right ==
  /\ (x86 /\ ln.pc \in {"enter", "entered"}) =>
       e820.zero \o e820.ext = SelectSeq(lx.raw, LAMBDA e : e.type # "loader")
  /\ ln.why = "e820" => lx.version < 521 /\ Len(SelectSeq(lx.raw, LAMBDA e : e.type # "loader")) > E820_MAX

(* The loader gives up on a kernel or an initrd only when no address its    *)
(* own rules allow is free.                                                 *)
GivesUpWithoutRoom ==
  /\ (ln.why = "kernel" /\ x86) =>
       LET start == AlignedUp(kernel_search_start, kernel_align)
       IN  \A a \in start..kernel_addr_max :
             (a = start \/ (relocatable_kernel /\ (a - start) % kernel_align = 0
                              /\ a - kernel_align < Top32 - 1)) => ~Fits(a, ln.size)
  /\ (ln.why = "initrd" /\ x86) =>
       \A b \in 1..TopMem : b * MiB + ln.total <= initrd_top * MiB => ~Fits(b, ln.total)
=============================================================================
