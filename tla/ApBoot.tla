-------------------------------- MODULE ApBoot --------------------------------
(***************************************************************************)
(* The start of the application processors: the loop of kentry (entry.c)   *)
(* that sends them to ap_entry (sys/cpu/generic.c), which all of them then *)
(* run at the same time, with KGetPage (module PageAllocator), the per-CPU *)
(* blocks (include/dej/percpu.c) and tss_init (arch/x86/tss.c).  The       *)
(* bootstrap CPU goes on to jump_to_watchdog, whose first send_ipi maps    *)
(* the local APIC and so calls __giverawpage.                              *)
(*                                                                         *)
(* Until a CPU has written its GS base, aquire_lock knows it as CPU 0.     *)
(***************************************************************************)
EXTENDS Integers, FiniteSets

CONSTANTS NAps,       \* the application processors are 1 .. NAps, in the order of mp->cpus
          LapicId,    \* their local APIC ids
          pages       \* entries of page_list

MAX_CPUS == 64
TSS_ENTRIES == 32     \* tssforcpus[32], indexed by lapic_id
BSP == 0
Aps == 1 .. NAps
Cpus == 0 .. NAps

ASSUME ApAssumption ==
  /\ NAps \in 1 .. MAX_CPUS - 1
  /\ LapicId \in [Aps -> 1 .. TSS_ENTRIES - 1]
  /\ \A c, d \in Aps : LapicId[c] = LapicId[d] => c = d
  /\ pages \in Nat \ {0}    \* the bootstrap CPU has its block

VARIABLES memory_lock, used, pc, op, i, got, mine,    \* module PageAllocator
          sent,         \* how many processors kentry has sent to ap_entry
          stage,        \* where each CPU is in ap_entry, or the bootstrap CPU after kentry's loop
          core,         \* the atomic counter of generic.c
          my_core,      \* each CPU's local variable
          gs,           \* MSR_GS_BASE: the CPU's block (a page) or NULL
          percpu,       \* the contents of a page used as per-CPU block
          cpu_percpu,   \* the table of blocks
          my_tss,       \* percpu_tss of write_tss_descriptor
          descriptor,   \* the one TSS descriptor of the GDT that all CPUs share
          tr,           \* the TSS each CPU has loaded
          overlap       \* history: two CPUs were in the allocator or between the descriptor and ltr

memVars == <<memory_lock, used, pc, op, i, got, mine>>
tssVars == <<my_tss, descriptor, tr>>
blockVars == <<gs, percpu, cpu_percpu>>
coreVars == <<core, my_core>>
vars == <<memVars, sent, stage, coreVars, blockVars, tssVars, overlap>>

Id == [c \in Cpus |-> IF c = BSP THEN 0 ELSE LapicId[c]]

Mem == INSTANCE PageAllocator

NULL == Mem!NULL
Page == Mem!Page

\* The image of .percpu that is copied into a block.
PercpuImage == [cpu_id |-> 0, tss |-> NULL]

\* kentry has set up the bootstrap CPU: block in page 0, cpu_id 0, its TSS loaded.  The
\* calls before have taken any number of other pages.
Init ==
  /\ memory_lock = Mem!Lock!Unlocked
  /\ used \in {u \in [Page -> BOOLEAN] : u[0] /\ \A p, q \in Page : p <= q /\ u[q] => u[p]}
  /\ pc = [c \in Cpus |-> "idle"]
  /\ op = [c \in Cpus |-> "KGetPage"]
  /\ i = [c \in Cpus |-> 0]
  /\ got = [c \in Cpus |-> IF c = BSP THEN 0 ELSE Mem!NoResult]
  /\ mine = [c \in Cpus |-> IF c = BSP THEN {0} ELSE {}]
  /\ sent = 0
  /\ stage = [c \in Cpus |-> IF c = BSP THEN "send" ELSE "parked"]
  /\ core = 0
  /\ my_core = [c \in Cpus |-> 0]
  /\ gs = [c \in Cpus |-> IF c = BSP THEN 0 ELSE NULL]
  /\ percpu = [p \in Page |-> IF p = 0 THEN [cpu_id |-> 0, tss |-> 0] ELSE PercpuImage]
  /\ cpu_percpu = [k \in Cpus |-> IF k = BSP THEN 0 ELSE NULL]
  /\ my_tss = [c \in Cpus |-> IF c = BSP THEN 0 ELSE NULL]
  /\ descriptor = [tss |-> 0, busy |-> TRUE]
  /\ tr = [c \in Cpus |-> IF c = BSP THEN 0 ELSE NULL]
  /\ overlap = FALSE

Advance(c, from, to) == /\ stage[c] = from
                        /\ stage' = [stage EXCEPT ![c] = to]

\* What aquire_lock takes for the caller's identity.
current_cpu(c) == IF gs[c] = NULL THEN 0 ELSE percpu[gs[c]].cpu_id

-------------------------------------------------------------------------------
(* kentry and jump_to_watchdog on the bootstrap CPU *)

Send ==
  /\ stage[BSP] = "send" /\ sent < NAps
  /\ sent' = sent + 1
  /\ stage' = [stage EXCEPT ![sent + 1] = "start", ![BSP] = "log"]
  /\ UNCHANGED <<memVars, coreVars, blockVars, tssVars, overlap>>

\* LogfStr after the store: the processor sent is already running.
LogSent ==
  /\ Advance(BSP, "log", "send")
  /\ UNCHANGED <<memVars, sent, coreVars, blockVars, tssVars, overlap>>

\* The count of jump_to_watchdog.  With a CPU to watch, send_ipi calls map_mmio,
\* which needs one page table.
CountCpus ==
  /\ sent = NAps
  /\ \/ /\ \E k \in Aps : cpu_percpu[k] # NULL
        /\ Advance(BSP, "send", "map_mmio")
        /\ Mem!Call(BSP, "__giverawpage")
        /\ overlap' = (overlap \/ \E c \in Aps : pc[c] # "idle")
     \/ /\ \A k \in Aps : cpu_percpu[k] = NULL
        /\ Advance(BSP, "send", "watching")
        /\ UNCHANGED <<memVars, overlap>>
  /\ UNCHANGED <<sent, coreVars, blockVars, tssVars>>

MapMmioDone ==
  /\ pc[BSP] = "idle"
  /\ Advance(BSP, "map_mmio", "watching")
  /\ UNCHANGED <<memVars, sent, coreVars, blockVars, tssVars, overlap>>

-------------------------------------------------------------------------------
(* ap_entry *)

\* Mutant: the counter is read and not advanced.
ReadCore(c) ==
  /\ Advance(c, "start", "getpage")
  /\ my_core' = [my_core EXCEPT ![c] = core + 1]
  /\ UNCHANGED <<memVars, sent, core, blockVars, tssVars, overlap>>

\* Mutant: one is added twice.
FetchCoreTwice(c) ==
  /\ Advance(c, "start", "getpage")
  /\ my_core' = [my_core EXCEPT ![c] = core + 2]
  /\ core' = (core + 1) % 256
  /\ UNCHANGED <<memVars, sent, blockVars, tssVars, overlap>>

\* atomic_fetch_add(&core, 1) + 1
FetchCore(c) ==
  /\ Advance(c, "start", "getpage")
  /\ my_core' = [my_core EXCEPT ![c] = core + 1]
  /\ core' = (core + 1) % 256
  /\ UNCHANGED <<memVars, sent, blockVars, tssVars, overlap>>

CallKGetPage(c) ==
  /\ Advance(c, "getpage", "allocating")
  /\ Mem!Call(c, "KGetPage")
  /\ overlap' = (overlap \/ \E d \in Cpus : pc[d] # "idle")
  /\ UNCHANGED <<sent, coreVars, blockVars, tssVars>>

\* Any step of KGetPage, or of __giverawpage on the bootstrap CPU.
Allocate(c) ==
  /\ Mem!Running(c, current_cpu(c))
  /\ UNCHANGED <<sent, stage, coreVars, blockVars, tssVars, overlap>>

\* memset and memcpy of the new block; a NULL block is a page fault, whose
\* handler stops the CPU.
CopyImage(c) ==
  /\ pc[c] = "idle"
  /\ Advance(c, "allocating", IF got[c] = NULL THEN "faulted" ELSE "set_gs")
  /\ percpu' = IF got[c] = NULL THEN percpu ELSE [percpu EXCEPT ![got[c]] = PercpuImage]
  /\ UNCHANGED <<memVars, sent, coreVars, gs, cpu_percpu, tssVars, overlap>>

SetGs(c) ==
  /\ Advance(c, "set_gs", "set_id")
  /\ gs' = [gs EXCEPT ![c] = got[c]]
  /\ UNCHANGED <<memVars, sent, coreVars, percpu, cpu_percpu, tssVars, overlap>>

SetId(c) ==
  /\ Advance(c, "set_id", "set_tss")
  /\ percpu' = [percpu EXCEPT ![gs[c]].cpu_id = LapicId[c]]
  /\ UNCHANGED <<memVars, sent, coreVars, gs, cpu_percpu, tssVars, overlap>>

\* Mutant: the TSS of the core number.
SetTssOfCore(c) ==
  /\ Advance(c, "set_tss", "publish")
  /\ percpu' = [percpu EXCEPT ![gs[c]].tss = my_core[c]]
  /\ UNCHANGED <<memVars, sent, coreVars, gs, cpu_percpu, tssVars, overlap>>

SetTss(c) ==
  /\ Advance(c, "set_tss", "publish")
  /\ percpu' = [percpu EXCEPT ![gs[c]].tss = LapicId[c]]
  /\ UNCHANGED <<memVars, sent, coreVars, gs, cpu_percpu, tssVars, overlap>>

Publish(c) ==
  /\ Advance(c, "publish", "tss_init")
  /\ cpu_percpu' = [cpu_percpu EXCEPT ![my_core[c]] = got[c]]
  /\ UNCHANGED <<memVars, sent, coreVars, gs, percpu, tssVars, overlap>>

\* write_tss_descriptor up to the GDT: the TSS is filled; no TSS pointer stops the CPU.
FillTss(c) ==
  LET t == percpu[gs[c]].tss IN
  /\ Advance(c, "tss_init", IF t = NULL THEN "stopped" ELSE "descriptor")
  /\ my_tss' = [my_tss EXCEPT ![c] = t]
  /\ UNCHANGED <<memVars, sent, coreVars, blockVars, descriptor, tr, overlap>>

\* The two stores into the GDT; the second, the high half of the address, is
\* the same for every entry of tssforcpus.
WriteDescriptor(c) ==
  /\ Advance(c, "descriptor", "ltr")
  /\ descriptor' = [tss |-> my_tss[c], busy |-> FALSE]
  /\ overlap' = (overlap \/ \E d \in Cpus : stage[d] = "ltr")
  /\ UNCHANGED <<memVars, sent, coreVars, blockVars, my_tss, tr>>

\* ltr 0x48 marks the descriptor busy; on a busy one it is a general protection
\* fault, whose handler stops the CPU.
LoadTss(c) ==
  /\ Advance(c, "ltr", IF descriptor.busy THEN "faulted" ELSE "online")
  /\ tr' = IF descriptor.busy THEN tr ELSE [tr EXCEPT ![c] = descriptor.tss]
  /\ descriptor' = [descriptor EXCEPT !.busy = TRUE]
  /\ UNCHANGED <<memVars, sent, coreVars, blockVars, my_tss, overlap>>

\* sti, and sil = 0, its value in the image.
EnableInterrupts(c) ==
  /\ Advance(c, "online", "enabled")
  /\ UNCHANGED <<memVars, sent, coreVars, blockVars, tssVars, overlap>>

\* The switch on my_core.
TakeRole(c) ==
  /\ Advance(c, "enabled", CASE my_core[c] = 1 -> "temperature"
                            [] my_core[c] = 2 -> "sound"
                            [] OTHER -> "idle")
  /\ UNCHANGED <<memVars, sent, coreVars, blockVars, tssVars, overlap>>

ApStep(c) == \/ FetchCore(c) \/ CallKGetPage(c) \/ CopyImage(c) \/ SetGs(c) \/ SetId(c)
             \/ SetTss(c) \/ Publish(c) \/ FillTss(c) \/ WriteDescriptor(c) \/ LoadTss(c)
             \/ EnableInterrupts(c) \/ TakeRole(c)

BspStep == Send \/ LogSent \/ CountCpus \/ MapMmioDone

Next == \/ BspStep
        \/ \E c \in Cpus : Allocate(c)
        \/ \E c \in Aps : ApStep(c)

Spec == Init /\ [][Next]_vars

\* Every CPU keeps executing.
FairSpec == /\ Spec
            /\ WF_vars(BspStep)
            /\ \A c \in Aps : WF_vars(ApStep(c))
            /\ \A c \in Cpus : WF_vars(Allocate(c))

-------------------------------------------------------------------------------
(* Properties *)

Role == {"temperature", "sound", "idle"}
Settled == Role \cup {"faulted", "stopped"}

\* The values of the boot state.
TypeOK ==
  /\ Mem!TypeOK
  /\ sent \in 0 .. NAps
  /\ stage \in [Cpus -> Settled \cup {"send", "log", "map_mmio", "watching", "parked", "start", "getpage",
                  "allocating", "set_gs", "set_id", "set_tss", "publish", "tss_init",
                  "descriptor", "ltr", "online", "enabled"}]
  /\ core \in Cpus /\ my_core \in [Cpus -> Cpus]
  /\ gs \in [Cpus -> Page \cup {NULL}]
  /\ percpu \in [Page -> [cpu_id : 0 .. TSS_ENTRIES - 1, tss : 0 .. TSS_ENTRIES - 1 \cup {NULL}]]
  /\ cpu_percpu \in [Cpus -> Page \cup {NULL}]
  /\ my_tss \in [Cpus -> 0 .. TSS_ENTRIES - 1 \cup {NULL}]
  /\ descriptor \in [tss : 0 .. TSS_ENTRIES - 1, busy : BOOLEAN]
  /\ tr \in [Cpus -> 0 .. TSS_ENTRIES - 1 \cup {NULL}]

\* The stages from which on a CPU's task register is loaded, its block has its TSS, its
\* block has its id, its GS base is written, and it has a block.
WithTr == Role \cup {"online", "enabled"}
WithTss == WithTr \cup {"publish", "tss_init", "descriptor", "ltr"}
WithId == WithTss \cup {"set_tss"}
WithGs == WithId \cup {"set_id"}
WithBlock == WithGs \cup {"set_gs"}

HasId(c) == stage[c] \in WithId

\* "id is cpu id (laptic)": once a CPU has written its cpu_id, percpu_read(cpu_id)
\* on it gives its own local APIC id.
PercpuIdIsLapicId == \A c \in Aps : HasId(c) => percpu[gs[c]].cpu_id = LapicId[c]

\* Every CPU in its role, the bootstrap CPU included, has its own block and its
\* own TSS in the task register, and no CPU has faulted on the way.
OwnResources ==
  /\ \A c, d \in Cpus : gs[c] = gs[d] /\ gs[c] # NULL => c = d
  /\ \A c \in Aps : stage[c] \in Role => tr[c] = LapicId[c]
  /\ \A c \in Aps : stage[c] \notin {"faulted", "stopped"}

\* Ids, blocks and TSSs are mixed up only when two CPUs are in the allocator, or
\* between the descriptor and ltr, at the same time, and a processor faults on the
\* way only then or for lack of a page: starting the processors one after the other
\* would be enough.
MixedUpOnlyByOverlap ==
  \/ overlap
  \/ PercpuIdIsLapicId /\ OwnResources
  \/ PercpuIdIsLapicId /\ \E c \in Aps : got[c] = NULL

\* No two processors get one core number, so that each role is run once, and
\* each entry of cpu_percpu keeps the block its processor published.
CoresKept ==
  /\ TypeOK
  /\ \A c, d \in Aps : my_core[c] = my_core[d] /\ my_core[c] # 0 => c = d
  /\ \A c \in Aps : stage[c] \in Role => cpu_percpu[my_core[c]] = got[c]

\* c spins on memory_lock, which a KGetPage that returned NULL has kept.
WaitsForLeaked(c) ==
  pc[c] = "spin" /\ memory_lock.held /\ \E d \in Aps : stage[d] = "faulted" /\ got[d] = NULL

\* Each processor ends in a role or stopped by a fault handler, unless the bootstrap CPU
\* panics for lack of a page, and even though memory_lock is released by CPUs that do not
\* hold it.  One case is left in which a processor hangs on the way: it had found the tag
\* of aquire_lock free before a processor that gets no page took the lock for good.
EveryApSettles ==
  \A c \in Aps : <>[](stage[c] \in Settled \/ pc[BSP] = "panic" \/ WaitsForLeaked(c))

-------------------------------------------------------------------------------
(* The inductive invariant of CoresKept and MixedUpOnlyByOverlap *)

Numbered == {c \in Aps : my_core[c] # 0}

\* Core numbers are given out in order, one to each processor that has passed FetchCore:
\* the counter cannot wrap, for there are at most 63 of them.
CoreInv ==
  /\ core = Cardinality(Numbered)
  /\ \A c \in Aps : stage[c] \in {"parked", "start"} <=> my_core[c] = 0
  /\ \A c \in Aps : stage[c] = "parked" <=> c > sent
  /\ \A c \in Aps : my_core[c] <= core
  /\ \A c, d \in Aps : my_core[c] = my_core[d] /\ my_core[c] # 0 => c = d
  /\ \A c \in Aps : stage[c] \in WithTr \cup {"tss_init", "descriptor", "ltr"} =>
       cpu_percpu[my_core[c]] = got[c]

\* Where a processor is in ap_entry, and what it has by then.
StageInv ==
  /\ stage[BSP] \in {"send", "log", "map_mmio", "watching"}
  /\ \A c \in Aps : stage[c] \notin {"send", "log", "map_mmio", "watching"}
  /\ pc[BSP] # "idle" => stage[BSP] = "map_mmio"
  /\ \A c \in Aps : pc[c] # "idle" => stage[c] = "allocating"
  /\ \A c \in Cpus : pc[c] \notin {"free", "clear"}
  /\ \A c \in Cpus : pc[c] \in {"take", "release", "unlock"} => i[c] \in Page
  /\ \A c \in Aps : stage[c] = "allocating" /\ pc[c] = "idle" => got[c] # Mem!NoResult
  /\ gs[BSP] = 0
  /\ \A c \in Aps : stage[c] \in WithBlock => got[c] \in Page
  /\ \A c \in Aps : stage[c] \in WithGs => gs[c] = got[c]
  /\ \A c \in Aps : stage[c] \in {"parked", "start", "getpage", "allocating", "set_gs"} => gs[c] = NULL
  /\ \A c \in Aps : gs[c] # NULL => gs[c] = got[c]
  /\ \A c \in Aps : stage[c] = "descriptor" => my_tss[c] # NULL

\* One CPU at a time in the allocator: the pages given out are used, and apart.
PagesApart ==
  /\ \A c, d \in Cpus : pc[c] # "idle" /\ pc[d] # "idle" => c = d
  /\ used[0]
  /\ \A c \in Aps : got[c] \in Page => used[got[c]] /\ got[c] # 0
  /\ \A c, d \in Aps : got[c] = got[d] /\ got[c] \in Page => c = d
  /\ \A c \in Cpus : pc[c] = "take" => ~used[i[c]]
  /\ \A c \in Cpus : pc[c] \in {"release", "unlock"} =>
       used[i[c]] /\ i[c] # 0 /\ \A d \in Aps : got[d] # i[c]

\* One CPU at a time between the descriptor and ltr: the descriptor is its own.
DescriptorOwned ==
  /\ \A c, d \in Cpus : stage[c] = "ltr" /\ stage[d] = "ltr" => c = d
  /\ \A c \in Aps : stage[c] \in {"descriptor", "ltr"} => my_tss[c] = LapicId[c]
  /\ \A c \in Aps : stage[c] = "ltr" => descriptor = [tss |-> LapicId[c], busy |-> FALSE]

\* As long as no two CPUs have overlapped, what a CPU has is its own.
AloneInv ==
  /\ PagesApart
  /\ DescriptorOwned
  /\ PercpuIdIsLapicId
  /\ \A c \in Aps : stage[c] \in WithTss => percpu[gs[c]].tss = LapicId[c]
  /\ \A c \in Aps : stage[c] \in WithTr => tr[c] = LapicId[c]
  /\ \A c \in Aps : stage[c] \in {"faulted", "stopped"} => got[c] = NULL

Inv == TypeOK /\ CoreInv /\ StageInv /\ (~overlap => AloneInv)
===============================================================================
