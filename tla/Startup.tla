-------------------------------- MODULE Startup --------------------------------
(***************************************************************************)
(* kentry (entry.c) on the bootstrap CPU, from the checks of the boot      *)
(* loader's answers to kmain (kmain.c): the order of the init calls, with  *)
(* memory_init step by step (module MemoryInit) and the pages the others   *)
(* take from its list; and where panic (arch/x86/panic.c) and a page fault *)
(* lead at each point, which depends on what has been set up by then.      *)
(*                                                                         *)
(* Modules PageTables, PciBus and ApBoot are the inside of                 *)
(* virtual_memory_init and user_space_init, of load_drivers and            *)
(* parse_acpi, and of the loop that starts the processors.                 *)
(***************************************************************************)
EXTENDS MemoryInit

CONSTANTS TABLE_PAGES,  \* pages virtual_memory_init takes: its root and the tables of the ECAM window
          USER_PAGES,   \* pages user_space_init takes: its root, code, stack and their tables
          MMIO_PAGES    \* tables the first map_mmio takes, for the local APIC

ASSUME PagesAssumption == {TABLE_PAGES, USER_PAGES, MMIO_PAGES} \subseteq Nat

VARIABLES at,           \* where kentry is, or how it ended
          missing,      \* the first answer kentry asks for that the boot loader did not give, or "none"
          acpi,         \* the answer nobody asks for: the RSDP, and what it leads to
          vectors,      \* interrupt.c: the vectors with a gate
          idt,          \* lidt has loaded the table they are in
          taken,        \* pages taken from page_list
          leaked,       \* KGetPage has returned NULL to another CPU, and kept memory_lock
          gs,           \* the bootstrap CPU has its per-CPU block
          fb_ptr        \* kmain has set the framebuffer's address

startupVars == <<at, missing, acpi, vectors, idt, taken, leaked, gs, fb_ptr>>
allVars == <<vars, startupVars>>

Answers == {"base_revision", "framebuffer", "memmap", "hhdm", "mp"}

\* Not given, with a checksum that is wrong (its own or the RSDT's), of a revision above 1,
\* or good.
Rsdps == {"missing", "invalid", "newer", "good"}

StartupInit ==
  /\ Init
  /\ at = "kentry"
  /\ missing \in Answers \cup {"none"} /\ acpi \in Rsdps
  /\ vectors = {} /\ idt = FALSE
  /\ taken = 0 /\ leaked = FALSE
  /\ gs = FALSE /\ fb_ptr = FALSE

\* A page fault: page_fault_handler logs and stops the CPU, if the table with its
\* gate is loaded; what the boot loader's table would do is unknown.
PageFault == at' = IF idt /\ 14 \in vectors THEN "stopped" ELSE "lost"

\* panic: its lines, draw_screen, which stores through fb_ptr, and triple_fault.  The
\* bootstrap CPU's cpu_state is 0, so that it does not halt with its block in use.
Panic == IF fb_ptr THEN at' = "restarted" ELSE PageFault

-------------------------------------------------------------------------------
\* Mutant: nobody asks for the processors.
CheckAnswersButMp ==
  /\ at = "kentry"
  /\ IF missing \in {"none", "mp"} THEN at' = "init" ELSE Panic
  /\ UNCHANGED <<vars, missing, acpi, vectors, idt, taken, leaked, gs, fb_ptr>>

CheckAnswers ==
  /\ at = "kentry"
  /\ IF missing = "none" THEN at' = "init" ELSE Panic
  /\ UNCHANGED <<vars, missing, acpi, vectors, idt, taken, leaked, gs, fb_ptr>>

\* serial_init and InterruptInit: the six gates, and lidt.
InterruptInit ==
  /\ at = "init" /\ at' = "memory_init"
  /\ vectors' = vectors \cup {0, 2, 10, 13, 14, 48}
  /\ idt' = TRUE
  /\ UNCHANGED <<vars, missing, acpi, taken, leaked, gs, fb_ptr>>

memory_init ==
  /\ at = "memory_init"
  /\ Next
  /\ UNCHANGED startupVars

\* Mutant: wait for a page.
GiveRawPagesWaiting(count, next) ==
  IF taken + count <= Len(page_list)
  THEN at' = next /\ taken' = taken + count
  ELSE UNCHANGED <<at, taken>>

\* __giverawpage, count times; panic when the list has no more.
GiveRawPages(count, next) ==
  IF taken + count <= Len(page_list)
  THEN at' = next /\ taken' = taken + count
  ELSE Panic /\ taken' = Len(page_list)

virtual_memory_init ==
  /\ at = "memory_init" /\ pc = "end"
  /\ GiveRawPages(TABLE_PAGES, "user_space_init")
  /\ UNCHANGED <<vars, missing, acpi, vectors, idt, leaked, gs, fb_ptr>>

user_space_init ==
  /\ at = "user_space_init"
  /\ GiveRawPages(USER_PAGES, "setupbspcpudata")
  /\ UNCHANGED <<vars, missing, acpi, vectors, idt, leaked, gs, fb_ptr>>

\* The end of user_space_init: KGetPage, whose NULL is written through.
setupbspcpudata ==
  /\ at = "setupbspcpudata"
  /\ IF taken < Len(page_list)
     THEN at' = "check_watchdog" /\ taken' = taken + 1 /\ gs' = TRUE
     ELSE PageFault /\ UNCHANGED <<taken, gs>>
  /\ UNCHANGED <<vars, missing, acpi, vectors, idt, leaked, fb_ptr>>

\* Mutant: the checksums are not looked at.
LoadDriversUnchecked ==
  /\ at = "check_watchdog"
  /\ IF acpi = "missing" THEN PageFault ELSE at' = "kmain"
  /\ UNCHANGED <<vars, missing, acpi, vectors, idt, taken, leaked, gs, fb_ptr>>

\* check_watchdog, load_drivers and parse_acpi, which take no page.  parse_acpi reads the
\* answer without asking whether there is one, and panics when a checksum is wrong.
LoadDrivers ==
  /\ at = "check_watchdog"
  /\ IF acpi = "missing" THEN PageFault
     ELSE IF acpi = "invalid" THEN Panic ELSE at' = "kmain"
  /\ UNCHANGED <<vars, missing, acpi, vectors, idt, taken, leaked, gs, fb_ptr>>

\* The loop over the processors, and set_up_framebuffer in kmain.  The processors take
\* a page each; one that gets none keeps memory_lock.
SendProcessors ==
  /\ at = "kmain" /\ at' = "jump_to_watchdog"
  /\ taken' \in taken .. Len(page_list)
  /\ leaked' \in {FALSE, taken' = Len(page_list)}
  /\ fb_ptr' = TRUE
  /\ UNCHANGED <<vars, missing, acpi, vectors, idt, gs>>

\* The watchdog, up to the first send_ipi: without x2APIC it maps the local APIC.  A kept
\* memory_lock holds the bootstrap CPU up, or lets it in if the tag says CPU 0.
JumpToWatchdog ==
  /\ at = "jump_to_watchdog"
  /\ \/ at' = "watchdog" /\ UNCHANGED taken
     \/ leaked /\ at' = "blocked" /\ UNCHANGED taken
     \/ GiveRawPages(MMIO_PAGES, "watchdog")
  /\ UNCHANGED <<vars, missing, acpi, vectors, idt, leaked, gs, fb_ptr>>

StartupNext == \/ CheckAnswers \/ InterruptInit \/ memory_init \/ virtual_memory_init
               \/ user_space_init \/ setupbspcpudata \/ LoadDrivers
               \/ SendProcessors \/ JumpToWatchdog

StartupSpec == StartupInit /\ [][StartupNext]_allVars

-------------------------------------------------------------------------------
(* Properties *)

\* The values of the boot state, and those of memory_init.
StartupTypeOK ==
  /\ TypeOK
  /\ at \in {"kentry", "init", "memory_init", "user_space_init", "setupbspcpudata", "check_watchdog",
             "kmain", "jump_to_watchdog", "watchdog", "blocked", "stopped", "lost", "restarted"}
  /\ missing \in Answers \cup {"none"} /\ acpi \in Rsdps /\ vectors \subseteq 0 .. 255
  /\ taken \in 0 .. Len(page_list)
  /\ idt \in BOOLEAN /\ leaked \in BOOLEAN /\ gs \in BOOLEAN /\ fb_ptr \in BOOLEAN

\* What memory_init lists: page addresses from 1 MiB up, never more than there is room for
\* (StartupTypeOK), each behind the start of a usable region (BehindUsable); as many as
\* there is room for if there is one usable page (FillsUp); and, of a map of whole pages,
\* one run of pages from the first usable region's start on, each once (OneRun).  That the
\* pages are usable it does not promise: see ReclaimableNotUsed.
PageListRight == StartupTypeOK /\ BehindUsable /\ FillsUp /\ OneRun

\* How the start ends tells why.  The machine restarts only once kmain has set fb_ptr:
\* until then panic faults in draw_screen, which stops the CPU or, before
\* InterruptInit, leaves it to the boot loader's table.  The CPU is lost only for want
\* of an answer, stopped only for want of pages or, once it has its block, because of
\* the ACPI tables, and waits only for a lock another CPU kept; and kmain is reached only
\* with all answers, valid tables, the handlers, a per-CPU block and the pages of the
\* calls before it.
EndsForItsReason ==
  /\ at \in {"restarted", "blocked"} => fb_ptr /\ taken = Len(page_list)
  /\ at = "lost" => missing # "none" /\ ~idt
  /\ at = "stopped" => /\ missing = "none"
                       /\ IF gs THEN acpi \in {"missing", "invalid"}
                          ELSE Len(page_list) < TABLE_PAGES + USER_PAGES + 1
  /\ at \in {"kmain", "jump_to_watchdog", "watchdog"} =>
       /\ missing = "none" /\ acpi \in {"newer", "good"} /\ idt /\ gs
       /\ Len(page_list) >= TABLE_PAGES + USER_PAGES + 1

\* Where the start ends: in the watchdog, or in one of the four ways to fail.
StartupOver == at \in {"watchdog", "blocked", "stopped", "lost", "restarted"}

-------------------------------------------------------------------------------
(* The inductive invariant of PageListRight and EndsForItsReason *)

\* What has been set up where kentry is.
StartInv ==
  /\ at \in {"kentry", "init"} => ~idt /\ pc = "entry"
  /\ at \in {"kentry", "init", "memory_init"} => taken = 0
  /\ at \notin {"kentry", "lost"} => missing = "none"
  /\ at \notin {"kentry", "lost", "init"} => idt /\ 14 \in vectors
  /\ at \notin {"kentry", "lost", "init", "memory_init"} => pc = "end"
  /\ fb_ptr <=> at \in {"jump_to_watchdog", "watchdog", "blocked", "restarted"}
  /\ at \in {"kentry", "init", "memory_init", "user_space_init", "setupbspcpudata"} => ~gs
  /\ at = "user_space_init" => taken = TABLE_PAGES
  /\ at = "setupbspcpudata" => taken = TABLE_PAGES + USER_PAGES
  /\ at \in {"kmain", "jump_to_watchdog", "watchdog"} => acpi \in {"newer", "good"}
  /\ at \in {"check_watchdog", "kmain", "jump_to_watchdog", "watchdog"} =>
       gs /\ Len(page_list) >= TABLE_PAGES + USER_PAGES + 1
  /\ at = "jump_to_watchdog" /\ leaked => taken = Len(page_list)

Inv == /\ StartupTypeOK /\ LoopInv /\ FillInv /\ BehindUsable /\ OneRun /\ RunInv
       /\ StartInv /\ EndsForItsReason
===============================================================================
