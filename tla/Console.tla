-------------------------------- MODULE Console --------------------------------
(***************************************************************************)
(* LogStr, LogfStr and LogRaw (include/dej/log.c): each takes com1_lock    *)
(* (module Spinlock), writes its line to COM1 and releases the lock.  The  *)
(* handlers that can interrupt them log too: the fault handlers of         *)
(* interrupt/interrupt.c, entered when the line being written faults (a    *)
(* bad pointer for %s), and nmi_handler (interrupt/nmi.c), entered at any  *)
(* instruction, with panic and fi_panic (arch/x86/panic.c), which it ends  *)
(* in.  They are the nested callers the early return of aquire_lock is     *)
(* there for.                                                              *)
(*                                                                         *)
(* A line is one step between aquire_lock and release_lock; its text is    *)
(* left out.                                                               *)
(***************************************************************************)
EXTENDS Integers, FiniteSetsExt

CONSTANTS Cpus,
          Id,       \* the cpu_id of each CPU
          Marked,   \* the CPUs whose cpu_state has bit 0 set (temperature_entry sets it)
          NBanks    \* the machine check banks of a CPU

ASSUME ConsoleAssumption ==
  /\ Marked \subseteq Cpus /\ NBanks \in Nat
  /\ Id \in [Cpus -> Nat]
  /\ \A c, d \in Cpus : Id[c] = Id[d] => c = d

\* What a CPU runs: the interrupted code, and the handler on top of it.
Context == Cpus \X {"thread", "handler"}
Thread(c) == <<c, "thread">>
Handler(c) == <<c, "handler">>

VARIABLES com1_lock,
          pc,       \* the control point of each context
          stage,    \* what each CPU's handler does after the line it logs
          nested,   \* history: nmi_handler took the early return of aquire_lock
          fb_ptr,   \* kmain.c: kmain has set the framebuffer's address
          reset     \* triple_fault has restarted the machine

Lock == INSTANCE Spinlock WITH lock <- com1_lock

vars == <<com1_lock, pc, stage, nested, fb_ptr, reset>>

Init == /\ com1_lock = Lock!Unlocked
        /\ pc = [x \in Context |-> "idle"]
        /\ stage = [c \in Cpus |-> "severity"]
        /\ nested = FALSE /\ fb_ptr = FALSE /\ reset = FALSE

\* The context is the one its CPU executes.
Active(x) == ~reset /\ (x[2] = "thread" => pc[Handler(x[1])] = "idle")

-------------------------------------------------------------------------------
(* A line: LogStr, LogfStr, LogRaw *)

LogStr(c) ==
  /\ Active(Thread(c))
  /\ Lock!Goto(Thread(c), "idle", "check")
  /\ UNCHANGED <<com1_lock, stage, nested, fb_ptr, reset>>

\* nmi_handler may still return to what it interrupted.
MayReturn(c) == stage[c] \in {"severity", "report"}

CheckHolder(x) ==
  /\ Active(x)
  /\ Lock!CheckHolder(x, Id[x[1]], "check", "spin", "write")
  /\ nested' = (nested \/ /\ x[2] = "handler" /\ MayReturn(x[1])
                          /\ com1_lock.holding_cpu = Id[x[1]])
  /\ UNCHANGED <<stage, fb_ptr, reset>>

Acquire(x) ==
  /\ Active(x)
  /\ \/ Lock!ExchangeHeld(x, "spin", "tag")
     \/ Lock!TagHolder(x, Id[x[1]], "tag", "write")
  /\ UNCHANGED <<stage, nested, fb_ptr, reset>>

\* After its line a thread goes on; what a handler does is up to its stage.
Release(x) ==
  /\ Active(x)
  /\ \/ Lock!ClearHolder(x, "write", "unlock")
     \/ Lock!ClearHeld(x, "unlock", IF x[2] = "thread" THEN "idle" ELSE "handling")
  /\ UNCHANGED <<stage, nested, fb_ptr, reset>>

-------------------------------------------------------------------------------
(* The handlers; each starts with a line *)

\* The handler of c logs a line, and is at stage s after it.
Line(c, from, s) ==
  /\ ~reset
  /\ Lock!Goto(Handler(c), from, "check")
  /\ stage' = [stage EXCEPT ![c] = s]
  /\ UNCHANGED <<com1_lock, nested, fb_ptr, reset>>

\* The line is logged; the handler of c, at stage s, ends at a control point.
End(c, s, to) ==
  /\ ~reset /\ stage[c] = s
  /\ Lock!Goto(Handler(c), "handling", to)
  /\ UNCHANGED <<com1_lock, stage, nested, fb_ptr, reset>>

\* nmi_handler returns.
Return(c) ==
  /\ Lock!Goto(Handler(c), "handling", "idle")
  /\ stage' = [stage EXCEPT ![c] = "severity"]
  /\ UNCHANGED <<com1_lock, nested, fb_ptr, reset>>

\* nmi_handler; a second NMI waits for the iretq of the first.
Nmi(c) == Line(c, "idle", "severity")

\* The fault handlers of interrupt.c, in the middle of a line; they log one line, or
\* several, of which all but the last are taken for one.
Fault(c) == pc[Thread(c)] = "write" /\ (Line(c, "idle", "fault") \/ Line(c, "idle", "last"))

FaultLine(c) == stage[c] = "fault" /\ Line(c, "handling", "last")

\* cpu_stop.
Stop(c) == End(c, "last", "stopped")

\* What a bank's status register says: not valid, a corrected error, one that is not
\* corrected, and one with action required or the processor's context corrupt.
Status == {"invalid", "corrected", "uncorrected", "fatal"}

\* The first valid bank decides; 2 stands for the fi_panic.
check_severity(banks) ==
  LET valid == {k \in DOMAIN banks : banks[k] # "invalid"}
  IN  IF valid = {} THEN 0
      ELSE CASE banks[Min(valid)] = "fatal" -> 2
             [] banks[Min(valid)] = "uncorrected" -> 1
             [] OTHER -> 0

\* What the banks can lead to.
Severities == {check_severity(banks) : banks \in [1 .. NBanks -> Status]}

\* After the first line of nmi_handler.  is_bsp is bit 11 of the CPU's APIC base
\* register, which is set while its APIC is enabled.
Severity(c) ==
  /\ ~reset /\ stage[c] = "severity"
  /\ \E res \in Severities, is_bsp \in BOOLEAN :
       \/ res = 0 /\ Return(c)
       \/ res = 1 /\ ~is_bsp /\ Line(c, "handling", "last")
       \/ res = 1 /\ is_bsp /\ Line(c, "handling", "report")
       \/ res = 2 /\ Line(c, "handling", "fi_panic")

\* After the report of the banks, whose lines are taken for one: a machine check in
\* progress, then the two ports: the watchdog's (cleared, and then
\* panic), and the one that reports bus and memory failures.
Ports(c) ==
  /\ ~reset /\ stage[c] = "report"
  /\ \/ Line(c, "handling", "fi_panic")
     \/ Line(c, "handling", "panic")
     \/ Return(c)

\* triple_fault.
TripleFault(c) ==
  /\ ~reset /\ pc[Handler(c)] = "handling"
  /\ reset' = TRUE
  /\ UNCHANGED <<com1_lock, pc, stage, nested, fb_ptr>>

FiPanic(c) == stage[c] = "fi_panic" /\ TripleFault(c)

\* Mutant: the test of cpu_state the other way round.
PanicUnmarked(c) == \/ c \notin Marked /\ End(c, "panic", "halted")
                    \/ c \in Marked /\ stage[c] = "panic" /\ Line(c, "handling", "draw")

\* panic after its first line: a CPU with a task halts, another logs the reason.
Panic(c) == \/ c \in Marked /\ End(c, "panic", "halted")
            \/ c \notin Marked /\ stage[c] = "panic" /\ Line(c, "handling", "draw")

\* draw_screen, a page fault as long as fb_ptr is NULL, and triple_fault.
Draw(c) == /\ stage[c] = "draw"
           /\ \/ fb_ptr /\ TripleFault(c)
              \/ ~fb_ptr /\ Line(c, "handling", "fault")

\* kmain.
SetUpFramebuffer ==
  /\ ~reset /\ ~fb_ptr
  /\ fb_ptr' = TRUE
  /\ UNCHANGED <<com1_lock, pc, stage, nested, reset>>

-------------------------------------------------------------------------------
Logging(x) == CheckHolder(x) \/ Acquire(x) \/ Release(x)

Handling(c) == \/ FaultLine(c) \/ Stop(c)
               \/ Severity(c) \/ Ports(c)
               \/ FiPanic(c) \/ Panic(c) \/ Draw(c)

Next == \/ \E x \in Context : Logging(x)
        \/ \E c \in Cpus : LogStr(c) \/ Nmi(c) \/ Fault(c) \/ Handling(c)
        \/ SetUpFramebuffer

Spec == Init /\ [][Next]_vars

\* A CPU keeps executing the context it is in: a line and a handler end.
FairSpec == /\ Spec
            /\ \A c \in Cpus :
                 WF_vars(Logging(Thread(c)) \/ Logging(Handler(c)) \/ Handling(c))

-------------------------------------------------------------------------------
(* Properties *)

\* The values of the lock and of the contexts' control points.
TypeOK ==
  /\ com1_lock \in [held : BOOLEAN, holding_cpu : {Id[c] : c \in Cpus} \cup {Lock!NoHolder}]
  /\ pc \in [Context -> {"idle", "check", "spin", "tag", "write", "unlock", "handling",
                      "stopped", "halted"}]
  /\ stage \in [Cpus -> {"severity", "report", "fi_panic", "panic", "draw", "fault", "last"}]
  /\ nested \in BOOLEAN /\ fb_ptr \in BOOLEAN /\ reset \in BOOLEAN

\* The context executes, or its CPU may come back to it.
Live(x) == ~reset /\ (x[2] = "thread" => pc[Handler(x[1])] = "idle" \/ MayReturn(x[1]))

\* Some context of c is in the middle of a line.
Writing(c) == \E x \in {Thread(c), Handler(c)} : Live(x) /\ pc[x] = "write"

Interleaved == \E c, d \in Cpus : c # d /\ Writing(c) /\ Writing(d)

\* Two CPUs write their lines into each other only after an nmi_handler has used, and
\* released, the lock of the line it interrupted.  A fault handler does the same, and
\* mixes nothing: the line it interrupted does not go on.
MixedOnlyByNesting == Interleaved => nested

\* The log keeps its types, and a line of it is broken into only by a handler that
\* interrupted its writer and may return to it.
LogRight == TypeOK /\ MixedOnlyByNesting

\* The handler has interrupted aquire_lock between the exchange and the tag, or
\* release_lock between the tag and the lock word, and waits for its own CPU, which
\* the early return of aquire_lock ("avoid deadlock") was meant to prevent.
SelfDeadlocked(c) ==
  pc[Handler(c)] = "spin" /\ com1_lock.held /\ pc[Thread(c)] \in {"tag", "unlock"}

\* A CPU that has not been stopped waits for the lock.
Waiting == \E x \in Context : Live(x) /\ pc[x] = "spin"

\* CPUs that wait (and are not stopped meanwhile) get the lock in turn, also after a
\* CPU has stopped in the handler of a fault in its line, unless an NMI has hit one of
\* the two windows.
BlockedOnlyInWindow ==
  Waiting ~> \/ ~Waiting
             \/ \E x \in Context : pc[x] = "tag"
             \/ \E c \in Cpus : SelfDeadlocked(c)

\* A CPU that panics or dies of a machine check is not lost in its report: the machine
\* restarts, unless the CPU has a task (it halts alone) or the screen is not set up yet
\* (it ends in page_fault_handler), or the lock goes to somebody else, or an NMI has
\* hit one of the two windows.
PanicEnds ==
  \A c \in Cpus :
    stage[c] \in {"panic", "fi_panic"} ~>
      \/ reset
      \/ c \in Marked /\ pc[Handler(c)] = "halted"
      \/ ~fb_ptr /\ stage[c] = "fault"
      \/ \E x \in Context : x # Handler(c) /\ pc[x] = "tag"
      \/ \E d \in Cpus : SelfDeadlocked(d)

-------------------------------------------------------------------------------
(* The inductive invariant of LogRight *)

\* x is between the exchange it won, or the early return of a fault handler on top of
\* it, and the end of release_lock.  A fault handler takes the lock over from the line
\* that faulted at its first check, which finds the tag; the line does not go on.
Holds(x) ==
  /\ pc[x] \in {"tag", "write", "unlock"}
  /\ x[2] = "thread" /\ pc[x] = "write" /\ ~MayReturn(x[1]) =>
       pc[Handler(x[1])] = "check" /\ com1_lock.holding_cpu = Id[x[1]]

\* As long as no nmi_handler has taken the early return, the lock is a lock.
LockInv ==
  /\ \A x, y \in Context : Holds(x) /\ Holds(y) => x = y
  /\ com1_lock.held <=> \E x \in Context : Holds(x)
  /\ \A x \in Context : Holds(x) /\ pc[x] = "write" => com1_lock.holding_cpu = Id[x[1]]
  /\ \A c \in Cpus : com1_lock.holding_cpu = Id[c] =>
       \E x \in {Thread(c), Handler(c)} : Holds(x) /\ pc[x] = "write"
  /\ \A c \in Cpus : pc[Thread(c)] = "write" /\ MayReturn(c) => pc[Handler(c)] \in {"idle", "check"}
  /\ \A c \in Cpus : pc[Thread(c)] \in {"tag", "unlock"} =>
       MayReturn(c) /\ pc[Handler(c)] \in {"idle", "check", "spin"}

Inv == /\ TypeOK
       /\ \A c \in Cpus : pc[Handler(c)] = "idle" => MayReturn(c)
       /\ ~nested => LockInv
===============================================================================
