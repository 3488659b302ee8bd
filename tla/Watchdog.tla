------------------------------- MODULE Watchdog -------------------------------
(***************************************************************************)
(* The watchdog (watchdog/dog.c): the bootstrap CPU pings the other CPUs   *)
(* in turn with interrupt 0x30 (send_ipi, interrupt/interrupt.c), their    *)
(* watchdog_handler answers, and a CPU that leaves too many pings          *)
(* unanswered makes the dog panic.  The local APIC of each CPU holds back  *)
(* vector 0x30 while one is in service and while cr8, the sil written by   *)
(* RaiseSil (include/dej/sil.c), is 3 or more.                             *)
(*                                                                         *)
(* The log lock com1_lock is here as its abstract owner (AbstractLock).    *)
(***************************************************************************)
EXTENDS Integers

CONSTANTS NAps,         \* CPU k publishes its block in cpu_percpu[k], k in 1 .. NAps
          Hard,         \* the CPUs whose is_having_hard_time is set (no code sets it today)
          Sils,         \* the levels the CPUs use
          ANGER_LIMIT,  \* 200
          ANGER_WARN,   \* 100
          ANGER_STEP,   \* 10
          X2Apic,       \* the APICs are in x2APIC mode
          Prompt        \* a CPU that can take the interrupt answers within delay_bad(100)

Aps == 1 .. NAps
VECTOR_CLASS == 3       \* 0x30 >> 4

ASSUME DogAssumption ==
  /\ NAps \in Nat
  /\ Hard \subseteq Aps
  /\ Sils \subseteq 0 .. 15 /\ 0 \in Sils
  /\ ANGER_STEP \in Nat \ {0}
  /\ ANGER_WARN \in Nat /\ ANGER_LIMIT \in Nat \ {0}
  /\ ANGER_LIMIT + ANGER_STEP <= 256
  /\ X2Apic \in BOOLEAN /\ Prompt \in BOOLEAN

VARIABLES dog,          \* where the bootstrap CPU is in jump_to_watchdog
          cpus, i,      \* its locals
          here, anger,  \* struct watchdog of each CPU
          slots,        \* the k with cpu_percpu[k] # NULL
          x2, lapic,    \* interrupt.c: x2, and whether lapic is mapped
          irr, isr,     \* vector 0x30 requested, in service, at each local APIC
          cpu,          \* what each CPU is doing
          sil,          \* cr8 of each CPU
          com1,         \* the owner of com1_lock, 0 for nobody
          deaf          \* history: checks in a row that found the CPU unable to answer

dogVars == <<dog, cpus, i, anger, deaf>>
apicVars == <<x2, lapic, irr, isr>>
vars == <<dogVars, here, slots, apicVars, cpu, sil, com1>>

\* The dog may start before every CPU has published its block.
Init ==
  /\ dog = "count" /\ cpus = 0 /\ i = 1
  /\ here = [k \in Aps |-> FALSE]
  /\ anger = [k \in Aps |-> 0]
  /\ deaf = [k \in Aps |-> 0]
  /\ slots \in SUBSET Aps
  /\ x2 = FALSE /\ lapic = FALSE
  /\ irr = [k \in Aps |-> FALSE]
  /\ isr = [k \in Aps |-> FALSE]
  /\ cpu = [k \in Aps |-> IF k \in slots THEN "run" ELSE "boot"]
  /\ sil = [k \in Aps |-> 0]
  /\ com1 = 0

-------------------------------------------------------------------------------
(* jump_to_watchdog *)

\* The count, made once, of the blocks published so far.
CountSlot ==
  /\ dog = "count" /\ i <= NAps
  /\ cpus' = IF i \in slots THEN cpus + 1 ELSE cpus
  /\ i' = i + 1
  /\ UNCHANGED <<dog, anger, deaf, here, slots, apicVars, cpu, sil, com1>>

\* Mutant: the bootstrap CPU is counted too.
CountBspToo ==
  /\ dog = "count" /\ i > NAps
  /\ dog' = "next" /\ i' = 0
  /\ cpus' = cpus + 1
  /\ UNCHANGED <<anger, deaf, here, slots, apicVars, cpu, sil, com1>>

CountDone ==
  /\ dog = "count" /\ i > NAps
  /\ dog' = "next" /\ i' = 0
  /\ UNCHANGED <<cpus, anger, deaf, here, slots, apicVars, cpu, sil, com1>>

\* Mutant: the last CPU is left out.
NextButLast ==
  /\ dog = "next"
  /\ dog' = IF i + 1 < cpus THEN "clear" ELSE "next"
  /\ i' = IF i + 1 < cpus THEN i + 1 ELSE 0
  /\ UNCHANGED <<cpus, anger, deaf, here, slots, apicVars, cpu, sil, com1>>

\* i++, or the break after the last CPU and i = 0 again.
NextCpu ==
  /\ dog = "next"
  /\ dog' = IF i < cpus THEN "clear" ELSE "next"
  /\ i' = IF i < cpus THEN i + 1 ELSE 0
  /\ UNCHANGED <<cpus, anger, deaf, here, slots, apicVars, cpu, sil, com1>>

\* Mutant: the old answer is left.
HereKept ==
  /\ dog = "clear"
  /\ dog' = IF i \in slots THEN "send" ELSE "fault"
  /\ UNCHANGED <<here, cpus, i, anger, deaf, slots, apicVars, cpu, sil, com1>>

\* here = false through cpu_percpu[i]; through NULL it is a page fault, whose
\* handler stops the bootstrap CPU.
ClearHere ==
  /\ dog = "clear"
  /\ dog' = IF i \in slots THEN "send" ELSE "fault"
  /\ here' = IF i \in slots THEN [here EXCEPT ![i] = FALSE] ELSE here
  /\ UNCHANGED <<cpus, i, anger, deaf, slots, apicVars, cpu, sil, com1>>

\* send_ipi up to the write of the ICR; in xAPIC mode lapic is mapped before it.
SendIpi ==
  /\ dog = "send"
  /\ dog' = "set_x2"
  /\ lapic' = (lapic \/ ~X2Apic)
  /\ irr' = [irr EXCEPT ![i] = TRUE]
  /\ UNCHANGED <<cpus, i, anger, deaf, here, slots, x2, isr, cpu, sil, com1>>

\* send_ipi records the mode after the interrupt is on its way.
SetX2 ==
  /\ dog = "set_x2"
  /\ dog' = "wait"
  /\ x2' = X2Apic
  /\ UNCHANGED <<cpus, i, anger, deaf, here, slots, lapic, irr, isr, cpu, sil, com1>>

Step(k) == IF k \in Hard THEN 1 ELSE ANGER_STEP

\* The CPU cannot answer: it hangs with interrupts off, or its sil masks 0x30.
Deaf(k) == cpu[k] = "hung" \/ sil[k] >= VECTOR_CLASS

\* ... or 0x30 is in service for good on it.
Blocked(k) == Deaf(k) \/ cpu[k] = "fault"

\* Mutant: an answer does not calm the dog.
CheckNoReset ==
  /\ dog = "wait"
  /\ Prompt => here[i] \/ Blocked(i)
  /\ anger' = [anger EXCEPT ![i] = IF here[i] THEN @ ELSE (@ + Step(i)) % 256]
  /\ deaf' = [deaf EXCEPT ![i] = IF ~Deaf(i) THEN 0
                                 ELSE IF @ * Step(i) < ANGER_LIMIT THEN @ + 1 ELSE @]
  /\ dog' = IF anger'[i] >= ANGER_LIMIT THEN "bark"
            ELSE IF anger'[i] > ANGER_WARN THEN "warn" ELSE "next"
  /\ UNCHANGED <<cpus, i, here, slots, apicVars, cpu, sil, com1>>

\* Mutant: > for >=.
CheckPastLimit ==
  /\ dog = "wait"
  /\ Prompt => here[i] \/ Blocked(i)
  /\ anger' = [anger EXCEPT ![i] = IF here[i] THEN 0 ELSE (@ + Step(i)) % 256]
  /\ deaf' = [deaf EXCEPT ![i] = IF ~Deaf(i) THEN 0
                                 ELSE IF @ * Step(i) < ANGER_LIMIT THEN @ + 1 ELSE @]
  /\ dog' = IF anger'[i] > ANGER_LIMIT THEN "bark"
            ELSE IF anger'[i] > ANGER_WARN THEN "warn" ELSE "next"
  /\ UNCHANGED <<cpus, i, here, slots, apicVars, cpu, sil, com1>>

\* After the delay: the load of here, the anger (a uint8_t) and what it leads to.
CheckHere ==
  /\ dog = "wait"
  /\ Prompt => here[i] \/ Blocked(i)
  /\ anger' = [anger EXCEPT ![i] = IF here[i] THEN 0 ELSE (@ + Step(i)) % 256]
  /\ deaf' = [deaf EXCEPT ![i] = IF ~Deaf(i) THEN 0
                                 ELSE IF @ * Step(i) < ANGER_LIMIT THEN @ + 1 ELSE @]
  /\ dog' = IF anger'[i] >= ANGER_LIMIT THEN "bark"
            ELSE IF anger'[i] > ANGER_WARN THEN "warn" ELSE "next"
  /\ UNCHANGED <<cpus, i, here, slots, apicVars, cpu, sil, com1>>

\* LogfStr of the warning: waits for com1_lock.
Warn ==
  /\ dog = "warn" /\ com1 = 0
  /\ dog' = "next"
  /\ UNCHANGED <<cpus, i, anger, deaf, here, slots, apicVars, cpu, sil, com1>>

\* LogfStr, then panic, which logs twice more and ends in a triple fault: the
\* machine starts again from the boot loader.
Bark ==
  /\ dog = "bark" /\ com1 = 0
  /\ dog' = "reset"
  /\ cpu' = [k \in Aps |-> "reset"]
  /\ UNCHANGED <<cpus, i, anger, deaf, here, slots, apicVars, sil, com1>>

-------------------------------------------------------------------------------
(* The watched CPUs *)

\* ap_entry stores cpu_percpu[my_core] and enables interrupts.
Publish(k) ==
  /\ cpu[k] = "boot"
  /\ slots' = slots \cup {k}
  /\ cpu' = [cpu EXCEPT ![k] = "run"]
  /\ UNCHANGED <<dogVars, here, apicVars, sil, com1>>

\* The local APIC interrupts the CPU, which enters watchdog_handler.
Deliver(k) ==
  /\ cpu[k] = "run" /\ irr[k] /\ ~isr[k] /\ sil[k] < VECTOR_CLASS
  /\ irr' = [irr EXCEPT ![k] = FALSE]
  /\ isr' = [isr EXCEPT ![k] = TRUE]
  /\ cpu' = [cpu EXCEPT ![k] = "handler"]
  /\ UNCHANGED <<dogVars, here, slots, x2, lapic, sil, com1>>

StoreHere(k) ==
  /\ cpu[k] = "handler"
  /\ here' = [here EXCEPT ![k] = TRUE]
  /\ cpu' = [cpu EXCEPT ![k] = "eoi"]
  /\ UNCHANGED <<dogVars, slots, apicVars, sil, com1>>

\* send_eoi.  With x2 not set and lapic not mapped the write is a page fault,
\* whose handler logs (and so releases com1_lock if its CPU had it) and stops the
\* CPU: 0x30 stays in service.
SendEoi(k) ==
  /\ cpu[k] = "eoi"
  /\ cpu' = [cpu EXCEPT ![k] = IF x2 \/ lapic THEN "run" ELSE "fault"]
  /\ isr' = [isr EXCEPT ![k] = ~(x2 \/ lapic)]
  /\ com1' = IF com1 = k /\ ~(x2 \/ lapic) THEN 0 ELSE com1
  /\ UNCHANGED <<dogVars, here, slots, x2, lapic, irr, sil>>

RaiseSil(k, new) ==
  /\ cpu[k] = "run" /\ sil[k] < new
  /\ sil' = [sil EXCEPT ![k] = new]
  /\ UNCHANGED <<dogVars, here, slots, apicVars, cpu, com1>>

LowerSil(k, new) ==
  /\ cpu[k] = "run" /\ sil[k] > new
  /\ sil' = [sil EXCEPT ![k] = new]
  /\ UNCHANGED <<dogVars, here, slots, apicVars, cpu, com1>>

\* LogStr on a watched CPU: com1_lock taken, and released.
LogBegin(k) ==
  /\ cpu[k] = "run" /\ com1 = 0
  /\ com1' = k
  /\ UNCHANGED <<dogVars, here, slots, apicVars, cpu, sil>>

LogEnd(k) ==
  /\ cpu[k] = "run" /\ com1 = k
  /\ com1' = 0
  /\ UNCHANGED <<dogVars, here, slots, apicVars, cpu, sil>>

\* The CPU stops for good with interrupts off: panic on a CPU whose cpu_state has
\* bit 0 set does so, and so does a handler that spins on a lock of its own CPU.  It
\* may be in the middle of a line, with com1_lock.
Hang(k) ==
  /\ cpu[k] = "run"
  /\ cpu' = [cpu EXCEPT ![k] = "hung"]
  /\ UNCHANGED <<dogVars, here, slots, apicVars, sil, com1>>

-------------------------------------------------------------------------------
DogStep == CountSlot \/ CountDone \/ NextCpu \/ ClearHere \/ SendIpi \/ SetX2 \/ CheckHere
           \/ Warn \/ Bark

Answer(k) == Deliver(k) \/ StoreHere(k) \/ SendEoi(k)

ApStep(k) == \/ Publish(k) \/ Answer(k) \/ LogBegin(k) \/ LogEnd(k) \/ Hang(k)
             \/ \E new \in Sils : RaiseSil(k, new) \/ LowerSil(k, new)

Next == DogStep \/ \E k \in Aps : ApStep(k)

Spec == Init /\ [][Next]_vars

\* The dog runs on its own CPU; a CPU takes an interrupt it can take, boots and
\* finishes its handler and what it logs.  The lines a CPU logs are finitely many,
\* so that they do not keep the dog from com1_lock for ever.  Nothing makes a CPU
\* lower its sil or hang.
FairSpec == /\ Spec
            /\ WF_vars(DogStep) /\ SF_vars(Warn) /\ SF_vars(Bark)
            /\ \A k \in Aps : WF_vars(Answer(k)) /\ WF_vars(Publish(k)) /\ WF_vars(LogEnd(k))

-------------------------------------------------------------------------------
(* Properties *)

\* The values of the dog's, the APICs' and the CPUs' state.
TypeOK ==
  /\ dog \in {"count", "next", "clear", "send", "set_x2", "wait", "warn", "bark", "reset", "fault"}
  /\ cpus \in 0 .. NAps /\ i \in 0 .. NAps + 1
  /\ here \in [Aps -> BOOLEAN] /\ anger \in [Aps -> 0 .. 255] /\ deaf \in [Aps -> Nat]
  /\ slots \subseteq Aps
  /\ x2 \in BOOLEAN /\ lapic \in BOOLEAN
  /\ irr \in [Aps -> BOOLEAN] /\ isr \in [Aps -> BOOLEAN]
  /\ cpu \in [Aps -> {"boot", "run", "handler", "eoi", "fault", "hung", "reset"}]
  /\ sil \in [Aps -> Sils]
  /\ com1 \in 0 .. NAps

\* The anger of a CPU never wraps its uint8_t back to calm: it stays below the
\* limit between pings, and one step above it is where the dog panics.
AngerNeverWraps ==
  \A k \in Aps : /\ anger[k] < ANGER_LIMIT + Step(k)
                 /\ anger[k] >= ANGER_LIMIT => dog \in {"bark", "reset"}

\* The slot being pinged is one of those counted.
PingInv ==
  /\ dog = "count" => i \in 1 .. NAps + 1 /\ cpus < i
  /\ dog = "next" => i <= cpus
  /\ dog \in {"clear", "send", "set_x2", "wait", "warn", "bark", "reset"} => i \in 1 .. cpus

\* docs/dog.md: the dog gets mad "if a cpu doesnt respond or is at a sil of device
\* level or above for a extended time": it panics only about a CPU that was unable
\* to answer at every check since its anger started to rise.
NoFalseAlarm == dog \in {"bark", "reset"} => deaf[i] * Step(i) >= ANGER_LIMIT

\* What makes it inductive in xAPIC mode: an interrupt is requested only once lapic
\* is mapped, so that send_eoi never faults,
EoiInv ==
  /\ \A k \in Aps : irr[k] \/ cpu[k] \in {"handler", "eoi"} => lapic
  /\ \A k \in Aps : cpu[k] # "fault"

\* and the anger is at most one step for each check that found the CPU deaf.
AlarmInv ==
  /\ \A k \in Aps : anger[k] <= deaf[k] * Step(k) \/ deaf[k] * Step(k) >= ANGER_LIMIT
  /\ dog \in {"bark", "reset"} => anger[i] >= ANGER_LIMIT

\* The cases in which the dog does not bite for k: it was started before k, or a CPU
\* in a slot below, had published its block (then it stopped at the empty slot), or a
\* CPU hangs with com1_lock, which its own report waits for.
Unnoticed(k) ==
  \/ dog = "fault"
  \/ dog # "count" /\ k > cpus
  \/ com1 # 0 /\ cpu[com1] = "hung"

\* docs/dog.md: "the dog will get mad if a cpu doesnt respond or is at a sil of device
\* level or above" and "if it gets too angry the system will panic": a CPU that hangs,
\* or that stays at such a sil, makes the system restart, whatever the other CPUs do
\* and however late they answer, but for those three cases.
DeafCpuBitten ==
  \A k \in Aps : /\ cpu[k] = "hung" ~> dog = "reset" \/ Unnoticed(k)
                 /\ <>[](sil[k] >= VECTOR_CLASS) => <>(dog = "reset" \/ Unnoticed(k))
===============================================================================
