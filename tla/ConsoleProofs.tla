----------------------------- MODULE ConsoleProofs -----------------------------
(***************************************************************************)
(* Proofs about Console, for any number of CPUs and of machine check       *)
(* banks: com1_lock keeps the lines of the log apart, although the fault   *)
(* handlers use and release the lock of the line they interrupted, unless  *)
(* an nmi_handler has done that to a line it may return to.                *)
(***************************************************************************)
EXTENDS Console, TLAPS

Point == {"idle", "check", "spin", "tag", "write", "unlock", "handling", "stopped", "halted"}
Stage == {"severity", "report", "fi_panic", "panic", "draw", "fault", "last"}

\* The contexts: each CPU has two, and no other CPU has them.
LEMMA Contexts ==
  /\ \A c \in Cpus : /\ Thread(c) \in Context /\ Thread(c)[1] = c /\ Thread(c)[2] = "thread"
                     /\ Handler(c) \in Context /\ Handler(c)[1] = c /\ Handler(c)[2] = "handler"
  /\ \A x \in Context : x[1] \in Cpus /\ (x = Thread(x[1]) \/ x = Handler(x[1]))
  /\ \A c, d \in Cpus : Thread(c) # Handler(d) /\ (Thread(c) = Thread(d) => c = d) /\ (Handler(c) = Handler(d) => c = d)
BY DEF Context, Thread, Handler

\* The steps of a handler: it logs a line at a stage, returns, ends or resets the machine.
LEMMA HandlerCases ==
  ASSUME NEW c \in Cpus, Nmi(c) \/ Fault(c) \/ Handling(c)
  PROVE  \/ Line(c, "idle", "severity")
         \/ pc[Thread(c)] = "write" /\ \E s \in {"fault", "last"} : Line(c, "idle", s)
         \/ \E s \in Stage \ {"severity"} : Line(c, "handling", s) /\ (s = "report" => MayReturn(c))
         \/ Return(c) /\ stage[c] \in {"severity", "report"}
         \/ \E s \in Stage, to \in {"stopped", "halted"} : End(c, s, to)
         \/ TripleFault(c)
BY DEF Nmi, Fault, Handling, FaultLine, Stop, Severity, Ports, FiPanic, Panic, Draw, Stage, MayReturn

\* The types, and that a handler which is not running is none that stops its CPU.
LEMMA TypeStep ==
  ASSUME Inv, [Next]_vars
  PROVE  TypeOK' /\ \A c \in Cpus : pc'[Handler(c)] = "idle" => MayReturn(c)'
<1> USE ConsoleAssumption, Contexts DEF Inv, TypeOK, MayReturn, Lock!Goto
<1>1. ASSUME NEW c \in Cpus, LogStr(c) PROVE TypeOK' /\ \A d \in Cpus : pc'[Handler(d)] = "idle" => MayReturn(d)'
  BY <1>1 DEF LogStr
<1>2. ASSUME NEW x \in Context, CheckHolder(x)
      PROVE  TypeOK' /\ \A d \in Cpus : pc'[Handler(d)] = "idle" => MayReturn(d)'
  <2>1. nested' \in BOOLEAN
    BY <1>2, Zenon DEF CheckHolder
  <2> QED
    BY <1>2, <2>1 DEF CheckHolder, Lock!CheckHolder
<1>3. ASSUME NEW x \in Context, Acquire(x)
      PROVE  TypeOK' /\ \A d \in Cpus : pc'[Handler(d)] = "idle" => MayReturn(d)'
  <2>1. CASE Lock!ExchangeHeld(x, "spin", "tag")
    <3>1. /\ pc[x] = "spin" /\ pc' = [pc EXCEPT ![x] = "tag"]
          /\ com1_lock' = [com1_lock EXCEPT !.held = TRUE]
      BY <2>1 DEF Lock!ExchangeHeld
    <3>2. pc' \in [Context -> Point]
      BY <3>1 DEF Point
    <3>3. com1_lock' \in [held : BOOLEAN, holding_cpu : {Id[c] : c \in Cpus} \cup {Lock!NoHolder}]
      BY <3>1, Zenon
    <3>4. \A d \in Cpus : pc'[Handler(d)] = "idle" => pc[Handler(d)] = "idle"
      BY <3>1
    <3> QED
      BY <1>3, <3>2, <3>3, <3>4 DEF Acquire, Point
  <2>2. CASE Lock!TagHolder(x, Id[x[1]], "tag", "write")
    BY <1>3, <2>2 DEF Acquire, Lock!TagHolder
  <2> QED
    BY <1>3, <2>1, <2>2 DEF Acquire
<1>4. ASSUME NEW x \in Context, Release(x)
      PROVE  TypeOK' /\ \A d \in Cpus : pc'[Handler(d)] = "idle" => MayReturn(d)'
  <2>1. CASE Lock!ClearHolder(x, "write", "unlock")
    BY <1>4, <2>1 DEF Release, Lock!ClearHolder
  <2>2. CASE Lock!ClearHeld(x, "unlock", IF x[2] = "thread" THEN "idle" ELSE "handling")
    <3>1. pc' \in [Context -> Point]
      BY <2>2 DEF Lock!ClearHeld, Point
    <3>2. com1_lock' \in [held : BOOLEAN, holding_cpu : {Id[c] : c \in Cpus} \cup {Lock!NoHolder}]
      BY <2>2, Zenon DEF Lock!ClearHeld
    <3>3. pc[x] = "unlock" /\ \A y \in Context : y # x => pc'[y] = pc[y]
      BY <2>2 DEF Lock!ClearHeld
    <3>4. \A d \in Cpus : pc'[Handler(d)] = "idle" => pc[Handler(d)] = "idle"
      BY <2>2, <3>3 DEF Lock!ClearHeld
    <3> QED
      BY <1>4, <3>1, <3>2, <3>4 DEF Release, Point
  <2> QED
    BY <1>4, <2>1, <2>2 DEF Release
<1>5. ASSUME NEW c \in Cpus, NEW from \in {"idle", "handling"}, NEW s \in Stage, Line(c, from, s)
      PROVE  TypeOK' /\ \A d \in Cpus : pc'[Handler(d)] = "idle" => MayReturn(d)'
  BY <1>5 DEF Line, Stage
<1>6. ASSUME NEW c \in Cpus, Return(c), UNCHANGED reset
      PROVE  TypeOK' /\ \A d \in Cpus : pc'[Handler(d)] = "idle" => MayReturn(d)'
  BY <1>6 DEF Return
<1>7. ASSUME NEW c \in Cpus, NEW s \in Stage, NEW to \in {"stopped", "halted"}, End(c, s, to)
      PROVE  TypeOK' /\ \A d \in Cpus : pc'[Handler(d)] = "idle" => MayReturn(d)'
  BY <1>7 DEF End
<1>8. ASSUME (\E c \in Cpus : TripleFault(c)) \/ SetUpFramebuffer \/ UNCHANGED vars
      PROVE  TypeOK' /\ \A d \in Cpus : pc'[Handler(d)] = "idle" => MayReturn(d)'
  <2>1. pc' = pc /\ com1_lock' = com1_lock /\ stage' = stage /\ nested' = nested
    BY <1>8, Zenon DEF TripleFault, SetUpFramebuffer, vars
  <2>2. fb_ptr' \in BOOLEAN /\ reset' \in BOOLEAN
    BY <1>8, Zenon DEF TripleFault, SetUpFramebuffer, vars
  <2> QED
    BY <2>1, <2>2
<1> HIDE DEF Inv, TypeOK, MayReturn
<1>9. ASSUME NEW c \in Cpus, Nmi(c) \/ Fault(c) \/ Handling(c)
      PROVE  TypeOK' /\ \A d \in Cpus : pc'[Handler(d)] = "idle" => MayReturn(d)'
  BY <1>5, <1>6, <1>7, <1>8, <1>9, HandlerCases DEF Return, Stage
<1> QED
  BY <1>1, <1>2, <1>3, <1>4, <1>8, <1>9 DEF Next, Logging

\* Without an early return of an nmi_handler, the lock stays a lock.
LEMMA LockStep == ASSUME Inv, LockInv, [Next]_vars, ~nested' PROVE LockInv'
<1>0. /\ DOMAIN pc = Context /\ DOMAIN stage = Cpus /\ DOMAIN com1_lock = {"held", "holding_cpu"}
      /\ \A c \in Cpus : pc[Handler(c)] = "idle" => MayReturn(c)
      /\ com1_lock.held \in BOOLEAN
  BY DEF Inv, TypeOK
<1>1. /\ \A c, d \in Cpus : Id[c] = Id[d] => c = d
      /\ \A c \in Cpus : Id[c] # Lock!NoHolder
  BY ConsoleAssumption DEF Lock!NoHolder
<1> USE <1>0, <1>1, Contexts DEF LockInv, Holds, MayReturn, Lock!Goto
\* An active context that is inside holds the lock.
<1>2. \A x \in Context : Active(x) /\ pc[x] \in {"tag", "write", "unlock"} => Holds(x)
  BY DEF Active
<1>3. ASSUME NEW c \in Cpus, LogStr(c) PROVE LockInv'
  BY <1>3 DEF LogStr, Active
<1>4. ASSUME NEW x \in Context, CheckHolder(x) PROVE LockInv'
  <2>1. CASE com1_lock.holding_cpu = Id[x[1]]
    BY <1>4, <2>1 DEF CheckHolder, Lock!CheckHolder, Active
  <2>2. CASE com1_lock.holding_cpu # Id[x[1]]
    BY <1>4, <2>2 DEF CheckHolder, Lock!CheckHolder, Active
  <2> QED
    BY <2>1, <2>2
<1>5. ASSUME NEW x \in Context, Acquire(x) PROVE LockInv'
  <2>1. CASE Lock!ExchangeHeld(x, "spin", "tag")
    BY <1>5, <2>1 DEF Acquire, Lock!ExchangeHeld, Active
  <2>2. CASE Lock!TagHolder(x, Id[x[1]], "tag", "write")
    BY <1>2, <1>5, <2>2 DEF Acquire, Lock!TagHolder, Active
  <2> QED
    BY <1>5, <2>1, <2>2 DEF Acquire
<1>6. ASSUME NEW x \in Context, Release(x) PROVE LockInv'
  <2>1. CASE Lock!ClearHolder(x, "write", "unlock")
    BY <1>2, <1>6, <2>1 DEF Release, Lock!ClearHolder, Active
  <2>2. CASE Lock!ClearHeld(x, "unlock", IF x[2] = "thread" THEN "idle" ELSE "handling")
    BY <1>2, <1>6, <2>2 DEF Release, Lock!ClearHeld, Active
  <2> QED
    BY <1>6, <2>1, <2>2 DEF Release
<1>7. ASSUME NEW c \in Cpus, Line(c, "idle", "severity") PROVE LockInv'
  BY <1>7 DEF Line
<1>8. ASSUME NEW c \in Cpus, NEW s \in {"fault", "last"}, pc[Thread(c)] = "write", Line(c, "idle", s) PROVE LockInv'
  BY <1>8 DEF Line
<1>9. ASSUME NEW c \in Cpus, NEW s \in Stage \ {"severity"}, Line(c, "handling", s),
             s = "report" => MayReturn(c)
      PROVE  LockInv'
  <2>1. /\ com1_lock' = com1_lock
        /\ \A x \in Context : pc'[x] = IF x = Handler(c) THEN "check" ELSE pc[x]
        /\ \A d \in Cpus : stage'[d] = IF d = c THEN s ELSE stage[d]
        /\ pc[Handler(c)] = "handling" /\ pc[Thread(c)] \notin {"tag", "unlock"}
        /\ pc[Thread(c)] = "write" => ~MayReturn(c) /\ ~Holds(Thread(c))
    BY <1>9 DEF Line
  <2>2. com1_lock.holding_cpu # Id[c]
    BY <2>1
  <2>3. pc[Thread(c)] = "write" => s \notin {"severity", "report"}
    BY <1>9, <2>1 DEF Line
  <2> QED
    BY <2>1, <2>2, <2>3
<1>10. ASSUME NEW c \in Cpus, Return(c), stage[c] \in {"severity", "report"} PROVE LockInv'
  BY <1>10 DEF Return
<1>11. ASSUME NEW c \in Cpus, NEW s \in Stage, NEW to \in {"stopped", "halted"}, End(c, s, to) PROVE LockInv'
  BY <1>11 DEF End
<1>12. ASSUME (\E c \in Cpus : TripleFault(c)) \/ SetUpFramebuffer \/ UNCHANGED vars PROVE LockInv'
  BY <1>12 DEF TripleFault, SetUpFramebuffer, vars
<1> HIDE DEF LockInv
<1>13. ASSUME NEW c \in Cpus, Nmi(c) \/ Fault(c) \/ Handling(c) PROVE LockInv'
  BY <1>7, <1>8, <1>9, <1>10, <1>11, <1>12, <1>13, HandlerCases
<1> QED
  BY <1>3, <1>4, <1>5, <1>6, <1>12, <1>13 DEF Next, Logging

\* The history only grows.
LEMMA NestedKept == ASSUME [Next]_vars, nested PROVE nested'
<1>1. ASSUME NEW c \in Cpus, Nmi(c) \/ Fault(c) \/ Handling(c) PROVE nested'
  BY <1>1, HandlerCases, Zenon DEF Line, Return, End, TripleFault
<1> QED
  BY <1>1, Zenon DEF Next, Logging, LogStr, CheckHolder, Acquire, Release, SetUpFramebuffer, vars

\* An unused log satisfies the invariant.
LEMMA InitInv == Init => Inv
<1> SUFFICES ASSUME Init PROVE Inv
  OBVIOUS
<1>1. Id \in [Cpus -> Nat] /\ \A c \in Cpus : Id[c] # Lock!NoHolder
  BY ConsoleAssumption DEF Lock!NoHolder
<1>2. TypeOK
  BY Zenon DEF Init, TypeOK, Lock!Unlocked
<1>3. LockInv
  BY <1>1, Contexts DEF Init, LockInv, Holds, MayReturn, Lock!Unlocked
<1> QED
  BY <1>2, <1>3 DEF Init, Inv, MayReturn

\* Every step of a line, a handler or a panic preserves the invariant.
LEMMA NextInv == Inv /\ [Next]_vars => Inv'
BY TypeStep, LockStep, NestedKept DEF Inv

\* A CPU in the middle of a line that goes on holds the lock.
LEMMA WriterHolds ==
  ASSUME Inv, ~nested, NEW c \in Cpus, Writing(c)
  PROVE  \E x \in Context : x[1] = c /\ Holds(x)
BY Contexts DEF Inv, Writing, Live, Holds

\* com1_lock keeps the lines that LogStr, LogfStr and LogRaw write apart, for any number
\* of CPUs and any sequence of faults and NMIs, until an nmi_handler has used and
\* released the lock of the line it interrupted and may return to.
THEOREM LinesApart == Spec => []LogRight
<1>1. ASSUME Inv PROVE LogRight
  <2>1. ASSUME ~nested, NEW c \in Cpus, NEW d \in Cpus, Writing(c), Writing(d) PROVE c = d
    BY <1>1, <2>1, WriterHolds DEF Inv, LockInv
  <2> QED
    BY <1>1, <2>1 DEF Inv, LogRight, MixedOnlyByNesting, Interleaved
<1> QED
  BY <1>1, InitInv, NextInv, PTL DEF Spec
===============================================================================
