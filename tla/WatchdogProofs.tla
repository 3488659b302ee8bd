---------------------------- MODULE WatchdogProofs ----------------------------
(***************************************************************************)
(* Proofs about Watchdog, for any number of CPUs: the anger never wraps,   *)
(* and in xAPIC mode, when CPUs that can take the interrupt answer in      *)
(* time, the dog panics only about a CPU that could not answer.            *)
(***************************************************************************)
EXTENDS Watchdog, TLAPS

\* One missed ping adds between 1 and ANGER_STEP to the anger.
LEMMA StepRange == \A k \in Aps : Step(k) \in Nat /\ 1 <= Step(k) /\ Step(k) <= ANGER_STEP
  BY DogAssumption DEF Step

\* The arithmetic of a uint8_t.
LEMMA Mod256 == /\ \A x \in Nat : x % 256 \in 0 .. 255
                /\ \A x \in 0 .. 255 : x % 256 = x
  OBVIOUS

\* Below a limit that leaves room for a step, a step stays in a uint8_t.
LEMMA SumBelow ==
  \A a, s, limit, step \in Nat :
    a < limit /\ s <= step /\ limit + step <= 256 => a + s \in 0 .. 255
  OBVIOUS

\* A step of anger gives a uint8_t, and from below the limit it does not wrap.
LEMMA AngerSum ==
  ASSUME NEW k \in Aps, NEW a \in Nat
  PROVE  /\ (a + Step(k)) % 256 \in 0 .. 255
         /\ a < ANGER_LIMIT => (a + Step(k)) % 256 = a + Step(k)
<1>1. Step(k) \in Nat /\ Step(k) <= ANGER_STEP
  BY StepRange
<1>2. ANGER_STEP \in Nat /\ ANGER_LIMIT \in Nat /\ ANGER_LIMIT + ANGER_STEP <= 256
  BY DogAssumption
<1>3. a + Step(k) \in Nat
  BY <1>1
<1>4. a < ANGER_LIMIT => a + Step(k) \in 0 .. 255
  BY <1>1, <1>2, SumBelow
<1> QED
  BY <1>3, <1>4, Mod256

\* An anger is a natural number.
LEMMA AngerNat == TypeOK => \A k \in Aps : anger[k] \in Nat
<1>1. TypeOK => anger \in [Aps -> 0 .. 255]
  BY DEF TypeOK
<1> QED
  BY <1>1

\* The state at the entry of jump_to_watchdog has its type, and no CPU is angry at.
LEMMA InitType == Init => TypeOK /\ PingInv /\ AngerNeverWraps
<1> SUFFICES ASSUME Init PROVE TypeOK /\ PingInv /\ AngerNeverWraps
  OBVIOUS
<1> USE DogAssumption DEF Init
<1>1. slots \subseteq Aps
  OBVIOUS
<1>2. cpu \in [Aps -> {"boot", "run", "handler", "eoi", "fault", "hung", "reset"}]
  OBVIOUS
<1>3. i \in 0 .. NAps + 1 /\ cpus \in 0 .. NAps /\ com1 \in 0 .. NAps /\ sil \in [Aps -> Sils]
  OBVIOUS
<1>4. /\ here \in [Aps -> BOOLEAN] /\ irr \in [Aps -> BOOLEAN] /\ isr \in [Aps -> BOOLEAN]
      /\ anger \in [Aps -> 0 .. 255] /\ deaf \in [Aps -> Nat]
  OBVIOUS
<1>5. TypeOK
  BY <1>1, <1>2, <1>3, <1>4, Zenon DEF TypeOK
<1>6. PingInv
  BY DEF PingInv
<1>7. AngerNeverWraps
  BY StepRange DEF AngerNeverWraps
<1> QED
  BY <1>5, <1>6, <1>7

\* The steps of the dog and of the CPUs keep the types.
LEMMA TypeStep == TypeOK /\ PingInv /\ [Next]_vars => TypeOK'
<1> SUFFICES ASSUME TypeOK, PingInv, [Next]_vars PROVE TypeOK'
  OBVIOUS
<1> USE DogAssumption DEF TypeOK, PingInv, Aps, dogVars, apicVars
<1>1. ASSUME CountSlot PROVE TypeOK'
  BY <1>1, SMTT(30) DEF CountSlot
<1>2. ASSUME CountDone PROVE TypeOK'
  BY <1>2, SMTT(30) DEF CountDone
<1>3. ASSUME NextCpu PROVE TypeOK'
  BY <1>3, SMTT(30) DEF NextCpu
<1>4. ASSUME ClearHere PROVE TypeOK'
  BY <1>4, SMTT(30) DEF ClearHere
<1>5. ASSUME SendIpi PROVE TypeOK'
  BY <1>5, SMTT(30) DEF SendIpi
<1>6. ASSUME SetX2 PROVE TypeOK'
  BY <1>6, SMTT(30) DEF SetX2
<1>7. ASSUME CheckHere PROVE TypeOK'
  <2> DEFINE a == (anger[i] + Step(i)) % 256
  <2>0. dog = "wait"
    BY <1>7 DEF CheckHere
  <2>1. i \in Aps
    BY <2>0
  <2>2. a \in 0 .. 255
    <3>1. anger[i] \in Nat
      BY <2>1, AngerNat
    <3> HIDE DogAssumption DEF TypeOK, PingInv, Aps, dogVars, apicVars
    <3> QED
      BY <2>1, <3>1, AngerSum, Zenon
  <2>3. anger' = [anger EXCEPT ![i] = IF here[i] THEN 0 ELSE a]
    BY <1>7 DEF CheckHere
  <2>4. deaf' \in [Aps -> Nat]
    BY <1>7, <2>1 DEF CheckHere
  <2> HIDE DEF a
  <2>5. anger' \in [Aps -> 0 .. 255]
    BY <2>1, <2>2, <2>3
  <2> QED
    BY <1>7, <2>4, <2>5 DEF CheckHere
<1>8. ASSUME Warn PROVE TypeOK'
  BY <1>8, SMTT(30) DEF Warn
<1>9. ASSUME Bark PROVE TypeOK'
  BY <1>9, SMTT(30) DEF Bark
<1>10. ASSUME NEW k \in Aps, Publish(k) PROVE TypeOK'
  BY <1>10, SMTT(30) DEF Publish
<1>11. ASSUME NEW k \in Aps, Deliver(k) PROVE TypeOK'
  BY <1>11, SMTT(30) DEF Deliver
<1>12. ASSUME NEW k \in Aps, StoreHere(k) PROVE TypeOK'
  BY <1>12, SMTT(30) DEF StoreHere
<1>13. ASSUME NEW k \in Aps, SendEoi(k) PROVE TypeOK'
  BY <1>13, SMTT(30) DEF SendEoi
<1>14. ASSUME NEW k \in Aps, LogBegin(k) PROVE TypeOK'
  BY <1>14, SMTT(30) DEF LogBegin
<1>15. ASSUME NEW k \in Aps, LogEnd(k) PROVE TypeOK'
  BY <1>15, SMTT(30) DEF LogEnd
<1>16. ASSUME NEW k \in Aps, Hang(k) PROVE TypeOK'
  BY <1>16, ZenonT(60) DEF Hang
<1>17. ASSUME NEW k \in Aps, NEW new \in Sils, RaiseSil(k, new) PROVE TypeOK'
  BY <1>17, SMTT(30) DEF RaiseSil
<1>18. ASSUME NEW k \in Aps, NEW new \in Sils, LowerSil(k, new) PROVE TypeOK'
  BY <1>18, SMTT(30) DEF LowerSil
<1>19. CASE UNCHANGED vars
  BY <1>19 DEF vars
<1> HIDE DogAssumption DEF TypeOK, PingInv, Aps, dogVars, apicVars
<1> QED
  BY <1>1, <1>2, <1>3, <1>4, <1>5, <1>6, <1>7, <1>8, <1>9, <1>10, <1>11, <1>12, <1>13, <1>14, <1>15, <1>16, <1>17, <1>18, <1>19
  DEF Next, DogStep, ApStep, Answer

\* The dog's index stays on a counted slot.
LEMMA PingStep == TypeOK /\ PingInv /\ [Next]_vars => PingInv'
<1> SUFFICES ASSUME TypeOK, PingInv, [Next]_vars PROVE PingInv'
  OBVIOUS
<1> USE DogAssumption DEF TypeOK, PingInv, Aps, dogVars, apicVars
<1>1. ASSUME CountSlot PROVE PingInv'
  BY <1>1, SMTT(30) DEF CountSlot
<1>2. ASSUME CountDone PROVE PingInv'
  BY <1>2, SMTT(30) DEF CountDone
<1>3. ASSUME NextCpu PROVE PingInv'
  BY <1>3, SMTT(30) DEF NextCpu
<1>4. ASSUME ClearHere PROVE PingInv'
  BY <1>4, SMTT(30) DEF ClearHere
<1>5. ASSUME SendIpi PROVE PingInv'
  BY <1>5, SMTT(30) DEF SendIpi
<1>6. ASSUME SetX2 PROVE PingInv'
  BY <1>6, SMTT(30) DEF SetX2
<1>7. ASSUME CheckHere PROVE PingInv'
  BY <1>7, SMTT(30) DEF CheckHere
<1>8. ASSUME Warn PROVE PingInv'
  BY <1>8, SMTT(30) DEF Warn
<1>9. ASSUME Bark PROVE PingInv'
  BY <1>9, SMTT(30) DEF Bark
<1>10. ASSUME NEW k \in Aps, Publish(k) PROVE PingInv'
  BY <1>10, SMTT(30) DEF Publish
<1>11. ASSUME NEW k \in Aps, Deliver(k) PROVE PingInv'
  BY <1>11, SMTT(30) DEF Deliver
<1>12. ASSUME NEW k \in Aps, StoreHere(k) PROVE PingInv'
  BY <1>12, SMTT(30) DEF StoreHere
<1>13. ASSUME NEW k \in Aps, SendEoi(k) PROVE PingInv'
  BY <1>13, SMTT(30) DEF SendEoi
<1>14. ASSUME NEW k \in Aps, LogBegin(k) PROVE PingInv'
  BY <1>14, SMTT(30) DEF LogBegin
<1>15. ASSUME NEW k \in Aps, LogEnd(k) PROVE PingInv'
  BY <1>15, SMTT(30) DEF LogEnd
<1>16. ASSUME NEW k \in Aps, Hang(k) PROVE PingInv'
  BY <1>16, SMTT(30) DEF Hang
<1>17. ASSUME NEW k \in Aps, NEW new \in Sils, RaiseSil(k, new) PROVE PingInv'
  BY <1>17, SMTT(30) DEF RaiseSil
<1>18. ASSUME NEW k \in Aps, NEW new \in Sils, LowerSil(k, new) PROVE PingInv'
  BY <1>18, SMTT(30) DEF LowerSil
<1>19. CASE UNCHANGED vars
  BY <1>19 DEF vars
<1> HIDE DogAssumption DEF TypeOK, PingInv, Aps, dogVars, apicVars
<1> QED
  BY <1>1, <1>2, <1>3, <1>4, <1>5, <1>6, <1>7, <1>8, <1>9, <1>10, <1>11, <1>12, <1>13, <1>14, <1>15, <1>16, <1>17, <1>18, <1>19
  DEF Next, DogStep, ApStep, Answer

\* A check raises the anger of a CPU below the limit by one step, or calms it.
LEMMA AngerStep == TypeOK /\ PingInv /\ AngerNeverWraps /\ [Next]_vars => AngerNeverWraps'
<1> SUFFICES ASSUME TypeOK, PingInv, AngerNeverWraps, [Next]_vars PROVE AngerNeverWraps'
  OBVIOUS
<1> USE DogAssumption, StepRange DEF TypeOK, PingInv, AngerNeverWraps, Aps, dogVars, apicVars
<1>1. ASSUME CountSlot PROVE AngerNeverWraps'
  BY <1>1, SMTT(30) DEF CountSlot
<1>2. ASSUME CountDone PROVE AngerNeverWraps'
  BY <1>2, SMTT(30) DEF CountDone
<1>3. ASSUME NextCpu PROVE AngerNeverWraps'
  BY <1>3, SMTT(30) DEF NextCpu
<1>4. ASSUME ClearHere PROVE AngerNeverWraps'
  BY <1>4, SMTT(30) DEF ClearHere
<1>5. ASSUME SendIpi PROVE AngerNeverWraps'
  BY <1>5, SMTT(30) DEF SendIpi
<1>6. ASSUME SetX2 PROVE AngerNeverWraps'
  BY <1>6, SMTT(30) DEF SetX2
<1>7. ASSUME CheckHere PROVE AngerNeverWraps'
  <2>0. dog = "wait" /\ i \in Aps
    <3>1. dog = "wait"
      BY <1>7 DEF CheckHere
    <3> QED
      BY <3>1
  <2>1. anger[i] < ANGER_LIMIT /\ anger[i] \in Nat
    <3>1. anger[i] \in Nat
      BY <2>0, AngerNat
    <3> QED
      BY <2>0, <3>1
  <2>2. (anger[i] + Step(i)) % 256 = anger[i] + Step(i)
    BY <2>0, <2>1, AngerSum
  <2>3. anger'[i] < ANGER_LIMIT + Step(i)
    <3>1. anger'[i] = IF here[i] THEN 0 ELSE anger[i] + Step(i)
      BY <1>7, <2>0, <2>2 DEF CheckHere
    <3> QED
      BY <2>0, <2>1, <3>1
  <2>4. anger'[i] >= ANGER_LIMIT => dog' = "bark"
    BY <1>7 DEF CheckHere
  <2>5. \A k \in Aps \ {i} : anger'[k] = anger[k]
    BY <1>7 DEF CheckHere
  <2> QED
    BY <1>7, <2>3, <2>4, <2>5 DEF CheckHere, Step
<1>8. ASSUME Warn PROVE AngerNeverWraps'
  BY <1>8, SMTT(30) DEF Warn
<1>9. ASSUME Bark PROVE AngerNeverWraps'
  BY <1>9, SMTT(30) DEF Bark
<1>10. ASSUME NEW k \in Aps, Publish(k) PROVE AngerNeverWraps'
  BY <1>10, SMTT(30) DEF Publish
<1>11. ASSUME NEW k \in Aps, Deliver(k) PROVE AngerNeverWraps'
  BY <1>11, SMTT(30) DEF Deliver
<1>12. ASSUME NEW k \in Aps, StoreHere(k) PROVE AngerNeverWraps'
  BY <1>12, SMTT(30) DEF StoreHere
<1>13. ASSUME NEW k \in Aps, SendEoi(k) PROVE AngerNeverWraps'
  BY <1>13, SMTT(30) DEF SendEoi
<1>14. ASSUME NEW k \in Aps, LogBegin(k) PROVE AngerNeverWraps'
  BY <1>14, SMTT(30) DEF LogBegin
<1>15. ASSUME NEW k \in Aps, LogEnd(k) PROVE AngerNeverWraps'
  BY <1>15, SMTT(30) DEF LogEnd
<1>16. ASSUME NEW k \in Aps, Hang(k) PROVE AngerNeverWraps'
  BY <1>16, SMTT(30) DEF Hang
<1>17. ASSUME NEW k \in Aps, NEW new \in Sils, RaiseSil(k, new) PROVE AngerNeverWraps'
  BY <1>17, SMTT(30) DEF RaiseSil
<1>18. ASSUME NEW k \in Aps, NEW new \in Sils, LowerSil(k, new) PROVE AngerNeverWraps'
  BY <1>18, SMTT(30) DEF LowerSil
<1>19. CASE UNCHANGED vars
  BY <1>19 DEF vars
<1> HIDE DogAssumption, StepRange DEF TypeOK, PingInv, AngerNeverWraps, Aps, dogVars, apicVars
<1> QED
  BY <1>1, <1>2, <1>3, <1>4, <1>5, <1>6, <1>7, <1>8, <1>9, <1>10, <1>11, <1>12, <1>13, <1>14, <1>15, <1>16, <1>17, <1>18, <1>19
  DEF Next, DogStep, ApStep, Answer

\* The anger of a CPU never wraps around its uint8_t, whatever the CPUs do.
THEOREM NoWrap == Spec => []AngerNeverWraps
<1>1. TypeOK /\ PingInv /\ AngerNeverWraps /\ [Next]_vars => (TypeOK /\ PingInv /\ AngerNeverWraps)'
  BY TypeStep, PingStep, AngerStep
<1> QED
  BY InitType, <1>1, PTL DEF Spec

\* In xAPIC mode send_eoi never faults.
LEMMA EoiStep ==
  ASSUME ~X2Apic
  PROVE  TypeOK /\ PingInv /\ EoiInv /\ [Next]_vars => EoiInv'
<1> SUFFICES ASSUME TypeOK, PingInv, EoiInv, [Next]_vars PROVE EoiInv'
  OBVIOUS
<1> USE DogAssumption DEF TypeOK, PingInv, EoiInv, dogVars, apicVars
<1>1. ASSUME CountSlot PROVE EoiInv'
  BY <1>1, SMTT(30) DEF CountSlot
<1>2. ASSUME CountDone PROVE EoiInv'
  BY <1>2, SMTT(30) DEF CountDone
<1>3. ASSUME NextCpu PROVE EoiInv'
  BY <1>3, SMTT(30) DEF NextCpu
<1>4. ASSUME ClearHere PROVE EoiInv'
  BY <1>4, SMTT(30) DEF ClearHere
<1>5. ASSUME SendIpi PROVE EoiInv'
  BY <1>5, ZenonT(60) DEF SendIpi
<1>6. ASSUME SetX2 PROVE EoiInv'
  BY <1>6, SMTT(30) DEF SetX2
<1>7. ASSUME CheckHere PROVE EoiInv'
  BY <1>7, SMTT(30) DEF CheckHere
<1>8. ASSUME Warn PROVE EoiInv'
  BY <1>8, SMTT(30) DEF Warn
<1>9. ASSUME Bark PROVE EoiInv'
  BY <1>9, SMTT(30) DEF Bark
<1>10. ASSUME NEW k \in Aps, Publish(k) PROVE EoiInv'
  BY <1>10, SMTT(30) DEF Publish
<1>11. ASSUME NEW k \in Aps, Deliver(k) PROVE EoiInv'
  BY <1>11, SMTT(30) DEF Deliver
<1>12. ASSUME NEW k \in Aps, StoreHere(k) PROVE EoiInv'
  BY <1>12, SMTT(30) DEF StoreHere
<1>13. ASSUME NEW k \in Aps, SendEoi(k) PROVE EoiInv'
  BY <1>13, SMTT(30) DEF SendEoi
<1>14. ASSUME NEW k \in Aps, LogBegin(k) PROVE EoiInv'
  BY <1>14, SMTT(30) DEF LogBegin
<1>15. ASSUME NEW k \in Aps, LogEnd(k) PROVE EoiInv'
  BY <1>15, SMTT(30) DEF LogEnd
<1>16. ASSUME NEW k \in Aps, Hang(k) PROVE EoiInv'
  BY <1>16, SMTT(30) DEF Hang
<1>17. ASSUME NEW k \in Aps, NEW new \in Sils, RaiseSil(k, new) PROVE EoiInv'
  BY <1>17, SMTT(30) DEF RaiseSil
<1>18. ASSUME NEW k \in Aps, NEW new \in Sils, LowerSil(k, new) PROVE EoiInv'
  BY <1>18, SMTT(30) DEF LowerSil
<1>19. CASE UNCHANGED vars
  BY <1>19 DEF vars
<1> HIDE DogAssumption DEF TypeOK, PingInv, EoiInv, dogVars, apicVars
<1> QED
  BY <1>1, <1>2, <1>3, <1>4, <1>5, <1>6, <1>7, <1>8, <1>9, <1>10, <1>11, <1>12, <1>13, <1>14, <1>15, <1>16, <1>17, <1>18, <1>19
  DEF Next, DogStep, ApStep, Answer

\* One more missed check is one more step.
LEMMA OneMore == \A d, s \in Nat : (d + 1) * s = d * s + s /\ d * s \in Nat
  OBVIOUS

\* A check of a CPU that can answer calms it; any other check counts as deaf.
LEMMA CheckStep ==
  ASSUME Prompt, TypeOK, PingInv, AngerNeverWraps, EoiInv, AlarmInv, CheckHere
  PROVE  AlarmInv'
<1>1. dog = "wait"
  BY DEF CheckHere
<1>2. i \in Aps /\ Step(i) \in Nat /\ i' = i
  BY <1>1, StepRange, DogAssumption DEF PingInv, TypeOK, Aps, CheckHere
<1>3. anger[i] \in Nat /\ anger[i] < ANGER_LIMIT
  <2>1. anger[i] \in Nat
    BY <1>2, AngerNat
  <2> QED
    BY <1>1, <1>2, <2>1, DogAssumption DEF AngerNeverWraps
<1>4. deaf[i] \in Nat /\ deaf \in [Aps -> Nat] /\ anger \in [Aps -> 0 .. 255]
  BY <1>2 DEF TypeOK
<1>5. anger'[i] = IF here[i] THEN 0 ELSE anger[i] + Step(i)
  <2>1. (anger[i] + Step(i)) % 256 = anger[i] + Step(i)
    BY <1>2, <1>3, AngerSum
  <2> QED
    BY <1>2, <1>4, <2>1 DEF CheckHere
<1>6. deaf'[i] = IF ~Deaf(i) THEN 0
                 ELSE IF deaf[i] * Step(i) < ANGER_LIMIT THEN deaf[i] + 1 ELSE deaf[i]
  BY <1>2, <1>4 DEF CheckHere
<1>7. here[i] \/ Deaf(i)
  BY <1>2 DEF CheckHere, Blocked, EoiInv
<1>8. anger'[i] <= deaf'[i] * Step(i) \/ deaf'[i] * Step(i) >= ANGER_LIMIT
  <2>1. CASE here[i]
    <3>1. anger'[i] = 0 /\ deaf'[i] \in Nat
      BY <1>4, <1>5, <1>6, <2>1
    <3> QED
      BY <1>2, <3>1, OneMore
  <2>2. CASE ~here[i] /\ deaf[i] * Step(i) < ANGER_LIMIT
    <3>1. anger'[i] = anger[i] + Step(i) /\ deaf'[i] = deaf[i] + 1
      BY <1>5, <1>6, <1>7, <2>2
    <3>2. anger[i] <= deaf[i] * Step(i)
      BY <1>2, <1>4, <2>2, OneMore, DogAssumption DEF AlarmInv
    <3> QED
      BY <1>2, <1>3, <1>4, <3>1, <3>2, OneMore
  <2>3. CASE ~here[i] /\ ~(deaf[i] * Step(i) < ANGER_LIMIT)
    <3>1. deaf'[i] = deaf[i]
      BY <1>6, <1>7, <2>3
    <3> QED
      BY <1>2, <1>4, <2>3, <3>1, OneMore, DogAssumption
  <2> QED
    BY <2>1, <2>2, <2>3
<1>9. \A k \in Aps \ {i} : anger'[k] = anger[k] /\ deaf'[k] = deaf[k]
  BY <1>4 DEF CheckHere
<1>10. dog' \in {"bark", "reset"} => anger'[i] >= ANGER_LIMIT
  BY DEF CheckHere
<1> QED
  BY <1>2, <1>8, <1>9, <1>10 DEF AlarmInv, Step

\* The anger of a CPU is covered by the checks that found it deaf.
LEMMA AlarmStep ==
  ASSUME Prompt
  PROVE  /\ TypeOK /\ PingInv /\ AngerNeverWraps /\ EoiInv /\ AlarmInv
         /\ [Next]_vars
         => AlarmInv'
<1> SUFFICES ASSUME TypeOK, PingInv, AngerNeverWraps, EoiInv, AlarmInv, [Next]_vars
             PROVE  AlarmInv'
  OBVIOUS
<1> USE DEF AlarmInv, Step, dogVars
<1>1. ASSUME CountSlot PROVE AlarmInv'
  BY <1>1, SMTT(30) DEF CountSlot
<1>2. ASSUME CountDone PROVE AlarmInv'
  BY <1>2, SMTT(30) DEF CountDone
<1>3. ASSUME NextCpu PROVE AlarmInv'
  BY <1>3, SMTT(30) DEF NextCpu
<1>4. ASSUME ClearHere PROVE AlarmInv'
  BY <1>4, SMTT(30) DEF ClearHere
<1>5. ASSUME SendIpi PROVE AlarmInv'
  BY <1>5, SMTT(30) DEF SendIpi
<1>6. ASSUME SetX2 PROVE AlarmInv'
  BY <1>6, SMTT(30) DEF SetX2
<1>7. ASSUME CheckHere PROVE AlarmInv'
  BY <1>7, CheckStep DEF AlarmInv
<1>8. ASSUME Warn PROVE AlarmInv'
  BY <1>8, SMTT(30) DEF Warn
<1>9. ASSUME Bark PROVE AlarmInv'
  BY <1>9, SMTT(30) DEF Bark
<1>10. ASSUME NEW k \in Aps, Publish(k) PROVE AlarmInv'
  BY <1>10, SMTT(30) DEF Publish
<1>11. ASSUME NEW k \in Aps, Deliver(k) PROVE AlarmInv'
  BY <1>11, SMTT(30) DEF Deliver
<1>12. ASSUME NEW k \in Aps, StoreHere(k) PROVE AlarmInv'
  BY <1>12, SMTT(30) DEF StoreHere
<1>13. ASSUME NEW k \in Aps, SendEoi(k) PROVE AlarmInv'
  BY <1>13, SMTT(30) DEF SendEoi
<1>14. ASSUME NEW k \in Aps, LogBegin(k) PROVE AlarmInv'
  BY <1>14, SMTT(30) DEF LogBegin
<1>15. ASSUME NEW k \in Aps, LogEnd(k) PROVE AlarmInv'
  BY <1>15, SMTT(30) DEF LogEnd
<1>16. ASSUME NEW k \in Aps, Hang(k) PROVE AlarmInv'
  BY <1>16, SMTT(30) DEF Hang
<1>17. ASSUME NEW k \in Aps, NEW new \in Sils, RaiseSil(k, new) PROVE AlarmInv'
  BY <1>17, SMTT(30) DEF RaiseSil
<1>18. ASSUME NEW k \in Aps, NEW new \in Sils, LowerSil(k, new) PROVE AlarmInv'
  BY <1>18, SMTT(30) DEF LowerSil
<1>19. CASE UNCHANGED vars
  BY <1>19 DEF vars
<1> HIDE DEF AlarmInv, Step, dogVars
<1> QED
  BY <1>1, <1>2, <1>3, <1>4, <1>5, <1>6, <1>7, <1>8, <1>9, <1>10, <1>11, <1>12, <1>13, <1>14, <1>15, <1>16, <1>17, <1>18, <1>19
  DEF Next, DogStep, ApStep, Answer

\* docs/dog.md: in xAPIC mode, and when a CPU that can take the interrupt answers
\* within the delay, the dog panics only about a CPU that could not answer at any
\* check since its anger started to rise.
THEOREM NoFalseBite ==
  ASSUME Prompt, ~X2Apic
  PROVE  Spec => []NoFalseAlarm
<1> DEFINE DogInv == TypeOK /\ PingInv /\ AngerNeverWraps /\ EoiInv /\ AlarmInv
<1>1. Init => DogInv
  <2>1. Init => EoiInv
    BY DEF Init, EoiInv
  <2>2. Init => AlarmInv
    BY StepRange DEF Init, AlarmInv
  <2> QED
    BY <2>1, <2>2, InitType
<1>2. DogInv /\ [Next]_vars => DogInv'
  BY TypeStep, PingStep, AngerStep, EoiStep, AlarmStep
<1>3. DogInv => NoFalseAlarm
  <2> SUFFICES ASSUME DogInv, dog \in {"bark", "reset"} PROVE deaf[i] * Step(i) >= ANGER_LIMIT
    BY DEF NoFalseAlarm
  <2>1. i \in Aps
    BY DogAssumption DEF PingInv, TypeOK, Aps
  <2>2. anger[i] \in Nat /\ deaf[i] \in Nat /\ Step(i) \in Nat
    BY <2>1, AngerNat, StepRange DEF TypeOK
  <2>3. deaf[i] * Step(i) \in Nat
    BY <2>2, OneMore
  <2> QED
    BY <2>1, <2>2, <2>3, DogAssumption DEF AlarmInv
<1> QED
  BY <1>1, <1>2, <1>3, PTL DEF Spec
===============================================================================
