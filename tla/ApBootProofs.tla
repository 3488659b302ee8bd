----------------------------- MODULE ApBootProofs -----------------------------
(***************************************************************************)
(* Proofs about ApBoot, for any number of processors (up to the 63 that    *)
(* cpu_percpu has room for), any local APIC ids and any number of pages:   *)
(* core numbers, roles and slots of cpu_percpu are each processor's own,   *)
(* and what else it has is its own unless two CPUs have overlapped.        *)
(***************************************************************************)
EXTENDS ApBoot, FiniteSetTheorems, TLAPS

\* The steps of the allocator that a CPU takes on its way through ap_entry or map_mmio,
\* one by one: retpage is not called, so that its two steps are not among them.
LEMMA AllocateCases ==
  ASSUME NEW c \in Cpus, StageInv, Allocate(c)
  PROVE  \/ Mem!Acquire(c, current_cpu(c)) \/ Mem!Scan(c) \/ Mem!Exhausted(c) \/ Mem!Take(c)
         \/ Mem!Untag(c) \/ Mem!Return(c)
  BY DEF Allocate, Mem!Running, Mem!TestUsed, Mem!ClearUsed, Mem!Lock!Goto, StageInv

\* The types of the allocator's variables: what aquire_lock takes for the caller's identity
\* is a number, and the page returned is one of the list.
LEMMA MemTypeStep == ASSUME Inv, NEW c \in Cpus, Allocate(c) PROVE Mem!TypeOK'
<1> USE ApAssumption DEF Inv, TypeOK, Mem!TypeOK, Mem!Lock!Goto
<1>1. CASE Mem!Acquire(c, current_cpu(c))
  <2>1. gs[c] = NULL \/ percpu[gs[c]] \in [cpu_id : 0 .. 31, tss : 0 .. 31 \cup {NULL}]
    BY DEF TSS_ENTRIES
  <2>2. current_cpu(c) \in Nat
    BY <2>1 DEF current_cpu
  <2>3. CASE Mem!Lock!CheckHolder(c, current_cpu(c), "check", "spin", "scan")
    BY <1>1, <2>3 DEF Mem!Acquire, Mem!allocVars, Mem!Lock!CheckHolder
  <2>4. CASE Mem!Lock!ExchangeHeld(c, "spin", "tag")
    BY <1>1, <2>4, Zenon DEF Mem!Acquire, Mem!allocVars, Mem!Lock!ExchangeHeld
  <2>5. CASE Mem!Lock!TagHolder(c, current_cpu(c), "tag", "scan")
    BY <1>1, <2>2, <2>5 DEF Mem!Acquire, Mem!allocVars, Mem!Lock!TagHolder
  <2> QED
    BY <1>1, <2>3, <2>4, <2>5 DEF Mem!Acquire
<1>2. CASE Mem!Scan(c)
  <2>1. i[c] + 1 \in 0 .. pages
    BY <1>2 DEF Mem!Scan
  <2> QED
    BY <1>2, <2>1 DEF Mem!Scan
<1>3. CASE Mem!Exhausted(c)
  <2>1. pc' \in [Cpus -> {"idle", "check", "spin", "tag", "scan", "take", "release",
                         "unlock", "free", "clear", "panic"}]
    BY <1>3 DEF Mem!Exhausted
  <2>2. got' \in [Cpus -> Mem!Page \cup {Mem!NULL, Mem!NoResult}]
    BY <1>3 DEF Mem!Exhausted
  <2> QED
    BY <1>3, <2>1, <2>2 DEF Mem!Exhausted
<1>4. CASE Mem!Take(c)
  BY <1>4, Zenon DEF Mem!Take
<1>5. CASE Mem!Untag(c)
  BY <1>5 DEF Mem!Untag, Mem!allocVars, Mem!Lock!ClearHolder, Mem!Lock!NoHolder
<1>6. CASE Mem!Return(c)
  <2>1. i[c] \in Mem!Page
    BY <1>6 DEF Mem!Return, Mem!Lock!ClearHeld, StageInv, Page
  <2> QED
    BY <1>6, <2>1, Zenon DEF Mem!Return, Mem!Lock!ClearHeld
<1> QED
  BY <1>1, <1>2, <1>3, <1>4, <1>5, <1>6, AllocateCases

\* A call of the allocator keeps them too.
LEMMA CallTypes ==
  ASSUME Mem!TypeOK, NEW c \in Cpus, NEW f \in {"KGetPage", "__giverawpage"}, Mem!Call(c, f)
  PROVE  Mem!TypeOK'
  BY ApAssumption DEF Mem!TypeOK, Mem!Call, Mem!Lock!Goto

\* A processor that has no number yet gets the next one, which there is room for.
LEMMA CoreFits ==
  ASSUME Inv, NEW c \in Aps, stage[c] = "start"
  PROVE  /\ core + 1 \in Cpus /\ (core + 1) % 256 = core + 1
         /\ Cardinality(Numbered \cup {c}) = core + 1
<1>1. IsFiniteSet(Aps) /\ Cardinality(Aps) = NAps
  BY FS_Interval, ApAssumption DEF Aps
<1>2. Numbered \in SUBSET Aps /\ Numbered \cup {c} \in SUBSET Aps /\ c \notin Numbered
  BY DEF Numbered, Inv, CoreInv
<1>3. IsFiniteSet(Numbered)
  BY <1>1, <1>2, FS_Subset
<1>4. Cardinality(Numbered \cup {c}) = core + 1
  BY <1>2, <1>3, FS_AddElement, Zenon DEF Inv, CoreInv
<1>5. core + 1 <= NAps
  BY <1>1, <1>2, <1>4, FS_Subset
<1>6. core \in Nat
  BY DEF Inv, TypeOK, Cpus
<1> QED
  BY <1>4, <1>5, <1>6, ApAssumption DEF Cpus, MAX_CPUS

\* The types: no number, page or TSS is ever outside its table.
LEMMA TypeStep == ASSUME Inv, [Next]_vars PROVE TypeOK'
<1>1. ASSUME memVars' = memVars PROVE Mem!TypeOK'
  BY <1>1 DEF Inv, TypeOK, Mem!TypeOK, memVars
<1>2. ASSUME NEW c \in Cpus, NEW f \in {"KGetPage", "__giverawpage"}, Mem!Call(c, f) PROVE Mem!TypeOK'
  BY <1>2, CallTypes DEF Inv, TypeOK
<1> USE ApAssumption DEF Inv, TypeOK, memVars, tssVars, blockVars, coreVars, Advance,
        Cpus, Aps, BSP, Page, NULL, Settled, Role
<1>3. CASE Send
  <2>1. sent + 1 \in Aps /\ sent + 1 \in Cpus /\ sent' \in 0 .. NAps
    BY <1>3 DEF Send
  <2> QED
    BY <1>1, <1>3, <2>1, Zenon DEF Send
<1>4. CASE LogSent
  BY <1>1, <1>4, Zenon DEF LogSent
<1>5. CASE CountCpus
  <2>1. Mem!TypeOK'
    BY <1>1, <1>2, <1>5 DEF CountCpus
  <2> QED
    BY <1>5, <2>1, Zenon DEF CountCpus
<1>6. CASE MapMmioDone
  BY <1>1, <1>6, Zenon DEF MapMmioDone
<1>7. ASSUME NEW c \in Cpus, Allocate(c) PROVE TypeOK'
  BY <1>7, MemTypeStep, Zenon DEF Allocate
<1>8. ASSUME NEW c \in Aps, FetchCore(c) PROVE TypeOK'
  <2>1. core + 1 \in Cpus /\ (core + 1) % 256 = core + 1
    BY <1>8, CoreFits, Zenon DEF FetchCore
  <2> QED
    BY <1>1, <1>8, <2>1, Zenon DEF FetchCore
<1>9. ASSUME NEW c \in Aps, CallKGetPage(c) PROVE TypeOK'
  <2>1. Mem!TypeOK'
    BY <1>2, <1>9 DEF CallKGetPage
  <2> QED
    BY <1>9, <2>1, Zenon DEF CallKGetPage
<1>10. ASSUME NEW c \in Aps, CopyImage(c) PROVE TypeOK'
  <2>1. PercpuImage \in [cpu_id : 0 .. TSS_ENTRIES - 1, tss : 0 .. TSS_ENTRIES - 1 \cup {NULL}]
    BY DEF PercpuImage, TSS_ENTRIES
  <2>2. percpu' \in [Page -> [cpu_id : 0 .. TSS_ENTRIES - 1, tss : 0 .. TSS_ENTRIES - 1 \cup {NULL}]]
    BY <1>10, <2>1, Zenon DEF CopyImage
  <2> QED
    BY <1>1, <1>10, <2>2, Zenon DEF CopyImage
<1>11. ASSUME NEW c \in Aps, SetGs(c) PROVE TypeOK'
  BY <1>1, <1>11, Zenon DEF SetGs, StageInv, WithBlock
<1>12. ASSUME NEW c \in Aps, SetId(c) \/ SetTss(c) PROVE TypeOK'
  <2> DEFINE R == [cpu_id : 0 .. TSS_ENTRIES - 1, tss : 0 .. TSS_ENTRIES - 1 \cup {NULL}]
  <2>1. LapicId[c] \in 0 .. TSS_ENTRIES - 1
    BY DEF TSS_ENTRIES
  <2>2. \A r \in R : [r EXCEPT !.cpu_id = LapicId[c]] \in R /\ [r EXCEPT !.tss = LapicId[c]] \in R
    BY <2>1
  <2>3. percpu \in [Page -> R]
    OBVIOUS
  <2> HIDE DEF R
  <2>4. percpu' \in [Page -> R]
    <3> HIDE DEF Inv, TypeOK, Page
    <3>1. CASE SetId(c)
      BY <2>2, <2>3, <3>1, Zenon DEF SetId
    <3>2. CASE SetTss(c)
      BY <2>2, <2>3, <3>2, Zenon DEF SetTss
    <3> QED
      BY <1>12, <3>1, <3>2
  <2> QED
    BY <1>1, <1>12, <2>4, Zenon DEF SetId, SetTss, R
<1>13. ASSUME NEW c \in Aps, Publish(c) PROVE TypeOK'
  BY <1>1, <1>13, Zenon DEF Publish, StageInv, WithBlock, WithGs, WithId, WithTss
<1>14. ASSUME NEW c \in Aps, FillTss(c) PROVE TypeOK'
  BY <1>1, <1>14, Zenon DEF FillTss, StageInv, WithBlock, WithGs, WithId, WithTss
<1>15. ASSUME NEW c \in Aps, WriteDescriptor(c) PROVE TypeOK'
  <2>1. my_tss[c] \in 0 .. TSS_ENTRIES - 1
    BY <1>15 DEF WriteDescriptor, StageInv
  <2> QED
    BY <1>1, <1>15, <2>1, Zenon DEF WriteDescriptor
<1>16. ASSUME NEW c \in Aps, LoadTss(c) PROVE TypeOK'
  BY <1>1, <1>16, Zenon DEF LoadTss
<1>17. ASSUME NEW c \in Aps, EnableInterrupts(c) \/ TakeRole(c) PROVE TypeOK'
  BY <1>1, <1>17, Zenon DEF EnableInterrupts, TakeRole
<1>18. CASE UNCHANGED vars
  BY <1>1, <1>18 DEF vars
<1> HIDE DEF Inv, TypeOK
<1> QED
  BY <1>3, <1>4, <1>5, <1>6, <1>7, <1>8, <1>9, <1>10, <1>11, <1>12, <1>13, <1>14, <1>15, <1>16, <1>17, <1>18
  DEF Next, BspStep, ApStep

\* The steps of the allocator: only a CPU inside it moves, and it comes out with a page of
\* the list or with NULL.
LEMMA AllocateEffect ==
  ASSUME Inv, NEW c \in Cpus, Allocate(c)
  PROVE  \A d \in Cpus : /\ pc'[d] # "idle" => pc[d] # "idle"
                         /\ pc'[d] \notin {"free", "clear"}
                         /\ pc'[d] \in {"take", "release", "unlock"} => i'[d] \in Page
                         /\ got'[d] # got[d] => pc[d] # "idle"
                         /\ pc[d] # "idle" /\ pc'[d] = "idle" => got'[d] # Mem!NoResult
<1>0. Mem!TypeOK /\ StageInv
  BY DEF Inv, TypeOK
<1> USE <1>0, ApAssumption DEF Mem!TypeOK, StageInv, Page, Mem!Lock!Goto
<1>1. CASE Mem!Acquire(c, current_cpu(c))
  BY <1>1 DEF Mem!Acquire, Mem!allocVars, Mem!Lock!CheckHolder, Mem!Lock!ExchangeHeld, Mem!Lock!TagHolder
<1>2. CASE Mem!Scan(c)
  <2>1. i[c] \in Page /\ pc[c] = "scan"
    BY <1>2 DEF Mem!Scan, Mem!Page
  <2>2. CASE used[i[c]]
    BY <1>2, <2>1, <2>2 DEF Mem!Scan
  <2>3. CASE ~used[i[c]]
    BY <1>2, <2>1, <2>3 DEF Mem!Scan
  <2> QED
    BY <2>2, <2>3
<1>3. CASE Mem!Exhausted(c)
  BY <1>3 DEF Mem!Exhausted, Mem!NULL, Mem!NoResult
<1>4. CASE Mem!Take(c)
  BY <1>4 DEF Mem!Take
<1>5. CASE Mem!Untag(c)
  BY <1>5 DEF Mem!Untag, Mem!allocVars, Mem!Lock!ClearHolder
<1>6. CASE Mem!Return(c)
  <2>1. i[c] \in Page /\ i[c] # Mem!NoResult /\ pc[c] = "unlock"
    BY <1>6 DEF Mem!Return, Mem!Lock!ClearHeld, Mem!Page, Mem!NoResult
  <2> QED
    BY <1>6, <2>1 DEF Mem!Return, Mem!Lock!ClearHeld
<1> QED
  BY <1>1, <1>2, <1>3, <1>4, <1>5, <1>6, AllocateCases

\* The result of a processor's call stays once the call is over.
LEMMA GotKept ==
  ASSUME Inv, NEW c \in Cpus, Allocate(c)
  PROVE  \A d \in Aps : stage[d] # "allocating" \/ gs[d] # NULL => got'[d] = got[d]
<1>1. Aps \subseteq Cpus
  BY DEF Aps, Cpus
<1> QED
  BY <1>1, AllocateEffect DEF Inv, StageInv

\* A step of the allocator in ap_entry or map_mmio: the CPU is past its call there.
LEMMA StageAllocate == ASSUME Inv, NEW c \in Cpus, Allocate(c) PROVE StageInv'
<1> USE ApAssumption DEF Mem!Lock!Goto, Page
<1>0. Aps \subseteq Cpus /\ BSP \in Cpus
  BY DEF Aps, Cpus, BSP
<1>1. Mem!TypeOK /\ StageInv
  BY DEF Inv, TypeOK
<1>2. UNCHANGED <<gs, stage, my_tss>>
  BY DEF Allocate, blockVars, tssVars
<1>3. \A d \in Aps : stage[d] # "allocating" \/ gs[d] # NULL => got'[d] = got[d]
  BY GotKept
<1> QED
  BY <1>0, <1>1, <1>2, <1>3, AllocateEffect DEF StageInv, WithBlock, WithGs, WithId, WithTss, WithTr, Role

\* The order of the steps in ap_entry and kentry.
LEMMA StageStep == ASSUME Inv, [Next]_vars PROVE StageInv'
<1> USE ApAssumption DEF Inv, TypeOK, StageInv, memVars, tssVars, blockVars, Advance,
        WithBlock, WithGs, WithId, WithTss, WithTr, Role
<1>0. Aps \subseteq Cpus /\ BSP \in Cpus /\ BSP \notin Aps
  BY DEF Aps, Cpus, BSP
<1>1. CASE Send
  <2>1. sent + 1 \in Aps
    BY <1>1 DEF Send, Aps
  <2>2. stage[sent + 1] = "parked"
    BY <2>1 DEF CoreInv, Aps
  <2> QED
    BY <1>0, <1>1, <2>1, <2>2 DEF Send
<1>2. CASE LogSent
  BY <1>0, <1>2 DEF LogSent
<1>3. CASE CountCpus
  <2>1. CASE Mem!Call(BSP, "__giverawpage") /\ Advance(BSP, "send", "map_mmio")
    BY <1>0, <1>3, <2>1 DEF CountCpus, Mem!Call, Mem!Lock!Goto, Mem!TypeOK
  <2>2. CASE UNCHANGED memVars /\ Advance(BSP, "send", "watching")
    BY <1>0, <1>3, <2>2 DEF CountCpus
  <2> QED
    BY <1>3, <2>1, <2>2 DEF CountCpus
<1>4. CASE MapMmioDone
  BY <1>0, <1>4 DEF MapMmioDone
<1>5. ASSUME NEW c \in Cpus, Allocate(c) PROVE StageInv'
  BY <1>5, StageAllocate
<1>6. ASSUME NEW c \in Aps, FetchCore(c) PROVE StageInv'
  BY <1>0, <1>6 DEF FetchCore
<1>7. ASSUME NEW c \in Aps, CallKGetPage(c) PROVE StageInv'
  BY <1>0, <1>7 DEF CallKGetPage, Mem!Call, Mem!Lock!Goto, Mem!TypeOK
<1>8. ASSUME NEW c \in Aps, CopyImage(c) PROVE StageInv'
  BY <1>0, <1>8 DEF CopyImage, Mem!TypeOK, NULL, Page
<1>9. ASSUME NEW c \in Aps, SetGs(c) PROVE StageInv'
  BY <1>0, <1>9 DEF SetGs
<1>10. ASSUME NEW c \in Aps, SetId(c) PROVE StageInv'
  BY <1>0, <1>10 DEF SetId
<1>11. ASSUME NEW c \in Aps, SetTss(c) PROVE StageInv'
  BY <1>0, <1>11 DEF SetTss
<1>12. ASSUME NEW c \in Aps, Publish(c) PROVE StageInv'
  BY <1>0, <1>12 DEF Publish
<1>13. ASSUME NEW c \in Aps, FillTss(c) PROVE StageInv'
  BY <1>0, <1>13 DEF FillTss
<1>14. ASSUME NEW c \in Aps, WriteDescriptor(c) PROVE StageInv'
  BY <1>0, <1>14 DEF WriteDescriptor
<1>15. ASSUME NEW c \in Aps, LoadTss(c) PROVE StageInv'
  BY <1>0, <1>15 DEF LoadTss
<1>16. ASSUME NEW c \in Aps, EnableInterrupts(c) PROVE StageInv'
  BY <1>0, <1>16 DEF EnableInterrupts
<1>17. ASSUME NEW c \in Aps, TakeRole(c) PROVE StageInv'
  BY <1>0, <1>17 DEF TakeRole
<1>18. CASE UNCHANGED vars
  BY <1>18 DEF vars
<1> HIDE DEF Inv, StageInv
<1> QED
  BY <1>1, <1>2, <1>3, <1>4, <1>5, <1>6, <1>7, <1>8, <1>9, <1>10, <1>11, <1>12, <1>13, <1>14, <1>15, <1>16, <1>17, <1>18
  DEF Next, BspStep, ApStep

\* Core numbers and the slots of cpu_percpu.
LEMMA CoreStep == ASSUME Inv, [Next]_vars PROVE CoreInv'
<1> USE ApAssumption DEF coreVars, Advance
<1>0. Aps \subseteq Cpus /\ BSP \in Cpus /\ BSP \notin Aps /\ sent \in 0 .. NAps /\ DOMAIN stage = Cpus
  BY DEF Aps, Cpus, BSP, Inv, TypeOK
<1>1. Inv /\ CoreInv
  BY DEF Inv
\* A step of one processor that gives no number and publishes nothing.
<1>2. ASSUME NEW c \in Aps, UNCHANGED <<core, my_core, sent, cpu_percpu>>,
             \A d \in Aps : got'[d] = got[d] \/ stage[d] \in {"allocating", "getpage"},
             \A d \in Aps : d # c => stage'[d] = stage[d],
             stage[c] \notin {"parked", "start"}, stage'[c] \notin {"parked", "start"},
             stage'[c] \in WithTr \cup {"tss_init", "descriptor", "ltr"} =>
               stage[c] \in WithTr \cup {"tss_init", "descriptor", "ltr"}
      PROVE CoreInv'
  BY <1>0, <1>1, <1>2 DEF CoreInv, Numbered, WithTr, Role
<1>3. CASE Send
  <2>1. sent + 1 \in Aps /\ stage[sent + 1] = "parked"
    BY <1>0, <1>1, <1>3 DEF Send, Aps, CoreInv
  <2>2. /\ UNCHANGED <<core, my_core, cpu_percpu, got>> /\ sent' = sent + 1
        /\ \A c \in Aps : stage'[c] = IF c = sent + 1 THEN "start" ELSE stage[c]
    BY <1>0, <1>3, <2>1 DEF Send, memVars, blockVars, coreVars, Aps, BSP
  <2>3. Numbered' = Numbered
    BY <2>2 DEF Numbered
  <2>4. \A c \in Aps : stage'[c] \in {"parked", "start"} <=> my_core'[c] = 0
    BY <1>1, <2>1, <2>2 DEF CoreInv
  <2>5. \A c \in Aps : stage'[c] = "parked" <=> c > sent'
    <3>1. sent \in Nat /\ \A c \in Aps : c \in Nat
      BY <1>1, ApAssumption DEF Inv, TypeOK, Aps
    <3> QED
      BY <1>1, <2>2, <3>1 DEF CoreInv
  <2>6. \A c \in Aps : stage'[c] \in WithTr \cup {"tss_init", "descriptor", "ltr"} =>
          stage[c] \in WithTr \cup {"tss_init", "descriptor", "ltr"}
    BY <2>2 DEF WithTr, Role
  <2> QED
    BY <1>1, <2>2, <2>3, <2>4, <2>5, <2>6, Zenon DEF CoreInv
<1>4. CASE LogSent
  BY <1>0, <1>1, <1>4 DEF LogSent, memVars, blockVars, CoreInv, Numbered
<1>5. CASE CountCpus
  BY <1>0, <1>1, <1>5 DEF CountCpus, memVars, Mem!Call, blockVars, CoreInv, Numbered
<1>6. CASE MapMmioDone
  BY <1>0, <1>1, <1>6 DEF MapMmioDone, memVars, blockVars, CoreInv, Numbered
<1>7. ASSUME NEW c \in Cpus, Allocate(c) PROVE CoreInv'
  BY <1>0, <1>1, <1>7, GotKept DEF Allocate, blockVars, CoreInv, Numbered, WithTr, Role
<1>8. ASSUME NEW c \in Aps, FetchCore(c) PROVE CoreInv'
  <2>1. core + 1 \in Cpus /\ core' = core + 1 /\ my_core \in [Cpus -> Cpus]
    BY <1>1, <1>8, CoreFits, Zenon DEF FetchCore, Inv, TypeOK
  <2>2. my_core' = [my_core EXCEPT ![c] = core + 1] /\ core \in Nat
    BY <1>8 DEF FetchCore, Inv, TypeOK, Cpus
  <2>3. Numbered' = Numbered \cup {c}
    BY <1>0, <2>1, <2>2 DEF Numbered
  <2>4. core' = Cardinality(Numbered')
    BY <1>1, <1>8, <2>1, <2>3, CoreFits DEF FetchCore
  <2>5. \A d \in Aps : my_core'[d] = IF d = c THEN core + 1 ELSE my_core[d]
    BY <1>0, <2>1, <2>2
  <2>6. \A d \in Aps : my_core[d] \in Nat /\ my_core[d] <= core
    BY <1>0, <1>1, <2>1 DEF CoreInv, Cpus
  <2> QED
    BY <1>0, <1>1, <1>8, <2>1, <2>2, <2>4, <2>5, <2>6
    DEF FetchCore, memVars, blockVars, CoreInv, WithTr, Role
<1>9. ASSUME NEW c \in Aps, CallKGetPage(c) PROVE CoreInv'
  BY <1>0, <1>2, <1>9 DEF CallKGetPage, Mem!Call, blockVars, WithTr, Role
<1>10. ASSUME NEW c \in Aps, CopyImage(c) PROVE CoreInv'
  BY <1>0, <1>2, <1>10 DEF CopyImage, memVars, WithTr, Role
<1>11. ASSUME NEW c \in Aps, SetGs(c) PROVE CoreInv'
  BY <1>0, <1>2, <1>11 DEF SetGs, memVars, WithTr, Role
<1>12. ASSUME NEW c \in Aps, SetId(c) \/ SetTss(c) PROVE CoreInv'
  BY <1>0, <1>2, <1>12 DEF SetId, SetTss, memVars, WithTr, Role
<1>13. ASSUME NEW c \in Aps, Publish(c) PROVE CoreInv'
  <2>1. my_core[c] \in Cpus /\ my_core[c] # 0 /\ cpu_percpu \in [Cpus -> Page \cup {NULL}]
    BY <1>0, <1>1, <1>13 DEF Publish, Inv, TypeOK, CoreInv
  <2> QED
    BY <1>0, <1>1, <1>13, <2>1 DEF Publish, memVars, CoreInv, Numbered, WithTr, Role
<1>14. ASSUME NEW c \in Aps, FillTss(c) PROVE CoreInv'
  BY <1>0, <1>2, <1>14 DEF FillTss, memVars, blockVars, WithTr, Role
<1>15. ASSUME NEW c \in Aps, WriteDescriptor(c) PROVE CoreInv'
  BY <1>0, <1>2, <1>15 DEF WriteDescriptor, memVars, blockVars, WithTr, Role
<1>16. ASSUME NEW c \in Aps, LoadTss(c) PROVE CoreInv'
  BY <1>0, <1>2, <1>16 DEF LoadTss, memVars, blockVars, WithTr, Role
<1>17. ASSUME NEW c \in Aps, EnableInterrupts(c) \/ TakeRole(c) PROVE CoreInv'
  BY <1>0, <1>2, <1>17 DEF EnableInterrupts, TakeRole, memVars, blockVars, WithTr, Role
<1>18. CASE UNCHANGED vars
  BY <1>1, <1>18 DEF vars, memVars, blockVars, CoreInv, Numbered
<1> QED
  BY <1>3, <1>4, <1>5, <1>6, <1>7, <1>8, <1>9, <1>10, <1>11, <1>12, <1>13, <1>14, <1>15, <1>16, <1>17, <1>18
  DEF Next, BspStep, ApStep

\* While one CPU at a time is in the allocator, the pages it gives out are apart.
LEMMA PagesAllocate == ASSUME Inv, PagesApart, NEW c \in Cpus, Allocate(c) PROVE PagesApart'
<1>0. Aps \subseteq Cpus /\ Mem!TypeOK /\ StageInv /\ 0 \in Page
  BY ApAssumption DEF Aps, Cpus, Inv, TypeOK, Page, Mem!Page
<1> USE <1>0, ApAssumption DEF Mem!TypeOK, PagesApart, Page, Mem!Lock!Goto
<1>1. CASE Mem!Acquire(c, current_cpu(c))
  BY <1>1 DEF Mem!Acquire, Mem!allocVars, Mem!Lock!CheckHolder, Mem!Lock!ExchangeHeld, Mem!Lock!TagHolder
<1>2. CASE Mem!Scan(c)
  <2>1. i[c] \in Page /\ pc[c] = "scan"
    BY <1>2 DEF Mem!Scan, Mem!Page
  <2>2. CASE used[i[c]]
    BY <1>2, <2>1, <2>2 DEF Mem!Scan
  <2>3. CASE ~used[i[c]]
    BY <1>2, <2>1, <2>3 DEF Mem!Scan
  <2> QED
    BY <2>2, <2>3
<1>3. CASE Mem!Exhausted(c)
  <2>1. Mem!NULL \notin Page
    BY DEF Mem!NULL, Mem!Page
  <2> QED
    BY <1>3, <2>1 DEF Mem!Exhausted
<1>4. CASE Mem!Take(c)
  <2>1. i[c] \in Page /\ pc[c] = "take"
    BY <1>4 DEF Mem!Take, StageInv
  <2> QED
    BY <1>4, <2>1 DEF Mem!Take
<1>5. CASE Mem!Untag(c)
  BY <1>5 DEF Mem!Untag, Mem!allocVars, Mem!Lock!ClearHolder
<1>6. CASE Mem!Return(c)
  <2>1. i[c] \in Page /\ pc[c] = "unlock"
    BY <1>6 DEF Mem!Return, Mem!Lock!ClearHeld, StageInv
  <2> QED
    BY <1>6, <2>1 DEF Mem!Return, Mem!Lock!ClearHeld
<1> QED
  BY <1>1, <1>2, <1>3, <1>4, <1>5, <1>6, AllocateCases

\* The processors: those kentry starts, and the one it runs on.
LEMMA CpuSets == Aps \subseteq Cpus /\ BSP \in Cpus /\ Cpus = Aps \cup {BSP} /\ BSP \notin Aps
BY ApAssumption DEF Aps, Cpus, BSP, MAX_CPUS

\* As long as no two processors are in the allocator at once, every step keeps their pages
\* apart.
LEMMA PagesStep == ASSUME Inv, PagesApart, [Next]_vars, ~overlap' PROVE PagesApart'
<1>0. Aps \subseteq Cpus /\ BSP \in Cpus /\ Cpus = Aps \cup {BSP} /\ Mem!TypeOK
  BY CpuSets DEF Inv, TypeOK
<1>1. ASSUME UNCHANGED memVars PROVE PagesApart'
  BY <1>1 DEF PagesApart, memVars
<1>2. ASSUME NEW c \in Cpus, NEW f, Mem!Call(c, f), \A d \in Cpus : d # c => pc[d] = "idle" PROVE PagesApart'
  BY <1>0, <1>2 DEF PagesApart, Mem!Call, Mem!Lock!Goto, Mem!TypeOK
<1>3. CASE CountCpus
  <2>1. CASE Mem!Call(BSP, "__giverawpage") /\ overlap' = (overlap \/ \E c \in Aps : pc[c] # "idle")
    BY <1>0, <1>2, <2>1, Zenon
  <2>2. CASE UNCHANGED memVars
    BY <1>1, <2>2
  <2> QED
    BY <1>3, <2>1, <2>2 DEF CountCpus
<1>4. ASSUME NEW c \in Aps, CallKGetPage(c) PROVE PagesApart'
  BY <1>0, <1>2, <1>4, Zenon DEF CallKGetPage
<1>5. ASSUME NEW c \in Cpus, Allocate(c) PROVE PagesApart'
  BY <1>5, PagesAllocate
<1>6. CASE Send \/ LogSent \/ MapMmioDone \/ UNCHANGED vars
  BY <1>1, <1>6 DEF Send, LogSent, MapMmioDone, vars
<1>7. ASSUME NEW c \in Aps, ApStep(c), ~CallKGetPage(c) PROVE PagesApart'
  BY <1>1, <1>7 DEF ApStep, FetchCore, CopyImage, SetGs, SetId, SetTss, Publish, FillTss, WriteDescriptor, LoadTss,
     EnableInterrupts, TakeRole
<1> QED
  BY <1>3, <1>4, <1>5, <1>6, <1>7 DEF Next, BspStep

\* While one CPU at a time is between the descriptor and ltr, it loads its own TSS.
LEMMA DescriptorStep == ASSUME Inv, AloneInv, [Next]_vars, ~overlap' PROVE DescriptorOwned'
<1>0. Aps \subseteq Cpus /\ BSP \in Cpus /\ Cpus = Aps \cup {BSP} /\ BSP \notin Aps /\ DOMAIN stage = Cpus
      /\ DOMAIN my_tss = Cpus /\ stage[BSP] # "ltr"
  BY CpuSets DEF Inv, TypeOK, StageInv
<1> USE <1>0 DEF AloneInv, DescriptorOwned, Advance
<1>1. ASSUME UNCHANGED <<stage, tssVars>> PROVE DescriptorOwned'
  BY <1>1 DEF tssVars
<1>2. ASSUME NEW c \in Cpus, UNCHANGED tssVars, stage'[c] \notin {"descriptor", "ltr"},
             \A d \in Cpus : d # c => stage'[d] = stage[d]
      PROVE  DescriptorOwned'
  BY <1>2 DEF tssVars
<1>3. CASE Send
  <2>1. sent + 1 \in Cpus
    BY <1>3, ApAssumption DEF Send, Inv, TypeOK, Cpus
  <2>2. \A d \in Cpus : stage'[d] \in {"descriptor", "ltr"} => stage'[d] = stage[d]
    BY <1>3, <2>1 DEF Send
  <2> QED
    BY <1>3, <2>2 DEF Send, tssVars
<1>4. CASE LogSent \/ CountCpus \/ MapMmioDone
  BY <1>2, <1>4 DEF LogSent, CountCpus, MapMmioDone
<1>5. ASSUME NEW c \in Cpus, Allocate(c) PROVE DescriptorOwned'
  BY <1>1, <1>5 DEF Allocate
<1>6. ASSUME NEW c \in Aps, FetchCore(c) \/ CallKGetPage(c) \/ CopyImage(c) \/ SetGs(c) \/ SetId(c) \/ SetTss(c) \/ Publish(c)
      PROVE DescriptorOwned'
  BY <1>2, <1>6 DEF FetchCore, CallKGetPage, CopyImage, SetGs, SetId, SetTss, Publish
<1>7. ASSUME NEW c \in Aps, FillTss(c) PROVE DescriptorOwned'
  <2>1. percpu[gs[c]].tss = LapicId[c]
    BY <1>7 DEF FillTss, WithTss
  <2> QED
    BY <1>7, <2>1 DEF FillTss
<1>8. ASSUME NEW c \in Aps, WriteDescriptor(c) PROVE DescriptorOwned'
  BY <1>8, Zenon DEF WriteDescriptor
<1>9. ASSUME NEW c \in Aps, LoadTss(c) PROVE DescriptorOwned'
  BY <1>9 DEF LoadTss
<1>10. ASSUME NEW c \in Aps, EnableInterrupts(c) \/ TakeRole(c) PROVE DescriptorOwned'
  BY <1>2, <1>10 DEF EnableInterrupts, TakeRole
<1>11. CASE UNCHANGED vars
  BY <1>1, <1>11 DEF vars
<1> HIDE DEF AloneInv, DescriptorOwned
<1> QED
  BY <1>3, <1>4, <1>5, <1>6, <1>7, <1>8, <1>9, <1>10, <1>11 DEF Next, BspStep, ApStep

\* The blocks: only their owners write them, as long as no page is given out twice.
LEMMA BlocksStep ==
  ASSUME Inv, AloneInv, [Next]_vars, ~overlap'
  PROVE  /\ PercpuIdIsLapicId'
         /\ \A c \in Aps : stage'[c] \in WithTss => percpu'[gs'[c]].tss = LapicId[c]
<1> DEFINE Mine(c) == /\ stage[c] \in WithId => percpu[gs[c]].cpu_id = LapicId[c]
                      /\ stage[c] \in WithTss => percpu[gs[c]].tss = LapicId[c]
<1> SUFFICES ASSUME NEW c \in Aps PROVE Mine(c)'
  BY DEF PercpuIdIsLapicId, HasId
<1>0. Mine(c)
  BY DEF AloneInv, PercpuIdIsLapicId, HasId
<1>1. /\ Aps \subseteq Cpus /\ BSP \in Cpus /\ BSP \notin Aps
      /\ DOMAIN stage = Cpus /\ DOMAIN gs = Cpus /\ DOMAIN percpu = Page
      /\ \A p \in Page : DOMAIN percpu[p] = {"cpu_id", "tss"}
  BY CpuSets DEF Inv, TypeOK
<1>2. \A d \in Aps : d # c /\ got[c] \in Page => got[d] # got[c]
  BY DEF AloneInv, PagesApart
<1>3. \A d \in Aps : /\ stage[d] \in WithBlock => got[d] \in Page
                     /\ stage[d] \in WithGs => gs[d] = got[d]
  BY DEF Inv, StageInv
<1>4. ASSUME stage'[c] \in WithId => stage[c] = stage'[c] /\ gs'[c] = gs[c] /\ percpu'[gs[c]] = percpu[gs[c]]
      PROVE  Mine(c)'
  BY <1>0, <1>4 DEF WithId
<1>5. CASE Send
  <2>1. sent + 1 \in Cpus
    BY <1>5, ApAssumption DEF Send, Inv, TypeOK, Cpus
  <2> QED
    BY <1>1, <1>4, <1>5, <2>1 DEF Send, blockVars, WithId, WithTss, WithTr, Role
<1>6. CASE LogSent \/ CountCpus \/ MapMmioDone
  BY <1>1, <1>4, <1>6 DEF LogSent, CountCpus, MapMmioDone, Advance, blockVars
<1>7. CASE (\E d \in Cpus : Allocate(d)) \/ UNCHANGED vars
  BY <1>4, <1>7 DEF Allocate, blockVars, vars
<1>8. ASSUME NEW d \in Aps, FetchCore(d) \/ CallKGetPage(d) PROVE Mine(c)'
  BY <1>1, <1>4, <1>8 DEF FetchCore, CallKGetPage, Advance, blockVars, WithId, WithTss, WithTr, Role
<1>9. ASSUME NEW d \in Aps, CopyImage(d) PROVE Mine(c)'
  BY <1>1, <1>2, <1>3, <1>4, <1>9 DEF CopyImage, Advance, WithBlock, WithGs, WithId, WithTss, WithTr, Role
<1>10. ASSUME NEW d \in Aps, SetGs(d) PROVE Mine(c)'
  BY <1>1, <1>4, <1>10 DEF SetGs, Advance, WithId, WithTss, WithTr, Role
<1>11. ASSUME NEW d \in Aps, SetId(d) PROVE Mine(c)'
  <2>1. gs[d] \in Page /\ gs[d] = got[d]
    BY <1>3, <1>11 DEF SetId, Advance, WithBlock, WithGs
  <2>2. CASE d = c
    BY <1>1, <1>11, <2>1, <2>2 DEF SetId, Advance, WithTss, WithTr, Role
  <2>3. CASE d # c
    BY <1>1, <1>2, <1>3, <1>4, <1>11, <2>1, <2>3 DEF SetId, Advance, WithBlock, WithGs
  <2> QED
    BY <2>2, <2>3
<1>12. ASSUME NEW d \in Aps, SetTss(d) PROVE Mine(c)'
  <2>1. gs[d] \in Page /\ gs[d] = got[d]
    BY <1>3, <1>12 DEF SetTss, Advance, WithBlock, WithGs, WithId
  <2>2. CASE d = c
    BY <1>0, <1>1, <1>12, <2>1, <2>2 DEF SetTss, Advance, WithId
  <2>3. CASE d # c
    BY <1>1, <1>2, <1>3, <1>4, <1>12, <2>1, <2>3 DEF SetTss, Advance, WithBlock, WithGs
  <2> QED
    BY <2>2, <2>3
<1>13. ASSUME NEW d \in Aps, UNCHANGED blockVars, stage[d] \in WithTss,
              \A b \in Cpus : b # d => stage'[b] = stage[b]
       PROVE  Mine(c)'
  <2>1. stage[d] \in WithId
    BY <1>13 DEF WithId
  <2> QED
    BY <1>0, <1>1, <1>13, <2>1 DEF blockVars
<1>14. ASSUME NEW d \in Aps, FillTss(d) \/ WriteDescriptor(d) \/ LoadTss(d) \/ EnableInterrupts(d) \/ TakeRole(d)
       PROVE  Mine(c)'
  BY <1>1, <1>13, <1>14 DEF FillTss, WriteDescriptor, LoadTss, EnableInterrupts, TakeRole, Advance, WithTss, WithTr
<1>15. ASSUME NEW d \in Aps, Publish(d) PROVE Mine(c)'
  <2>1. stage[d] \in WithId /\ stage[d] \in WithTss
    BY <1>15 DEF Publish, Advance, WithId, WithTss
  <2> QED
    BY <1>0, <1>1, <1>15, <2>1 DEF Publish, Advance
<1> HIDE DEF Mine
<1> QED
  BY <1>5, <1>6, <1>7, <1>8, <1>9, <1>10, <1>11, <1>12, <1>14, <1>15 DEF Next, BspStep, ApStep

\* The task registers, and why a processor stops.
LEMMA TrStep ==
  ASSUME Inv, AloneInv, [Next]_vars, ~overlap'
  PROVE  /\ \A c \in Aps : stage'[c] \in WithTr => tr'[c] = LapicId[c]
         /\ \A c \in Aps : stage'[c] \in {"faulted", "stopped"} => got'[c] = NULL
<1> DEFINE Mine(c) == /\ stage[c] \in WithTr => tr[c] = LapicId[c]
                      /\ stage[c] \in {"faulted", "stopped"} => got[c] = NULL
<1> SUFFICES ASSUME NEW c \in Aps PROVE Mine(c)'
  OBVIOUS
<1>0. Mine(c)
  BY DEF AloneInv
<1>1. /\ Aps \subseteq Cpus /\ BSP \in Cpus /\ BSP \notin Aps
      /\ DOMAIN stage = Cpus /\ DOMAIN tr = Cpus /\ DOMAIN got = Cpus
  BY CpuSets DEF Inv, TypeOK, Mem!TypeOK
<1>2. ASSUME \/ stage'[c] \notin WithTr \cup {"faulted", "stopped"}
             \/ stage[c] = stage'[c] /\ tr'[c] = tr[c] /\ (stage[c] \in {"faulted", "stopped"} => got'[c] = got[c])
      PROVE  Mine(c)'
  BY <1>0, <1>2
<1>3. CASE Send
  <2>1. sent + 1 \in Cpus
    BY <1>3, ApAssumption DEF Send, Inv, TypeOK, Cpus
  <2> QED
    BY <1>1, <1>2, <1>3, <2>1 DEF Send, memVars, tssVars, WithTr, Role
<1>4. CASE LogSent \/ CountCpus \/ MapMmioDone
  BY <1>1, <1>2, <1>4 DEF LogSent, CountCpus, MapMmioDone, Advance, Mem!Call, memVars, tssVars
<1>5. CASE \E d \in Cpus : Allocate(d)
  BY <1>2, <1>5, GotKept DEF Allocate, tssVars
<1>6. ASSUME NEW d \in Aps, \/ FetchCore(d) \/ CallKGetPage(d) \/ SetGs(d) \/ SetId(d) \/ SetTss(d)
                            \/ Publish(d) \/ WriteDescriptor(d)
      PROVE Mine(c)'
  BY <1>1, <1>2, <1>6 DEF FetchCore, CallKGetPage, SetGs, SetId, SetTss, Publish, WriteDescriptor,
     Advance, Mem!Call, memVars, tssVars, WithTr, Role
<1>7. ASSUME NEW d \in Aps, CopyImage(d) PROVE Mine(c)'
  BY <1>0, <1>1, <1>7 DEF CopyImage, Advance, memVars, tssVars, WithTr, Role
<1>8. ASSUME NEW d \in Aps, FillTss(d) PROVE Mine(c)'
  <2>1. percpu[gs[d]].tss = LapicId[d]
    BY <1>8 DEF FillTss, AloneInv, Advance, WithTss
  <2>2. LapicId[d] # NULL
    BY ApAssumption DEF NULL, Mem!NULL
  <2> QED
    BY <1>1, <1>2, <1>8, <2>1, <2>2 DEF FillTss, Advance, memVars, WithTr, Role
<1>9. ASSUME NEW d \in Aps, LoadTss(d) PROVE Mine(c)'
  <2>1. descriptor.tss = LapicId[d] /\ ~descriptor.busy
    BY <1>9 DEF LoadTss, Advance, AloneInv, DescriptorOwned
  <2> QED
    BY <1>0, <1>1, <1>9, <2>1 DEF LoadTss, Advance, memVars, WithTr, Role
<1>10. ASSUME NEW d \in Aps, EnableInterrupts(d) \/ TakeRole(d) PROVE Mine(c)'
  <2>1. stage[d] \in WithTr /\ stage'[d] \notin {"faulted", "stopped"}
    BY <1>1, <1>10 DEF EnableInterrupts, TakeRole, Advance, WithTr
  <2> QED
    BY <1>0, <1>1, <1>10, <2>1 DEF EnableInterrupts, TakeRole, Advance, memVars, tssVars
<1>11. CASE UNCHANGED vars
  BY <1>2, <1>11 DEF vars, memVars, tssVars
<1> HIDE DEF Mine
<1> QED
  BY <1>3, <1>4, <1>5, <1>6, <1>7, <1>8, <1>9, <1>10, <1>11 DEF Next, BspStep, ApStep

\* The history only grows.
LEMMA OverlapKept == ASSUME [Next]_vars, overlap PROVE overlap'
BY Zenon DEF Next, BspStep, ApStep, Send, LogSent, CountCpus, MapMmioDone, Allocate, FetchCore, CallKGetPage, CopyImage,
   SetGs, SetId, SetTss, Publish, FillTss, WriteDescriptor, LoadTss, EnableInterrupts, TakeRole, vars

\* The state in which kentry reaches its loop satisfies the invariant.
LEMMA InitInv == Init => Inv
<1> SUFFICES ASSUME Init PROVE Inv
  OBVIOUS
<1> USE ApAssumption, CpuSets
<1>1. 0 \in Page /\ NULL \notin Page /\ Mem!NoResult \notin Page /\ NULL # Mem!NoResult
  BY DEF Page, Mem!Page, NULL, Mem!NULL, Mem!NoResult
<1>2. Mem!TypeOK
  BY <1>1 DEF Init, Mem!TypeOK, Mem!Lock!Unlocked, Mem!Lock!NoHolder, Page, Cpus
<1>3. TypeOK
  <2>1. percpu \in [Page -> [cpu_id : 0 .. TSS_ENTRIES - 1, tss : 0 .. TSS_ENTRIES - 1 \cup {NULL}]]
    BY DEF Init, PercpuImage, TSS_ENTRIES
  <2>2. sent \in 0 .. NAps /\ core \in Cpus /\ my_core \in [Cpus -> Cpus]
    BY DEF Init, BSP
  <2>3. descriptor \in [tss : 0 .. TSS_ENTRIES - 1, busy : BOOLEAN]
    BY DEF Init, TSS_ENTRIES
  <2>4. /\ my_tss \in [Cpus -> 0 .. TSS_ENTRIES - 1 \cup {NULL}]
        /\ tr \in [Cpus -> 0 .. TSS_ENTRIES - 1 \cup {NULL}]
    BY DEF Init, TSS_ENTRIES
  <2> QED
    BY <1>1, <1>2, <2>1, <2>2, <2>3, <2>4 DEF Init, TypeOK
<1>4. CoreInv
  <2>1. Numbered = {}
    BY DEF Init, Numbered
  <2>2. Cardinality(Numbered) = 0
    BY <2>1, FS_EmptySet
  <2> QED
    BY <2>2 DEF Init, CoreInv, Aps, BSP, WithTr, Role
<1>5. StageInv
  BY <1>1 DEF Init, StageInv, WithBlock, WithGs, WithId, WithTss, WithTr, Role
<1>6. PagesApart
  BY <1>1, Zenon DEF Init, PagesApart
<1>7. AloneInv
  BY <1>6 DEF Init, AloneInv, DescriptorOwned, PercpuIdIsLapicId, HasId, WithId, WithTss, WithTr, Role
<1> QED
  BY <1>3, <1>4, <1>5, <1>7 DEF Inv

\* Every step of every processor preserves the invariant.
LEMMA NextInv == Inv /\ [Next]_vars => Inv'
<1> SUFFICES ASSUME Inv, [Next]_vars PROVE Inv'
  OBVIOUS
<1>1. TypeOK' /\ CoreInv' /\ StageInv'
  BY TypeStep, CoreStep, StageStep
<1>2. ASSUME ~overlap' PROVE AloneInv'
  <2>1. AloneInv
    BY <1>2, OverlapKept DEF Inv
  <2>2. PagesApart'
    BY <1>2, <2>1, PagesStep DEF AloneInv
  <2> QED
    BY <1>2, <2>1, <2>2, DescriptorStep, BlocksStep, TrStep DEF AloneInv
<1> QED
  BY <1>1, <1>2 DEF Inv

\* Without an overlap, what goes wrong is a processor that gets no page.
LEMMA AloneIsOwn == ASSUME Inv PROVE MixedUpOnlyByOverlap
<1> SUFFICES ASSUME ~overlap, \A c \in Aps : got[c] # NULL PROVE PercpuIdIsLapicId /\ OwnResources
  BY Zenon DEF MixedUpOnlyByOverlap, Inv, AloneInv
<1>0. TypeOK /\ StageInv /\ AloneInv
  BY DEF Inv
<1>1. \A c \in Aps : stage[c] \notin {"faulted", "stopped"} /\ (stage[c] \in Role => tr[c] = LapicId[c])
  BY <1>0 DEF AloneInv, WithTr
<1>2. \A c \in Aps : gs[c] # NULL => gs[c] = got[c] /\ gs[c] \in Page /\ gs[c] # 0
  <2>1. \A c \in Aps : gs[c] # NULL => gs[c] = got[c]
    BY <1>0, Zenon DEF StageInv
  <2>2. \A c \in Aps : gs[c] # NULL => gs[c] \in Page
    BY <1>0, CpuSets DEF TypeOK
  <2>3. \A c \in Aps : got[c] \in Page => got[c] # 0
    BY <1>0, Zenon DEF AloneInv, PagesApart
  <2> QED
    BY <2>1, <2>2, <2>3, Zenon
<1>3. gs[BSP] = 0
  BY <1>0, Zenon DEF StageInv
<1>4. \A c, d \in Cpus : gs[c] = gs[d] /\ gs[c] # NULL => c = d
  <2>1. \A c, d \in Aps : got[c] = got[d] /\ got[c] \in Page => c = d
    BY <1>0, Zenon DEF AloneInv, PagesApart
  <2>2. \A c \in Cpus : c \in Aps \/ c = BSP
    BY CpuSets
  <2> QED
    BY <1>2, <1>3, <2>1, <2>2, Zenon
<1> QED
  BY <1>0, <1>1, <1>4, Zenon DEF OwnResources, AloneInv

\* The core numbers given out by atomic_fetch_add in ap_entry are each processor's own,
\* whatever the order in which the processors run, and the block it published in
\* cpu_percpu stays there; all indices are inside their tables.
THEOREM CoresOwn == Spec => []CoresKept
<1>1. Inv => CoresKept
  BY DEF Inv, CoreInv, CoresKept, WithTr
<1> QED
  BY <1>1, InitInv, NextInv, PTL DEF Spec

\* ap_entry gives each processor its own block, id and TSS, or stops it for lack of a
\* page, as long as no two CPUs are in KGetPage, or between the descriptor and ltr of
\* tss_init, at the same time: for any number of processors and pages and any ids.
THEOREM MixingNeedsOverlap == Spec => []MixedUpOnlyByOverlap
<1>1. Inv => MixedUpOnlyByOverlap
  BY AloneIsOwn
<1> QED
  BY <1>1, InitInv, NextInv, PTL DEF Spec
===============================================================================
