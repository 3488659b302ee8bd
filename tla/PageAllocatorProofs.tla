------------------------- MODULE PageAllocatorProofs --------------------------
(***************************************************************************)
(* Proofs about PageAllocator and its lock, for every number of CPUs (with *)
(* distinct ids) and of pages: the lock excludes and implements the        *)
(* abstract one, no page has two owners and the used flags are exact.      *)
(***************************************************************************)
EXTENDS PageAllocator, TLAPS

-------------------------------------------------------------------------------
(* The lock by itself: memory_lock under aquire_lock and release_lock called  *)
(* by any CPU at any time (module Spinlock).  Lock!Inv says who owns the lock  *)
(* word and whom the tag names; mutual exclusion and the refinement of the     *)
(* abstract lock follow from it.                                               *)

\* No CPU's id is the tag of a free lock (holding_cpu = -1).
LEMMA IdIsNoTag == \A c \in Cpus : Id[c] # Lock!NoHolder
  BY IdAssumption, -1 \notin Nat DEF Lock!NoHolder

\* The lock as it is defined statically (held = false, holding_cpu = -1)
\* satisfies the inductive invariant.
LEMMA LockInit == Lock!Init => Lock!Inv
  BY IdIsNoTag, IdAssumption
  DEF Lock!Init, Lock!Inv, Lock!TypeOK, Lock!HeldWhileOwned, Lock!TagNamesTheHolder, Lock!Holds, Lock!Unlocked, Lock!NoHolder

\* Every access of aquire_lock and release_lock preserves the invariant.
LEMMA LockNext == Lock!Inv /\ [Lock!Next]_(Lock!vars) => Lock!Inv'
<1> SUFFICES ASSUME Lock!Inv, [Lock!Next]_(Lock!vars) PROVE Lock!Inv'
  OBVIOUS
<1> USE IdIsNoTag, IdAssumption
<1>1. ASSUME NEW c \in Cpus, Lock!Call(c) PROVE Lock!Inv'
  BY <1>1 DEF Lock!Inv, Lock!TypeOK, Lock!HeldWhileOwned, Lock!TagNamesTheHolder, Lock!Holds, Lock!Call, Lock!Goto, Lock!NoHolder
<1>2. ASSUME NEW c \in Cpus, Lock!Check(c) PROVE Lock!Inv'
  <2>1. memory_lock.holding_cpu # Id[c]
    BY <1>2 DEF Lock!Inv, Lock!TagNamesTheHolder, Lock!Check, Lock!CheckHolder, Lock!Goto
  <2> QED
    BY <1>2, <2>1
    DEF Lock!Inv, Lock!TypeOK, Lock!HeldWhileOwned, Lock!TagNamesTheHolder, Lock!Holds, Lock!Check, Lock!CheckHolder, Lock!Goto, Lock!NoHolder
<1>3. ASSUME NEW c \in Cpus, Lock!Exchange(c) PROVE Lock!Inv'
  BY <1>3, Zenon
  DEF Lock!Inv, Lock!TypeOK, Lock!HeldWhileOwned, Lock!TagNamesTheHolder, Lock!Holds, Lock!Exchange, Lock!ExchangeHeld, Lock!Goto, Lock!NoHolder
<1>4. ASSUME NEW c \in Cpus, Lock!Tag(c) PROVE Lock!Inv'
  BY <1>4
  DEF Lock!Inv, Lock!TypeOK, Lock!HeldWhileOwned, Lock!TagNamesTheHolder, Lock!Holds, Lock!Tag, Lock!TagHolder, Lock!Goto, Lock!NoHolder
<1>5. ASSUME NEW c \in Cpus, Lock!Untag(c) PROVE Lock!Inv'
  BY <1>5
  DEF Lock!Inv, Lock!TypeOK, Lock!HeldWhileOwned, Lock!TagNamesTheHolder, Lock!Holds, Lock!Untag, Lock!ClearHolder, Lock!Goto, Lock!NoHolder
<1>6. ASSUME NEW c \in Cpus, Lock!Unlock(c) PROVE Lock!Inv'
  BY <1>6, Zenon
  DEF Lock!Inv, Lock!TypeOK, Lock!HeldWhileOwned, Lock!TagNamesTheHolder, Lock!Holds, Lock!Unlock, Lock!ClearHeld, Lock!Goto, Lock!NoHolder
<1>7. CASE UNCHANGED Lock!vars
  BY <1>7 DEF Lock!Inv, Lock!TypeOK, Lock!HeldWhileOwned, Lock!TagNamesTheHolder, Lock!Holds, Lock!vars
<1> QED
  BY <1>1, <1>2, <1>3, <1>4, <1>5, <1>6, <1>7 DEF Lock!Next, Lock!Acquiring, Lock!Releasing

\* The invariant holds in every reachable state.
THEOREM LockInvariance == Lock!Spec => []Lock!Inv
  BY LockInit, LockNext, PTL DEF Lock!Spec

\* The lock word, the tag and the control points keep their types.
THEOREM LockTypeCorrect == Lock!Spec => []Lock!TypeOK
<1>1. Lock!Inv => Lock!TypeOK
  BY DEF Lock!Inv
<1> QED
  BY LockInvariance, <1>1, PTL

\* For any number of CPUs, at most one is between the return of aquire_lock
\* and the call of release_lock, the early return on the tag notwithstanding.
THEOREM Exclusion == Lock!Spec => []Lock!MutualExclusion
<1>1. Lock!Inv => Lock!MutualExclusion
  BY DEF Lock!Inv, Lock!MutualExclusion, Lock!Holds
<1> QED
  BY LockInvariance, <1>1, PTL

\* Every execution of the instruction-level lock is one of the abstract lock.
THEOREM Refinement == Lock!Spec => Lock!ImplementsLock
<1> DEFINE owners == {c \in Cpus : Lock!Holds(c)}
<1>1. Lock!Init => Lock!Abstract!Init
  BY DEF Lock!Init, Lock!Holds, Lock!Abstract!Init
<1>2. Lock!Inv /\ [Lock!Next]_(Lock!vars) => [Lock!Abstract!Next]_owners
  <2> SUFFICES ASSUME Lock!Inv, [Lock!Next]_(Lock!vars) PROVE Lock!Abstract!Next \/ owners' = owners
    OBVIOUS
  <2>1. ASSUME NEW c \in Cpus, Lock!Call(c) \/ Lock!Tag(c) \/ Lock!Untag(c) PROVE owners' = owners
    BY <2>1
    DEF Lock!Inv, Lock!TypeOK, Lock!Holds, Lock!Call, Lock!Tag, Lock!TagHolder, Lock!Untag, Lock!ClearHolder, Lock!Goto
  <2>2. ASSUME NEW c \in Cpus, Lock!Check(c) PROVE owners' = owners
    BY <2>2 DEF Lock!Inv, Lock!TypeOK, Lock!TagNamesTheHolder, Lock!Holds, Lock!Check, Lock!CheckHolder, Lock!Goto
  <2>3. ASSUME NEW c \in Cpus, Lock!Exchange(c) PROVE Lock!Abstract!Acquire(c)
    <3>1. owners = {}
      BY <2>3 DEF Lock!Inv, Lock!HeldWhileOwned, Lock!Exchange, Lock!ExchangeHeld
    <3>2. owners' = {c}
      BY <2>3, <3>1 DEF Lock!Inv, Lock!TypeOK, Lock!Holds, Lock!Exchange, Lock!ExchangeHeld, Lock!Goto
    <3> QED
      BY <3>1, <3>2 DEF Lock!Abstract!Acquire
  <2>4. ASSUME NEW c \in Cpus, Lock!Unlock(c) PROVE Lock!Abstract!Release(c)
    <3>1. owners = {c}
      BY <2>4 DEF Lock!Inv, Lock!Holds, Lock!Unlock, Lock!ClearHeld, Lock!Goto
    <3>2. owners' = {}
      BY <2>4, <3>1 DEF Lock!Inv, Lock!TypeOK, Lock!Holds, Lock!Unlock, Lock!ClearHeld, Lock!Goto
    <3> QED
      BY <3>1, <3>2 DEF Lock!Abstract!Release
  <2>5. CASE UNCHANGED Lock!vars
    BY <2>5 DEF Lock!vars, Lock!Holds
  <2> QED
    BY <2>1, <2>2, <2>3, <2>4, <2>5 DEF Lock!Next, Lock!Acquiring, Lock!Releasing, Lock!Abstract!Next
<1> QED
  BY LockInvariance, <1>1, <1>2, PTL DEF Lock!Spec, Lock!ImplementsLock, Lock!Abstract!Spec

-------------------------------------------------------------------------------
(* The allocator *)

\* An unused allocator, as memory_init leaves it, satisfies the invariant.
LEMMA InitInv == Init => Inv
<1> SUFFICES ASSUME Init PROVE Inv
  OBVIOUS
<1> USE IdAssumption, PagesAssumption DEF Init
<1>1. TypeOK
  BY DEF TypeOK, Lock!Unlocked, Lock!NoHolder, Page, NULL, NoResult
<1>2. LockInv
  BY DEF LockInv, Inside, Lock!Unlocked, Lock!NoHolder
<1>3. CallInv /\ NoDoubleAllocation /\ UsedIsOwned /\ OnlyExhaustionPanics
  BY DEF CallInv, NoDoubleAllocation, UsedIsOwned, OnlyExhaustionPanics, Transit
<1> QED
  BY <1>1, <1>2, <1>3 DEF Inv

\* The calls and the steps inside the lock keep the variables' types.
LEMMA TypeStep == TypeOK /\ CallInv /\ [Next]_vars => TypeOK'
<1> SUFFICES ASSUME TypeOK, CallInv, [Next]_vars PROVE TypeOK'
  OBVIOUS
<1> USE IdAssumption, PagesAssumption DEF TypeOK, Page, NULL, NoResult, allocVars, Lock!Goto
<1>1. ASSUME NEW c \in Cpus, NEW f \in {"KGetPage", "__giverawpage"}, Call(c, f) PROVE TypeOK'
  BY <1>1 DEF Call
<1>2. ASSUME NEW c \in Cpus, NEW p \in Page, CallRetpage(c, p) PROVE TypeOK'
  BY <1>2 DEF CallRetpage
<1>3. ASSUME NEW c \in Cpus, Acquire(c, Id[c]) PROVE TypeOK'
  BY <1>3 DEF Acquire, Lock!CheckHolder, Lock!ExchangeHeld, Lock!TagHolder
<1>4. ASSUME NEW c \in Cpus, Scan(c) PROVE TypeOK'
  <2>1. i[c] + 1 \in 0 .. pages
    BY <1>4 DEF Scan
  <2>2. i' \in [Cpus -> 0 .. pages]
    BY <1>4, <2>1 DEF Scan
  <2> QED
    BY <1>4, <2>2 DEF Scan
<1>5. ASSUME NEW c \in Cpus, Exhausted(c) PROVE TypeOK'
  BY <1>5 DEF Exhausted
<1>6. ASSUME NEW c \in Cpus, Take(c) PROVE TypeOK'
  BY <1>6 DEF Take
<1>7. ASSUME NEW c \in Cpus, Untag(c) PROVE TypeOK'
  BY <1>7 DEF Untag, Lock!ClearHolder, Lock!NoHolder
<1>8. ASSUME NEW c \in Cpus, Return(c) PROVE TypeOK'
  BY <1>8 DEF Return, Lock!ClearHeld, CallInv, Transit
<1>9. ASSUME NEW c \in Cpus, TestUsed(c) PROVE TypeOK'
  BY <1>9 DEF TestUsed
<1>10. ASSUME NEW c \in Cpus, ClearUsed(c) PROVE TypeOK'
  BY <1>10 DEF ClearUsed
<1>11. CASE UNCHANGED vars
  BY <1>11 DEF vars
<1> HIDE IdAssumption, PagesAssumption DEF TypeOK, Page, NULL, NoResult, allocVars, Lock!Goto
<1> QED
  BY <1>1, <1>2, <1>3, <1>4, <1>5, <1>6, <1>7, <1>8, <1>9, <1>10, <1>11 DEF Next, Running

\* A tag that names a CPU is the tag of that CPU only, and keeps all others
\* out: the steps on memory_lock preserve it.
LEMMA LockStep == TypeOK /\ CallInv /\ LockInv /\ UsedIsOwned /\ OnlyExhaustionPanics
                  /\ [Next]_vars => LockInv'
<1> SUFFICES ASSUME TypeOK, CallInv, LockInv, UsedIsOwned, OnlyExhaustionPanics, [Next]_vars
             PROVE LockInv'
  OBVIOUS
<1> USE IdAssumption DEF TypeOK, LockInv, Inside, allocVars, Lock!Goto
<1>1. ASSUME NEW c \in Cpus, NEW f \in {"KGetPage", "__giverawpage"}, Call(c, f) PROVE LockInv'
  BY <1>1 DEF Call
<1>2. ASSUME NEW c \in Cpus, NEW p \in Page, CallRetpage(c, p) PROVE LockInv'
  BY <1>2 DEF CallRetpage
<1>3. ASSUME NEW c \in Cpus, Acquire(c, Id[c]) PROVE LockInv'
  <2>1. CASE Lock!CheckHolder(c, Id[c], "check", "spin", "scan")
    BY <1>3, <2>1 DEF Acquire, Lock!CheckHolder
  <2>2. CASE Lock!ExchangeHeld(c, "spin", "tag")
    BY <1>3, <2>2 DEF Acquire, Lock!ExchangeHeld
  <2>3. CASE Lock!TagHolder(c, Id[c], "tag", "scan")
    BY <1>3, <2>3 DEF Acquire, Lock!TagHolder
  <2> QED
    BY <1>3, <2>1, <2>2, <2>3 DEF Acquire
<1>4. ASSUME NEW c \in Cpus, Scan(c) PROVE LockInv'
  BY <1>4 DEF Scan
<1>5. ASSUME NEW c \in Cpus, Exhausted(c) PROVE LockInv'
  BY <1>5 DEF Exhausted
<1>6. ASSUME NEW c \in Cpus, Take(c) PROVE LockInv'
  BY <1>6 DEF Take
<1>7. ASSUME NEW c \in Cpus, Untag(c) PROVE LockInv'
  BY <1>7, -1 \notin Nat DEF Untag, Lock!ClearHolder, Lock!NoHolder
<1>8. ASSUME NEW c \in Cpus, Return(c) PROVE LockInv'
  BY <1>8 DEF Return, Lock!ClearHeld
<1>9. ASSUME NEW c \in Cpus, TestUsed(c) PROVE LockInv'
  <2>1. used[i[c]]
    BY <1>9 DEF TestUsed, UsedIsOwned, CallInv, Transit
  <2> QED
    BY <1>9, <2>1 DEF TestUsed
<1>10. ASSUME NEW c \in Cpus, ClearUsed(c) PROVE LockInv'
  BY <1>10 DEF ClearUsed
<1>11. CASE UNCHANGED vars
  BY <1>11 DEF vars
<1> HIDE IdAssumption DEF TypeOK, LockInv, Inside, allocVars, Lock!Goto
<1> QED
  BY <1>1, <1>2, <1>3, <1>4, <1>5, <1>6, <1>7, <1>8, <1>9, <1>10, <1>11 DEF Next, Running

\* The flags and the owners of the pages change together: one step per action
\* that touches them, the others only move the control point.
LEMMA PageStep == Inv /\ [Next]_vars
                  => (CallInv /\ NoDoubleAllocation /\ UsedIsOwned /\ OnlyExhaustionPanics)'
<1> DEFINE PageInv == CallInv /\ NoDoubleAllocation /\ UsedIsOwned /\ OnlyExhaustionPanics
<1> SUFFICES ASSUME Inv, [Next]_vars PROVE PageInv'
  OBVIOUS
<1> USE PagesAssumption
    DEF Inv, TypeOK, CallInv, NoDoubleAllocation, UsedIsOwned, OnlyExhaustionPanics, Transit,
        allocVars, Lock!Goto
<1>1. ASSUME NEW c \in Cpus, NEW f \in {"KGetPage", "__giverawpage"}, Call(c, f) PROVE PageInv'
  BY <1>1 DEF Call
<1>2. ASSUME NEW c \in Cpus, NEW p \in Page, CallRetpage(c, p) PROVE PageInv'
  BY <1>2 DEF CallRetpage
<1>3. ASSUME NEW c \in Cpus, Acquire(c, Id[c]) PROVE PageInv'
  BY <1>3 DEF Acquire, Lock!CheckHolder, Lock!ExchangeHeld, Lock!TagHolder
<1>4. ASSUME NEW c \in Cpus, Scan(c) PROVE PageInv'
  <2>1. \A d \in Cpus : Transit(d)' = Transit(d)
    <3>1. CASE used[i[c]]
      <4>1. pc[c] = "scan" /\ pc' = pc /\ \A d \in Cpus \ {c} : i'[d] = i[d]
        BY <1>4, <3>1 DEF Scan
      <4> QED
        BY <4>1
    <3>2. CASE ~used[i[c]]
      BY <1>4, <3>2 DEF Scan
    <3> QED
      BY <3>1, <3>2
  <2>2. i[c] \in Page
    BY <1>4 DEF Scan, Page
  <2>3. NoDoubleAllocation' /\ UsedIsOwned' /\ OnlyExhaustionPanics'
    BY <1>4, <2>1 DEF Scan
  <2>4. CallInv'
    BY <1>4, <2>2 DEF Scan
  <2> QED
    BY <2>3, <2>4
<1>5. ASSUME NEW c \in Cpus, Exhausted(c) PROVE PageInv'
  BY <1>5 DEF Exhausted
<1>6. ASSUME NEW c \in Cpus, Take(c) PROVE PageInv'
  BY <1>6 DEF Take, LockInv, Inside
<1>7. ASSUME NEW c \in Cpus, Untag(c) PROVE PageInv'
  BY <1>7 DEF Untag, Lock!ClearHolder
<1>8. ASSUME NEW c \in Cpus, Return(c) PROVE PageInv'
  BY <1>8 DEF Return, Lock!ClearHeld
<1>9. ASSUME NEW c \in Cpus, TestUsed(c) PROVE PageInv'
  <2>1. used[i[c]]
    BY <1>9 DEF TestUsed
  <2> QED
    BY <1>9, <2>1 DEF TestUsed
<1>10. ASSUME NEW c \in Cpus, ClearUsed(c) PROVE PageInv'
  BY <1>10 DEF ClearUsed
<1>11. CASE UNCHANGED vars
  BY <1>11 DEF vars
<1> HIDE PagesAssumption
    DEF Inv, TypeOK, CallInv, NoDoubleAllocation, UsedIsOwned, OnlyExhaustionPanics, Transit,
        allocVars, Lock!Goto, PageInv
<1> QED
  BY <1>1, <1>2, <1>3, <1>4, <1>5, <1>6, <1>7, <1>8, <1>9, <1>10, <1>11 DEF Next, Running

\* The invariant holds in every reachable state.
THEOREM Invariance == Spec => []Inv
<1>1. Inv /\ [Next]_vars => Inv'
  BY TypeStep, LockStep, PageStep DEF Inv
<1> QED
  BY InitInv, <1>1, PTL DEF Spec

\* The allocator's variables keep their types.
THEOREM TypeCorrect == Spec => []TypeOK
<1>1. Inv => TypeOK
  BY DEF Inv
<1> QED
  BY Invariance, <1>1, PTL

\* KGetPage and __giverawpage never give out a page that still has an owner.
THEOREM UniqueOwner == Spec => []NoDoubleAllocation
<1>1. Inv => NoDoubleAllocation
  BY DEF Inv
<1> QED
  BY Invariance, <1>1, PTL

\* A used flag is set exactly while the page has an owner: retpage loses none.
THEOREM ExactFlags == Spec => []UsedIsOwned
<1>1. Inv => UsedIsOwned
  BY DEF Inv
<1> QED
  BY Invariance, <1>1, PTL

\* retpage's panic is out of reach of callers that return pages they own.
THEOREM NoFreePanic == Spec => []OnlyExhaustionPanics
<1>1. Inv => OnlyExhaustionPanics
  BY DEF Inv
<1> QED
  BY Invariance, <1>1, PTL
===============================================================================
