----------------------------- MODULE PageAllocator -----------------------------
(***************************************************************************)
(* The page allocator of memory/memory.c after memory_init: KGetPage,      *)
(* __giverawpage and retpage over page_list, with memory_lock taken and    *)
(* released instruction by instruction (module Spinlock).  retpage takes   *)
(* no lock, and KGetPage keeps it when it returns NULL.                    *)
(*                                                                         *)
(* A page is its index in page_list: with a map of whole pages the start   *)
(* addresses are distinct (OneRun of MemoryInit), and adding and           *)
(* subtracting hhdm->offset is a bijection.  Callers return only pages     *)
(* they were given ("must be from givemepage or else ill take down the     *)
(* system").                                                               *)
(***************************************************************************)
EXTENDS Integers

CONSTANTS Cpus,
          Id,       \* the cpu_id of each CPU
          pages     \* number of entries of page_list that memory_init filled

ASSUME PagesAssumption == pages \in Nat

ASSUME IdAssumption ==
  /\ Id \in [Cpus -> Nat]
  /\ \A c, d \in Cpus : Id[c] = Id[d] => c = d

VARIABLES memory_lock,
          used,     \* page_list[p].used
          pc,       \* the control point of each CPU in an allocator call
          op,       \* the function each CPU is in, or was in last
          i,        \* its local variable i
          got,      \* what its last KGetPage or __giverawpage returned
          mine      \* the pages its callers hold

Page == 0 .. pages - 1
NULL == -1
NoResult == -2

Lock == INSTANCE Spinlock WITH lock <- memory_lock

allocVars == <<used, op, i, got, mine>>
vars == <<memory_lock, pc, allocVars>>

Init == /\ memory_lock = Lock!Unlocked
        /\ used = [p \in Page |-> FALSE]
        /\ pc = [c \in Cpus |-> "idle"]
        /\ op = [c \in Cpus |-> "KGetPage"]
        /\ i = [c \in Cpus |-> 0]
        /\ got = [c \in Cpus |-> NoResult]
        /\ mine = [c \in Cpus |-> {}]

-------------------------------------------------------------------------------
(* KGetPage and __giverawpage, called by a CPU that aquire_lock knows as id *)

Call(c, f) ==
  /\ Lock!Goto(c, "idle", "check")
  /\ op' = [op EXCEPT ![c] = f]
  /\ i' = [i EXCEPT ![c] = 0]
  /\ UNCHANGED <<memory_lock, used, got, mine>>

\* Mutant: the list is searched without the lock.
NoLock(c, id) ==
  /\ Lock!Goto(c, "check", "scan")
  /\ UNCHANGED <<memory_lock, allocVars>>

Acquire(c, id) ==
  /\ \/ Lock!CheckHolder(c, id, "check", "spin", "scan")
     \/ Lock!ExchangeHeld(c, "spin", "tag")
     \/ Lock!TagHolder(c, id, "tag", "scan")
  /\ UNCHANGED allocVars

\* One iteration of the search for an unused entry.
Scan(c) ==
  /\ pc[c] = "scan"
  /\ i[c] < pages
  /\ IF used[i[c]]
     THEN i' = [i EXCEPT ![c] = @ + 1] /\ UNCHANGED pc
     ELSE Lock!Goto(c, "scan", "take") /\ UNCHANGED i
  /\ UNCHANGED <<memory_lock, used, op, got, mine>>

\* i == pages: KGetPage returns NULL without release_lock, __giverawpage panics.
Exhausted(c) ==
  /\ i[c] = pages
  /\ \/ /\ op[c] = "KGetPage"
        /\ Lock!Goto(c, "scan", "idle")
        /\ got' = [got EXCEPT ![c] = NULL]
     \/ /\ op[c] = "__giverawpage"
        /\ Lock!Goto(c, "scan", "panic")
        /\ UNCHANGED got
  /\ UNCHANGED <<memory_lock, used, op, i, mine>>

Take(c) ==
  /\ Lock!Goto(c, "take", "release")
  /\ used' = [used EXCEPT ![i[c]] = TRUE]
  /\ UNCHANGED <<memory_lock, op, i, got, mine>>

Untag(c) == Lock!ClearHolder(c, "release", "unlock") /\ UNCHANGED allocVars

\* Mutant: the lock word is left.
ReturnHolding(c) ==
  /\ Lock!Goto(c, "unlock", "idle")
  /\ got' = [got EXCEPT ![c] = i[c]]
  /\ mine' = [mine EXCEPT ![c] = @ \cup {i[c]}]
  /\ UNCHANGED <<memory_lock, used, op, i>>

\* Mutant: the entry after the one taken.
ReturnNext(c) ==
  /\ Lock!ClearHeld(c, "unlock", "idle")
  /\ got' = [got EXCEPT ![c] = i[c] + 1]
  /\ mine' = [mine EXCEPT ![c] = @ \cup {i[c] + 1}]
  /\ UNCHANGED <<used, op, i>>

\* The last store of release_lock, and the return with the page.
Return(c) ==
  /\ Lock!ClearHeld(c, "unlock", "idle")
  /\ got' = [got EXCEPT ![c] = i[c]]
  /\ mine' = [mine EXCEPT ![c] = @ \cup {i[c]}]
  /\ UNCHANGED <<used, op, i>>

-------------------------------------------------------------------------------
(* retpage *)

\* The call, by a holder of page p; the search over the start addresses stops at p.
CallRetpage(c, p) ==
  /\ p \in mine[c]
  /\ Lock!Goto(c, "idle", "free")
  /\ op' = [op EXCEPT ![c] = "retpage"]
  /\ i' = [i EXCEPT ![c] = p]
  /\ mine' = [mine EXCEPT ![c] = @ \ {p}]
  /\ UNCHANGED <<memory_lock, used, got>>

\* Mutant: the test is inverted.
TestUnused(c) ==
  /\ Lock!Goto(c, "free", IF used[i[c]] THEN "panic" ELSE "clear")
  /\ UNCHANGED <<memory_lock, allocVars>>

TestUsed(c) ==
  /\ Lock!Goto(c, "free", IF used[i[c]] THEN "clear" ELSE "panic")
  /\ UNCHANGED <<memory_lock, allocVars>>

\* Mutant: the flag is left.
UsedKept(c) ==
  /\ Lock!Goto(c, "clear", "idle")
  /\ UNCHANGED <<memory_lock, used, op, i, got, mine>>

ClearUsed(c) ==
  /\ Lock!Goto(c, "clear", "idle")
  /\ used' = [used EXCEPT ![i[c]] = FALSE]
  /\ UNCHANGED <<memory_lock, op, i, got, mine>>

-------------------------------------------------------------------------------
Running(c, id) == \/ Acquire(c, id) \/ Scan(c) \/ Exhausted(c) \/ Take(c)
                  \/ Untag(c) \/ Return(c) \/ TestUsed(c) \/ ClearUsed(c)

Next == \E c \in Cpus : \/ \E f \in {"KGetPage", "__giverawpage"} : Call(c, f)
                        \/ \E p \in Page : CallRetpage(c, p)
                        \/ Running(c, Id[c])

Spec == Init /\ [][Next]_vars

\* A CPU inside one of the three functions keeps executing.
FairSpec == Spec /\ \A c \in Cpus : WF_vars(Running(c, Id[c]))

-------------------------------------------------------------------------------
(* Properties *)

\* The values the allocator's variables can have.
TypeOK ==
  /\ memory_lock \in [held : BOOLEAN, holding_cpu : Nat \cup {-1}]
  /\ used \in [Page -> BOOLEAN]
  /\ pc \in [Cpus -> {"idle", "check", "spin", "tag", "scan", "take", "release",
                      "unlock", "free", "clear", "panic"}]
  /\ op \in [Cpus -> {"KGetPage", "__giverawpage", "retpage"}]
  /\ i \in [Cpus -> 0 .. pages]
  /\ got \in [Cpus -> Page \cup {NULL, NoResult}]
  /\ mine \in [Cpus -> SUBSET Page]

\* The pages on their way to c's caller, and those its caller is giving back.
Transit(c) == IF pc[c] \in {"release", "unlock", "free", "clear"} THEN {i[c]} ELSE {}

\* No page has two owners: what one CPU holds, is being given or is giving back
\* is not held, being received or given back by another, nor twice by itself,
\* although retpage clears the used flags while other CPUs search them.
NoDoubleAllocation ==
  \A c, d \in Cpus :
    /\ mine[c] \cap Transit(d) = {}
    /\ c # d => mine[c] \cap mine[d] = {} /\ Transit(c) \cap Transit(d) = {}

\* The used flags are exact: a page is marked used while somebody owns it, and
\* is free to be given out otherwise (no page is lost).
UsedIsOwned ==
  \A p \in Page : used[p] <=> \E c \in Cpus : p \in mine[c] \cup Transit(c)

\* A CPU that returns pages it owns never runs into retpage's panic: only
\* __giverawpage on an exhausted list panics.
OnlyExhaustionPanics ==
  \A c \in Cpus : pc[c] = "panic" => op[c] = "__giverawpage" /\ i[c] = pages

\* c is between the winning exchange and the last store of release_lock, or
\* has panicked in between.
Inside(c) ==
  \/ pc[c] \in {"tag", "scan", "take", "release", "unlock"}
  \/ pc[c] = "panic" /\ op[c] = "__giverawpage"

\* What makes these inductive, first about the lock: one CPU inside, and a tag
\* that names a CPU (inside, or gone with NULL) keeps all others out.
LockInv ==
  /\ \A c \in Cpus : Inside(c) => memory_lock.held
  /\ \A c, d \in Cpus : Inside(c) /\ Inside(d) => c = d
  /\ \A c \in Cpus : Inside(c) /\ pc[c] \notin {"tag", "unlock"} => memory_lock.holding_cpu = Id[c]
  /\ \A c \in Cpus : memory_lock.holding_cpu = Id[c] =>
       /\ memory_lock.held
       /\ pc[c] \notin {"spin", "tag", "unlock"}
       /\ \A d \in Cpus : Inside(d) => d = c

\* ... and about the calls: the entry about to be taken is unused, and stays
\* so, since only the CPU inside sets a used flag.
CallInv ==
  /\ \A c \in Cpus : pc[c] = "take" => i[c] \in Page /\ ~used[i[c]]
  /\ \A c \in Cpus : Transit(c) \subseteq Page
  /\ \A c \in Cpus : pc[c] \in {"check", "spin", "tag", "scan", "take", "release", "unlock"}
                      => op[c] # "retpage"

Inv == /\ TypeOK
       /\ LockInv
       /\ CallInv
       /\ NoDoubleAllocation
       /\ UsedIsOwned
       /\ OnlyExhaustionPanics

\* CPUs spinning on memory_lock wait for ever only if a call ran out of pages.
BlockedOnlyByExhaustion ==
  (\E c \in Cpus : pc[c] = "spin") ~>
     \/ \E c \in Cpus : pc[c] = "tag"
     \/ \E c \in Cpus : pc[c] = "panic" \/ got[c] = NULL
===============================================================================
