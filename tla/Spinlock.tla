------------------------------- MODULE Spinlock -------------------------------
(***************************************************************************)
(* lock_t with aquire_lock and release_lock (include/dej/kernel.c), the    *)
(* only lock of the kernel: memory_lock, com1_lock and iv_lock are three   *)
(* instances of it.  One action per access to the shared lock word, so     *)
(* that every interleaving of the CPUs is there.                           *)
(*                                                                         *)
(* The first five actions take the identity of the caller and its control  *)
(* points as parameters: modules of the lock's clients instantiate this    *)
(* module and use them with their own control points.  The specification   *)
(* at the end is the lock among CPUs whose per-CPU data is set up, each    *)
(* with its own cpu_id, and with no nested call.                           *)
(***************************************************************************)
EXTENDS Integers

CONSTANTS Cpus,   \* the CPUs that use the lock
          Id      \* Id[c]: what percpu_read(cpu_id) returns on c, a number of its own

VARIABLES lock,   \* the lock_t: held and holding_cpu
          pc      \* pc[c]: the next shared access of c

NoHolder == -1

Unlocked == [held |-> FALSE, holding_cpu |-> NoHolder]

Goto(c, from, to) == /\ pc[c] = from
                     /\ pc' = [pc EXCEPT ![c] = to]

-------------------------------------------------------------------------------
(* aquire_lock *)

\* Mutant: no early return.
NoEarlyReturn(c, id, from, spin, inside) == Goto(c, from, spin) /\ UNCHANGED lock

\* A caller whose identity is in the tag returns at once, without the lock word.
CheckHolder(c, id, from, spin, inside) ==
  /\ Goto(c, from, IF lock.holding_cpu = id THEN inside ELSE spin)
  /\ UNCHANGED lock

\* Mutant: the result of the exchange is not tested.
ExchangeUntested(c, spin, tag) ==
  /\ lock' = [lock EXCEPT !.held = TRUE]
  /\ Goto(c, spin, tag)

\* The exchange that finds FALSE; one that finds TRUE changes nothing and is
\* followed by the next try.
ExchangeHeld(c, spin, tag) ==
  /\ ~lock.held
  /\ lock' = [lock EXCEPT !.held = TRUE]
  /\ Goto(c, spin, tag)

\* Mutant: the tag is numbered from 1.
TagFromOne(c, id, tag, inside) ==
  /\ lock' = [lock EXCEPT !.holding_cpu = id + 1]
  /\ Goto(c, tag, inside)

TagHolder(c, id, tag, inside) ==
  /\ lock' = [lock EXCEPT !.holding_cpu = id]
  /\ Goto(c, tag, inside)

(* release_lock *)

\* Mutant: the tag is left.
TagKept(c, inside, unlock) == Goto(c, inside, unlock) /\ UNCHANGED lock

ClearHolder(c, inside, unlock) ==
  /\ lock' = [lock EXCEPT !.holding_cpu = NoHolder]
  /\ Goto(c, inside, unlock)

\* Mutant: the lock word is left.
HeldKept(c, unlock, to) == Goto(c, unlock, to) /\ UNCHANGED lock

ClearHeld(c, unlock, to) ==
  /\ lock' = [lock EXCEPT !.held = FALSE]
  /\ Goto(c, unlock, to)

-------------------------------------------------------------------------------
(* CPUs that take the lock, work and release it, over and over. *)

Init == /\ lock = Unlocked
        /\ pc = [c \in Cpus |-> "idle"]

Call(c) == Goto(c, "idle", "check") /\ UNCHANGED lock

Check(c)    == CheckHolder(c, Id[c], "check", "spin", "critical")
Exchange(c) == ExchangeHeld(c, "spin", "tag")
Tag(c)      == TagHolder(c, Id[c], "tag", "critical")
Untag(c)    == ClearHolder(c, "critical", "unlock")
Unlock(c)   == ClearHeld(c, "unlock", "idle")

Acquiring(c) == Check(c) \/ Exchange(c) \/ Tag(c)
Releasing(c) == Untag(c) \/ Unlock(c)

Next == \E c \in Cpus : Call(c) \/ Acquiring(c) \/ Releasing(c)

vars == <<lock, pc>>

Spec == Init /\ [][Next]_vars

\* A CPU inside aquire_lock, the critical section or release_lock keeps
\* executing instructions.  It may never call the lock again.
FairSpec == Spec /\ \A c \in Cpus : WF_vars(Acquiring(c) \/ Releasing(c))

-------------------------------------------------------------------------------
(* Properties *)

\* The values lock_t and the CPUs' control points can have.
TypeOK ==
  /\ lock \in [held : BOOLEAN, holding_cpu : {Id[c] : c \in Cpus} \cup {NoHolder}]
  /\ pc \in [Cpus -> {"idle", "check", "spin", "tag", "critical", "unlock"}]

\* c has won the exchange and has not yet stored held = false.
Holds(c) == pc[c] \in {"tag", "critical", "unlock"}

\* Two CPUs are never between the return of aquire_lock and the call of
\* release_lock on one lock at the same time, in spite of the early return
\* of aquire_lock, which enters on the evidence of the unsynchronised tag.
MutualExclusion ==
  \A c, d \in Cpus : pc[c] = "critical" /\ pc[d] = "critical" => c = d

\* The tag never outlives the critical section it belongs to: when it names a
\* CPU, that CPU is in the critical section.  The order of the two stores of
\* release_lock ("Clear the holding tag before releasing the memory boundary")
\* is what this rests on.
TagNamesTheHolder ==
  \A c \in Cpus : lock.holding_cpu = Id[c] => pc[c] = "critical"

\* The lock word is set exactly while some CPU holds the lock.
HeldWhileOwned == lock.held <=> \E c \in Cpus : Holds(c)

\* MutualExclusion with what makes it inductive.
Inv ==
  /\ TypeOK
  /\ HeldWhileOwned
  /\ TagNamesTheHolder
  /\ \A c \in Cpus : pc[c] = "critical" => lock.holding_cpu = Id[c]
  /\ \A c, d \in Cpus : Holds(c) /\ Holds(d) => c = d

\* aquire_lock and release_lock implement the abstract lock: it is taken at the
\* winning exchange and given back by the last store of release_lock.
Abstract == INSTANCE AbstractLock WITH owners <- {c \in Cpus : Holds(c)}
ImplementsLock == Abstract!Spec

\* While CPUs spin, the lock keeps changing hands: some CPU wins the exchange.
\* (Which one is up to the memory system: a given CPU may starve.)
SomeoneWins ==
  (\E c \in Cpus : pc[c] = "spin") ~> (\E c \in Cpus : pc[c] = "tag")
===============================================================================
