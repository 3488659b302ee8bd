--------------------------- MODULE MCPageAllocator ----------------------------
(* The lock by itself and the page allocator on top of it; the variable      *)
(* `scene' says which of them a behaviour is about, and the other's           *)
(* variables keep their initial values.  Three CPUs, two pages: the list runs *)
(* out, and pages come back while another CPU searches.  The third CPU does   *)
(* not call __giverawpage.                                                    *)
EXTENDS PageAllocator, TLC

CONSTANTS bsp, ap1, ap2

MCCpus == {bsp, ap1, ap2}
MCId == (bsp :> 0) @@ (ap1 :> 1) @@ (ap2 :> 2)

VARIABLES scene,
          word, at      \* a lock_t, and where each CPU is in its use

Alone == INSTANCE Spinlock WITH lock <- word, pc <- at

loneVars == <<word, at>>
allVars == <<scene, vars, loneVars>>

SceneInit == scene \in {"lock", "pages"} /\ Init /\ Alone!Init

SceneNext ==
  \/ scene = "lock" /\ Alone!Next /\ UNCHANGED <<scene, vars>>
  \/ scene = "pages" /\ Next /\ op'[ap2] # "__giverawpage" /\ UNCHANGED <<scene, loneVars>>

(* A CPU inside aquire_lock, its critical section, release_lock or one of   *)
(* the allocator's functions keeps executing.                               *)
SceneSpec ==
  /\ SceneInit /\ [][SceneNext]_allVars
  /\ \A c \in Cpus : WF_loneVars(scene = "lock" /\ (Alone!Acquiring(c) \/ Alone!Releasing(c)))
  /\ \A c \in Cpus : WF_vars(scene = "pages" /\ Running(c, Id[c]))

(* Two CPUs are never between the return of aquire_lock and the call of     *)
(* release_lock on one lock at the same time (MutualExclusion of Spinlock). *)
MutualExclusion == Alone!TypeOK /\ Alone!MutualExclusion

(* aquire_lock and release_lock implement the abstract lock (ImplementsLock *)
(* of Spinlock).                                                            *)
ImplementsLock == Alone!ImplementsLock

(* While CPUs spin, the lock keeps changing hands (SomeoneWins of           *)
(* Spinlock).                                                               *)
SomeoneWins == Alone!SomeoneWins
===============================================================================
