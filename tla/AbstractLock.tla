----------------------------- MODULE AbstractLock -----------------------------
(***************************************************************************)
(* What a caller of aquire_lock/release_lock (include/dej/kernel.c) is     *)
(* entitled to: the lock goes from nobody to one CPU and back to nobody.   *)
(***************************************************************************)
CONSTANT Cpus

VARIABLE owners   \* the CPUs between the winning exchange and the last store of release_lock

Init == owners = {}

Acquire(c) == /\ owners = {}
              /\ owners' = {c}

Release(c) == /\ owners = {c}
              /\ owners' = {}

Next == \E c \in Cpus : Acquire(c) \/ Release(c)

Spec == Init /\ [][Next]_owners
===============================================================================
