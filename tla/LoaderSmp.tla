------------------------------ MODULE LoaderSmp ------------------------------
(***************************************************************************)
(* The boot loader's start of the other processors: common/sys/smp.c on    *)
(* its four architectures, with the local APIC and I/O APIC state of       *)
(* common/sys/lapic.c.  The processors being started share ONE passed_info *)
(* (where their entry of the list is, the flag they raise) and one pair of *)
(* pending LINT values.  smp_start_ap waits for the flag for one second    *)
(* (five on the other architectures) and no longer, so a processor that    *)
(* wakes up later works with what was written for the next one.            *)
(***************************************************************************)
EXTENDS Integers, Sequences, SequencesExt, FiniteSets

CONSTANTS Boards,       \* the machines: processors, tables, interrupt state
          Pins          \* the contents an I/O APIC pin can have at handoff

VARIABLES board,        \* the machine and what its tables say
          smp,          \* init_smp's locals
          infos,        \* the limine_mp_info array, as far as it is written
          passed,       \* trampoline_passed_info: slot and booted flag
          pending,      \* pending_lint0/1 with their is_x2apic flags
          aps,          \* every other processor
          failed,       \* the ids smp_start_ap gave up on
          late          \* some processor worked on another one's attempt

smpVars == <<board, smp, infos, passed, pending, aps, failed, late>>

Broadcast == 255        \* 0xff
Broadcast32 == 999      \* 0xffffffff
NoOverride == 0         \* UINT32_MAX in pending_lint0/1

(* A table walk sees the entries up to the first one whose length is zero   *)
(* or leads out of the table, and skips those that are too short.           *)
Walkable(table) ==
  LET bad == {i \in 1..Len(table) : table[i].kind = "bad"}
      end == IF bad = {} THEN Len(table) ELSE (CHOOSE i \in bad : \A j \in bad : i <= j) - 1
  IN  SelectSeq(SubSeq(table, 1, end), LAMBDA e : e.kind # "short")

madt == Walkable(board.acpi)
Has(P(_)) == \E i \in 1..Len(madt) : P(madt[i])

madt_has_x2apic_entry(id) == Has(LAMBDA e : e.kind = "x2apic" /\ e.id = id /\ e.on)

(* A walk that does not look at what it has listed already.                 *)
NeverListed(id) == FALSE
mp_info_has_lapic_id(id) == \E k \in 1..smp.count : infos[k].id = id

(* The entries init_smp counts to size its array: MADT entries that are     *)
(* enabled, device tree nodes with a "reg", harts that are no coprocessors. *)
core_pic_startable(e) == e.id # Broadcast32 /\ e.on
Counted(e, x2) ==
  /\ e.kind \in {"lapic", "x2apic", "gicc", "cpu", "hart", "core_pic"}
  /\ e.kind = "x2apic" => (x2 \/ e.id < Broadcast)
  /\ IF e.kind = "core_pic" THEN core_pic_startable(e) ELSE e.on

(* The entries the second walk goes on with.                                *)
Candidate(e) ==
  /\ Counted(e, smp.x2)
  /\ e.kind = "lapic" => /\ e.id # Broadcast
                         /\ ~madt_has_x2apic_entry(e.id)
                         /\ ~mp_info_has_lapic_id(e.id)
  /\ e.kind = "x2apic" => e.id # Broadcast32 /\ ~mp_info_has_lapic_id(e.id)

Listing == IF smp.src = "acpi" THEN madt ELSE Walkable(board.dtb)

(* lapic_set_pending_lint: the x2APIC structure wins over the other one.    *)
lapic_set_pending_lint(p, e) ==
  IF p[e.lint].x2 /\ e.kind # "x2nmi" THEN p
  ELSE [p EXCEPT ![e.lint] = [val |-> e.val, x2 |-> e.kind = "x2nmi"]]

NoLints == [n \in 0..1 |-> [val |-> NoOverride, x2 |-> FALSE]]

Names(e, uid) ==
  \/ e.kind = "nmi" /\ (e.uid = Broadcast \/ (uid < Broadcast /\ e.uid = uid))
  \/ e.kind = "x2nmi" /\ e.uid \in {Broadcast32, uid}

lapic_prep_lint(uid) ==
  LET step(p, e) == IF Names(e, uid) /\ e.lint \in 0..1
                    THEN lapic_set_pending_lint(p, e) ELSE p
  IN  FoldLeft(step, NoLints, madt)

(* lapic_configure_handoff_state: a LINT whose delivery mode may be masked  *)
(* takes the pending value (masked too) or is masked as it is.              *)
lvt_should_mask(mode) == mode \in {"fixed", "lowest", "nmi", "extint"}
lapic_configure_handoff_state(p) ==
  [n \in 0..1 |-> IF lvt_should_mask(board.lvt[n]) THEN p[n].val ELSE -1]

(* lapic_configure_bsp's search for the UID of this processor: the first    *)
(* x2APIC entry with its id, else the first local APIC entry.               *)
FirstWith(kind) ==
  LET at == {i \in 1..Len(madt) : madt[i].kind = kind /\ madt[i].id = board.bsp}
  IN  IF at = {} THEN Broadcast32
      ELSE madt[CHOOSE i \in at : \A j \in at : i <= j].uid
BspUid == IF FirstWith("x2apic") # Broadcast32 THEN FirstWith("x2apic") ELSE FirstWith("lapic")

-----------------------------------------------------------------------------
(* io_apic_mask_all on one pin; level is the trigger bit, irr the latch an  *)
(* interrupt left unacknowledged by the firmware holds.  EoiAsLeft does not *)
(* set the trigger first.                                                   *)
EoiAsLeft(pin, version) ==
  IF version >= 32 THEN [pin EXCEPT !.irr = ~pin.level]
  ELSE [pin EXCEPT !.irr = FALSE]
io_apic_clear_remote_irr(pin, version) ==
  LET level == [pin EXCEPT !.level = TRUE]
      released == IF version >= 32 THEN [level EXCEPT !.irr = ~level.level]
                  ELSE [level EXCEPT !.level = FALSE, !.irr = FALSE]
  IN  [released EXCEPT !.level = pin.level]

Masks(mode, all) == mode \in {"fixed", "lowest"} \/ (all /\ mode \in {"nmi", "extint"})
io_apic_mask_pin(pin, version, all) ==
  IF ~Masks(pin.mode, all) THEN pin
  ELSE LET m == [pin EXCEPT !.masked = TRUE]
       IN  IF m.irr THEN io_apic_clear_remote_irr(m, version) ELSE m

-----------------------------------------------------------------------------
Off == [st |-> "off", slot |-> 0, lints |-> <<>>]

SmpInit ==
  /\ board \in Boards
  /\ smp = [pc |-> "start", src |-> "acpi", i |-> 1, count |-> 0, max |-> 0,
            x2 |-> FALSE, x2Mode |-> board.firmwareX2, bspLints |-> <<>>, pins |-> {}]
  /\ infos = <<>> /\ passed = [slot |-> 0, flag |-> FALSE] /\ pending = NoLints
  /\ aps = [id \in board.cpus \ {board.bsp} |-> Off]
  /\ failed = {} /\ late = FALSE

(* lapic_check, the revert to xAPIC mode (which comes before the MADT is    *)
(* looked for), x2apic_enable and the count of the entries.                 *)
Prepare ==
  /\ smp.pc = "start"
  /\ LET x86 == board.arch = "x86"
         none == smp.src = "acpi" /\ board.acpi = <<>>
         revert == x86 /\ smp.x2Mode /\ ~board.wantX2
         x2 == x86 /\ board.wantX2 /\ board.x2ok
         max == Cardinality({i \in 1..Len(Listing) : Counted(Listing[i], x2)})
         pc == CASE x86 /\ ~board.apic -> "null"
                 [] revert /\ board.x2Locked -> "panic"
                 [] none \/ (max = 0 /\ board.arch \in {"x86", "loongarch"}) ->
                      IF board.arch \in {"aarch64", "loongarch"} THEN "next" ELSE "null"
                 [] OTHER -> "walk"
     IN  smp' = [smp EXCEPT !.pc = pc, !.x2 = x2 /\ ~none, !.max = max, !.i = 1, !.count = 0,
                            !.x2Mode = IF x86 /\ ~board.apic THEN @
                                       ELSE (@ /\ ~(revert /\ ~board.x2Locked)) \/ (x2 /\ ~none)]
  /\ infos' = <<>>
  /\ UNCHANGED <<board, passed, pending, aps, failed, late>>

Here == Listing[smp.i]
WithSlot(e) == SubSeq(infos, 1, smp.count) \o <<[id |-> e.id, uid |-> e.uid]>>

Skip ==
  /\ smp.pc = "walk" /\ smp.i <= Len(Listing) /\ ~Candidate(Here)
  /\ smp' = [smp EXCEPT !.i = @ + 1]
  /\ UNCHANGED <<board, infos, passed, pending, aps, failed, late>>

(* This processor is listed without being started; a device tree node with  *)
(* no usable enable-method has its slot written and is not counted.         *)
ListOnly ==
  /\ smp.pc = "walk" /\ smp.i <= Len(Listing) /\ Candidate(Here)
  /\ Here.id = board.bsp \/ (Here.kind = "cpu" /\ Here.method = "none")
  /\ infos' = WithSlot(Here)
  /\ smp' = [smp EXCEPT !.i = @ + 1, !.count = @ + (IF Here.id = board.bsp THEN 1 ELSE 0)]
  /\ failed' = IF Here.id = board.bsp THEN failed ELSE failed \cup {Here.id}
  /\ UNCHANGED <<board, passed, pending, aps, late>>

(* smp_start_ap up to its wait.  INIT resets an x86 processor wherever it   *)
(* is; PSCI and SBI refuse one that is on; a spin table or a mailbox only   *)
(* wakes a sleeper.  Processors parked the ACPI way cannot be started.      *)
SbiRefuses(there, st) == board.arch = "riscv" /\ (~there \/ st # "off")
ByPsci == Here.kind = "gicc" \/ (Here.kind = "cpu" /\ Here.method = "psci")
PsciRefuses(there, st) == board.arch = "aarch64" /\ ByPsci /\ (~there \/ st # "off")
Mailed(there, st) == there /\ st = "off"
Parked == Here.kind = "gicc" /\ ~board.psci
StartAp ==
  /\ smp.pc = "walk" /\ smp.i <= Len(Listing) /\ Candidate(Here)
  /\ Here.id # board.bsp /\ (Here.kind = "cpu" => Here.method # "none")
  /\ LET id == Here.id
         there == id \in DOMAIN aps
         st == IF there THEN aps[id].st ELSE "absent"
         refused == SbiRefuses(there, st) \/ PsciRefuses(there, st)
         wakes == IF board.arch = "x86" THEN there ELSE ~Parked /\ Mailed(there, st)
     IN  /\ infos' = WithSlot(Here)
         /\ pending' = IF board.arch = "x86" /\ board.rev5 THEN lapic_prep_lint(Here.uid) ELSE pending
         /\ passed' = [slot |-> smp.count + 1, flag |-> FALSE]
         /\ smp' = IF Parked THEN [smp EXCEPT !.pc = "panic"] ELSE IF refused THEN [smp EXCEPT !.i = @ + 1]
                   ELSE [smp EXCEPT !.pc = "wait"]
         /\ failed' = IF refused /\ ~Parked THEN failed \cup {id} ELSE failed
         /\ aps' = IF wakes THEN [aps EXCEPT ![id] = [Off EXCEPT !.st = "woken"]] ELSE aps
  /\ UNCHANGED <<board, late>>

SawFlag ==
  /\ smp.pc = "wait" /\ passed.flag
  /\ smp' = IF board.arch = "aarch64" /\ board.otherEl
            THEN [smp EXCEPT !.pc = "panic"]
            ELSE [smp EXCEPT !.pc = "walk", !.i = @ + 1, !.count = @ + 1]
  /\ UNCHANGED <<board, infos, passed, pending, aps, failed, late>>

TimedOut ==
  /\ smp.pc = "wait" /\ ~passed.flag
  /\ smp' = [smp EXCEPT !.pc = "walk", !.i = @ + 1]
  /\ failed' = failed \cup {Here.id}
  /\ UNCHANGED <<board, infos, passed, pending, aps, late>>

(* The end of the walk; an empty ACPI list leads on to the device tree.     *)
WalkEnds ==
  /\ \/ smp.pc = "walk" /\ smp.i > Len(Listing)
     \/ smp.pc = "next"
  /\ smp' = IF smp.pc = "walk" /\ smp.count > 0 THEN [smp EXCEPT !.pc = "listed"]
            ELSE IF /\ board.arch \in {"aarch64", "loongarch"}
                    /\ smp.src = "acpi" /\ board.dtb # <<>>
                 THEN [smp EXCEPT !.pc = "start", !.src = "dtb"]
                 ELSE [smp EXCEPT !.pc = "null"]
  /\ UNCHANGED <<board, infos, passed, pending, aps, failed, late>>

(* limine_load's last steps on x86: io_apic_mask_all, lapic_configure_bsp.  *)
HandOff ==
  /\ smp.pc \in {"listed", "null"}
  /\ pending' = IF board.arch = "x86" /\ board.rev5 /\ board.apic THEN lapic_prep_lint(BspUid) ELSE pending
  /\ smp' = [smp EXCEPT !.pc = IF @ = "null" THEN "alone" ELSE "handoff",
               !.bspLints = IF board.arch = "x86" /\ board.rev5 /\ board.apic
                            THEN lapic_configure_handoff_state(pending') ELSE <<>>,
               !.pins = {[was |-> p, is |-> io_apic_mask_pin(p, v, board.rev5)] :
                           p \in Pins, v \in {17, 32}}]
  /\ UNCHANGED <<board, infos, passed, aps, failed, late>>

-----------------------------------------------------------------------------
(* The trampoline: the local APIC is set up from the pending values, then   *)
(* the slot is taken, then the flag is raised.                              *)
OnTime(id) == smp.pc = "wait" /\ Here.id = id
Late(id) == late' = (late \/ ~OnTime(id))

ApSetsUp(id) ==
  /\ aps[id].st = "woken"
  /\ aps' = [aps EXCEPT ![id].st = "setup",
       ![id].lints = IF board.arch = "x86" /\ board.rev5
                     THEN lapic_configure_handoff_state(pending) ELSE <<>>]
  /\ Late(id) /\ UNCHANGED <<board, smp, infos, passed, pending, failed>>

ApTakesSlot(id) ==
  /\ aps[id].st = "setup"
  /\ aps' = [aps EXCEPT ![id].st = "slot", ![id].slot = passed.slot]
  /\ Late(id) /\ UNCHANGED <<board, smp, infos, passed, pending, failed>>

ApReports(id) ==
  /\ aps[id].st = "slot"
  /\ aps' = [aps EXCEPT ![id].st = "parked"]
  /\ passed' = [passed EXCEPT !.flag = TRUE]
  /\ Late(id) /\ UNCHANGED <<board, smp, infos, pending, failed>>

BspStep == Prepare \/ Skip \/ ListOnly \/ StartAp \/ SawFlag \/ TimedOut \/ WalkEnds \/ HandOff
ApStep == \E id \in DOMAIN aps : ApSetsUp(id) \/ ApTakesSlot(id) \/ ApReports(id)
SmpNext == BspStep \/ ApStep

-----------------------------------------------------------------------------
SmpTypeOK ==
  /\ smp.pc \in {"start", "walk", "wait", "next", "listed", "null", "panic", "handoff", "alone"}
  /\ smp.count \in 0..smp.max
  /\ Len(infos) \in smp.count..smp.count + 1
  /\ passed.slot \in 0..Len(board.acpi) + Len(board.dtb)
  /\ failed \subseteq Nat

(* The array init_smp allocates from its first walk is never outgrown by    *)
(* the second, although the two skip different entries.                     *)
SlotsFit == Len(infos) <= smp.max

(* A processor described twice (by both kinds of MADT entry, or by two of   *)
(* one kind) is listed once; the one init_smp starts and waits for is       *)
(* neither this one nor one that is listed and spinning already, nor a      *)
(* broadcast id; an id the APIC mode cannot address is not listed.          *)
Listed == {infos[k].id : k \in 1..smp.count}
ListedOnce ==
  /\ Cardinality(Listed) = smp.count
  /\ smp.pc = "wait" => Here.id \notin Listed \cup {board.bsp}
  /\ \A id \in Listed \cup (IF smp.pc = "wait" THEN {Here.id} ELSE {}) :
       /\ id # Broadcast32
       /\ board.arch = "x86" /\ ~smp.x2 => id < Broadcast

(* When the walk is over every processor the tables offer is either listed  *)
(* or one whose start was given up.                                         *)
Offered == {Listing[i].id : i \in {k \in 1..Len(Listing) : Counted(Listing[k], smp.x2)}}
             \ ({Broadcast32} \cup (IF board.arch = "x86" THEN {Broadcast} ELSE {}))
NobodyForgotten == smp.pc = "listed" => Offered \subseteq Listed \cup failed

(* Each listed processor spins on its own entry of the list, alone, with    *)
(* the NMI pins its own UID has, unless some processor came back after its  *)
(* second was over.                                                         *)
LintFor(uid, n) ==
  LET at(kind) == {i \in 1..Len(madt) : madt[i].kind = kind /\ Names(madt[i], uid)
                                          /\ madt[i].lint = n}
      last(S) == madt[CHOOSE i \in S : \A j \in S : j <= i].val
  IN  IF board.lvt[n] = "smi" THEN -1
      ELSE IF at("x2nmi") # {} THEN last(at("x2nmi"))
      ELSE IF at("nmi") # {} THEN last(at("nmi")) ELSE NoOverride

MixedUpOnlyByLateAp ==
  late \/ \A k \in 1..smp.count : infos[k].id # board.bsp =>
    /\ infos[k].id \in DOMAIN aps
    /\ {id \in DOMAIN aps : aps[id].st = "parked" /\ aps[id].slot = k} = {infos[k].id}
    /\ board.arch = "x86" /\ board.rev5 =>
         \A n \in 0..1 : aps[infos[k].id].lints[n] = LintFor(infos[k].uid, n)

(* What the kernel finds at its entry: the APIC mode it asked for, no pin   *)
(* of an I/O APIC live or blocked by an unacknowledged interrupt, and this  *)
(* processor's NMI pins as its listed UID has them, unless a disabled MADT  *)
(* entry carries this processor's id (lapic_configure_bsp does not look).   *)
HandoffRight ==
  smp.pc \in {"handoff", "alone"} =>
    /\ board.arch = "x86" /\ board.apic /\ smp.x2Mode => board.wantX2
    /\ \A p \in smp.pins : Masks(p.was.mode, board.rev5) =>
         p.is = [p.was EXCEPT !.masked = TRUE, !.irr = FALSE]
    /\ \A k \in 1..smp.count :
         (infos[k].id = board.bsp /\ board.arch = "x86" /\ board.rev5
            /\ ~Has(LAMBDA e : e.kind \in {"lapic", "x2apic"} /\ e.id = board.bsp /\ ~e.on)) =>
           \A n \in 0..1 : smp.bspLints[n] = LintFor(infos[k].uid, n)

(* Where the loader's part ends; no processor, dead, slow or confused, may  *)
(* keep it from there.                                                      *)
SmpOver == smp.pc \in {"handoff", "alone", "panic"}
=============================================================================
