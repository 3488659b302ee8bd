---------------------------- MODULE MCProcessors ----------------------------
(* Starting the other processors, by the kernel and by the loader before   *)
(* it; the variable `scene' says which of them a behaviour is about.  The  *)
(* kernel's variables keep their initial values in the loader's behaviours *)
(* and the loader's are 0 in the kernel's.  The kernel has two application *)
(* processors whose local APIC ids differ from their order, and from no    *)
(* page to spare to one for each; the loader's machines follow.            *)
EXTENDS ApBoot

CONSTANTS Boards, Pins

VARIABLES scene, board, smp, infos, passed, pending, aps, failed, late

Loader == INSTANCE LoaderSmp

MCLapicId == [c \in 1 .. NAps |-> 2 * c]

(* The machines of the loader's processor start: tables with both kinds of *)
(* entry, doubled, disabled and unusable ones, NMI entries before and      *)
(* after the processors they name, firmware that left x2APIC mode on, and  *)
(* the other architectures.                                                *)
L(id, uid) == [kind |-> "lapic", id |-> id, uid |-> uid, on |-> TRUE]
X(id, uid) == [kind |-> "x2apic", id |-> id, uid |-> uid, on |-> TRUE]
OffL(e) == [e EXCEPT !.on = FALSE]
K(kind, id, uid) == [kind |-> kind, id |-> id, uid |-> uid, on |-> TRUE]
Cpu(id, m) == [kind |-> "cpu", id |-> id, uid |-> 0, on |-> TRUE, method |-> m]
N(uid, lint, val) == [kind |-> "nmi", uid |-> uid, lint |-> lint, val |-> val]
X2N(uid, lint, val) == [kind |-> "x2nmi", uid |-> uid, lint |-> lint, val |-> val]
Junk(k) == [kind |-> k]
PC == [arch |-> "x86", bsp |-> 0, cpus |-> {0, 1, 2}, apic |-> TRUE, firmwareX2 |-> FALSE, wantX2 |-> FALSE,
       x2ok |-> TRUE, x2Locked |-> FALSE, rev5 |-> TRUE, otherEl |-> FALSE, psci |-> TRUE,
       lvt |-> [n \in 0..1 |-> IF n = 0 THEN "extint" ELSE "nmi"], acpi |-> <<>>, dtb |-> <<>>]
Both == <<L(0, 10), X2N(12, 1, 3), L(1, 11), L(1, 11), Junk("short"), X(1, 12), N(255, 1, 1), N(10, 0, 2), L(2, 13), L(2, 13), X2N(999, 0, 4)>>
Wide == <<X(0, 10), X(1, 300), X(300, 301), X(999, 9), X(300, 301), L(255, 7), N(44, 1, 2), X2N(300, 1, 3), L(2, 13), Junk("bad"), L(1, 1)>>
MCBoards == {
  [PC EXCEPT !.acpi = Both],
  [PC EXCEPT !.acpi = Both, !.firmwareX2 = TRUE, !.rev5 = FALSE],
  [PC EXCEPT !.acpi = Wide, !.cpus = {0, 1, 2, 300}, !.wantX2 = TRUE, !.lvt[1] = "smi"],
  [PC EXCEPT !.acpi = Wide, !.cpus = {0, 1, 300}, !.wantX2 = TRUE, !.x2ok = FALSE],
  [PC EXCEPT !.acpi = <<OffL(X(0, 10)), L(0, 10), L(1, 11), OffL(L(2, 12)), N(11, 1, 1)>>],
  [PC EXCEPT !.firmwareX2 = TRUE, !.x2Locked = TRUE],
  [PC EXCEPT !.apic = FALSE, !.acpi = Both],
  [PC EXCEPT !.acpi = <<OffL(L(0, 10))>>],
  [PC EXCEPT !.arch = "aarch64", !.acpi = <<K("gicc", 1, 21), K("gicc", 0, 20), K("gicc", 2, 22)>>],
  [PC EXCEPT !.arch = "aarch64", !.acpi = <<K("gicc", 1, 21)>>, !.dtb = <<Cpu(2, "none"), Cpu(1, "spin"), Cpu(0, "psci")>>],
  [PC EXCEPT !.arch = "aarch64", !.dtb = <<Cpu(0, "psci"), Cpu(1, "psci")>>, !.otherEl = TRUE],
  [PC EXCEPT !.arch = "aarch64", !.acpi = <<K("gicc", 0, 20), K("gicc", 1, 21)>>, !.psci = FALSE],
  [PC EXCEPT !.arch = "riscv", !.acpi = <<K("hart", 0, 30), OffL(K("hart", 3, 33)), K("hart", 1, 31), K("hart", 2, 32)>>],
  [PC EXCEPT !.arch = "loongarch", !.acpi = <<K("core_pic", 999, 1)>>, !.dtb = <<Cpu(0, "mailbox"), Cpu(1, "mailbox"), Cpu(2, "mailbox")>>]
}
MCPins == [mode : {"fixed", "nmi", "smi"}, masked : BOOLEAN, level : BOOLEAN, irr : BOOLEAN]


smpVars == <<board, smp, infos, passed, pending, aps, failed, late>>
processorVars == <<scene, vars, smpVars>>

NoLoader == /\ board = 0 /\ smp = 0 /\ infos = 0 /\ passed = 0 /\ pending = 0 /\ aps = 0
            /\ failed = 0 /\ late = 0

ProcessorsInit ==
  /\ scene \in {"kernel", "loader"}
  /\ Init
  /\ IF scene = "loader" THEN Loader!SmpInit /\ ~used[1] ELSE NoLoader

InKernel == scene = "kernel"
LoaderStep == scene = "loader" /\ Loader!BspStep

ProcessorsNext ==
  \/ InKernel /\ Next /\ UNCHANGED <<scene, smpVars>>
  \/ scene = "loader" /\ Loader!SmpNext /\ UNCHANGED <<scene, vars>>

(* Every CPU of the kernel keeps executing, and so does the processor the  *)
(* loader runs on; the ones it starts may be as slow as they like.         *)
ProcessorsSpec ==
  /\ ProcessorsInit /\ [][ProcessorsNext]_processorVars
  /\ WF_vars(InKernel /\ BspStep)
  /\ \A c \in Aps : WF_vars(InKernel /\ ApStep(c))
  /\ \A c \in Cpus : WF_vars(InKernel /\ Allocate(c))
  /\ WF_smpVars(LoaderStep)

(* The loader's list fits its array and names each processor once, none    *)
(* is forgotten, and the interrupt hardware is handed over as the kernel   *)
(* asked (SlotsFit, ListedOnce, NobodyForgotten, HandoffRight); what one   *)
(* processor has of another's - list entry and NMI pins - it has because   *)
(* one woke up after its second was over (MixedUpOnlyByLateAp).            *)
ProcessorListRight ==
  scene = "loader" =>
    /\ Loader!SmpTypeOK /\ Loader!SlotsFit /\ Loader!ListedOnce
    /\ Loader!NobodyForgotten /\ Loader!HandoffRight
    /\ Loader!MixedUpOnlyByLateAp

(* A processor hangs on its way into the kernel only behind a memory_lock  *)
(* that a NULL return of KGetPage kept (EveryApSettles of ApBoot), and     *)
(* none keeps the loader from its end (SmpOver of LoaderSmp).              *)
EveryProcessorSettles ==
  /\ \A c \in Aps : <>[](InKernel => stage[c] \in Settled \/ pc[BSP] = "panic" \/ WaitsForLeaked(c))
  /\ <>(scene = "loader" => Loader!SmpOver)
=============================================================================
