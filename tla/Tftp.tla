-------------------------------- MODULE Tftp --------------------------------
(***************************************************************************)
(* tftp_open() of src/limine/common/pxe/tftp.s2.c, for BIOS (packet by     *)
(* packet through the PXE stack) and for UEFI (one call).  The server      *)
(* answers what it likes: a size, a packet size, and packets of any length *)
(* up to one more than asked for.                                          *)
(***************************************************************************)
EXTENDS Integers, Sequences, FiniteSets

CONSTANTS Mtu,       \* MaxTranUnit - 48, bytes in a packet buffer
          MaxRemote  \* the largest file a server announces

VARIABLES net,       \* the call: firmware kind, where it is, sizes
          remote,    \* bytes the server has sent
          netHeld    \* what is allocated
netVars == <<net, remote, netHeld>>

NetInit ==
  /\ net \in [bios : BOOLEAN, at : {"ask"}, size : {0}, progress : {0}, data : {<<>>}]
  /\ remote = 0 /\ netHeld = {}

\* The file's size; the handle and its path are made for it.
AskSize ==
  /\ net.at = "ask"
  /\ \/ net' = [net EXCEPT !.at = "absent"] /\ UNCHANGED netHeld
     \/ \E n \in 0..MaxRemote :
          /\ net' = [net EXCEPT !.at = IF net.bios THEN "open" ELSE "fetch", !.size = n]
          /\ netHeld' = {"handle", "path"} \cup (IF net.bios THEN {} ELSE {"data"})
  /\ UNCHANGED remote

\* TFTP_OPEN: the server may refuse, or negotiate a packet we have no room for.
OpenRemote ==
  /\ net.at = "open"
  /\ \E p \in 0..(Mtu + 1) :
       IF p > Mtu \/ p = 0
       THEN /\ net' = [net EXCEPT !.at = "absent"] /\ netHeld' = netHeld \ {"path", "handle"}
       ELSE /\ net' = [net EXCEPT !.at = "read"] /\ netHeld' = netHeld \cup {"packet", "data"}
  /\ UNCHANGED remote


\* One TFTP_READ; a packet that is empty, or longer than what is left, is fatal.
ReadPacket ==
  /\ net.at = "read" /\ net.progress < net.size
  /\ \E n \in -1..(Mtu + 1) :  \* -1: the call fails
       IF n < 1 \/ n > Mtu \/ n > net.size - net.progress
       THEN net' = [net EXCEPT !.at = "panic"] /\ UNCHANGED remote
       ELSE /\ net' = [net EXCEPT !.progress = @ + n, !.data = @ \o [i \in 1..n |-> remote + i]]
            /\ remote' = remote + n
  /\ UNCHANGED netHeld

CloseRemote ==
  /\ net.at = "read" /\ net.progress >= net.size
  /\ \/ net' = [net EXCEPT !.at = "panic"] /\ UNCHANGED netHeld
     \/ net' = [net EXCEPT !.at = "file"] /\ netHeld' = netHeld \ {"packet"}
  /\ UNCHANGED remote

\* UEFI: Mtftp() fills the buffer, and has to report the size asked for.
Fetch ==
  /\ net.at = "fetch"
  /\ \E n \in -1..(MaxRemote + 1) :
       IF n # net.size
       THEN net' = [net EXCEPT !.at = "absent"] /\ netHeld' = netHeld \ {"data", "path", "handle"}
       ELSE /\ net' = [net EXCEPT !.at = "file", !.progress = n, !.data = [i \in 1..n |-> i]]
            /\ UNCHANGED netHeld
  /\ UNCHANGED remote

NetNext == AskSize \/ OpenRemote \/ ReadPacket \/ CloseRemote \/ Fetch

NetSpec == NetInit /\ [][NetNext]_netVars

NetSizes == Mtu \in Nat /\ MaxRemote \in Nat

-----------------------------------------------------------------------------
NetTypeOK == /\ net.at \in {"ask", "open", "read", "fetch", "file", "absent", "panic"}
             /\ net.progress \in 0..net.size /\ netHeld \subseteq {"handle", "path", "packet", "data"}

\* A file tftp_open() returns has every byte the server announced, in order,
\* however the packets were cut; a refused one leaves nothing allocated, and a
\* returned one only what fclose() frees (tftp.s2.c:50-175, 201-271).
TransfersRight ==
  /\ net.at = "file" => /\ net.data = [i \in 1..net.size |-> i]
                        /\ netHeld = {"handle", "path", "data"}
  /\ net.at = "absent" => netHeld = {}

-----------------------------------------------------------------------------
(* The inductive invariant: what has arrived is the beginning of the file,  *)
(* and what is allocated goes with the place tftp_open() is at.             *)
Arrived == /\ net.progress <= net.size
           /\ net.data = [i \in 1..net.progress |-> i]
           /\ net.at \in {"ask", "open", "read"} => remote = net.progress
           /\ net.at \in {"ask", "open", "fetch"} => net.progress = 0
           /\ net.at = "file" => net.progress = net.size

HeldHere == /\ net.at \in {"ask", "absent"} => netHeld = {}
            /\ net.at = "open" => netHeld = {"handle", "path"}
            /\ net.at = "read" => netHeld = {"handle", "path", "packet", "data"}
            /\ net.at \in {"fetch", "file"} => netHeld = {"handle", "path", "data"}

Call == [bios : BOOLEAN, at : {"ask", "open", "read", "fetch", "file", "absent", "panic"},
         size : Nat, progress : Nat, data : Seq(Int)]
NetInv ==
  /\ net \in Call
  /\ Arrived /\ HeldHere
=============================================================================
