---------------------------- MODULE PingdService ----------------------------
(***************************************************************************)
(* What pingd promises to its clients (src/pingd/pingd_loop.c seen from    *)
(* outside): every host carries the time of day at which it was last heard *)
(* of, 0 for never, and a client that connects is answered with the stamps *)
(* of ALL the hosts at ONE moment.  A daemon that dies while it answers    *)
(* leaves one client with a proper part of such an answer: nothing in the  *)
(* protocol tells that client so.                                          *)
(***************************************************************************)
EXTENDS Integers, Sequences, FiniteSets

CONSTANTS
  HostSeq,        \* the hosts, in the order of the answer
  Clients,
  NoReport        \* the report of a client not answered yet

HostSet == {HostSeq[i] : i \in 1..Len(HostSeq)}

VARIABLES
  running,        \* the daemon's process exists
  wall,           \* the time of day
  heard,          \* hosts whose address ever sent a packet
  stamps,         \* when each host was last heard of
  report          \* what each client read until end of file

vars == <<running, wall, heard, stamps, report>>

Snapshot == [i \in 1..Len(HostSeq) |-> <<HostSeq[i], stamps[HostSeq[i]]>>]

Init ==
  /\ running = TRUE
  /\ wall \in Nat
  /\ heard = {}
  /\ stamps = [h \in HostSet |-> 0]
  /\ report = [c \in Clients |-> NoReport]

(* The wall clock may advance, and may be set to any time. *)
Time ==
  /\ wall' \in Nat
  /\ UNCHANGED <<running, heard, stamps, report>>

Hear ==
  /\ heard' \in SUBSET HostSet /\ heard \subseteq heard'
  /\ UNCHANGED <<running, wall, stamps, report>>

Stamp(h) ==
  /\ running /\ h \in heard
  /\ stamps' = [stamps EXCEPT ![h] = wall]
  /\ UNCHANGED <<running, wall, heard, report>>

Answer(c) ==
  /\ running /\ report[c] = NoReport
  /\ report' = [report EXCEPT ![c] = Snapshot]
  /\ UNCHANGED <<running, wall, heard, stamps>>

Die ==
  /\ running /\ running' = FALSE
  /\ \/ UNCHANGED report
     \/ \E c \in Clients : \E n \in 0..Len(HostSeq) - 1 :
          /\ report[c] = NoReport
          /\ report' = [report EXCEPT ![c] = SubSeq(Snapshot, 1, n)]
  /\ UNCHANGED <<wall, heard, stamps>>

Next ==
  \/ Time \/ Hear \/ Die
  \/ \E h \in HostSet : Stamp(h)
  \/ \E c \in Clients : Answer(c)

Spec == Init /\ [][Next]_vars
=============================================================================
