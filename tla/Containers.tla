----------------------------- MODULE Containers -----------------------------
(***************************************************************************)
(* The containers of libcommon, which share nothing: a program uses a list *)
(* with its iterators, or hashes with their free list.                     *)
(***************************************************************************)
EXTENDS List

CONSTANTS Tables, Keys, Items, Size, Word, HASH_ALLOC, MaxChunks

VARIABLES
  live, link, hkey, data, items, chunks, call, arg, slot, cell, hret, deleted,
  used          \* the container this behaviour is about

hvars == <<live, link, hkey, data, items, chunks, call, arg, slot, cell, hret, deleted>>

H == INSTANCE Hash WITH i <- slot, pp <- cell, ret <- hret

ASSUME TablesAssumption == H!HashConstants

ContainersInit == Init /\ H!Init /\ used \in {"list", "hash"}

UseList(A) == used = "list" /\ A /\ UNCHANGED <<hvars, used>>
UseHash(A) == used = "hash" /\ A /\ UNCHANGED <<vars, used>>

ContainersNext == UseList(Next) \/ UseHash(H!Next)

ContainersSpec ==
  /\ ContainersInit /\ [][ContainersNext]_<<vars, hvars, used>>
  /\ WF_<<vars, hvars, used>>(UseList(LoopStep))
  /\ \A t \in Tables : WF_<<vars, hvars, used>>(UseHash(H!LoopStep(t)))

(* Every node of the hashes is in one chain or on the free list, once.     *)
NodesAccounted == H!NodesAccounted

(* The hashes implement maps. *)
HashImplemented == H!Implemented

(* The loops of list_sort, list_delete_all, hash_delete_if and             *)
(* hash_destroy come to their end. *)
CallsEnd == LoopsEnd /\ H!LoopsEnd
=============================================================================
