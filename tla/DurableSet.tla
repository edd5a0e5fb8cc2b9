----------------------------- MODULE DurableSet -----------------------------
(***************************************************************************)
(* What the record of deployed machines promises to who uses it: a set in  *)
(* memory and a copy of it that stays.  A change reaches the memory at     *)
(* once, and the copy together with it, later or not at all; the copy is   *)
(* replaced as a whole, by what the memory holds, and by nothing else; and *)
(* a process that starts finds the copy as it is.                          *)
(***************************************************************************)
CONSTANT Element

VARIABLES memory, saved

setVars == <<memory, saved>>

SetInit == memory = {} /\ saved = {}

Change(add, del) ==
  /\ memory' = (memory \cup add) \ del
  /\ saved' \in {saved, memory'}

Save == saved' = memory /\ UNCHANGED memory

Reload == memory' = saved /\ UNCHANGED saved

SetNext ==
  \/ \E add, del \in SUBSET Element : Change(add, del)
  \/ Save
  \/ Reload

SetSpec == SetInit /\ [][SetNext]_setVars
=============================================================================
