---------------------------- MODULE AddressBook ----------------------------
(***************************************************************************)
(* What the address allocator promises, with no memory, file, clock or     *)
(* process: a book of who may use which address.  An address is entered    *)
(* for one client at a time, a client keeps its address while its entry    *)
(* stands, and a reserved address (one that was declined) is not entered.  *)
(* Entries and reservations may end at any time: they lapse, or a client   *)
(* or an operator ends them.                                               *)
(***************************************************************************)
CONSTANTS MAC, Addr, NoAddr

VARIABLES book,      \* MAC -> its entry
          reserved   \* addresses kept out of the pool

bookVars == <<book, reserved>>

NoEntry == [ip |-> NoAddr, static |-> FALSE, contested |-> FALSE]

BookInit == book = [m \in MAC |-> NoEntry] /\ reserved = {}

(* From the pool: nobody else has it, it is not reserved, and a client     *)
(* whose entry nobody contests is given the address it has.                *)
Enter(m, v) ==
  /\ \A n \in MAC \ {m} : book[n].ip # v
  /\ v \notin reserved
  /\ (book[m] # NoEntry /\ ~book[m].static /\ ~book[m].contested) => book[m].ip = v
  /\ book' = [book EXCEPT ![m] = [ip |-> v, static |-> FALSE, contested |-> FALSE]]
  /\ UNCHANGED reserved

(* By configuration, which may bind two clients to one address. *)
EnterStatic(m, v) ==
  /\ \A n \in MAC \ {m} : book[n].ip = v => book[n].static
  /\ book' = [book EXCEPT ![m] = [ip |-> v, static |-> TRUE, contested |-> FALSE]]
  /\ UNCHANGED reserved

(* A client declines v; the reservation may fail to be recorded. *)
Contest(v) ==
  /\ book' = [m \in MAC |-> IF book[m].ip = v /\ ~book[m].static
                            THEN [book[m] EXCEPT !.contested = TRUE]
                            ELSE book[m]]
  /\ reserved' \in {reserved, reserved \cup {v}}

End(S, R) ==
  /\ book' = [m \in MAC |-> IF m \in S THEN NoEntry ELSE book[m]]
  /\ reserved' = reserved \ R

BookNext ==
  \/ \E m \in MAC, v \in Addr : Enter(m, v) \/ EnterStatic(m, v)
  \/ \E v \in Addr : Contest(v)
  \/ \E S \in SUBSET MAC, R \in SUBSET Addr : End(S, R)

BookSpec == BookInit /\ [][BookNext]_bookVars
=============================================================================
