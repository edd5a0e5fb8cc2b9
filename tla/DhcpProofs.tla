----------------------------- MODULE DhcpProofs -----------------------------
(* Proofs about Dhcp: the inductive invariant HInv, and with it that no    *)
(* two machines use one address and that a recorded machine is not booted. *)
EXTENDS Dhcp, TLAPS

-----------------------------------------------------------------------------
(* The book, as the handlers change it. *)

LEMMA Addresses ==
  /\ Pool \subseteq Addr
  /\ NoAddr \notin Addr
  /\ \A c \in Bindings, m \in Client : c[m] # NoAddr => c[m] \in Addr
BY DhcpAssumption DEF Addr

LEMMA EntryFields ==
  ASSUME TypeOK, NEW m \in Client
  PROVE  /\ book[m] \in Entry
         /\ book[m].ip \in Addr \cup {NoAddr} /\ book[m].static \in BOOLEAN
         /\ book[m].contested \in BOOLEAN
         /\ book[m].ip = NoAddr <=> book[m] = Allocator!NoEntry
<1>1. book[m] \in Entry
  BY DEF TypeOK
<1>2. CASE book[m] = Allocator!NoEntry
  BY <1>1, <1>2 DEF Allocator!NoEntry
<1>3. CASE book[m] \in [ip : Addr, static : BOOLEAN, contested : BOOLEAN]
  <2>1. book[m].ip \in Addr /\ book[m].static \in BOOLEAN /\ book[m].contested \in BOOLEAN
    BY <1>3
  <2>2. book[m].ip # NoAddr
    BY <2>1, Addresses
  <2> QED BY <1>1, <2>1, <2>2 DEF Allocator!NoEntry
<1> QED BY <1>1, <1>2, <1>3 DEF Entry

(* An allocation: m has an entry that nobody contests, the one it had      *)
(* unless that was contested, and nobody else's entry changes.             *)
LEMMA AllocateEnters ==
  ASSUME TypeOK, BookKept, NEW m \in Client, Allocate(m)
  PROVE  /\ book' \in [Client -> Entry] /\ reserved' = reserved
         /\ book'[m].ip \in Addr /\ ~book'[m].contested
         /\ (book[m].ip # NoAddr /\ ~book[m].contested) => book'[m].ip = book[m].ip
         /\ \A n \in Client \ {m} : book'[n] = book[n]
         /\ book'[m] # Allocator!NoEntry
         /\ IF static[m] # NoAddr THEN book'[m].static /\ book'[m].ip = static[m]
                                  ELSE ~book'[m].static /\ book'[m].ip \in Pool
         /\ \A n \in Client \ {m} : book[n].ip = book'[m].ip => Shared(m, n)
<1>1. book[m].ip # NoAddr => book[m] # Allocator!NoEntry
  BY EntryFields
<1>2. book \in [Client -> Entry] /\ static \in Bindings
  BY DEF TypeOK
<1>3. CASE static[m] # NoAddr /\ Allocator!EnterStatic(m, static[m])
  <2>1. static[m] \in Addr
    BY <1>2, <1>3, Addresses
  <2>2. book' = [book EXCEPT ![m] = [ip |-> static[m], static |-> TRUE, contested |-> FALSE]]
    BY <1>3 DEF Allocator!EnterStatic
  <2>3. book'[m] = [ip |-> static[m], static |-> TRUE, contested |-> FALSE]
    BY <1>2, <2>2
  <2>4. \A n \in Client \ {m} : book'[n] = book[n]
    BY <1>2, <2>2
  <2>5. book' \in [Client -> Entry]
    BY <1>2, <2>1, <2>2 DEF Entry
  <2>6. book'[m] # Allocator!NoEntry
    BY <2>1, <2>3, Addresses DEF Allocator!NoEntry
  <2>7. book[m].ip # NoAddr => book'[m].ip = book[m].ip
    BY <1>1, <1>3, <2>3 DEF BookKept
  <2>8. ASSUME NEW n \in Client \ {m}, book[n].ip = static[m] PROVE static[n] # NoAddr
    <3>1. book[n].static
      BY <1>3, <2>8 DEF Allocator!EnterStatic
    <3>2. book[n] # Allocator!NoEntry
      BY <2>1, <2>8, Addresses DEF Allocator!NoEntry
    <3> QED BY <3>1, <3>2 DEF BookKept
  <2>9. reserved' = reserved
    BY <1>3 DEF Allocator!EnterStatic
  <2> QED BY <1>3, <2>1, <2>3, <2>4, <2>5, <2>6, <2>7, <2>8, <2>9 DEF Shared
<1>4. CASE static[m] = NoAddr /\ \E v \in Pool : Allocator!Enter(m, v)
  <2>1. PICK v \in Pool : Allocator!Enter(m, v)
    BY <1>4
  <2>2. book' = [book EXCEPT ![m] = [ip |-> v, static |-> FALSE, contested |-> FALSE]]
    BY <2>1 DEF Allocator!Enter
  <2>3. book'[m] = [ip |-> v, static |-> FALSE, contested |-> FALSE]
    BY <1>2, <2>2
  <2>4. \A n \in Client \ {m} : book'[n] = book[n]
    BY <1>2, <2>2
  <2>5. v \in Addr
    BY Addresses
  <2>6. book' \in [Client -> Entry]
    BY <1>2, <2>2, <2>5 DEF Entry
  <2>7. book'[m] # Allocator!NoEntry
    BY <2>5, <2>3, Addresses DEF Allocator!NoEntry
  <2>8. (book[m].ip # NoAddr /\ ~book[m].contested) => book[m].ip = v
    BY <1>1, <1>4, <2>1 DEF BookKept, Allocator!Enter
  <2>9. \A n \in Client \ {m} : book[n].ip # v
    BY <2>1 DEF Allocator!Enter
  <2>10. reserved' = reserved
    BY <2>1 DEF Allocator!Enter
  <2> QED BY <1>4, <2>3, <2>4, <2>5, <2>6, <2>7, <2>8, <2>9, <2>10
<1> QED BY <1>3, <1>4 DEF Allocate

LEMMA AllocateKeeps ==
  ASSUME TypeOK, BookKept, NEW m \in Client, Allocate(m), UNCHANGED static
  PROVE  BookKept'
<1>1. \A n \in Client \ {m} : book'[n] = book[n]
  BY AllocateEnters
<1>2. \A n \in Client \ {m} : book[n].ip = book'[m].ip => Shared(m, n)
  BY AllocateEnters
<1>3. \A j, k \in Client : (j # k /\ book'[j].ip # NoAddr /\ book'[j].ip = book'[k].ip) => Shared(j, k)
  BY <1>1, <1>2 DEF BookKept, Shared
<1>4. \A n \in Client : book'[n] # Allocator!NoEntry =>
        IF static[n] # NoAddr THEN book'[n].static /\ book'[n].ip = static[n]
                              ELSE ~book'[n].static /\ book'[n].ip \in Pool
  BY <1>1, AllocateEnters DEF BookKept
<1> QED BY <1>3, <1>4 DEF BookKept, Shared, Allocator!NoEntry

(* An end, or a decline of v: entries go, or keep their address. *)
LEMMA EndFrees ==
  ASSUME TypeOK, BookKept, NEW S \in SUBSET Client, NEW R, Allocator!End(S, R)
  PROVE  /\ book' \in [Client -> Entry] /\ reserved' \subseteq Addr
         /\ \A n \in Client : book'[n] = IF n \in S THEN Allocator!NoEntry ELSE book[n]
<1>1. book' = [n \in Client |-> IF n \in S THEN Allocator!NoEntry ELSE book[n]]
  BY DEF Allocator!End
<1>2. Allocator!NoEntry \in Entry
  BY DEF Entry
<1>3. book' \in [Client -> Entry]
  BY <1>1, <1>2 DEF TypeOK
<1>4. reserved' \subseteq Addr
  BY DEF TypeOK, Allocator!End
<1> QED BY <1>1, <1>3, <1>4

LEMMA ContestKeeps ==
  ASSUME TypeOK, NEW v \in Addr, Allocator!Contest(v)
  PROVE  /\ book' \in [Client -> Entry] /\ reserved' \subseteq Addr
         /\ \A n \in Client : /\ book'[n].ip = book[n].ip /\ book'[n].static = book[n].static
                              /\ book'[n] # Allocator!NoEntry => book[n] # Allocator!NoEntry
                              /\ book'[n].contested =>
                                   book[n].contested \/ (book[n].ip = v /\ ~book[n].static)
<1>1. book' = [n \in Client |-> IF book[n].ip = v /\ ~book[n].static
                                THEN [book[n] EXCEPT !.contested = TRUE] ELSE book[n]]
  BY DEF Allocator!Contest
<1>2. reserved' \subseteq Addr
  BY DEF TypeOK, Allocator!Contest
<1>3. ASSUME NEW n \in Client
      PROVE  /\ book'[n] \in Entry
             /\ book'[n].ip = book[n].ip /\ book'[n].static = book[n].static
             /\ book'[n] # Allocator!NoEntry => book[n] # Allocator!NoEntry
             /\ book'[n].contested => book[n].contested \/ (book[n].ip = v /\ ~book[n].static)
  <2>1. CASE ~(book[n].ip = v /\ ~book[n].static)
    BY <1>1, <2>1, EntryFields
  <2>2. CASE book[n].ip = v /\ ~book[n].static
    <3>1. book[n] # Allocator!NoEntry
      BY <2>2, EntryFields, Addresses
    <3>2. book[n] \in [ip : Addr, static : BOOLEAN, contested : BOOLEAN]
      BY <3>1, EntryFields DEF Entry
    <3>3. book'[n] = [book[n] EXCEPT !.contested = TRUE]
      BY <1>1, <2>2
    <3>4. book'[n] = [ip |-> book[n].ip, static |-> book[n].static, contested |-> TRUE]
      BY <3>2, <3>3
    <3> QED BY <2>2, <3>1, <3>2, <3>4 DEF Entry
  <2> QED BY <2>1, <2>2
<1> QED BY <1>1, <1>2, <1>3

(* Entries that end or keep their address keep the book. *)
LEMMA FewerKeep ==
  ASSUME BookKept, UNCHANGED static,
         \A n \in Client : \/ book'[n] = Allocator!NoEntry
                           \/ /\ book'[n].ip = book[n].ip /\ book'[n].static = book[n].static
                              /\ book'[n] # Allocator!NoEntry => book[n] # Allocator!NoEntry
  PROVE  BookKept'
<1>1. \A n \in Client : book'[n].ip # NoAddr =>
        book'[n].ip = book[n].ip /\ book'[n].static = book[n].static
  BY DEF Allocator!NoEntry
<1>2. \A j, k \in Client : (j # k /\ book'[j].ip # NoAddr /\ book'[j].ip = book'[k].ip) => Shared(j, k)
  BY <1>1 DEF BookKept, Shared
<1>3. \A n \in Client : book'[n] # Allocator!NoEntry =>
        IF static[n] # NoAddr THEN book'[n].static /\ book'[n].ip = static[n]
                              ELSE ~book'[n].static /\ book'[n].ip \in Pool
  BY DEF BookKept
<1> QED BY <1>2, <1>3 DEF BookKept, Shared, Allocator!NoEntry

LEMMA BookUntouched ==
  ASSUME BookKept, UNCHANGED <<static, book>>
  PROVE  BookKept'
BY DEF BookKept, Shared, Allocator!NoEntry

-----------------------------------------------------------------------------
(* The handlers' steps. *)

LEMMA RequestType ==
  ASSUME TypeOK, NEW m \in Client
  PROVE  Request(m) \in [archs : {<<>>} \cup {Archs[n] : n \in Client},
                         userClass : {"iPXE", "none"}, vendorClass : {"iPXE", "none"}]
BY DEF Request

LEMMA StepReceive ==
  ASSUME BInv, NEW m \in Client, NEW mt \in {"discover", "request"}, Receive(m, mt)
  PROVE  BInv'
<1> DEFINE h == [mac |-> m, type |-> mt, ip |-> book'[m].ip, req |-> Request(m), gate |-> "unread"]
<1>1. /\ TypeOK /\ BookKept /\ AsEntered /\ FarewellsOwn /\ ContestedUnused /\ GatedSinceAsked
      /\ Waits(m) /\ Allocate(m) /\ handlers' = handlers \cup {h}
      /\ UNCHANGED <<static, deployed, saved, replies, farewells, imaged, stage, addr, asked>>
  BY DEF BInv, Receive, Machines
<1>2. /\ book' \in [Client -> Entry] /\ reserved' = reserved
      /\ book'[m].ip \in Addr /\ ~book'[m].contested
      /\ (book[m].ip # NoAddr /\ ~book[m].contested) => book'[m].ip = book[m].ip
      /\ \A n \in Client \ {m} : book'[n] = book[n]
  BY <1>1, AllocateEnters
<1>3. h \in Handler
  BY <1>1, <1>2, RequestType DEF Handler
<1>4. TypeOK'
  <2>1. handlers' \subseteq Handler
    BY <1>1, <1>3 DEF TypeOK
  <2> HIDE DEF h
  <2> QED BY <1>1, <1>2, <2>1 DEF TypeOK
<1>5. BookKept'
  BY <1>1, AllocateKeeps
<1>6. AsEntered'
  <2>1. \A x \in handlers \cup replies : x.mac = m => book[m].ip # NoAddr /\ ~book[m].contested
    BY <1>1, Addresses DEF AsEntered, ContestedUnused, TypeOK, Handler, ReplyRecord
  <2>2. \A n \in Client : addr[n] # NoAddr => book'[n].ip = addr[n]
    BY <1>1, <1>2 DEF AsEntered, ContestedUnused
  <2>3. \A x \in handlers : Waits(x.mac) /\ book'[x.mac].ip = x.ip
    BY <1>1, <1>2, <2>1 DEF AsEntered, TypeOK, Handler
  <2>4. \A x \in replies : Waits(x.mac) /\ book'[x.mac].ip = x.ip
    BY <1>1, <1>2, <2>1 DEF AsEntered, TypeOK, ReplyRecord
  <2> QED BY <1>1, <2>2, <2>3, <2>4 DEF AsEntered, Waits
<1>7. FarewellsOwn'
  BY <1>1, <1>2 DEF FarewellsOwn, Waits, TypeOK, RequestedOrClientIP
<1>8. ContestedUnused'
  BY <1>1, <1>2 DEF ContestedUnused
<1>9. GatedSinceAsked'
  BY <1>1 DEF GatedSinceAsked
<1> QED BY <1>4, <1>5, <1>6, <1>7, <1>8, <1>9 DEF BInv

LEMMA StepReceiveLate ==
  ASSUME BInv, NEW m \in Client, ReceiveLate(m)
  PROVE  BInv'
<1>1. /\ TypeOK /\ BookKept /\ AsEntered /\ FarewellsOwn /\ ContestedUnused /\ GatedSinceAsked
      /\ Allocate(m)
      /\ UNCHANGED <<static, deployed, saved, handlers, replies, farewells, imaged, stage, addr, asked>>
  BY DEF BInv, ReceiveLate, Machines
<1>2. /\ book' \in [Client -> Entry] /\ reserved' = reserved
      /\ book'[m].ip \in Addr /\ ~book'[m].contested
      /\ (book[m].ip # NoAddr /\ ~book[m].contested) => book'[m].ip = book[m].ip
      /\ \A n \in Client \ {m} : book'[n] = book[n]
  BY <1>1, AllocateEnters
<1>3. TypeOK'
  BY <1>1, <1>2 DEF TypeOK
<1>4. BookKept'
  BY <1>1, AllocateKeeps
<1>5. AsEntered'
  <2>1. \A x \in handlers \cup replies : x.mac = m => book[m].ip # NoAddr /\ ~book[m].contested
    BY <1>1, Addresses DEF AsEntered, ContestedUnused, TypeOK, Handler, ReplyRecord
  <2>2. \A n \in Client : addr[n] # NoAddr => book'[n].ip = addr[n]
    BY <1>1, <1>2 DEF AsEntered, ContestedUnused
  <2>3. \A x \in handlers : book'[x.mac].ip = x.ip
    BY <1>1, <1>2, <2>1 DEF AsEntered, TypeOK, Handler
  <2>4. \A x \in replies : book'[x.mac].ip = x.ip
    BY <1>1, <1>2, <2>1 DEF AsEntered, TypeOK, ReplyRecord
  <2> QED BY <1>1, <2>2, <2>3, <2>4 DEF AsEntered, Waits
<1>6. FarewellsOwn'
  <2>1. \A f \in farewells : RequestedOrClientIP(f) # NoAddr =>
          book'[f.mac].ip = RequestedOrClientIP(f)
    BY <1>1, <1>2 DEF FarewellsOwn, ContestedUnused, TypeOK
  <2> QED BY <1>1, <2>1 DEF FarewellsOwn, Waits, RequestedOrClientIP
<1>7. ContestedUnused'
  BY <1>1, <1>2 DEF ContestedUnused
<1>8. GatedSinceAsked'
  BY <1>1 DEF GatedSinceAsked
<1> QED BY <1>3, <1>4, <1>5, <1>6, <1>7, <1>8 DEF BInv

LEMMA StepGate ==
  ASSUME BInv, NEW h \in handlers, Gate(h)
  PROVE  BInv'
<1> DEFINE g == [h EXCEPT !.gate = IF h.mac \in deployed THEN "deployed" ELSE "open"]
<1>1. /\ TypeOK /\ BookKept /\ AsEntered /\ FarewellsOwn /\ ContestedUnused /\ GatedSinceAsked
      /\ handlers' = (handlers \ {h}) \cup {g}
      /\ UNCHANGED <<static, book, reserved, deployed, saved, replies, farewells, imaged, stage, addr, asked>>
  BY DEF BInv, Gate, Machines
<1>2. h \in Handler
  BY <1>1 DEF TypeOK
<1>3. g \in Handler /\ g.mac = h.mac /\ g.ip = h.ip
      /\ g.gate = IF h.mac \in deployed THEN "deployed" ELSE "open"
  BY <1>2 DEF Handler
<1> HIDE DEF g
<1>4. TypeOK'
  <2>1. handlers' \subseteq Handler
    BY <1>1, <1>3 DEF TypeOK
  <2> QED BY <1>1, <2>1 DEF TypeOK
<1>5. AsEntered'
  BY <1>1, <1>3 DEF AsEntered, Waits
<1>6. GatedSinceAsked'
  <2>1. g.gate = "open" => asked[g.mac] \in {"new", "lost"}
    BY <1>1, <1>2, <1>3 DEF GatedSinceAsked, AsEntered, Waits, Handler
  <2> QED BY <1>1, <2>1 DEF GatedSinceAsked
<1>7. FarewellsOwn' /\ ContestedUnused'
  BY <1>1, <1>3 DEF FarewellsOwn, ContestedUnused, Waits, RequestedOrClientIP
<1> QED BY <1>1, <1>4, <1>5, <1>6, <1>7, BookUntouched DEF BInv

LEMMA AnswerType ==
  ASSUME NEW h \in Handler
  PROVE  /\ Answer(h).type = "ack" => Answer(h) \in ReplyRecord
         /\ Answer(h).mac = h.mac /\ Answer(h).ip = h.ip
         /\ h.gate = "deployed" => Answer(h).boot = "none"
<1>1. SelectBoot(h.req) \in IPXEFiles \cup {"boot.ipxe", "none"}
  BY DEF SelectBoot, FirmwareBootfile, IPXEFiles
<1> QED BY <1>1 DEF Answer, ReplyRecord, Handler

LEMMA StepReply ==
  ASSUME BInv, NEW h \in handlers, Reply(h)
  PROVE  BInv'
<1> DEFINE r == Answer(h)
<1>1. /\ TypeOK /\ BookKept /\ AsEntered /\ FarewellsOwn /\ ContestedUnused /\ GatedSinceAsked
      /\ h.gate # "unread" /\ handlers' = handlers \ {h} /\ replies' \subseteq replies \cup {r}
      /\ replies' = replies \/ r.type = "ack"
      /\ UNCHANGED <<static, book, reserved, deployed, saved, farewells, imaged, stage, addr, asked>>
  BY DEF BInv, Reply, Machines
<1>2. h \in Handler
  BY <1>1 DEF TypeOK
<1>3. (r.type = "ack" => r \in ReplyRecord) /\ r.mac = h.mac /\ r.ip = h.ip /\ (h.gate = "deployed" => r.boot = "none")
  BY <1>2, AnswerType
<1>4. h.gate = "deployed" \/ h.gate = "open"
  BY <1>1, <1>2 DEF Handler
<1> HIDE DEF r
<1>5. TypeOK'
  <2>1. replies' \subseteq ReplyRecord /\ handlers' \subseteq Handler
    BY <1>1, <1>3 DEF TypeOK
  <2> QED BY <1>1, <2>1 DEF TypeOK
<1>6. AsEntered'
  BY <1>1, <1>3 DEF AsEntered, Waits
<1>7. GatedSinceAsked'
  BY <1>1, <1>3, <1>4 DEF GatedSinceAsked
<1>8. FarewellsOwn'
  BY <1>1 DEF FarewellsOwn, Waits, RequestedOrClientIP
<1>9. ContestedUnused'
  BY <1>1, <1>3 DEF ContestedUnused
<1> QED BY <1>1, <1>5, <1>6, <1>7, <1>8, <1>9, BookUntouched DEF BInv

LEMMA StepFarewell ==
  ASSUME BInv, NEW f \in farewells, Farewell(f)
  PROVE  BInv'
<1> DEFINE v == RequestedOrClientIP(f)
           Own == {m \in {f.mac} : book[m].ip = f.ciaddr}
<1>1. /\ TypeOK /\ BookKept /\ AsEntered /\ FarewellsOwn /\ ContestedUnused /\ GatedSinceAsked
      /\ farewells' = farewells \ {f}
      /\ UNCHANGED <<static, deployed, saved, handlers, replies, imaged, stage, addr, asked>>
  BY DEF BInv, Farewell, Machines
<1>2. /\ f.mac \in Client /\ v \in Addr \cup {NoAddr}
      /\ ~Waits(f.mac) /\ addr[f.mac] = NoAddr
      /\ v # NoAddr => book[f.mac].ip = v
  BY <1>1 DEF TypeOK, FarewellsOwn, RequestedOrClientIP
<1>3. \A x \in farewells' : x \in farewells /\ x.mac # f.mac
  BY <1>1 DEF FarewellsOwn
<1>4. \A x \in handlers \cup replies : x.mac # f.mac /\ x.mac \in Client
  BY <1>1, <1>2 DEF AsEntered, TypeOK, Handler, ReplyRecord
<1>5. CASE Allocator!End(Own, {})
  <2>1. /\ book' \in [Client -> Entry] /\ reserved' \subseteq Addr
        /\ \A n \in Client : book'[n] = IF n \in Own THEN Allocator!NoEntry ELSE book[n]
    <3>1. Own \in SUBSET Client
      BY <1>2
    <3> HIDE DEF Own
    <3> QED BY <1>1, <1>5, <3>1, EndFrees
  <2>2. \A n \in Client \ {f.mac} : book'[n] = book[n]
    BY <2>1
  <2>3. ~book'[f.mac].contested \/ book'[f.mac] = book[f.mac]
    BY <1>2, <2>1 DEF Allocator!NoEntry
  <2>4. TypeOK'
    BY <1>1, <2>1 DEF TypeOK
  <2>5. BookKept'
    BY <1>1, <2>1, FewerKeep
  <2>6. AsEntered'
    BY <1>1, <1>2, <1>4, <2>2 DEF AsEntered, Waits
  <2>7. FarewellsOwn'
    BY <1>1, <1>3, <2>2 DEF FarewellsOwn, Waits, RequestedOrClientIP, TypeOK
  <2>8. ContestedUnused'
    BY <1>1, <1>2, <1>3, <1>4, <2>2, <2>3 DEF ContestedUnused
  <2> QED BY <1>1, <2>4, <2>5, <2>6, <2>7, <2>8 DEF BInv, GatedSinceAsked
<1>6. CASE v # NoAddr /\ Allocator!Contest(v)
  <2>1. v \in Addr
    BY <1>2, <1>6
  <2> HIDE DEF v
  <2>2. /\ book' \in [Client -> Entry] /\ reserved' \subseteq Addr
        /\ \A n \in Client : /\ book'[n].ip = book[n].ip /\ book'[n].static = book[n].static
                             /\ book'[n] # Allocator!NoEntry => book[n] # Allocator!NoEntry
                             /\ book'[n].contested =>
                                  book[n].contested \/ (book[n].ip = v /\ ~book[n].static)
    BY <1>1, <1>6, <2>1, ContestKeeps
  <2>3. TypeOK'
    BY <1>1, <2>2 DEF TypeOK
  <2>4. BookKept'
    BY <1>1, <2>2, FewerKeep
  <2>5. AsEntered'
    BY <1>1, <1>4, <2>2 DEF AsEntered, Waits
  <2>6. FarewellsOwn'
    BY <1>1, <1>3, <2>2 DEF FarewellsOwn, Waits, RequestedOrClientIP, TypeOK
  <2>7. \A n \in Client \ {f.mac} : book[n].ip = v => book[n].static
    <3> SUFFICES ASSUME NEW n \in Client \ {f.mac}, book[n].ip = v PROVE book[n].static
      OBVIOUS
    <3>1. Shared(n, f.mac)
      BY <1>1, <1>2, <1>6 DEF BookKept
    <3>2. book[n] # Allocator!NoEntry
      BY <1>6 DEF Allocator!NoEntry
    <3> QED BY <1>1, <3>1, <3>2 DEF BookKept, Shared
  <2>8. ContestedUnused'
    <3> SUFFICES ASSUME NEW n \in Client, book'[n].contested
                 PROVE  addr[n] = NoAddr
                        /\ \A x \in handlers \cup replies \cup farewells' : x.mac # n
      BY <1>1 DEF ContestedUnused
    <3>1. CASE n = f.mac
      BY <1>2, <1>3, <1>4, <3>1
    <3>2. CASE n # f.mac
      BY <1>1, <1>3, <2>2, <2>7, <3>2 DEF ContestedUnused
    <3> QED BY <3>1, <3>2
  <2> QED BY <1>1, <2>3, <2>4, <2>5, <2>6, <2>8 DEF BInv, GatedSinceAsked
<1>7. CASE UNCHANGED <<book, reserved>>
  <2>1. TypeOK'
    BY <1>1, <1>7 DEF TypeOK
  <2>2. AsEntered'
    BY <1>1, <1>7 DEF AsEntered, Waits
  <2>3. FarewellsOwn'
    BY <1>1, <1>3, <1>7 DEF FarewellsOwn, Waits, RequestedOrClientIP
  <2>4. ContestedUnused'
    BY <1>1, <1>3, <1>7 DEF ContestedUnused
  <2> QED BY <1>1, <1>7, <2>1, <2>2, <2>3, <2>4, BookUntouched DEF BInv, GatedSinceAsked
<1> QED BY <1>5, <1>6, <1>7 DEF Farewell

LEMMA StepRestart ==
  ASSUME BInv, Restart
  PROVE  BInv'
<1>1. /\ TypeOK /\ BookKept /\ AsEntered /\ FarewellsOwn /\ ContestedUnused /\ GatedSinceAsked
      /\ handlers' = {} /\ imaged' = {} /\ deployed' = saved /\ saved' = saved
      /\ asked' = [m \in Client |-> IF Waits(m) /\ m \in deployed \ saved THEN "lost" ELSE asked[m]]
      /\ UNCHANGED <<static, book, reserved, replies, farewells, stage, addr>>
  BY DEF BInv, Restart, Tracker!Reload
<1>2. \A m \in Client : asked'[m] = IF Waits(m) /\ m \in deployed \ saved THEN "lost" ELSE asked[m]
  BY <1>1
<1>3. \A m \in Client : Waits(m)' <=> Waits(m)
  BY <1>2 DEF Waits
<1>4. TypeOK'
  <2>1. asked' \in [Client -> {"never", "no", "new", "deployed", "lost"}]
    BY <1>1 DEF TypeOK
  <2> QED BY <1>1, <2>1 DEF TypeOK
<1>5. AsEntered' /\ ContestedUnused'
  BY <1>1, <1>3 DEF AsEntered, ContestedUnused, TypeOK, ReplyRecord
<1>6. FarewellsOwn'
  BY <1>1, <1>3 DEF FarewellsOwn, TypeOK, RequestedOrClientIP
<1>7. GatedSinceAsked'
  <2>1. \A m \in Client : asked'[m] = "deployed" => m \in saved
    BY <1>1, <1>2 DEF GatedSinceAsked, Waits
  <2>2. \A r \in replies : r.boot # "none" => asked'[r.mac] \in {"new", "lost"}
    BY <1>1, <1>2 DEF GatedSinceAsked, TypeOK, ReplyRecord
  <2> QED BY <1>1, <2>1, <2>2 DEF GatedSinceAsked
<1> QED BY <1>1, <1>4, <1>5, <1>6, <1>7, BookUntouched DEF BInv

-----------------------------------------------------------------------------
(* The machines' steps. *)

LEMMA StepPowerOn ==
  ASSUME BInv, NEW m \in Client, PowerOn(m)
  PROVE  BInv'
<1>1. /\ TypeOK /\ BookKept /\ AsEntered /\ FarewellsOwn /\ ContestedUnused /\ GatedSinceAsked
      /\ addr' = [addr EXCEPT ![m] = NoAddr]
      /\ asked' = [asked EXCEPT ![m] = IF asked[m] = "never" THEN "never" ELSE "no"]
      /\ handlers' = {h \in handlers : h.mac # m} /\ replies' = {r \in replies : r.mac # m}
      /\ UNCHANGED <<static, book, reserved, deployed, saved, farewells, imaged>>
  BY DEF BInv, PowerOn, Leave
<1>2. asked'[m] \in {"never", "no"} /\ \A n \in Client \ {m} : asked'[n] = asked[n]
  BY <1>1 DEF TypeOK
<1>3. addr'[m] = NoAddr /\ \A n \in Client \ {m} : addr'[n] = addr[n]
  BY <1>1 DEF TypeOK
<1>4. TypeOK'
  <2>1. stage' \in [Client -> {"off", "firmware", "ipxe", "ramdisk", "disk"}]
    BY <1>1 DEF TypeOK, PowerOn
  <2>2. asked' \in [Client -> {"never", "no", "new", "deployed", "lost"}]
    BY <1>1 DEF TypeOK
  <2>3. addr' \in [Client -> Addr \cup {NoAddr}]
    BY <1>1 DEF TypeOK
  <2> QED BY <1>1, <2>1, <2>2, <2>3 DEF TypeOK
<1>5. AsEntered'
  BY <1>1, <1>2, <1>3 DEF AsEntered, Waits, TypeOK, Handler, ReplyRecord
<1>6. FarewellsOwn'
  BY <1>1, <1>2, <1>3 DEF FarewellsOwn, Waits, RequestedOrClientIP, TypeOK
<1>7. ContestedUnused'
  BY <1>1, <1>3 DEF ContestedUnused
<1>8. GatedSinceAsked'
  BY <1>1, <1>2 DEF GatedSinceAsked, TypeOK, Handler, ReplyRecord
<1> QED BY <1>1, <1>4, <1>5, <1>6, <1>7, <1>8, BookUntouched DEF BInv

LEMMA StepAsk ==
  ASSUME BInv, NEW m \in Client, Ask(m)
  PROVE  BInv'
<1>1. /\ TypeOK /\ BookKept /\ AsEntered /\ FarewellsOwn /\ ContestedUnused /\ GatedSinceAsked
      /\ asked' = [asked EXCEPT ![m] = IF m \in deployed THEN "deployed" ELSE "new"]
      /\ handlers' = {h \in handlers : h.mac # m} /\ replies' = {r \in replies : r.mac # m}
      /\ farewells' = {f \in farewells : f.mac # m}
      /\ UNCHANGED <<static, book, reserved, deployed, saved, imaged, stage, addr>>
  BY DEF BInv, Ask, Leave
<1>2. /\ asked'[m] = IF m \in deployed THEN "deployed" ELSE "new"
      /\ \A n \in Client \ {m} : asked'[n] = asked[n]
  BY <1>1 DEF TypeOK
<1>3. TypeOK'
  <2>1. asked' \in [Client -> {"never", "no", "new", "deployed", "lost"}]
    BY <1>1 DEF TypeOK
  <2> QED BY <1>1, <2>1 DEF TypeOK
<1>4. AsEntered'
  BY <1>1, <1>2 DEF AsEntered, Waits, TypeOK, Handler, ReplyRecord
<1>5. FarewellsOwn'
  BY <1>1, <1>2 DEF FarewellsOwn, Waits, RequestedOrClientIP, TypeOK
<1>6. ContestedUnused'
  BY <1>1 DEF ContestedUnused
<1>7. GatedSinceAsked'
  BY <1>1, <1>2 DEF GatedSinceAsked, TypeOK, Handler, ReplyRecord
<1> QED BY <1>1, <1>3, <1>4, <1>5, <1>6, <1>7, BookUntouched DEF BInv

LEMMA StepTake ==
  ASSUME BInv, NEW r \in replies, Take(r)
  PROVE  BInv'
<1> DEFINE m == r.mac
<1>1. /\ TypeOK /\ BookKept /\ AsEntered /\ FarewellsOwn /\ ContestedUnused /\ GatedSinceAsked
      /\ addr' = [addr EXCEPT ![m] = r.ip]
      /\ stage' = [stage EXCEPT ![m] = NextStage(stage[m], r)]
      /\ asked' = [asked EXCEPT ![m] = "no"]
      /\ handlers' = {h \in handlers : h.mac # m} /\ replies' = {x \in replies : x.mac # m}
      /\ UNCHANGED <<static, book, reserved, deployed, saved, farewells, imaged>>
  BY DEF BInv, Take, Leave
<1>2. /\ m \in Client /\ r.ip \in Addr /\ Waits(m) /\ book[m].ip = r.ip /\ ~book[m].contested
  BY <1>1 DEF TypeOK, ReplyRecord, AsEntered, ContestedUnused
<1> HIDE DEF m
<1>3. asked'[m] = "no" /\ \A n \in Client \ {m} : asked'[n] = asked[n]
  BY <1>1, <1>2 DEF TypeOK
<1>4. addr'[m] = r.ip /\ \A n \in Client \ {m} : addr'[n] = addr[n]
  BY <1>1, <1>2 DEF TypeOK
<1>5. TypeOK'
  <2>1. NextStage(stage[m], r) \in {"ipxe", "ramdisk", "disk"}
    BY DEF NextStage
  <2>2. stage' \in [Client -> {"off", "firmware", "ipxe", "ramdisk", "disk"}]
    BY <1>1, <2>1 DEF TypeOK
  <2>3. asked' \in [Client -> {"never", "no", "new", "deployed", "lost"}]
    BY <1>1 DEF TypeOK
  <2>4. addr' \in [Client -> Addr \cup {NoAddr}]
    BY <1>1, <1>2 DEF TypeOK
  <2> QED BY <1>1, <2>2, <2>3, <2>4 DEF TypeOK
<1>6. AsEntered'
  BY <1>1, <1>2, <1>3, <1>4 DEF AsEntered, Waits, TypeOK, Handler, ReplyRecord
<1>7. FarewellsOwn'
  <2>1. \A f \in farewells : f.mac \in Client \ {m}
    BY <1>1, <1>2 DEF FarewellsOwn, TypeOK
  <2> QED BY <1>1, <1>3, <1>4, <2>1 DEF FarewellsOwn, Waits, RequestedOrClientIP
<1>8. ContestedUnused'
  BY <1>1, <1>2, <1>4 DEF ContestedUnused
<1>9. GatedSinceAsked'
  BY <1>1, <1>3 DEF GatedSinceAsked, TypeOK, Handler, ReplyRecord
<1> QED BY <1>1, <1>5, <1>6, <1>7, <1>8, <1>9, BookUntouched DEF BInv

LEMMA StepGiveUp ==
  ASSUME BInv, NEW m \in Client, GiveUp(m)
  PROVE  BInv'
<1>1. PICK f \in [mac : {m}, type : {"release", "decline"},
                  ciaddr : {addr[m], NoAddr}, requested : {addr[m], NoAddr}] :
        farewells' = farewells \cup {f}
  BY DEF GiveUp
<1>2. /\ TypeOK /\ BookKept /\ AsEntered /\ FarewellsOwn /\ ContestedUnused /\ GatedSinceAsked
      /\ addr[m] # NoAddr /\ ~Waits(m) /\ addr' = [addr EXCEPT ![m] = NoAddr]
      /\ UNCHANGED <<static, book, reserved, deployed, saved, handlers, replies, imaged, stage, asked>>
  BY DEF BInv, GiveUp
<1>3. addr'[m] = NoAddr /\ \A n \in Client \ {m} : addr'[n] = addr[n]
  BY <1>2 DEF TypeOK
<1>4. \A x \in farewells : x.mac \in Client \ {m}
  BY <1>2 DEF FarewellsOwn, TypeOK
<1>5. /\ f.mac = m /\ f.type \in {"release", "decline"}
      /\ f.ciaddr \in {addr[m], NoAddr} /\ f.requested \in {addr[m], NoAddr}
  BY <1>1
<1>6. RequestedOrClientIP(f) # NoAddr => book[m].ip = RequestedOrClientIP(f)
  BY <1>2, <1>5 DEF RequestedOrClientIP, AsEntered
<1>7. TypeOK'
  <2>1. f \in [mac : Client, type : {"release", "decline"},
               ciaddr : Addr \cup {NoAddr}, requested : Addr \cup {NoAddr}]
    BY <1>1, <1>2 DEF TypeOK
  <2>2. addr' \in [Client -> Addr \cup {NoAddr}]
    BY <1>2 DEF TypeOK
  <2> QED BY <1>1, <1>2, <2>1, <2>2 DEF TypeOK
<1>8. AsEntered'
  BY <1>2, <1>3 DEF AsEntered, Waits
<1>9. FarewellsOwn'
  <2>1. \A x \in farewells' : ~Waits(x.mac) /\ addr'[x.mac] = NoAddr
    BY <1>1, <1>2, <1>3, <1>4, <1>5 DEF FarewellsOwn
  <2>2. \A x, y \in farewells' : x.mac = y.mac => x = y
    BY <1>1, <1>2, <1>4, <1>5 DEF FarewellsOwn
  <2>3. \A x \in farewells' : RequestedOrClientIP(x) # NoAddr => book[x.mac].ip = RequestedOrClientIP(x)
    BY <1>1, <1>2, <1>5, <1>6 DEF FarewellsOwn
  <2> QED BY <1>2, <2>1, <2>2, <2>3 DEF FarewellsOwn, Waits, RequestedOrClientIP
<1>10. ContestedUnused'
  BY <1>1, <1>2, <1>3, <1>5 DEF ContestedUnused
<1> QED BY <1>2, <1>7, <1>8, <1>9, <1>10, BookUntouched DEF BInv, GatedSinceAsked

LEMMA StepLapse ==
  ASSUME BInv, NEW S \in SUBSET Client, NEW R, Lapse(S, R)
  PROVE  BInv'
<1>1. /\ TypeOK /\ BookKept /\ AsEntered /\ FarewellsOwn /\ ContestedUnused /\ GatedSinceAsked
      /\ \A n \in S : addr[n] = NoAddr /\ ~Waits(n)
      /\ farewells' = {f \in farewells : f.mac \notin S}
      /\ UNCHANGED <<static, deployed, saved, handlers, replies, imaged, stage, addr, asked>>
  BY DEF BInv, Lapse, Machines
<1>2. /\ book' \in [Client -> Entry] /\ reserved' \subseteq Addr
      /\ \A n \in Client : book'[n] = IF n \in S THEN Allocator!NoEntry ELSE book[n]
  BY <1>1, EndFrees DEF Lapse
<1>3. TypeOK'
  BY <1>1, <1>2 DEF TypeOK
<1>4. BookKept'
  BY <1>1, <1>2, FewerKeep
<1>5. AsEntered'
  BY <1>1, <1>2 DEF AsEntered, Waits, TypeOK, Handler, ReplyRecord
<1>6. FarewellsOwn'
  BY <1>1, <1>2 DEF FarewellsOwn, Waits, RequestedOrClientIP, TypeOK
<1>7. ContestedUnused'
  BY <1>1, <1>2 DEF ContestedUnused, Allocator!NoEntry
<1> QED BY <1>1, <1>3, <1>4, <1>5, <1>6, <1>7 DEF BInv, GatedSinceAsked

LEMMA StepRecord ==
  ASSUME BInv, NEW m \in Client, RunImage(m) \/ Record(m)
  PROVE  BInv'
<1>1. /\ BookKept /\ deployed \subseteq deployed'
      /\ UNCHANGED <<static, book, reserved, handlers, replies, farewells, stage, addr, asked>>
  BY DEF BInv, RunImage, Record, Tracker!Change
<1>2. deployed' \subseteq Client /\ saved' \subseteq deployed' /\ imaged' \subseteq Client
  BY DEF BInv, TypeOK, RunImage, Record, Tracker!Change
<1>3. TypeOK'
  BY <1>1, <1>2 DEF BInv, TypeOK
<1>4. AsEntered' /\ ContestedUnused' /\ GatedSinceAsked'
  BY <1>1 DEF BInv, AsEntered, ContestedUnused, GatedSinceAsked, Waits
<1>5. FarewellsOwn'
  BY <1>1 DEF BInv, FarewellsOwn, Waits, RequestedOrClientIP
<1> QED BY <1>1, <1>3, <1>4, <1>5, BookUntouched DEF BInv

-----------------------------------------------------------------------------

LEMMA InitInv == Init => BInv
<1> SUFFICES ASSUME Init PROVE BInv
  OBVIOUS
<1>1. book = [n \in Client |-> Allocator!NoEntry] /\ reserved = {}
  BY DEF Init, Allocator!BookInit
<1>2. TypeOK
  BY <1>1 DEF Init, Tracker!SetInit, TypeOK, Entry
<1>3. BookKept
  BY <1>1 DEF BookKept, Allocator!NoEntry
<1>4. AsEntered /\ FarewellsOwn /\ ContestedUnused /\ GatedSinceAsked
  BY <1>1 DEF Init, AsEntered, FarewellsOwn, ContestedUnused, GatedSinceAsked, Allocator!NoEntry
<1> QED BY <1>2, <1>3, <1>4 DEF BInv

LEMMA StutterInv == BInv /\ UNCHANGED vars => BInv'
<1> SUFFICES ASSUME BInv, UNCHANGED vars PROVE BInv'
  OBVIOUS
<1>1. BookKept /\ UNCHANGED <<static, book, reserved, deployed, saved, handlers, replies, farewells,
                               imaged, stage, addr, asked>>
  BY DEF BInv, vars
<1>2. TypeOK'
  BY <1>1 DEF BInv, TypeOK
<1>3. AsEntered' /\ ContestedUnused' /\ GatedSinceAsked'
  BY <1>1 DEF BInv, AsEntered, ContestedUnused, GatedSinceAsked, Waits
<1>4. FarewellsOwn'
  BY <1>1 DEF BInv, FarewellsOwn, Waits, RequestedOrClientIP
<1> QED BY <1>1, <1>2, <1>3, <1>4, BookUntouched DEF BInv

LEMMA StepInv == BInv /\ [Next]_vars => BInv'
<1> SUFFICES ASSUME BInv, [Next]_vars PROVE BInv'
  OBVIOUS
<1>0. \A r \in replies : r.mac \in Client
  BY DEF BInv, TypeOK, ReplyRecord
<1>1. ASSUME NEW m \in Client, NEW mt \in {"discover", "request"}, Receive(m, mt) PROVE BInv'
  BY <1>1, StepReceive
<1>2. ASSUME NEW m \in Client,
             ReceiveLate(m) \/ PowerOn(m) \/ Ask(m) \/ GiveUp(m) \/ RunImage(m) \/ Record(m)
      PROVE  BInv'
  BY <1>2, StepReceiveLate, StepPowerOn, StepAsk, StepGiveUp, StepRecord
<1>3. ASSUME NEW h \in handlers, Gate(h) \/ Reply(h) PROVE BInv'
  BY <1>3, StepGate, StepReply
<1>4. ASSUME NEW f \in farewells, Farewell(f) PROVE BInv'
  BY <1>4, StepFarewell
<1>5. ASSUME NEW r \in replies, Take(r) PROVE BInv'
  BY <1>5, StepTake
<1>6. ASSUME NEW S \in SUBSET Client, NEW R \in SUBSET reserved, Lapse(S, R) PROVE BInv'
  BY <1>6, StepLapse
<1> QED BY <1>1, <1>2, <1>3, <1>4, <1>5, <1>6, StepRestart, StutterInv DEF Next

LEMMA BookInvariant == Spec => []BInv
<1>1. BInv /\ [Next]_vars => BInv' BY StepInv
<1> QED BY InitInv, <1>1, PTL DEF Spec

-----------------------------------------------------------------------------
(* What is under way to a machine answers what it would ask now. *)

(* No new handler and no new answer, and none is left to a machine whose   *)
(* stage changes, or that asks anew.                                       *)
LEMMA FewerFit ==
  ASSUME AnswersFit, handlers' \subseteq handlers, replies' \subseteq replies,
         deployed \subseteq deployed',
         \A x \in handlers' \cup replies' :
           stage'[x.mac] = stage[x.mac] /\ asked'[x.mac] = asked[x.mac]
  PROVE  AnswersFit'
BY DEF AnswersFit, Request

LEMMA StepFit == BInv /\ AnswersFit /\ [Next]_vars => AnswersFit'
<1> SUFFICES ASSUME BInv, AnswersFit, [Next]_vars PROVE AnswersFit'
  OBVIOUS
<1>1. /\ handlers \subseteq Handler /\ replies \subseteq ReplyRecord
      /\ stage \in [Client -> {"off", "firmware", "ipxe", "ramdisk", "disk"}]
  BY DEF BInv, TypeOK
<1>2. ASSUME NEW m \in Client, NEW mt \in {"discover", "request"}, Receive(m, mt) PROVE AnswersFit'
  <2> DEFINE h == [mac |-> m, type |-> mt, ip |-> book'[m].ip, req |-> Request(m), gate |-> "unread"]
  <2>1. handlers' = handlers \cup {h} /\ UNCHANGED <<replies, deployed, stage, asked>>
    BY <1>2 DEF Receive, Machines
  <2>2. h.req = Request(h.mac) /\ h.gate # "deployed"
    OBVIOUS
  <2> HIDE DEF h
  <2> QED BY <2>1, <2>2 DEF AnswersFit, Request
<1>3. ASSUME NEW h \in handlers, Gate(h) PROVE AnswersFit'
  <2> DEFINE g == [h EXCEPT !.gate = IF h.mac \in deployed THEN "deployed" ELSE "open"]
  <2>1. handlers' = (handlers \ {h}) \cup {g} /\ UNCHANGED <<replies, deployed, stage, asked>>
    BY <1>3 DEF Gate, Machines
  <2>2. /\ g.req = h.req /\ g.mac = h.mac
        /\ g.gate = IF h.mac \in deployed THEN "deployed" ELSE "open"
    BY <1>1 DEF Handler
  <2> HIDE DEF g
  <2> QED BY <2>1, <2>2 DEF AnswersFit, Request
<1>4. ASSUME NEW h \in handlers, Reply(h) PROVE AnswersFit'
  <2> DEFINE r == Answer(h)
  <2>1. /\ h.gate # "unread" /\ handlers' = handlers \ {h} /\ replies' \subseteq replies \cup {r}
        /\ UNCHANGED <<deployed, stage, asked>>
    BY <1>4 DEF Reply, Machines
  <2>2. h.gate \in {"open", "deployed"} /\ h.req = Request(h.mac)
    BY <1>1, <2>1 DEF Handler, AnswersFit
  <2>3. \/ r.mac \in deployed
        \/ /\ r.boot = SelectBoot(Request(r.mac))
           /\ r.pxeClient = (DetectArch(Request(r.mac).archs) # "unknown")
    BY <2>2 DEF Answer, AnswersFit
  <2> HIDE DEF r
  <2> QED BY <2>1, <2>3 DEF AnswersFit, Request
<1>5. ASSUME NEW m \in Client, PowerOn(m) PROVE AnswersFit'
  BY <1>1, <1>5, FewerFit DEF PowerOn, Leave, Handler, ReplyRecord
<1>6. ASSUME NEW r \in replies, Take(r) PROVE AnswersFit'
  BY <1>1, <1>6, FewerFit DEF Take, Leave, Handler, ReplyRecord
<1>7. CASE /\ handlers' \subseteq handlers /\ replies' \subseteq replies
           /\ deployed \subseteq deployed' /\ stage' = stage /\ asked' = asked
  BY <1>7, FewerFit
<1>8. ASSUME NEW m \in Client, RunImage(m) \/ Record(m) \/ GiveUp(m) \/ ReceiveLate(m)
      PROVE  AnswersFit'
  BY <1>7, <1>8 DEF RunImage, Record, Tracker!Change, GiveUp, ReceiveLate, Machines
<1>9. ASSUME NEW m \in Client, Ask(m) PROVE AnswersFit'
  <2>1. asked \in [Client -> {"never", "no", "new", "deployed", "lost"}]
    BY DEF BInv, TypeOK
  <2> QED BY <1>1, <1>9, <2>1, FewerFit DEF Ask, Leave, Handler, ReplyRecord
<1>10. CASE Restart
  <2>1. /\ handlers' = {} /\ UNCHANGED <<replies, stage>> /\ deployed' = saved
        /\ asked' = [m \in Client |->
                      IF Waits(m) /\ m \in deployed \ saved THEN "lost" ELSE asked[m]]
    BY <1>10 DEF Restart, Tracker!Reload
  <2>2. \A r \in replies : Waits(r.mac) /\ r.mac \in Client
    BY <1>1 DEF BInv, AsEntered, ReplyRecord
  <2>3. ASSUME NEW r \in replies
        PROVE  \/ asked'[r.mac] = "lost"
               \/ asked'[r.mac] = asked[r.mac] /\ (r.mac \in deployed => r.mac \in saved)
    BY <2>1, <2>2
  <2> QED BY <2>1, <2>3 DEF AnswersFit, Request
<1>11. CASE UNCHANGED vars \/ \E f \in farewells : Farewell(f)
  BY <1>7, <1>11 DEF vars, Farewell, Machines
<1>12. ASSUME NEW S, NEW R, Lapse(S, R) PROVE AnswersFit'
  BY <1>7, <1>12 DEF Lapse, Machines
<1> QED BY <1>2, <1>3, <1>4, <1>5, <1>6, <1>8, <1>9, <1>10, <1>11, <1>12 DEF Next

(* For every set of machines and every configuration: the inductive        *)
(* invariant holds in every state.                                         *)
THEOREM DhcpInvariant == Spec => []HInv
<1>1. Init => AnswersFit
  BY DEF Init, AnswersFit
<1>2. BInv /\ AnswersFit /\ [Next]_vars => AnswersFit'
  BY StepFit
<1> QED BY <1>1, <1>2, BookInvariant, PTL DEF Spec, HInv

(* The types of the variables, the packets' included. *)
THEOREM DhcpTypes == Spec => []TypeOK
<1>1. BInv => TypeOK BY DEF BInv
<1> QED BY BookInvariant, <1>1, PTL

(* No two machines use one address, unless both are bound to it. *)
THEOREM UsedByOneAlways == Spec => []UsedByOne
<1>1. BInv => UsedByOne
  BY DEF BInv, AsEntered, BookKept, Shared, UsedByOne
<1> QED BY BookInvariant, <1>1, PTL

(* For any machines and any restarts: no machine that was recorded when it *)
(* asked comes to run the ramdisk on the answer, except for a record that  *)
(* was never saved and that a restart has lost since.                      *)
THEOREM BootGatedAlways == Spec => BootGated
<1> DEFINE A == \A m \in Client :
                  (stage'[m] = "ramdisk" /\ stage[m] # "ramdisk") => asked[m] \in {"new", "lost"}
<1>1. BInv /\ [Next]_vars => [A]_vars
  <2> SUFFICES ASSUME BInv, Next, NEW m \in Client,
                      stage'[m] = "ramdisk", stage[m] # "ramdisk"
               PROVE  asked[m] \in {"new", "lost"}
    OBVIOUS
  <2>1. stage \in [Client -> {"off", "firmware", "ipxe", "ramdisk", "disk"}]
    BY DEF BInv, TypeOK
  <2>2. ASSUME NEW n \in Client, PowerOn(n) PROVE FALSE
    BY <2>1, <2>2 DEF PowerOn
  <2>3. ASSUME NEW r \in replies, Take(r) PROVE asked[m] \in {"new", "lost"}
    <3>1. stage' = [stage EXCEPT ![r.mac] = NextStage(stage[r.mac], r)]
      BY <2>3 DEF Take
    <3>2. r.mac = m
      BY <2>1, <3>1
    <3>3. NextStage(stage[m], r) = "ramdisk"
      BY <2>1, <3>1, <3>2
    <3>4. r.boot # "none"
      BY <3>3 DEF NextStage, Pages
    <3> QED BY <3>2, <3>4 DEF BInv, GatedSinceAsked
  <2>4. stage' # stage
    OBVIOUS
  <2> QED BY <2>2, <2>3, <2>4
          DEF Next, Receive, ReceiveLate, Gate, Reply, Farewell, Restart, Ask, GiveUp,
              RunImage, Record, Lapse, Machines
<1> QED BY <1>1, BookInvariant, PTL DEF Spec, BootGated

(* A supported machine that boots from the network gets, in its firmware,  *)
(* an iPXE binary, and in iPXE the script, whatever else its requests say. *)
LEMMA BootOf ==
  ASSUME BInv, NEW m \in Bootable, stage[m] \in {"firmware", "ipxe"}
  PROVE  /\ DetectArch(Request(m).archs) # "unknown"
         /\ SelectBoot(Request(m)) \in IF stage[m] = "firmware" THEN IPXEFiles ELSE {"boot.ipxe"}
<1>1. m \in Client /\ FirmwareBootfile(DetectArch(Archs[m])) # "none"
  BY DEF Bootable
<1>2. /\ Request(m).archs = Archs[m]
      /\ stage[m] = "firmware" => Request(m).userClass = "none" /\ Request(m).vendorClass = "none"
      /\ stage[m] = "ipxe" => IsIPXE(Request(m))
  BY DEF Request, IsIPXE
<1>3. stage[m] = "firmware" => ~IsIPXE(Request(m))
  BY <1>2 DEF IsIPXE
<1> QED BY <1>1, <1>2, <1>3 DEF SelectBoot, FirmwareBootfile, IPXEFiles

(* With the binaries in the build, and for any machines: the chain of      *)
(* stages has no loop and no dead end.                                     *)
THEOREM OnwardAlways ==
  ASSUME Embedded = IPXEFiles
  PROVE  Spec => Onward
<1> DEFINE A == \A m \in Bootable :
                  (stage[m] \in {"firmware", "ipxe"} /\ \E r \in replies : r.mac = m /\ Take(r))
                    => \/ m \in deployed \/ asked[m] = "lost"
                       \/ stage'[m] = IF stage[m] = "firmware" THEN "ipxe" ELSE "ramdisk"
<1>1. HInv => A
  <2> SUFFICES ASSUME HInv, NEW m \in Bootable, stage[m] \in {"firmware", "ipxe"},
                      m \notin deployed, asked[m] # "lost",
                      NEW r \in replies, r.mac = m, Take(r)
               PROVE  stage'[m] = IF stage[m] = "firmware" THEN "ipxe" ELSE "ramdisk"
    OBVIOUS
  <2>1. stage'[m] = NextStage(stage[m], r)
    BY DEF Take, HInv, BInv, TypeOK, Bootable
  <2>2. r.boot = SelectBoot(Request(m)) /\ r.pxeClient
    BY BootOf DEF HInv, AnswersFit
  <2>3. CASE stage[m] = "firmware"
    <3>1. r.boot \in Embedded
      BY <2>2, <2>3, BootOf DEF HInv
    <3> QED BY <2>1, <2>2, <2>3, <3>1 DEF NextStage, Read
  <2>4. CASE stage[m] = "ipxe"
    <3>1. r.boot = "boot.ipxe" /\ r.boot \notin Embedded
      BY <2>2, <2>4, BootOf DEF HInv, IPXEFiles
    <3>2. r.boot \in Pages /\ BootIPXE \subseteq Pages
      BY <3>1 DEF Pages, BootIPXE
    <3> QED BY <2>1, <2>4, <3>1, <3>2 DEF NextStage, Read
  <2> QED BY <2>3, <2>4
<1>2. HInv /\ [Next]_vars => [A]_vars
  BY <1>1
<1> QED BY <1>2, DhcpInvariant, PTL DEF Spec, Onward
=============================================================================
