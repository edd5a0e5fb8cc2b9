-------------------------------- MODULE Dhcp --------------------------------
(***************************************************************************)
(* internal/dhcp and internal/pxe: the DHCP server's handlers, which run   *)
(* side by side, one for each packet; the address allocator and the        *)
(* deployment record that they consult one after the other; and the        *)
(* machines, from their firmware to the deploy ramdisk, with the files     *)
(* that internal/tftp and internal/httpsrv serve them on the way.          *)
(*                                                                         *)
(* The allocator is an address book, which Lease is shown to implement; a  *)
(* call of it that fails leaves the book alone and sends nothing, as if    *)
(* the packet had been lost.  The record is a durable set, which StateFile *)
(* and Deploy are shown to implement: a save may fail, and a restart finds *)
(* what was saved.                                                         *)
(*                                                                         *)
(* The machines and the network are not in the repository.  Packets are    *)
(* lost, delayed and repeated; a machine ignores an answer to an exchange  *)
(* that it has left (by the transaction ID), and counts its lease from its *)
(* request.  Two things are assumed of the network: a DHCPRELEASE or a     *)
(* DHCPDECLINE is handled once, and not after the next request of the same *)
(* machine; and no exchange lasts as long as a lease.                      *)
(***************************************************************************)
EXTENDS Naturals, FiniteSets, Sequences

CONSTANTS Client, NoAddr,
          Pool,         \* the addresses of the pool that nobody is bound to
          Bindings,     \* what the configuration may bind statically: from
                        \*   client to address, or NoAddr
          Archs,        \* client -> the architectures its firmware announces
          UserClass,    \* client -> whether its iPXE tells by its user class
          Embedded,     \* the iPXE binaries that the build has embedded
          MaxHandlers   \* bound on the handlers that run at once

Addr == (Pool \cup {c[m] : c \in Bindings, m \in Client}) \ {NoAddr}

(* Bound addresses are not given from the pool; two may be the same.       *)
ASSUME DhcpAssumption ==
  /\ NoAddr \notin Pool
  /\ Bindings \subseteq [Client -> Addr \cup {NoAddr}]
  /\ \A c \in Bindings, m \in Client : c[m] \notin Pool
  /\ MaxHandlers \in Nat \ {0}

VARIABLES static,          \* the bindings of the configuration
          book, reserved,  \* the allocator's
          deployed,        \* the machines that are recorded as deployed
          saved,           \* those that the state file has
          handlers,        \* what runs for the exchanges under way
          replies,         \* what they have acknowledged
          farewells,       \* the DHCPRELEASEs and DHCPDECLINEs under way
          imaged,          \* those whose driver is about to record them
          stage,           \* machine -> what runs on it
          addr,            \* machine -> the address it uses, or NoAddr
          asked            \* machine -> whether it waits for an answer; if it
                           \*   was recorded when it first asked, and if a
                           \*   restart has lost its record since (history)

vars == <<static, book, reserved, deployed, saved, handlers, replies, farewells, imaged,
          stage, addr, asked>>

Allocator == INSTANCE AddressBook WITH MAC <- Client
Tracker == INSTANCE DurableSet WITH Element <- Client, memory <- deployed

Waits(m) == asked[m] \in {"new", "deployed", "lost"}

-----------------------------------------------------------------------------
(* internal/pxe. *)

(* The first architecture of option 93 counts. *)
DetectArch(archs) ==
  IF archs = <<>> THEN "unknown"
  ELSE CASE Head(archs) = "INTEL_X86PC" -> "bios-x86"
         [] Head(archs) \in {"EFI_BC", "EFI_X86_64"} -> "uefi-x86_64"
         [] Head(archs) = "EFI_ARM64" -> "uefi-arm64"
         [] OTHER -> "unknown"

FirmwareBootfile(arch) ==
  CASE arch = "bios-x86" -> "undionly.kpxe"
    [] arch = "uefi-x86_64" -> "snponly.efi"
    [] OTHER -> "none"

IPXEFiles == {"undionly.kpxe", "snponly.efi"}

IsIPXE(req) == req.userClass = "iPXE" \/ req.vendorClass = "iPXE"

(* A request, as far as the handler looks at it; the kernel and the system *)
(* that it boots send neither class, nor an architecture.                  *)
Request(m) ==
  [archs |-> IF stage[m] \in {"firmware", "ipxe"} THEN Archs[m] ELSE <<>>,
   userClass |-> IF stage[m] = "ipxe" /\ UserClass[m] THEN "iPXE" ELSE "none",
   vendorClass |-> IF stage[m] = "ipxe" /\ ~UserClass[m] THEN "iPXE" ELSE "none"]

-----------------------------------------------------------------------------
(* The handler of a DHCPDISCOVER or a DHCPREQUEST, in three steps.         *)

Allocate(m) ==
  \/ static[m] # NoAddr /\ Allocator!EnterStatic(m, static[m])
  \/ static[m] = NoAddr /\ \E v \in Pool : Allocator!Enter(m, v)

Machines == <<imaged, stage, addr, asked>>

(* Mutant: an address is chosen, but only entered with the next packet. *)
ReceiveUnbooked(m, mt) ==
  /\ Waits(m) /\ Cardinality(handlers) < MaxHandlers
  /\ \E v \in Pool :
       /\ \A n \in Client : book[n].ip # v
       /\ handlers' = handlers \cup
            {[mac |-> m, type |-> mt, ip |-> v, req |-> Request(m), gate |-> "unread"]}
  /\ UNCHANGED <<static, book, reserved, deployed, saved, replies, farewells, Machines>>

Receive(m, mt) ==
  /\ Waits(m) /\ Cardinality(handlers) < MaxHandlers
  /\ Allocate(m)
  /\ handlers' = handlers \cup
       {[mac |-> m, type |-> mt, ip |-> book'[m].ip, req |-> Request(m), gate |-> "unread"]}
  /\ UNCHANGED <<static, deployed, saved, replies, farewells, Machines>>

(* A packet of an exchange that m has left: nothing comes of the answer.   *)
ReceiveLate(m) ==
  /\ asked[m] # "never"
  /\ Allocate(m)
  /\ UNCHANGED <<static, deployed, saved, handlers, replies, farewells, Machines>>

Gate(h) ==
  /\ h.gate = "unread"
  /\ handlers' = (handlers \ {h}) \cup
       {[h EXCEPT !.gate = IF h.mac \in deployed THEN "deployed" ELSE "open"]}
  /\ UNCHANGED <<static, book, reserved, deployed, saved, replies, farewells, Machines>>

(* Mutant: the architecture is looked at first, which iPXE announces too.  *)
SelectBootByArch(req) ==
  LET file == FirmwareBootfile(DetectArch(req.archs))
  IN  IF file = "none" /\ IsIPXE(req) THEN "boot.ipxe" ELSE file

(* The URL of the boot script, the iPXE binary or nothing. *)
SelectBoot(req) ==
  IF IsIPXE(req) THEN "boot.ipxe" ELSE FirmwareBootfile(DetectArch(req.archs))

(* Mutant: the record does not hold back iPXE. *)
AnswerIPXE(h) ==
  [mac |-> h.mac, type |-> IF h.type = "request" THEN "ack" ELSE "offer", ip |-> h.ip,
   pxeClient |-> DetectArch(h.req.archs) # "unknown" /\ h.gate = "open",
   boot |-> IF h.gate = "deployed" /\ ~IsIPXE(h.req) THEN "none" ELSE SelectBoot(h.req)]

(* To a machine that is deployed: no PXE marker and no boot file. *)
Answer(h) ==
  [mac |-> h.mac, type |-> IF h.type = "request" THEN "ack" ELSE "offer", ip |-> h.ip,
   pxeClient |-> DetectArch(h.req.archs) # "unknown" /\ h.gate = "open",
   boot |-> IF h.gate = "deployed" THEN "none" ELSE SelectBoot(h.req)]

(* An offer is not kept: all that a machine makes of it is a request, and  *)
(* Ask lets it make that at any time.                                      *)
Reply(h) ==
  /\ h.gate # "unread"
  /\ replies' = replies \cup {r \in {Answer(h)} : r.type = "ack"}
  /\ handlers' = handlers \ {h}
  /\ UNCHANGED <<static, book, reserved, deployed, saved, farewells, Machines>>

(* A DHCPRELEASE, a DHCPDECLINE; a DHCPINFORM, or any other, does nothing. *)

RequestedOrClientIP(f) == IF f.requested # NoAddr THEN f.requested ELSE f.ciaddr

Farewell(f) ==
  /\ \/ f.type = "release"
        /\ Allocator!End({m \in {f.mac} : book[m].ip = f.ciaddr}, {})
     \/ f.type = "decline" /\ RequestedOrClientIP(f) # NoAddr
        /\ Allocator!Contest(RequestedOrClientIP(f)) /\ reserved' \subseteq Pool
     \/ f.type = "decline" /\ RequestedOrClientIP(f) = NoAddr
        /\ UNCHANGED <<book, reserved>>
  /\ farewells' = farewells \ {f}
  /\ UNCHANGED <<static, deployed, saved, handlers, replies, Machines>>

(* The server stops, with all its handlers and drivers, and starts again:  *)
(* New loads the state file.                                               *)
Restart ==
  /\ Tracker!Reload
  /\ handlers' = {} /\ imaged' = {}
  /\ asked' = [m \in Client |-> IF Waits(m) /\ m \in deployed \ saved THEN "lost" ELSE asked[m]]
  /\ UNCHANGED <<static, book, reserved, replies, farewells, stage, addr>>

-----------------------------------------------------------------------------
(* internal/tftp and internal/httpsrv. *)

(* Whether a file is served over TFTP: the names that the handler gives    *)
(* are clean already.                                                      *)
Read(name) == name \in Embedded

(* The pages that are served over HTTP; the artifacts exist by then        *)
(* (Artifacts), and the ramdisk gets the image from there as well.         *)
Pages == {"boot.ipxe", "ipa.kernel", "ipa.initramfs", "images"}

(* The boot script, by the pages that it has iPXE load. *)
BootIPXE == {"ipa.kernel", "ipa.initramfs"}

-----------------------------------------------------------------------------
(* The machines. *)

(* m leaves the exchange it was in, if any: its answers are ignored. *)
Leave(m) ==
  /\ handlers' = {h \in handlers : h.mac # m}
  /\ replies' = {r \in replies : r.mac # m}

(* A machine that can boots from the network first, by its firmware or by  *)
(* an iPXE in its ROM.                                                     *)
PowerOn(m) ==
  /\ \E s \in IF Archs[m] = <<>> THEN {"disk"} ELSE {"firmware", "ipxe"} :
       stage' = [stage EXCEPT ![m] = s]
  /\ addr' = [addr EXCEPT ![m] = NoAddr]
  /\ asked' = [asked EXCEPT ![m] = IF asked[m] = "never" THEN "never" ELSE "no"]
  /\ Leave(m)
  /\ UNCHANGED <<static, book, reserved, deployed, saved, farewells, imaged>>

Ask(m) ==
  /\ stage[m] # "off"
  /\ asked' = [asked EXCEPT ![m] = IF m \in deployed THEN "deployed" ELSE "new"]
  /\ Leave(m)
  /\ farewells' = {f \in farewells : f.mac # m}
  /\ UNCHANGED <<static, book, reserved, deployed, saved, imaged, stage, addr>>

(* Firmware drops an answer without the marker, and a machine goes on to   *)
(* the disk when there is nothing to boot, or nobody serves it.            *)
NextStage(s, r) ==
  CASE s = "firmware" /\ r.pxeClient /\ Read(r.boot) -> "ipxe"
    [] s = "ipxe" /\ Read(r.boot) -> "ipxe"
    [] s = "ipxe" /\ r.boot \in Pages /\ BootIPXE \subseteq Pages -> "ramdisk"
    [] s = "ramdisk" -> "ramdisk"
    [] OTHER -> "disk"

Take(r) ==
  /\ addr' = [addr EXCEPT ![r.mac] = r.ip]
  /\ stage' = [stage EXCEPT ![r.mac] = NextStage(stage[r.mac], r)]
  /\ asked' = [asked EXCEPT ![r.mac] = "no"]
  /\ Leave(r.mac)
  /\ UNCHANGED <<static, book, reserved, deployed, saved, farewells, imaged>>

(* It gives up its address, and may say so; a decline names it in one of   *)
(* two places, or nowhere.                                                 *)
GiveUp(m) ==
  /\ addr[m] # NoAddr /\ ~Waits(m)
  /\ addr' = [addr EXCEPT ![m] = NoAddr]
  /\ \E f \in [mac : {m}, type : {"release", "decline"},
               ciaddr : {addr[m], NoAddr}, requested : {addr[m], NoAddr}] :
       /\ f.type = "release" => f.requested = NoAddr /\ f.ciaddr # NoAddr
       /\ f.requested # NoAddr => f.ciaddr = NoAddr
       /\ farewells' = farewells \cup {f}
  /\ UNCHANGED <<static, book, reserved, deployed, saved, handlers, replies, imaged, stage, asked>>

(* Entries of machines that are done with their leases lapse, and holds.   *)
Lapse(S, R) ==
  /\ \A m \in S : addr[m] = NoAddr /\ ~Waits(m)
  /\ Allocator!End(S, R)
  /\ farewells' = {f \in farewells : f.mac \notin S}
  /\ UNCHANGED <<static, deployed, saved, handlers, replies, Machines>>

(* The deploy driver has a machine that runs the ramdisk boot the image,   *)
(* and records it afterwards: the machine may ask again before that.       *)
RunImage(m) ==
  /\ stage[m] = "ramdisk"
  /\ imaged' = imaged \cup {m}
  /\ UNCHANGED <<static, book, reserved, deployed, saved, handlers, replies, farewells,
                 stage, addr, asked>>

(* MarkDeployed; a save that fails is logged, and only the memory has it.  *)
Record(m) ==
  /\ m \in imaged
  /\ Tracker!Change({m}, {})
  /\ imaged' = imaged \ {m}
  /\ UNCHANGED <<static, book, reserved, handlers, replies, farewells, stage, addr, asked>>

-----------------------------------------------------------------------------

Init ==
  /\ static \in Bindings
  /\ Allocator!BookInit
  /\ Tracker!SetInit
  /\ handlers = {} /\ replies = {} /\ farewells = {} /\ imaged = {}
  /\ stage = [m \in Client |-> "off"]
  /\ addr = [m \in Client |-> NoAddr]
  /\ asked = [m \in Client |-> "never"]

Next ==
  \/ \E m \in Client, mt \in {"discover", "request"} : Receive(m, mt)
  \/ \E m \in Client : ReceiveLate(m)
  \/ \E h \in handlers : Gate(h) \/ Reply(h)
  \/ \E f \in farewells : Farewell(f)
  \/ Restart
  \/ \E m \in Client : PowerOn(m) \/ Ask(m) \/ GiveUp(m) \/ RunImage(m) \/ Record(m)
  \/ \E r \in replies : Take(r)
  \/ \E S \in SUBSET Client, R \in SUBSET reserved : Lapse(S, R)

Spec == Init /\ [][Next]_vars

(* The machines of a supported architecture. *)
Bootable == {m \in Client : FirmwareBootfile(DetectArch(Archs[m])) # "none"}

HandlersOf(m, mt) == {h \in handlers : h.mac = m /\ h.type = mt}

(* A handler that runs comes to its end; a machine that boots asks, and    *)
(* asks again: of its packets, and of their answers, not all are lost.     *)
Fairness ==
  /\ WF_vars(reserved # {} /\ Lapse({}, reserved))
  /\ \A m \in Client, mt \in {"discover", "request"} :
       /\ WF_vars(\E h \in HandlersOf(m, mt) : Gate(h))
       /\ WF_vars(\E h \in HandlersOf(m, mt) : Reply(h))
  /\ \A m \in Bootable :
       /\ SF_vars(Receive(m, "request"))
       /\ WF_vars(~Waits(m) /\ stage[m] \in {"firmware", "ipxe"} /\ Ask(m))
       /\ SF_vars(\E r \in {x \in replies : x.mac = m} : Take(r))

FairSpec == Spec /\ Fairness

-----------------------------------------------------------------------------
(* Properties. *)

Handler == [mac : Client, type : {"discover", "request"}, ip : Addr,
            req : [archs : {<<>>} \cup {Archs[m] : m \in Client},
                   userClass : {"iPXE", "none"}, vendorClass : {"iPXE", "none"}],
            gate : {"unread", "open", "deployed"}]
ReplyRecord == [mac : Client, type : {"ack"}, ip : Addr, pxeClient : BOOLEAN,
                boot : IPXEFiles \cup {"boot.ipxe", "none"}]
Entry == [ip : Addr, static : BOOLEAN, contested : BOOLEAN] \cup {Allocator!NoEntry}

TypeOK ==
  /\ static \in Bindings
  /\ book \in [Client -> Entry] /\ reserved \subseteq Addr
  /\ deployed \subseteq Client /\ saved \subseteq deployed /\ imaged \subseteq Client
  /\ handlers \subseteq Handler /\ replies \subseteq ReplyRecord
  /\ farewells \subseteq [mac : Client, type : {"release", "decline"},
                          ciaddr : Addr \cup {NoAddr}, requested : Addr \cup {NoAddr}]
  /\ stage \in [Client -> {"off", "firmware", "ipxe", "ramdisk", "disk"}]
  /\ addr \in [Client -> Addr \cup {NoAddr}]
  /\ asked \in [Client -> {"never", "no", "new", "deployed", "lost"}]

(* No two machines use one address, whatever handlers of whatever packets  *)
(* run at the same time, unless the configuration binds both of them to it.*)
UsedByOne ==
  \A m, n \in Client :
    m # n /\ addr[m] # NoAddr /\ addr[m] = addr[n] => static[m] # NoAddr /\ static[n] # NoAddr

(* No machine comes to run the ramdisk, where it would be imaged again, on *)
(* the answer to a request that it made when it was recorded as deployed,  *)
(* whenever the record comes while it boots, and over restarts: except for *)
(* a record that the state file never got, as its save had failed, and     *)
(* that a restart has lost since the machine asked.                        *)
BootGated ==
  [][\A m \in Client :
       (stage'[m] = "ramdisk" /\ stage[m] # "ramdisk") => asked[m] \in {"new", "lost"}]_vars

(* The chain of stages has no loop and no dead end: a machine of a         *)
(* supported architecture that takes an answer goes from its firmware to   *)
(* iPXE, and from iPXE to the ramdisk, or it is recorded, or was until a   *)
(* restart.  (The build has the binaries.)                                 *)
Onward ==
  [][\A m \in Bootable :
       (stage[m] \in {"firmware", "ipxe"} /\ \E r \in replies : r.mac = m /\ Take(r))
         => \/ m \in deployed \/ asked[m] = "lost"
            \/ stage'[m] = IF stage[m] = "firmware" THEN "ipxe" ELSE "ramdisk"]_vars

(* A machine of a supported architecture that boots from the network comes *)
(* to run the ramdisk, or is recorded: no stage of the chain is given what *)
(* it has already loaded, or a name that nobody serves.  Nobody keeps      *)
(* turning it off, or the server, and it is not always too impatient; the  *)
(* build has the binaries; and its request was not overtaken by a restart  *)
(* that lost its record.                                                   *)
Disturbed == Restart \/ \E m \in Client : PowerOn(m) \/ (Waits(m) /\ Ask(m))
ComesToBoot ==
  <>[][~Disturbed]_vars =>
    \A m \in Bootable :
      stage[m] = "firmware" /\ asked[m] # "lost" ~> stage[m] = "ramdisk" \/ m \in deployed

-----------------------------------------------------------------------------
(* The inductive invariant: what a machine uses, is being given or says    *)
(* farewell to is what the book has for it.                                *)

Shared(m, n) == static[m] # NoAddr /\ static[n] # NoAddr

BookKept ==
  /\ \A m, n \in Client : (m # n /\ book[m].ip # NoAddr /\ book[m].ip = book[n].ip) => Shared(m, n)
  /\ \A m \in Client : book[m] # Allocator!NoEntry =>
       IF static[m] # NoAddr THEN book[m].static /\ book[m].ip = static[m]
                             ELSE ~book[m].static /\ book[m].ip \in Pool

AsEntered ==
  /\ \A m \in Client : addr[m] # NoAddr => book[m].ip = addr[m]
  /\ \A h \in handlers : Waits(h.mac) /\ book[h.mac].ip = h.ip
  /\ \A r \in replies : Waits(r.mac) /\ book[r.mac].ip = r.ip

(* Only its owner comes to contest an entry, which it has given up.        *)
FarewellsOwn ==
  /\ \A f \in farewells : ~Waits(f.mac) /\ addr[f.mac] = NoAddr
  /\ \A f, g \in farewells : f.mac = g.mac => f = g
  /\ \A f \in farewells :
       RequestedOrClientIP(f) # NoAddr => book[f.mac].ip = RequestedOrClientIP(f)

ContestedUnused ==
  \A m \in Client : book[m].contested =>
    addr[m] = NoAddr /\ \A x \in handlers \cup replies \cup farewells : x.mac # m

(* What was recorded when a machine asked still is when the gate is read,  *)
(* unless a restart has lost the record.                                   *)
GatedSinceAsked ==
  /\ \A m \in Client : asked[m] = "deployed" => m \in deployed
  /\ \A h \in handlers : h.gate = "open" => asked[h.mac] \in {"new", "lost"}
  /\ \A r \in replies : r.boot # "none" => asked[r.mac] \in {"new", "lost"}

BInv == /\ TypeOK /\ BookKept /\ AsEntered /\ FarewellsOwn /\ ContestedUnused
        /\ GatedSinceAsked

(* What is under way to a machine answers the request it would make now,   *)
(* at its present stage, unless it is recorded, or was until a restart.    *)
AnswersFit ==
  /\ \A h \in handlers : /\ h.req = Request(h.mac)
                         /\ h.gate = "deployed" => h.mac \in deployed
  /\ \A r \in replies :
       \/ r.mac \in deployed \/ asked[r.mac] = "lost"
       \/ /\ r.boot = SelectBoot(Request(r.mac))
          /\ r.pxeClient = (DetectArch(Request(r.mac).archs) # "unknown")

HInv == BInv /\ AnswersFit
=============================================================================
