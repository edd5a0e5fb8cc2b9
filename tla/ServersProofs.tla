--------------------------- MODULE ServersProofs ---------------------------
(* Proofs about Servers: the inductive invariant SInv, and with it what    *)
(* the exit status tells, and that no server keeps the program from ending.*)
EXTENDS Servers, TLAPS

(* The listeners of a server are its own. *)
LEMMA OfListener == \A s \in Server : Of(s) \subseteq Listener
BY DEF Of, Server, Listener

LEMMA OfOwn ==
  ASSUME NEW s \in Server, NEW t \in Server, s # t
  PROVE  Of(s) \cap Of(t) = {}
BY ServersAssumption DEF Of, Server

LEMMA InitInv == Init => RInv
BY OfListener DEF Init, Fresh, RInv, TypeOK, Caused, NotBegun, ExitTells, Server, Listener, Failed, Cancelled

(* A step of one Run or one listener: a failure stays, and a server that   *)
(* is about to return has its reason.                                      *)
LEMMA BecomeType ==
  ASSUME TypeOK, NEW L \in SUBSET Listener,
         NEW what \in {"none", "opening", "on", "failed", "closing", "closed"},
         Become(L, what)
  PROVE  listener' \in [Listener -> {"none", "opening", "on", "failed", "closing", "closed"}]
BY DEF TypeOK, Become

LEMMA ShutdownKeepsFailed ==
  ASSUME TypeOK, NEW s \in Server, Shutdown(Of(s)), Failed
  PROVE  Failed'
<1>1. PICK l \in Listener : listener[l] = "failed"
  BY DEF Failed
<1>2. listener'[l] = "failed"
  BY <1>1 DEF Shutdown, Become
<1> QED BY <1>2 DEF Failed

LEMMA ShutdownType ==
  ASSUME TypeOK, NEW s \in Server, Shutdown(Of(s))
  PROVE  listener' \in [Listener -> {"none", "opening", "on", "failed", "closing", "closed"}]
BY BecomeType, OfListener DEF TypeOK, Shutdown, Become

LEMMA StepBegin ==
  ASSUME RInv, exit = "none", NEW s \in Server, Begin(s)
  PROVE  RInv'
<1> USE ServersAssumption
<1>1. TypeOK'
  BY OfListener DEF RInv, TypeOK, Begin, To, Become, InRun
<1>2. run[s] = "idle" /\ group' = group /\ signalled' = signalled /\ exit' = "none"
  BY DEF Begin, InRun
<1>3. Failed => Failed'
  <2> SUFFICES ASSUME NEW l \in Listener, listener[l] = "failed" PROVE Failed'
    BY DEF Failed
  <2>1. l \notin Of(s)
    BY <1>2 DEF RInv, NotBegun
  <2>2. listener'[l] = "failed"
    BY <2>1 DEF Begin, Become
  <2> QED BY <2>2 DEF Failed
<1>4. run'[s] \in {"wait", "error"} /\ \A t \in Server \ {s} : run'[t] = run[t]
  BY DEF RInv, TypeOK, Begin, To
<1>5. run'[s] = "error" => Failed'
  BY DEF RInv, TypeOK, Begin, To, Become, Of, Failed, Listener
<1>6. Caused'
  BY <1>2, <1>3, <1>4, <1>5 DEF RInv, Caused, Cancelled
<1>7. NotBegun'
  BY <1>4, OfOwn, OfListener DEF RInv, NotBegun, Begin, Become, Of, InRun
<1> QED BY <1>1, <1>2, <1>6, <1>7 DEF RInv, ExitTells

LEMMA StepStop ==
  ASSUME RInv, exit = "none", NEW s \in Server, Stop(s) \/ Error(s)
  PROVE  RInv'
<1>1. TypeOK'
  BY ShutdownType DEF RInv, TypeOK, Stop, Error, To, InRun
<1>2. run[s] = "wait" /\ group' = group /\ signalled' = signalled /\ exit' = "none"
  BY DEF Stop, Error, InRun
<1>3. Failed => Failed'
  BY ShutdownKeepsFailed DEF RInv, Stop, Error
<1>4. \A t \in Server \ {s} : run'[t] = run[t]
  BY DEF RInv, TypeOK, Stop, Error, To
<1>5. \/ run'[s] = "canceled" /\ Cancelled
      \/ run'[s] = "error" /\ Failed
  BY OfListener DEF RInv, TypeOK, Stop, Error, To, Failed
<1>6. Caused'
  BY <1>2, <1>3, <1>4, <1>5 DEF RInv, Caused, Cancelled
<1>7. NotBegun'
  <2> SUFFICES ASSUME NEW t \in Server, run'[t] = "idle", NEW l \in Of(t)'
               PROVE  listener'[l] = "none"
    BY DEF NotBegun
  <2>1. t # s /\ run[t] = "idle" /\ l \in Of(t)
    BY <1>4, <1>5 DEF Stop, Error, InRun, Of
  <2>2. listener[l] = "none" /\ l \notin Of(s) /\ l \in Listener
    BY <2>1, OfOwn, OfListener DEF RInv, NotBegun
  <2> QED BY <2>2 DEF Stop, Error, Shutdown, Become
<1> QED BY <1>1, <1>2, <1>6, <1>7 DEF RInv, ExitTells

LEMMA StepReturn ==
  ASSUME RInv, exit = "none", NEW s \in Server, Return(s)
  PROVE  RInv'
<1>1. TypeOK'
  BY DEF RInv, TypeOK, Return, To
<1>2. /\ run[s] \in {"canceled", "error"} /\ run'[s] = "done"
      /\ group' = IF group = "none" THEN run[s] ELSE group
      /\ signalled' = signalled /\ listener' = listener /\ exit' = "none"
      /\ \A t \in Server \ {s} : run'[t] = run[t]
  BY DEF RInv, TypeOK, Return, To
<1>3. Failed' <=> Failed
  BY <1>2 DEF Failed
<1>4. group' # "none"
  BY <1>2
<1>5. Caused'
  BY <1>2, <1>3, <1>4 DEF RInv, Caused, Cancelled
<1>6. NotBegun'
  BY <1>2 DEF RInv, NotBegun, Return, Of
<1> QED BY <1>1, <1>2, <1>5, <1>6 DEF RInv, ExitTells

LEMMA StepListener ==
  ASSUME RInv, exit = "none", NEW l \in Listener, Open(l) \/ Close(l) \/ Break(l)
  PROVE  RInv'
<1>1. TypeOK'
  BY DEF RInv, TypeOK, Open, Close, Break, Becomes
<1>2. UNCHANGED <<run, signalled, group, exit>>
  BY DEF Open, Close, Break, Becomes
<1>3. Failed => Failed'
  BY DEF RInv, TypeOK, Open, Close, Break, Becomes, Failed
<1>4. Caused'
  BY <1>2, <1>3 DEF RInv, Caused, Cancelled
<1>5. NotBegun'
  <2> SUFFICES ASSUME NEW s \in Server, run[s] = "idle", NEW k \in Of(s)
               PROVE  listener'[k] = "none"
    BY <1>2 DEF NotBegun, Of, Open, Close, Break, Becomes
  <2>1. listener[k] = "none" /\ k \in Listener
    BY OfListener DEF RInv, NotBegun
  <2>2. listener[l] # "none"
    BY DEF Open, Close, Break, Becomes
  <2> QED BY <2>1, <2>2 DEF RInv, TypeOK, Open, Close, Break, Becomes
<1> QED BY <1>1, <1>2, <1>4, <1>5 DEF RInv, ExitTells

LEMMA StepMain ==
  ASSUME RInv, Signal \/ Exit \/ Restart
  PROVE  RInv'
<1>1. CASE Signal
  <2>1. TypeOK' BY <1>1 DEF RInv, TypeOK, Signal
  <2>2. Caused' BY <1>1 DEF RInv, Caused, Signal, Cancelled, Failed
  <2>3. ExitTells' BY <1>1 DEF RInv, ExitTells, Signal
  <2>4. NotBegun' BY <1>1 DEF RInv, NotBegun, Signal, Of
  <2> QED BY <2>1, <2>2, <2>3, <2>4 DEF RInv
<1>2. CASE Exit
  <2>1. TypeOK' BY <1>2 DEF RInv, TypeOK, Exit, Ends
  <2>2. Caused' BY <1>2 DEF RInv, Caused, Exit, Ends, Cancelled, Failed
  <2>3. Cancelled
    BY <1>2 DEF RInv, Caused, Exit, Ends
  <2>4. group # "error" => signalled
    BY <2>3 DEF RInv, TypeOK, Caused, Cancelled
  <2>5. group = "error" => Failed
    BY DEF RInv, Caused
  <2>6. ExitTells'
    BY <1>2, <2>4, <2>5 DEF ExitTells, Exit, Ends, Failed
  <2>7. NotBegun' BY <1>2 DEF RInv, NotBegun, Exit, Ends, Of
  <2> QED BY <2>1, <2>2, <2>6, <2>7 DEF RInv
<1>3. CASE Restart
  <2>1. TypeOK' BY <1>3 DEF Restart, Fresh, TypeOK
  <2>2. Caused' BY <1>3 DEF Restart, Fresh, Caused, Server, Failed, Cancelled
  <2>3. NotBegun' BY <1>3 DEF Restart, Fresh, NotBegun, Of, Server, Listener
  <2>4. ExitTells' BY <1>3 DEF Restart, ExitTells
  <2> QED BY <2>1, <2>2, <2>3, <2>4 DEF RInv
<1> QED BY <1>1, <1>2, <1>3

LEMMA StepInv == RInv /\ [Next]_vars => RInv'
<1> SUFFICES ASSUME RInv, [Next]_vars PROVE RInv'
  OBVIOUS
<1>1. CASE Running
  BY <1>1, StepBegin, StepStop, StepReturn, StepListener DEF Running
<1>2. CASE Signal \/ Exit \/ Restart
  BY <1>2, StepMain
<1>3. CASE UNCHANGED vars
  BY <1>3 DEF vars, RInv, TypeOK, Caused, NotBegun, Of, ExitTells, Failed, Cancelled
<1> QED BY <1>1, <1>2, <1>3 DEF Next

LEMMA RunsInvariant == Spec => []RInv
<1>1. RInv /\ [Next]_vars => RInv' BY StepInv
<1> QED BY InitInv, <1>1, PTL DEF Spec

-----------------------------------------------------------------------------
(* Whoever waits for a listener has told it to end. *)

(* A Run's step changes its own listeners only. *)
LEMMA OthersListen ==
  ASSUME RInv, Owned, ToldToEnd, NEW s \in Server, UNCHANGED dnsEnabled,
         run' \in [Server -> {"idle", "wait", "canceled", "error", "done"}],
         \A t \in Server \ {s} : run'[t] = run[t],
         \A l \in Listener \ Of(s) : listener'[l] = listener[l],
         \A l \in Of(s) :
           /\ run'[s] = "wait" => listener'[l] \in {"opening", "on", "failed"}
           /\ (run'[s] \in {"canceled", "error"} /\ s # "dns")
                => listener'[l] \in {"closing", "closed", "failed"}
  PROVE  Owned' /\ ToldToEnd'
<1>1. \A t \in Server : Of(t)' = Of(t) /\ Of(t) \subseteq Listener
  BY OfListener DEF Of
<1>2. Owned'
  BY <1>1 DEF Owned
<1>3. \A t \in Server \ {s} : \A l \in Of(t) : l \notin Of(s)
  BY OfOwn
<1>4. ToldToEnd'
  BY <1>1, <1>3 DEF ToldToEnd
<1> QED BY <1>2, <1>4

LEMMA ShutDown ==
  ASSUME TypeOK, NEW L \in SUBSET Listener, Shutdown(L)
  PROVE  \A l \in Listener :
           /\ l \notin L => listener'[l] = listener[l]
           /\ (l \in L /\ l \notin {"udp", "tcp"} /\ listener[l] \in {"opening", "on", "failed"})
                => listener'[l] \in {"closing", "failed"}
BY DEF Shutdown, Become, TypeOK

LEMMA RunEnds ==
  ASSUME RInv, Owned, ToldToEnd, NEW s \in Server, Begin(s) \/ Stop(s) \/ Error(s) \/ Return(s)
  PROVE  Owned' /\ ToldToEnd'
<1>1. /\ TypeOK /\ UNCHANGED dnsEnabled /\ Of(s) \subseteq Listener
      /\ run' \in [Server -> {"idle", "wait", "canceled", "error", "done"}]
      /\ \A t \in Server \ {s} : run'[t] = run[t]
  BY OfListener DEF RInv, TypeOK, Begin, Stop, Error, Return, To, InRun
<1>2. CASE Begin(s)
  <2>1. \E what \in {"opening", "on", "failed"} :
          /\ Become(Of(s), what)
          /\ run'[s] = "wait" \/ (run'[s] = "error" /\ what = "failed")
    BY <1>1, <1>2 DEF TypeOK, Begin, To
  <2>2. PICK what \in {"opening", "on", "failed"} :
          /\ \A l \in Listener : listener'[l] = IF l \in Of(s) THEN what ELSE listener[l]
          /\ run'[s] = "wait" \/ (run'[s] = "error" /\ what = "failed")
    BY <2>1 DEF Become
  <2> QED BY <1>1, <2>2, OthersListen
<1>3. CASE Stop(s) \/ Error(s)
  <2>1. run[s] = "wait" /\ run'[s] \in {"canceled", "error"} /\ Shutdown(Of(s))
    BY <1>1, <1>3 DEF TypeOK, Stop, Error, To
  <2>2. \A l \in Of(s) : s # "dns" => l \notin {"udp", "tcp"}
    BY ServersAssumption DEF Of, Server
  <2>3. \A l \in Of(s) : listener[l] \in {"opening", "on", "failed"}
    BY <2>1 DEF ToldToEnd
  <2> QED BY <1>1, <2>1, <2>2, <2>3, ShutDown, OthersListen
<1>4. CASE Return(s)
  <2>1. run'[s] = "done" /\ UNCHANGED listener
    BY <1>1, <1>4 DEF TypeOK, Return, To
  <2> QED BY <1>1, <2>1, OthersListen
<1> QED BY <1>2, <1>3, <1>4

LEMMA ListenerEnds ==
  ASSUME RInv, Owned, ToldToEnd, NEW l \in Listener, Open(l) \/ Close(l) \/ Break(l)
  PROVE  Owned' /\ ToldToEnd'
<1>1. /\ UNCHANGED <<run, dnsEnabled>> /\ \A s \in Server : Of(s)' = Of(s) /\ Of(s) \subseteq Listener
      /\ \A k \in Listener \ {l} : listener'[k] = listener[k]
  BY OfListener DEF Open, Close, Break, Becomes, RInv, TypeOK, Of
<1>2. \/ listener[l] = "opening" /\ listener'[l] = "on"
      \/ listener[l] = "closing" /\ listener'[l] = "closed"
      \/ listener[l] \in {"opening", "on"} /\ listener'[l] = "failed"
  BY DEF Open, Close, Break, Becomes, RInv, TypeOK
<1>3. Owned'
  BY <1>1, <1>2 DEF Owned
<1>4. ToldToEnd'
  BY <1>1, <1>2 DEF ToldToEnd
<1> QED BY <1>3, <1>4

LEMMA StepEnds == RInv /\ Owned /\ ToldToEnd /\ [Next]_vars => (Owned /\ ToldToEnd)'
<1> SUFFICES ASSUME RInv, Owned, ToldToEnd, [Next]_vars PROVE Owned' /\ ToldToEnd'
  OBVIOUS
<1>1. CASE Restart
  <2>1. (\A s \in Server : run'[s] = "idle") /\ (\A l \in Listener : listener'[l] = "none")
    BY <1>1 DEF Restart, Fresh
  <2> QED BY <2>1 DEF Owned, ToldToEnd
<1>2. CASE UNCHANGED <<run, listener, dnsEnabled>>
  BY <1>2 DEF Owned, ToldToEnd, Of
<1> QED BY <1>1, <1>2, RunEnds, ListenerEnds DEF Next, Running, Signal, Exit, Ends, vars

(* Any number of servers, with or without DNS: the inductive invariant     *)
(* holds in every state.                                                   *)
THEOREM ServersInvariant == Spec => []SInv
<1>1. Init => Owned /\ ToldToEnd
  BY OfListener DEF Init, Fresh, Owned, ToldToEnd
<1>2. RInv /\ Owned /\ ToldToEnd /\ [Next]_vars => (Owned /\ ToldToEnd)'
  BY StepEnds
<1> QED BY <1>1, <1>2, RunsInvariant, PTL DEF Spec, SInv

(* The types of the variables, for any set of servers. *)
THEOREM ServersTypes == Spec => []TypeOK
<1>1. RInv => TypeOK BY DEF RInv
<1> QED BY RunsInvariant, <1>1, PTL

(* What the exit status tells: 0 only after a signal, 1 only after a       *)
(* failure.                                                                *)
THEOREM ExitTellsAlways == Spec => []ExitTells
<1>1. RInv => ExitTells BY DEF RInv
<1> QED BY RunsInvariant, <1>1, PTL

(* After a failure, or a signal, no wait of one for another keeps the      *)
(* program from its end, for any number of servers.                        *)
THEOREM NeverStuckAlways == Spec => []NeverStuck
<1>1. ASSUME SInv, Failed \/ signalled, exit = "none" PROVE GoesOn
  <2> SUFFICES ASSUME ~GoesOn PROVE FALSE
    OBVIOUS
  <2>1. /\ \A s \in Server : run[s] \in {"wait", "canceled", "error", "done"}
        /\ listener \in [Listener -> {"none", "opening", "on", "failed", "closing", "closed"}]
    BY <1>1 DEF SInv, RInv, TypeOK, GoesOn
  (* A Run that is about to return can, or what it waits for is closing.   *)
  <2>2. \A s \in Server : run[s] \in {"wait", "done"}
    <3> SUFFICES ASSUME NEW s \in Server, run[s] \in {"canceled", "error"} PROVE FALSE
      BY <2>1
    <3>1. s # "dns" /\ listener[s] \notin {"failed", "closed"}
      BY DEF GoesOn
    <3>2. s \in Of(s) /\ s \in Listener
      BY <3>1, OfListener DEF Of
    <3>3. listener[s] = "closing"
      BY <1>1, <3>1, <3>2 DEF SInv, ToldToEnd
    <3> QED BY <3>2, <3>3 DEF GoesOn
  <2>3. PICK s \in Server : run[s] = "wait"
    BY <2>2 DEF GoesOn
  <2>4. ~Cancelled
    BY <2>3 DEF GoesOn
  (* Then a listener has failed, and its server would not have returned.   *)
  <2>5. PICK l \in Listener : listener[l] = "failed"
    BY <1>1, <2>4 DEF Failed, Cancelled
  <2>6. PICK t \in Server : l \in Of(t)
    BY <1>1, <2>5 DEF SInv, Owned
  <2>7. run[t] = "done"
    BY <2>2, <2>5, <2>6 DEF GoesOn
  <2> QED BY <1>1, <2>4, <2>7 DEF SInv, RInv, Caused, Cancelled
<1>2. SInv => NeverStuck
  BY <1>1 DEF NeverStuck
<1> QED BY <1>2, ServersInvariant, PTL

(* Servers that all listen are not ended by anything but a failure or a    *)
(* signal: no cancellation and no error is left from before.               *)
THEOREM StaysUpAlways == Spec => StaysUp
<1> DEFINE Stays == (AllOn /\ ~signalled /\ ~Fault) => AllOn'
<1>1. ASSUME SInv, AllOn, ~signalled PROVE ~Failed /\ ~Cancelled /\ exit = "none"
  <2>1. ~Failed
    <3> SUFFICES ASSUME NEW l \in Listener, listener[l] = "failed" PROVE FALSE
      BY DEF Failed
    <3>1. PICK s \in Server : l \in Of(s)
      BY <1>1 DEF SInv, Owned
    <3> QED BY <1>1, <3>1 DEF AllOn
  <2>2. group = "none"
    BY <1>1, <2>1 DEF SInv, RInv, TypeOK, Caused
  <2> QED BY <1>1, <2>1, <2>2 DEF SInv, RInv, TypeOK, ExitTells, Cancelled
<1>2. ASSUME SInv, AllOn, ~signalled, ~Fault, Next PROVE AllOn'
  <2>1. CASE Running
    <3>1. ~(\E s \in Server : Begin(s) \/ Stop(s) \/ Error(s) \/ Return(s))
      BY <1>1, <1>2, OfListener DEF AllOn, Begin, Stop, Error, Return, Failed
    <3>2. PICK l \in Listener : Open(l) \/ Close(l)
      BY <1>2, <2>1, <3>1 DEF Running, Fault
    <3>3. \A k \in Listener : listener[k] = "on" => listener'[k] = "on"
      BY <1>2, <3>2 DEF Open, Close, Becomes, SInv, RInv, TypeOK
    <3>4. \A s \in Server : run'[s] = run[s] /\ Of(s)' = Of(s)
      BY <3>2 DEF Open, Close, Becomes, Of
    <3> QED BY <1>2, <3>3, <3>4, OfListener DEF AllOn
  <2>2. ~Exit
    BY <1>2 DEF Exit, Ends, AllOn, Server
  <2>3. ~Signal /\ ~Restart
    BY <1>1, <1>2 DEF Restart, Fault
  <2> QED BY <1>2, <2>1, <2>2, <2>3 DEF Next
<1>3. AllOn /\ UNCHANGED vars => AllOn'
  BY DEF AllOn, Of, vars
<1>4. SInv /\ [Next]_vars => [Stays]_vars
  BY <1>2, <1>3
<1> QED BY <1>4, ServersInvariant, PTL DEF Spec, StaysUp
=============================================================================
