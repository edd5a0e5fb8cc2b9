------------------------------ MODULE Servers ------------------------------
(***************************************************************************)
(* The five servers of the program, and the group that main runs them in:  *)
(* each Run starts its listeners in the background, and waits for the      *)
(* group's context or for a listener to end.  The first error cancels the  *)
(* context of all; a signal cancels it as well.  Once all have returned,   *)
(* main exits with 0 or with 1, and the service manager starts the program *)
(* again after a 1.                                                        *)
(***************************************************************************)
EXTENDS Naturals

CONSTANT Single   \* the HTTP and TFTP servers and the ironic API: alike here

ASSUME ServersAssumption == Single \cap {"dhcp", "dns", "udp", "tcp"} = {}

Server == Single \cup {"dhcp", "dns"}
Listener == Single \cup {"dhcp", "udp", "tcp"}

VARIABLES dnsEnabled,  \* dns.enabled
          run,         \* server -> where its Run is: "canceled" and "error"
                       \*   are what it is about to return
          listener,    \* listener -> what its goroutine does
          signalled,   \* SIGINT or SIGTERM was received
          group,       \* the first error of the group
          exit         \* the exit status, or "none"

vars == <<dnsEnabled, run, listener, signalled, group, exit>>

Of(s) == IF s # "dns" THEN {s} ELSE IF dnsEnabled THEN {"udp", "tcp"} ELSE {}

(* gctx.Done() *)
Cancelled == signalled \/ group # "none"

Fresh ==
  [run |-> [s \in Server |-> "idle"], listener |-> [l \in Listener |-> "none"]]

Init ==
  /\ dnsEnabled \in BOOLEAN
  /\ run = Fresh.run /\ listener = Fresh.listener
  /\ signalled = FALSE /\ group = "none" /\ exit = "none"

-----------------------------------------------------------------------------
(* Run, which is the same for all servers but for three things: the DHCP   *)
(* server opens its socket before anything else; the DNS server has two    *)
(* listeners, or none, and does not wait for them to end.                  *)

To(s, where) == run' = [run EXCEPT ![s] = where]
Become(L, what) ==
  listener' = [l \in Listener |-> IF l \in L THEN what ELSE listener[l]]
InRun == UNCHANGED <<dnsEnabled, signalled, group, exit>>

Begin(s) ==
  /\ run[s] = "idle"
  /\ \/ s # "dhcp" /\ To(s, "wait") /\ Become(Of(s), "opening")
     \/ s = "dhcp" /\ To(s, "wait") /\ Become(Of(s), "on")
     \/ s = "dhcp" /\ To(s, "error") /\ Become(Of(s), "failed")
  /\ InRun

(* What Shutdown, or Close, does to the listeners L.  The one of the DNS   *)
(* server only affects a listener that has started; after the others', one *)
(* that is still to start will not.                                        *)
Shutdown(L) ==
  Become({l \in L : \/ listener[l] = "on"
                    \/ listener[l] = "opening" /\ l \notin {"udp", "tcp"}}, "closing")

(* case <-ctx.Done() *)
Stop(s) ==
  /\ run[s] = "wait" /\ Cancelled
  /\ To(s, "canceled")
  /\ Shutdown(Of(s))
  /\ InRun

(* Mutant: a server whose listener has failed returns nil. *)
ErrorLost(s) ==
  /\ run[s] = "wait"
  /\ \E l \in Of(s) : listener[l] = "failed"
  /\ To(s, "done")
  /\ Shutdown(Of(s))
  /\ InRun

(* Mutant: it returns ctx.Err() then as well. *)
ErrorMasked(s) ==
  /\ run[s] = "wait"
  /\ \E l \in Of(s) : listener[l] = "failed"
  /\ To(s, "canceled")
  /\ Shutdown(Of(s))
  /\ InRun

(* case err := <-errCh *)
Error(s) ==
  /\ run[s] = "wait"
  /\ \E l \in Of(s) : listener[l] = "failed"
  /\ To(s, "error")
  /\ Shutdown(Of(s))
  /\ InRun

(* Mutant: the group keeps the last error. *)
ReturnLast(s) ==
  /\ run[s] \in {"canceled", "error"}
  /\ s # "dns" => listener[s] \in {"failed", "closed"}
  /\ group' = run[s]
  /\ To(s, "done")
  /\ UNCHANGED <<dnsEnabled, listener, signalled, exit>>

(* All but the DNS server wait until their listener has ended.  The group  *)
(* keeps the first error.                                                  *)
Return(s) ==
  /\ run[s] \in {"canceled", "error"}
  /\ s # "dns" => listener[s] \in {"failed", "closed"}
  /\ group' = IF group = "none" THEN run[s] ELSE group
  /\ To(s, "done")
  /\ UNCHANGED <<dnsEnabled, listener, signalled, exit>>

-----------------------------------------------------------------------------
(* The listeners' goroutines. *)

Becomes(l, from, to) ==
  /\ listener[l] = from
  /\ listener' = [listener EXCEPT ![l] = to]
  /\ UNCHANGED <<dnsEnabled, run, signalled, group, exit>>

Open(l) == Becomes(l, "opening", "on")
Close(l) == Becomes(l, "closing", "closed")

(* The address cannot be listened on, or the socket breaks. *)
Break(l) == Becomes(l, "opening", "failed") \/ Becomes(l, "on", "failed")

-----------------------------------------------------------------------------
(* main, and the service manager. *)

Signal ==
  /\ exit = "none" /\ ~signalled
  /\ signalled' = TRUE
  /\ UNCHANGED <<dnsEnabled, run, listener, group, exit>>

Ends(status) ==
  /\ exit = "none"
  /\ \A s \in Server : run[s] = "done"
  /\ exit' = status
  /\ UNCHANGED <<dnsEnabled, run, listener, signalled, group>>

(* Mutant: a failure is not told to the service manager. *)
ExitClean == Ends("0")

(* g.Wait(): context.Canceled is no error. *)
Exit == Ends(IF group = "error" THEN "1" ELSE "0")

(* Restart=on-failure. *)
Restart ==
  /\ exit = "1"
  /\ dnsEnabled' \in BOOLEAN
  /\ run' = Fresh.run /\ listener' = Fresh.listener
  /\ signalled' = FALSE /\ group' = "none" /\ exit' = "none"

(* Until main exits, everything above goes on. *)
Running ==
  /\ exit = "none"
  /\ \/ \E s \in Server : Begin(s) \/ Stop(s) \/ Error(s) \/ Return(s)
     \/ \E l \in Listener : Open(l) \/ Close(l) \/ Break(l)

Next == Running \/ Signal \/ Exit \/ Restart

Spec == Init /\ [][Next]_vars

(* Goroutines run, and a listener that is shut down ends; none is assumed  *)
(* to fail, nor a signal to come.                                          *)
Fairness ==
  /\ \A s \in Server :
       /\ WF_vars(exit = "none" /\ Begin(s))
       /\ WF_vars(exit = "none" /\ (Stop(s) \/ Error(s)))
       /\ WF_vars(exit = "none" /\ Return(s))
  /\ \A l \in Listener :
       /\ WF_vars(exit = "none" /\ Open(l))
       /\ WF_vars(exit = "none" /\ Close(l))
  /\ WF_vars(Exit) /\ WF_vars(Restart)

FairSpec == Spec /\ Fairness

-----------------------------------------------------------------------------
(* Properties. *)

TypeOK ==
  /\ dnsEnabled \in BOOLEAN /\ signalled \in BOOLEAN
  /\ run \in [Server -> {"idle", "wait", "canceled", "error", "done"}]
  /\ listener \in [Listener -> {"none", "opening", "on", "failed", "closing", "closed"}]
  /\ group \in {"none", "canceled", "error"}
  /\ exit \in {"none", "0", "1"}

Failed == \E l \in Listener : listener[l] = "failed"

(* The exit status, which decides whether the service manager starts the   *)
(* program again: it does not end with 0 unless it was told to, nor with 1 *)
(* unless a listener has failed, whichever server fails, whatever order    *)
(* they return in and whenever the signal comes.                           *)
ExitTells ==
  /\ exit = "0" => signalled
  /\ exit = "1" => Failed

(* One server that cannot listen, or a signal, ends the whole program: it  *)
(* never goes on with the rest, which would hand out boots that nothing    *)
(* serves.                                                                 *)
AllEnd == (Failed \/ signalled) ~> exit # "none"

(* Once nothing fails any more and nobody stops it, all servers come to    *)
(* listen, and stay so, whatever has failed before.                        *)
Fault == Signal \/ (\E l \in Listener : Break(l)) \/ (run["dhcp"] = "idle" /\ run'["dhcp"] = "error")
AllOn == \A s \in Server : run[s] = "wait" /\ \A l \in Of(s) : listener[l] = "on"
ComesBack == <>[][~Fault]_vars => <>[](AllOn \/ signalled)

-----------------------------------------------------------------------------
(* The inductive invariant: an error of the group, or of a Run, has its    *)
(* cause in a listener; a cancellation in the signal, or in such an error. *)

Caused ==
  /\ group = "canceled" => signalled
  /\ group = "error" => Failed
  /\ \A s \in Server : run[s] = "error" => Failed
  /\ \A s \in Server : run[s] = "canceled" => Cancelled
  /\ (\A s \in Server : run[s] = "done") => Cancelled
  /\ group = "none" => \A s \in Server : run[s] # "done"

NotBegun == \A s \in Server : run[s] = "idle" => \A l \in Of(s) : listener[l] = "none"

RInv == TypeOK /\ Caused /\ NotBegun /\ ExitTells

(* A listener belongs to a server, and whoever waits for it to end has     *)
(* told it to; the DNS server does not wait.                               *)
Owned == \A l \in Listener : listener[l] # "none" => \E s \in Server : l \in Of(s)
ToldToEnd ==
  \A s \in Server : \A l \in Of(s) :
    /\ run[s] = "wait" => listener[l] \in {"opening", "on", "failed"}
    /\ (run[s] \in {"canceled", "error"} /\ s # "dns")
         => listener[l] \in {"closing", "closed", "failed"}

SInv == RInv /\ Owned /\ ToldToEnd

(* What AllEnd rests on, besides the scheduling: after a failure, or a     *)
(* signal, somebody can go on until the program has exited.  No server     *)
(* waits for one that waits for it, or for a listener that nobody stops.   *)
GoesOn ==
  \/ \E s \in Server : run[s] = "idle"
  \/ \E s \in Server : run[s] = "wait" /\ (Cancelled \/ \E l \in Of(s) : listener[l] = "failed")
  \/ \E s \in Server : /\ run[s] \in {"canceled", "error"}
                       /\ s # "dns" => listener[s] \in {"failed", "closed"}
  \/ \E l \in Listener : listener[l] = "closing"
  \/ \A s \in Server : run[s] = "done"
NeverStuck == ((Failed \/ signalled) /\ exit = "none") => GoesOn

(* What ComesBack rests on: servers that all listen go on doing so, as     *)
(* long as none fails and nobody stops them; nothing that was left of an   *)
(* earlier failure ends one of them.                                       *)
StaysUp == [][(AllOn /\ ~signalled /\ ~Fault) => AllOn']_vars
=============================================================================
