------------------------------- MODULE Daemon -------------------------------
(***************************************************************************)
(* The process (cmd/holonet/main.go): program.Start and Stop, runDaemon,   *)
(* the trap listener it starts (internal/snmp/sink.go) and the console's   *)
(* requests while it serves.  A one-shot command may open the same         *)
(* database at any time.  Time passes in the waits of the shutdown.        *)
(***************************************************************************)
EXTENDS Migrate, Console

CONSTANTS
  Holonet, Command,        \* the processes
  ShutdownWait, SinkWait,  \* runDaemon's waits for requests and listener
  StopWait,                \* program.Stop's wait for runDaemon
  MaxStarts                \* bound: starts of the daemon

ASSUME ProcessAssumption == Process = {Holonet, Command} /\ Holonet # Command
ASSUME StopAssumption ==
  /\ ShutdownWait \in Nat /\ SinkWait \in Nat /\ StopWait \in Nat
  /\ ShutdownWait + SinkWait < StopWait
ASSUME StartBound == MaxStarts \in Nat

VARIABLES
  phase,      \* how far the daemon's goroutine runDaemon is
  sink,       \* the listener, until its result was taken from errCh
  cancelled,  \* its context
  stopping,   \* Stop was called
  waited,     \* time spent in the current wait
  since,      \* time since Stop
  excuse,     \* history variable: why a stop may cut off requests
  starts

daemonVars == <<phase, sink, cancelled, stopping, waited, since, excuse, starts>>
vars == <<storeVars, consoleVars, daemonVars>>

Starting == {"communities", "settings", "users"}

DaemonTypeOK ==
  /\ phase \in {"off", "opening", "running", "drain", "settle", "returned"} \cup Starting
  /\ sink \in {"none", "binding", "listening", "backoff", "stopped", "failed",
             "collected"}
  /\ cancelled \in BOOLEAN /\ stopping \in BOOLEAN 
  /\ excuse \in {"none", "startup", "timeout"}
  /\ waited \in Nat /\ since \in 0..StopWait
  /\ starts \in 0..MaxStarts

TypeOK == MigrateTypeOK /\ ConsoleTypeOK /\ DaemonTypeOK

\* The seeded settings, in a new database or one that was set up before.
Init ==
  /\ MigrateInit
  /\ http = "down" /\ key = None /\ active = None
  /\ \E v \in Value \ {Off} : stored = [k \in Setting |-> v]
  /\ users = [u \in {} |-> None] /\ communities = [c \in {} |-> None]
  /\ usm = {} /\ allow = {}
  /\ IF effects = <<>> THEN accounts = <<>> /\ session = None
     ELSE accounts = <<CHOOSE n \in Name : TRUE>> /\ session = CHOOSE k \in Key : TRUE
  /\ slot = [s \in Slot |-> Idle] /\ requests = 0
  /\ behind = "none" /\ contested = FALSE
  /\ edited = {} /\ born = {} /\ updated = {}
  /\ phase = "off" /\ sink = "none"
  /\ cancelled = FALSE /\ stopping = FALSE /\ excuse = "none"
  /\ waited = 0 /\ since = 0 /\ starts = 0

-----------------------------------------------------------------------------
(***************************************************************************)
(* Startup.                                                                *)
(***************************************************************************)

Start(k) ==
  /\ phase = "off" /\ starts < MaxStarts
  /\ OpenStore(Holonet)
  /\ phase' = "opening" /\ key' = k /\ starts' = starts + 1
  /\ UNCHANGED <<http, active, usm, allow, tables, session, slot, requests, behind,
                 history, sink, cancelled, stopping, waited, since, excuse>>

Opened ==
  /\ phase = "opening" /\ opener[Holonet].at = "open"
  /\ phase' = "communities"
  /\ UNCHANGED <<storeVars, consoleVars, sink, cancelled, stopping, waited, since,
                 excuse, starts>>

\* communityChecker; when it cannot read them runDaemon returns.
LoadCommunities ==
  /\ phase = "communities"
  /\ \/ /\ allow' = UnsealedCommunities(key) /\ edited' = edited \ Community
        /\ phase' = "settings"
        /\ UNCHANGED cancelled
     \/ /\ phase' = "returned" /\ cancelled' = TRUE
        /\ UNCHANGED <<allow, edited>>
  /\ UNCHANGED <<storeVars, http, key, active, usm, tables, session, slot, requests,
                 behind, born, updated, contested, sink, stopping, waited, since,
                 excuse, starts>>

\* The flood controller is built and the web server started.
LoadSettings ==
  /\ phase = "settings"
  /\ \E D \in SUBSET FloodSetting : active' = AllSettings(D) /\ behind' = LapseOf(D)
  /\ http' = "up" /\ phase' = "users"
  /\ UNCHANGED <<storeVars, key, usm, allow, tables, session, slot, requests,
                 history, sink, cancelled, stopping, waited, since, excuse, starts>>

\* v3Users, and the listener's goroutine.
LoadUsers ==
  /\ phase = "users"
  /\ usm' = USMTable(UnsealedUsers(key)) /\ edited' = edited \ User
  /\ sink' = "binding" /\ phase' = "running"
  /\ UNCHANGED <<storeVars, http, key, active, allow, tables, session, slot,
                 requests, behind, born, updated, contested, cancelled, stopping,
                 waited, since, excuse, starts>>

\* ListenAndServe returns an error: the daemon shuts down.
HttpFails ==
  /\ http = "up" /\ phase \in {"users", "running"}
  /\ http' = "down" /\ cancelled' = TRUE
  /\ UNCHANGED <<storeVars, key, active, usm, allow, tables, session, slot, requests,
                 behind, history, phase, sink, stopping, waited, since, excuse, starts>>

-----------------------------------------------------------------------------
(***************************************************************************)
(* The listener.                                                           *)
(***************************************************************************)

Sink(from, to) ==
  /\ sink = from /\ sink' = to
  /\ UNCHANGED <<storeVars, consoleVars, phase, cancelled, stopping, waited, since,
                 excuse, starts>>

Bind == ~cancelled /\ (Sink("binding", "listening") \/ Sink("binding", "failed"))
ListenerFails == ~cancelled /\ Sink("listening", "failed")

\* The SNMP library panics before the socket listens,
BindPanics == ~cancelled /\ Sink("binding", "backoff")

\* ... or on a packet, inside its listen loop.
Panic == ~cancelled /\ Sink("listening", "backoff")

\* Mutant: only the end of the context is waited for.
RebuildOnCancel == cancelled /\ Sink("backoff", "binding")

Rebuild == ~cancelled /\ Sink("backoff", "binding")

SinkStops ==
  cancelled /\ \E s \in {"binding", "listening", "backoff"} : Sink(s, "stopped")

-----------------------------------------------------------------------------
(***************************************************************************)
(* The shutdown.                                                           *)
(***************************************************************************)

\* The signal, or the service manager.
Stop ==
  /\ phase \notin {"off", "opening"} /\ ~stopping
  /\ stopping' = TRUE /\ cancelled' = TRUE
  /\ excuse' = IF phase \in Starting THEN "startup" ELSE excuse
  /\ UNCHANGED <<storeVars, consoleVars, phase, sink, waited, since, starts>>

\* Start's error ends runDaemon; the web server is left serving.
SinkReturns ==
  /\ phase = "running" /\ sink = "failed"
  /\ phase' = "returned" /\ cancelled' = TRUE
  /\ UNCHANGED <<storeVars, consoleVars, sink, stopping, waited, since, excuse, starts>>

\* The context is done, or errCh has the listener's nil, which is then taken;
\* httpSrv.Shutdown accepts no more requests.
BeginShutdown ==
  /\ phase = "running" /\ cancelled
  /\ sink' = sink \/ (sink = "stopped" /\ sink' = "collected")
  /\ phase' = "drain" /\ waited' = 0
  /\ http' = IF http = "up" THEN "draining" ELSE http
  /\ UNCHANGED <<storeVars, key, active, usm, allow, tables, session, slot, requests,
                 behind, history, cancelled, stopping, since, excuse, starts>>

\* ... and returns when the requests are done, or the time is over.
EndShutdown ==
  /\ phase = "drain"
  /\ InFlight = {} \/ waited = ShutdownWait
  /\ excuse' = IF InFlight = {} THEN excuse ELSE "timeout"
  /\ phase' = "settle" /\ waited' = 0 /\ http' = "down"
  /\ UNCHANGED <<storeVars, key, active, usm, allow, tables, session, slot, requests,
                 behind, history, sink, cancelled, stopping, since, starts>>

\* The second select, in vain when the result was taken before.
Return ==
  /\ phase = "settle"
  /\ sink \in {"stopped", "failed"} \/ waited = SinkWait
  /\ phase' = "returned" /\ waited' = 0
  /\ UNCHANGED <<storeVars, consoleVars, sink, cancelled, stopping, since,
                 excuse, starts>>

\* The waits of a shutdown; a query at startup may take long, other steps do not.
Tick ==
  /\ \/ phase = "drain" /\ waited < ShutdownWait /\ InFlight # {}
     \/ phase = "settle" /\ waited < SinkWait /\ sink \notin {"stopped", "failed"}
     \/ phase \in Starting /\ stopping
  /\ since < StopWait
  /\ since' = IF stopping THEN since + 1 ELSE since
  /\ waited' = IF phase \in Starting THEN waited ELSE waited + 1
  /\ UNCHANGED <<storeVars, consoleVars, phase, sink, cancelled, stopping, excuse, starts>>

\* The memory of the process is gone.
Die ==
  /\ CloseStore(Holonet)
  /\ phase' = "off" /\ sink' = "none"
  /\ cancelled' = FALSE /\ stopping' = FALSE /\ excuse' = "none"
  /\ waited' = 0 /\ since' = 0
  /\ http' = "down" /\ usm' = {} /\ allow' = {}
  /\ key' = None /\ active' = None /\ behind' = "none"
  /\ slot' = [s \in Slot |-> Idle]
  /\ UNCHANGED <<tables, session, requests, history, starts>>

\* Mutant: Stop waits for as long as the server's shutdown alone may take.
ExitEarly ==
  /\ stopping
  /\ phase = "returned" \/ since >= ShutdownWait
  /\ Die

\* Mutant: Stop waits for runDaemon without a limit.
ExitReturned ==
  /\ stopping
  /\ phase = "returned"
  /\ Die

\* Stop returns, svc.Run with it, and the store is closed.
Exit ==
  /\ stopping
  /\ phase = "returned" \/ since = StopWait
  /\ Die

\* A kill, or the store cannot be opened.
Crash == phase # "off" /\ Die

-----------------------------------------------------------------------------

\* Opening the store, by either process.
Migrating ==
  \E p \in Process :
    /\ CheckMigration(p) \/ ApplyMigration(p)
    /\ UNCHANGED <<consoleVars, daemonVars>>

\* --add-community, in a process of its own.
RunCommand ==
  \/ /\ requests < MaxRequests /\ requests' = requests + 1
     /\ OpenStore(Command)
     /\ UNCHANGED <<memory, tables, session, slot, behind, history, daemonVars>>
  \/ /\ opener[Command].at = "open"
     /\ \E c \in Community, k \in Key : InsertCommunity(c, k, TRUE)
     /\ CloseStore(Command)
     /\ UNCHANGED <<requests, daemonVars>>
  \/ /\ opener[Command].at # "closed"
     /\ CloseStore(Command)
     /\ UNCHANGED <<consoleVars, daemonVars>>

Serve == ConsoleRequest /\ UNCHANGED <<storeVars, daemonVars>>

Next ==
  \/ \E k \in Key : Start(k)
  \/ Migrating \/ Opened \/ LoadCommunities \/ LoadSettings \/ LoadUsers
  \/ HttpFails
  \/ Bind \/ BindPanics \/ ListenerFails \/ Panic \/ Rebuild \/ SinkStops
  \/ Stop \/ SinkReturns \/ BeginShutdown \/ EndShutdown \/ Return \/ Tick
  \/ Exit \/ Crash
  \/ RunCommand \/ Serve

\* The listener's timer fires and its socket answers; the context's end is
\* noticed; the waits of a shutdown end.  No query need ever be answered.
Fairness ==
  /\ WF_vars(Bind) /\ WF_vars(Rebuild) /\ WF_vars(SinkStops)
  /\ WF_vars(SinkReturns \/ BeginShutdown) /\ WF_vars(EndShutdown) /\ WF_vars(Return)
  /\ WF_vars(Tick) /\ WF_vars(Exit)

Spec == Init /\ [][Next]_vars /\ Fairness

-----------------------------------------------------------------------------

\* internal/snmp/v3.go, cmd/holonet/main.go communityChecker and v3Users load
\* the credentials once.  While the listener runs, what it accepts is what the
\* tables hold and the master key opens, but for rows edited since; a user the
\* editor created and nobody updated is not refused for being incomplete.
CredentialsInForce ==
  phase = "running" =>
    /\ \A c \in DOMAIN communities \ edited :
         c \in allow <=> communities[c].enabled /\ communities[c].key = key
    /\ \A u \in DOMAIN users \ edited :
         u \in usm <=> users[u].enabled /\ Unseals(users[u], key)
                       /\ (u \in updated => Valid(users[u]))

\* cmd/holonet/main.go: a stop closes the store under a request only when the
\* server's shutdown ran out of time, the listener had failed before, or Stop
\* came while the daemon was starting; its own limit is never the cause.
RequestsDrained ==
  [][Exit => InFlight = {} \/ sink = "failed" \/ excuse # "none"]_vars

\* internal/snmp/sink.go:92 "trap reception self-heals": after a panic the
\* listener is up again, unless it is stopped, its socket fails, or the library
\* panics again and again before it listens.
ListenerHeals ==
  []<><<BindPanics>>_vars \/ (sink = "backoff" ~> sink # "backoff" /\ sink # "binding")

\* A stop ends the process, with requests that hang, a listener in any state and
\* a startup that does not get its queries answered.
StopEnds == stopping ~> phase = "off"
=============================================================================
