------------------------------ MODULE Discovery ------------------------------
(***************************************************************************)
(* How services are found: the supervisor's registrations, the registry    *)
(* service and the command line client, each talking to the next through   *)
(* the ipc package.                                                        *)
(*                                                                         *)
(* The service processes come and go as the module Lifecycle says, which   *)
(* the service manager implements; a quarantined service is one that is    *)
(* not started again, which may be so of any.  A socket is named by its    *)
(* service, an endpoint is a socket with "unix://" before it or without,   *)
(* written as a sequence of the two.  Frames and data have sizes in small  *)
(* units.                                                                  *)
(***************************************************************************)
EXTENDS Naturals, Sequences

CONSTANTS
  Services, DependsOn,  \* those of the manager
  MaxSpawn,             \* bound: processes of one service
  Clients,              \* strata-ctl processes, one command at a time each
  Commands,             \* what they are asked to send
  maxFrameSize,         \* bytes of a frame,
  maxReadSize,          \* of data a service puts into an answer,
  Envelope              \* and of the answer around the data

ASSUME DiscoveryAssumption ==
  /\ MaxSpawn \in Nat /\ maxFrameSize \in Nat /\ maxReadSize \in Nat /\ Envelope \in Nat
  /\ "registry" \in Services

VARIABLES
  spawned, running,  \* those of Lifecycle
  sock,       \* the socket of every service: not yet open, open, or no longer
  up,         \* the last process of every service that start() has seen ready
  entries,    \* Registry.entries, with none for a service that has no entry
  call        \* the calls of clients and of the supervisor's registrations

processes == <<spawned, running>>
vars == <<processes, sock, up, entries, call>>

Lives == INSTANCE Lifecycle WITH held <- {}

listening == {s \in Services : sock[s] = "open"}

none == <<>>
socket(s) == <<s>>
endpoint(s) == <<"unix://", s>>   \* what OnHealthy registers

Registered == Services \ {"registry"}
Registrations == Registered \X (1..MaxSpawn)
Callers == Clients \cup Registrations

ASSUME CallersAssumption ==
  /\ Clients \cap Registrations = {}
  /\ \A r \in Commands : r.service \in Services

answer(ok, e, data) == [ok |-> ok, endpoint |-> e, data |-> data]

registration(s) ==
  [method |-> "registry.register", service |-> s, endpoint |-> endpoint(s), size |-> 0]

\* gone, a history: the service a client calls was not listening all the time.
NoCall ==
  [pc |-> "idle", req |-> registration("registry"), to |-> none, resolve |-> FALSE,
   peer |-> <<"registry", 0>>, reply |-> answer(FALSE, none, 0), gone |-> FALSE]

\* The service a command is for.
target(r) == IF r.method = "call" THEN r.service ELSE "registry"

Endpoints == {none} \cup {socket(s) : s \in Services} \cup {endpoint(s) : s \in Services}
               \cup {r.endpoint : r \in Commands}

(* The values the variables take.  An answered call has an answer of the   *)
(* process it was sent to.                                                 *)
TypeOK ==
  /\ spawned \in [Services -> 0..MaxSpawn]
  /\ sock \in [Services -> {"new", "open", "closed"}]
  /\ listening \subseteq running /\ running \subseteq Services
  /\ \A s \in Services : up[s] \in 0..spawned[s]
  /\ entries \in [Registered -> Endpoints]
  /\ \A k \in Callers :
       /\ call[k].pc \in {"idle", "dial", "sent", "answered", "ok", "refused", "failed"}
       /\ call[k].req \in Commands \cup {registration(s) : s \in Services}
       /\ call[k].peer[1] \in Services /\ call[k].peer[2] \in 0..spawned[call[k].peer[1]]
       /\ call[k].pc \in {"sent", "answered"} => socket(call[k].peer[1]) = call[k].to

Init ==
  /\ Lives!Init
  /\ sock = [s \in Services |-> "closed"] /\ up = [s \in Services |-> 0]
  /\ entries = [s \in Registered |-> none]
  /\ call = [k \in Callers |-> NoCall]

-----------------------------------------------------------------------------
(* The processes.                                                          *)

busy(k) == call[k].pc \in {"dial", "sent", "answered"}

\* The socket of s is no longer there for those who call s.
Leave(s) ==
  /\ sock' = [sock EXCEPT ![s] = "closed"]
  /\ call' = [k \in Callers |->
                IF k \in Clients /\ busy(k) /\ target(call[k].req) = s
                  THEN [call[k] EXCEPT !.gone = TRUE] ELSE call[k]]

\* StartAll starts one service after the other has come up, and Run, which
\* restarts them, begins when all have.
Spawn(s) ==
  /\ spawned[s] < MaxSpawn /\ Lives!Spawn(s)
  /\ \A t \in Services : up[t] = 0 => spawned[s] = 0 /\ spawned[t] = 0
  /\ sock' = [sock EXCEPT ![s] = "new"]
  /\ UNCHANGED <<up, entries, call>>

\* Server.Start
Listen(s) ==
  /\ s \in running /\ sock[s] = "new"
  /\ sock' = [sock EXCEPT ![s] = "open"]
  /\ UNCHANGED <<processes, up, entries, call>>

\* Server.Stop, after a signal; handlers go on until the process ends.
Stop(s) ==
  /\ s \in listening
  /\ Leave(s)
  /\ UNCHANGED <<processes, up, entries>>

\* The end of a process; a new registry begins with registry.New().
End(s) ==
  /\ Lives!End(s)
  /\ Leave(s)
  /\ entries' = IF s = "registry" THEN [t \in Registered |-> none] ELSE entries
  /\ UNCHANGED up

\* start() has seen the socket of the process, and OnHealthy is called, which
\* starts registerInRegistry, but not for the registry.
OnHealthy(s) ==
  /\ s \in listening /\ up[s] # spawned[s]
  /\ up' = [up EXCEPT ![s] = spawned[s]]
  /\ \/ s = "registry" /\ UNCHANGED call
     \/ /\ s # "registry"
        /\ call' = [call EXCEPT ![<<s, spawned[s]>>] =
                      [NoCall EXCEPT !.pc = "dial", !.to = socket("registry"),
                                     !.req = registration(s)]]
  /\ UNCHANGED <<processes, sock, entries>>

-----------------------------------------------------------------------------
(* The ipc package, with the handlers of the registry, and strata-ctl.     *)

direct(service) == service \in {"registry", "supervisor"}

\* strata-ctl is run: resolveSocket begins, unless the socket is known.
Invoke(k, r) ==
  /\ ~busy(k)
  /\ call' = [call EXCEPT ![k] =
       [NoCall EXCEPT !.pc = "dial", !.req = r, !.resolve = ~direct(target(r)),
                      !.gone = target(r) \notin listening,
                      !.to = IF direct(target(r)) THEN socket(target(r)) ELSE socket("registry")]]
  /\ UNCHANGED <<processes, sock, up, entries>>

\* The connection is closed, and the request itself follows, or the call ends.
Connect(k, to) ==
  call' = [call EXCEPT ![k] = [NoCall EXCEPT !.pc = "dial", !.req = call[k].req, !.to = to,
                                             !.gone = call[k].gone]]
Return(k, result) == call' = [call EXCEPT ![k] = [NoCall EXCEPT !.pc = result]]

Mut_Fail(k) == Return(k, "failed")
Mut_FailRetries(k) ==
  \/ call[k].resolve /\ call' = [call EXCEPT ![k].pc = "dial"]
  \/ ~call[k].resolve /\ Return(k, "failed")

\* SendRequest returns an error.  That of registry.resolve is followed by the
\* request itself, sent where convention says.
Fail(k) ==
  \/ call[k].resolve /\ Connect(k, socket(call[k].req.service))
  \/ ~call[k].resolve /\ Return(k, "failed")

\* WriteFrame, which writes frames of any size, and what ReadFrame refuses.
WriteFrame(k, s) == call' = [call EXCEPT ![k].pc = "sent", ![k].peer = <<s, spawned[s]>>]
tooLarge(size) == size > maxFrameSize

\* net.Dial and the request.
Dial(k) ==
  /\ call[k].pc = "dial"
  /\ \/ \E s \in listening : call[k].to = socket(s) /\ WriteFrame(k, s)
     \/ (\A s \in listening : call[k].to # socket(s)) /\ Fail(k)
  /\ UNCHANGED <<processes, sock, up, entries>>

alive(peer) == peer[1] \in running /\ spawned[peer[1]] = peer[2]

Mut_Register(r) == entries' = [entries EXCEPT ![r.service] = IF @ = none THEN r.endpoint ELSE @]

Mut_RegisterURL(r) ==
  entries' = [entries EXCEPT ![r.service] = <<"unix://">> \o r.endpoint]

Register(r) == entries' = [entries EXCEPT ![r.service] = r.endpoint]

Resolve(s) == answer(entries[s] # none, entries[s], 0)

\* The handler of the peer: what it does, and the answer.
Handle(k) ==
  LET c == call[k]
      Reply(x) == call' = [call EXCEPT ![k].pc = "answered", ![k].reply = x]
  IN \/ /\ c.resolve
        /\ Reply(Resolve(c.req.service))
        /\ UNCHANGED entries
     \/ /\ ~c.resolve /\ c.req.method = "registry.register" /\ c.peer[1] = "registry"
        /\ c.req.endpoint # none
        /\ Register(c.req)
        /\ Reply(answer(TRUE, none, 0))
     \/ /\ ~c.resolve /\ c.req.method = "registry.register" /\ c.peer[1] = "registry"
        /\ c.req.endpoint = none   \* missing endpoint param
        /\ Reply(answer(FALSE, none, 0))
        /\ UNCHANGED entries
     \/ /\ c.req.method = "registry.list" /\ c.peer[1] = "registry"
        /\ Reply(answer(TRUE, none, 0))
        /\ UNCHANGED entries
     \/ /\ ~c.resolve /\ c.req.method = "call" /\ c.peer[1] = c.req.service
        /\ \/ Reply(answer(FALSE, none, 0))
           \/ \E data \in 0..maxReadSize : Reply(answer(TRUE, none, data))
        /\ UNCHANGED entries
     \/ /\ ~c.resolve /\ c.req.method = "call" /\ c.peer[1] # c.req.service
        /\ Reply(answer(FALSE, none, 0))   \* unknown method
        /\ UNCHANGED entries

ReadRequest(k) == call[k].resolve \/ ~tooLarge(call[k].req.size)

\* ReadRequest, the handler, and WriteFrame.  When the request is too large
\* the connection is closed.
Serve(k) ==
  /\ call[k].pc = "sent" /\ alive(call[k].peer)
  /\ \/ ~ReadRequest(k) /\ Fail(k) /\ UNCHANGED entries
     \/ ReadRequest(k) /\ Handle(k)
  /\ UNCHANGED <<processes, sock, up>>

\* The connection is lost with the process, or before it was accepted.
Break(k) ==
  /\ call[k].pc = "sent"
  /\ ~alive(call[k].peer) \/ call[k].peer[1] \notin listening
  /\ Fail(k)
  /\ UNCHANGED <<processes, sock, up, entries>>

stripped(e) == IF e[1] = "unix://" THEN Tail(e) ELSE e

\* ReadFrame, and what is done with the answer.
Receive(k) ==
  LET c == call[k] IN
  /\ c.pc = "answered"
  /\ \/ tooLarge(c.reply.data + Envelope) /\ Fail(k)
     \/ /\ ~tooLarge(c.reply.data + Envelope)
        /\ \/ c.resolve /\ ~c.reply.ok /\ Fail(k)
           \/ c.resolve /\ c.reply.ok /\ Connect(k, stripped(c.reply.endpoint))
           \/ ~c.resolve /\ Return(k, IF c.reply.ok THEN "ok" ELSE "refused")
  /\ UNCHANGED <<processes, sock, up, entries>>

Proceed(k) == Dial(k) \/ Serve(k) \/ Break(k) \/ Receive(k)

Next ==
  \/ \E s \in Services : Spawn(s) \/ Listen(s) \/ Stop(s) \/ End(s) \/ OnHealthy(s)
  \/ \E k \in Clients, r \in Commands : Invoke(k, r)
  \/ \E k \in Callers : Proceed(k)

Spec == Init /\ [][Next]_vars

(* Callers and the handlers of live processes run on, and start() sees a   *)
(* socket that stays.  Nothing obliges a process to end or to be started.  *)
Fairness ==
  /\ \A k \in Callers : WF_vars(Proceed(k))
  /\ \A s \in Services : WF_vars(OnHealthy(s))

FairSpec == Spec /\ Fairness

-----------------------------------------------------------------------------
\* A command that registers an endpoint for s.
registers(r, s) == r.method = "registry.register" /\ r.service = s /\ r.endpoint # none

(* A command gets through to a service that listens, whatever the registry *)
(* does: it may be down, know nothing yet, crash or restart in the middle  *)
(* of the command.  Only frames that are too large, or an endpoint that    *)
(* some client has registered for the service, stand in the way            *)
(* (resolveSocket).                                                        *)
RegistryIsOptional ==
  [][\A k \in Clients : busy(k) /\ call'[k].pc = "failed" =>
       LET c == call[k] IN
       \/ c.gone
       \/ /\ c.req.method = "call" /\ ~c.resolve
          /\ \E r \in Commands : registers(r, c.req.service) /\ c.to = stripped(r.endpoint)
       \/ tooLarge(c.req.size) \/ tooLarge(c.reply.data + Envelope)]_vars

(* A service that comes up while the registry listens gets its own         *)
(* endpoint registered, also over another one, unless the registry goes    *)
(* first (OnHealthy, registerInRegistry).                                  *)
RegistrationLands ==
  \A s \in Registered, i \in 1..MaxSpawn :
    (call[<<s, i>>].pc = "dial" /\ "registry" \in listening)
      ~> (entries[s] = endpoint(s) \/ "registry" \notin listening)

(* Every command ends, though SendRequest sets no deadline: nobody waits   *)
(* for a process that has gone.                                            *)
CommandEnds == \A k \in Clients : busy(k) ~> ~busy(k)

-----------------------------------------------------------------------------
(* What the documents say and the code does not do.                        *)

(* "Healthy services are auto-registered in registry": when a service and  *)
(* the registry are both there to stay, the service is registered.         *)
HealthyIsRegistered ==
  \A s \in Registered :
    <>[](s \in listening /\ "registry" \in listening) => <>[](entries[s] # none)
=============================================================================
