-------------------------- MODULE Discovery_proofs --------------------------
(***************************************************************************)
(* Type correctness of the discovery of services, and that commands do not *)
(* need the registry, for any services, clients and commands.              *)
(***************************************************************************)
EXTENDS Discovery, TLAPS

(* The processes: no service was seen healthy more often than spawned.     *)
ProcessType ==
  /\ spawned \in [Services -> 0..MaxSpawn] /\ running \in SUBSET Services
  /\ sock \in [Services -> {"new", "open", "closed"}]
  /\ listening \subseteq running
  /\ up \in [Services -> Nat] /\ \A s \in Services : up[s] <= spawned[s]

(* Where the endpoints of a service come from.                             *)
known(s) == {endpoint(s)} \cup {r.endpoint : r \in {c \in Commands : registers(c, s)}}

(* The registry knows no endpoint of a service but those it was told.      *)
EntriesInv ==
  /\ entries \in [Registered -> Endpoints]
  /\ \A s \in Registered : entries[s] \in known(s) \cup {none}

-----------------------------------------------------------------------------
(* The types of a call in full.                                            *)
Requests == Commands \cup {registration(s) : s \in Services}

(* What a client may dial.                                                 *)
Addresses ==
  Endpoints \cup {stripped(e) : e \in Endpoints \ {none}} \cup {socket(s) : s \in Services}

Replies == [ok : BOOLEAN, endpoint : Endpoints, data : Nat]

Calls ==
  [pc : {"idle", "dial", "sent", "answered", "ok", "refused", "failed"},
   req : Requests, to : Addresses, resolve : BOOLEAN,
   peer : Services \X Nat, reply : Replies, gone : BOOLEAN]

(* The peer is the process that was reached, and only a request for a      *)
(* service other than the registry is preceded by registry.resolve.        *)
PeerOK(c) ==
  /\ c.peer[2] <= spawned[c.peer[1]]
  /\ c.pc \in {"sent", "answered"} => socket(c.peer[1]) = c.to
  /\ c.resolve => c.req.method = "call" /\ c.req.service \in Registered

(* The endpoint that resolveSocket is told was registered for the service. *)
ReplyOK(c) ==
  c.pc = "answered" /\ c.resolve /\ c.reply.ok => c.reply.endpoint \in known(c.req.service)

(* A command is under way to the service it is for, or to an endpoint that *)
(* a client registered for that service.                                   *)
elsewhere(c) ==
  /\ c.req.method = "call" /\ ~c.resolve
  /\ \E r \in Commands : registers(r, c.req.service) /\ c.to = stripped(r.endpoint)

AddressOK(c) == ~c.resolve => c.to = socket(target(c.req)) \/ elsewhere(c)

(* As long as the service stays, what reached it reached its last process. *)
GoneOK(c) ==
  ~c.gone => /\ target(c.req) \in listening
             /\ c.pc = "sent" /\ c.peer[1] = target(c.req) => c.peer[2] = spawned[target(c.req)]

underWay(c) == c.pc \in {"dial", "sent", "answered"}
ClientOK(c) == underWay(c) => AddressOK(c) /\ GoneOK(c)

CallOK(k, c) == c \in Calls /\ PeerOK(c) /\ ReplyOK(c) /\ (k \in Clients => ClientOK(c))

CallsInv == call = [k \in Callers |-> call[k]] /\ \A k \in Callers : CallOK(k, call[k])

(* The inductive invariant.                                                *)
DiscoveryInv == ProcessType /\ EntriesInv /\ CallsInv

-----------------------------------------------------------------------------
(* A step that changes one call.                                           *)
LEMMA OneCall ==
  ASSUME CallsInv, UNCHANGED <<spawned, sock>>, NEW k, NEW c, CallOK(k, c),
         call' = [call EXCEPT ![k] = c]
  PROVE  CallsInv'
<1>1. listening' = listening
  BY Zenon DEF listening
<1>2. ASSUME NEW l, NEW d, CallOK(l, d) PROVE CallOK(l, d)'
  BY Zenon, <1>1, <1>2 DEF CallOK, PeerOK, ReplyOK, ClientOK, AddressOK, GoneOK, elsewhere, underWay, known
<1>3. ASSUME NEW l \in Callers PROVE CallOK(l, call'[l])
  <2>1. CASE l = k
    BY Zenon, <2>1 DEF CallsInv
  <2>2. CASE l # k
    BY Zenon, <2>2 DEF CallsInv
  <2> QED
    BY Zenon, <2>1, <2>2
<1>4. call' = [l \in Callers |-> call'[l]]
  BY Zenon DEF CallsInv
<1> QED
  BY Zenon, <1>2, <1>3, <1>4 DEF CallsInv

(* A call that does nothing.                                               *)
LEMMA Idle ==
  /\ NoCall \in Calls /\ NoCall.resolve = FALSE /\ NoCall.gone = FALSE
  /\ NoCall.peer = <<"registry", 0>> /\ NoCall.req = registration("registry")
<1>1. "registry" \in Services /\ none \in Endpoints
  BY DiscoveryAssumption DEF DiscoveryAssumption, Endpoints
<1>2. answer(FALSE, none, 0) \in Replies
  BY <1>1 DEF answer, Replies
<1>3. registration("registry") \in Requests /\ none \in Addresses
  BY Zenon, <1>1 DEF Requests, Addresses
<1>4. <<"registry", 0>> \in Services \X Nat
  BY <1>1
<1> QED
  BY Zenon, <1>2, <1>3, <1>4 DEF NoCall, Calls

(* A connection is about to be made.                                       *)
LEMMA DialOK ==
  ASSUME ProcessType, NEW k, NEW c \in Calls, c.pc = "dial", c.peer = <<"registry", 0>>,
         c.resolve => c.req.method = "call" /\ c.req.service \in Registered,
         k \in Clients => AddressOK(c) /\ (~c.gone => target(c.req) \in listening)
  PROVE  CallOK(k, c)
<1>1. c.peer[2] <= spawned[c.peer[1]]
  BY DiscoveryAssumption DEF ProcessType, DiscoveryAssumption
<1>2. c.pc \notin {"sent", "answered"}
  OBVIOUS
<1> QED
  BY Zenon, <1>1, <1>2 DEF CallOK, PeerOK, ReplyOK, ClientOK, GoneOK

(* A call has ended.                                                       *)
LEMMA ReturnOK ==
  ASSUME DiscoveryInv, NEW k, NEW result \in {"ok", "refused", "failed"}, Return(k, result),
         UNCHANGED <<spawned, sock>>
  PROVE  CallsInv'
<1> DEFINE c == [NoCall EXCEPT !.pc = result]
<1>1. /\ c \in Calls /\ c.pc = result /\ c.resolve = FALSE
      /\ c.peer = <<"registry", 0>>
  BY Idle DEF Calls
<1> HIDE DEF c
<1>2. c.peer[2] <= spawned[c.peer[1]]
  BY <1>1, DiscoveryAssumption DEF DiscoveryInv, ProcessType, DiscoveryAssumption
<1>3. c.pc \notin {"dial", "sent", "answered"}
  BY <1>1
<1>4. CallOK(k, c)
  BY Zenon, <1>1, <1>2, <1>3 DEF CallOK, PeerOK, ReplyOK, ClientOK, underWay
<1>5. call' = [call EXCEPT ![k] = c]
  BY Zenon DEF Return, c
<1> QED
  BY Zenon, <1>4, <1>5, OneCall DEF DiscoveryInv

(* The request itself follows, to its service or to what was registered.   *)
LEMMA ConnectOK ==
  ASSUME DiscoveryInv, NEW k \in Callers, NEW a \in Addresses, Connect(k, a),
         UNCHANGED <<spawned, sock>>, call[k].resolve, busy(k),
         \/ a = socket(call[k].req.service)
         \/ \E r \in Commands : registers(r, call[k].req.service) /\ a = stripped(r.endpoint)
  PROVE  CallsInv'
<1> DEFINE d == call[k]
           c == [NoCall EXCEPT !.pc = "dial", !.req = d.req, !.to = a, !.gone = d.gone]
<1>1. CallOK(k, d)
  BY Zenon DEF DiscoveryInv, CallsInv
<1>2. d.req \in Requests /\ d.gone \in BOOLEAN
  BY Zenon, <1>1 DEF CallOK, Calls
<1>3. /\ c \in Calls /\ c.pc = "dial" /\ c.req = d.req /\ c.to = a /\ c.resolve = FALSE /\ c.gone = d.gone
      /\ c.peer = <<"registry", 0>>
  BY Zenon, <1>2, Idle DEF Calls
<1>4. d.req.method = "call" /\ target(d.req) = d.req.service
  BY Zenon, <1>1 DEF CallOK, PeerOK, target
<1>5. call' = [call EXCEPT ![k] = c]
  BY Zenon DEF Connect
<1> HIDE DEF c
<1>6. AddressOK(c)
  BY Zenon, <1>3, <1>4 DEF AddressOK, elsewhere
<1>7. k \in Clients => (~c.gone => target(c.req) \in listening)
  BY Zenon, <1>1, <1>3 DEF CallOK, ClientOK, GoneOK, underWay, busy
<1>8. CallOK(k, c)
  BY Zenon, <1>3, <1>6, <1>7, DialOK DEF DiscoveryInv
<1> QED
  BY Zenon, <1>5, <1>8, OneCall DEF DiscoveryInv

(* SendRequest fails: resolveSocket falls back on the convention, and any  *)
(* other call ends.                                                        *)
LEMMA FailOK ==
  ASSUME DiscoveryInv, NEW k \in Callers, Fail(k), busy(k), UNCHANGED <<spawned, sock>>
  PROVE  CallsInv'
<1>1. CASE call[k].resolve /\ Connect(k, socket(call[k].req.service))
  <2>1. call[k].req.service \in Services
    BY Zenon, <1>1 DEF DiscoveryInv, CallsInv, CallOK, PeerOK, Registered
  <2>2. socket(call[k].req.service) \in Addresses
    BY Zenon, <2>1 DEF Addresses
  <2> QED
    BY Zenon, <1>1, <2>2, ConnectOK
<1>2. CASE Return(k, "failed")
  BY Zenon, <1>2, ReturnOK
<1> QED
  BY Zenon, <1>1, <1>2 DEF Fail

-----------------------------------------------------------------------------
(* Calls do not notice that a service listens, or that one that does not   *)
(* is started.                                                             *)
LEMMA CallsKept ==
  ASSUME DiscoveryInv, call' = call, listening \subseteq listening',
         \A s \in Services : spawned'[s] \in Nat /\ spawned[s] <= spawned'[s],
         \A s \in listening : spawned'[s] = spawned[s]
  PROVE  CallsInv'
<1>1. ASSUME NEW k \in Callers PROVE CallOK(k, call[k])'
  <2> DEFINE c == call[k]
  <2>1. CallOK(k, c)
    BY Zenon DEF DiscoveryInv, CallsInv
  <2>2. c.peer[1] \in Services /\ c.peer[2] \in Nat
    BY <2>1 DEF CallOK, Calls
  <2>3. c.peer[2] <= spawned'[c.peer[1]]
    <3>1. c.peer[2] <= spawned[c.peer[1]] /\ spawned[c.peer[1]] <= spawned'[c.peer[1]]
      BY Zenon, <2>1, <2>2 DEF CallOK, PeerOK
    <3>2. spawned[c.peer[1]] \in Nat /\ spawned'[c.peer[1]] \in Nat
      BY <2>2 DEF DiscoveryInv, ProcessType
    <3> QED
      BY <2>2, <3>1, <3>2, SMT
  <2> QED
    BY Zenon, <2>1, <2>3 DEF CallOK, PeerOK, ReplyOK, ClientOK, AddressOK, GoneOK, elsewhere, underWay, known
<1> QED
  BY Zenon, <1>1 DEF DiscoveryInv, CallsInv

(* A new process of a service: calls to the old one stay what they are.    *)
LEMMA SpawnStep ==
  ASSUME DiscoveryInv, NEW s \in Services, Spawn(s)
  PROVE  DiscoveryInv'
<1>1. /\ s \notin running /\ spawned' = [spawned EXCEPT ![s] = @ + 1] /\ running' = running \cup {s}
      /\ sock' = [sock EXCEPT ![s] = "new"] /\ spawned[s] < MaxSpawn
      /\ UNCHANGED <<up, entries, call>>
  BY Zenon DEF Spawn, Lives!Spawn
<1>2. ProcessType /\ s \notin listening
  BY Zenon, <1>1 DEF DiscoveryInv, ProcessType
<1>3. listening' = listening
  BY <1>1, <1>2 DEF listening, ProcessType
<1>4. spawned' \in [Services -> 0..MaxSpawn]
  BY <1>1, <1>2, DiscoveryAssumption DEF ProcessType, DiscoveryAssumption
<1>5. \A t \in Services : spawned[t] \in Nat /\ spawned'[t] \in Nat /\ spawned[t] <= spawned'[t]
  BY <1>1, <1>2, <1>4 DEF ProcessType
<1>6. ProcessType'
  <2>1. running' \in SUBSET Services /\ listening' \subseteq running'
    BY Zenon, <1>1, <1>2, <1>3 DEF ProcessType
  <2>2. sock' \in [Services -> {"new", "open", "closed"}]
    BY <1>1, <1>2 DEF ProcessType
  <2>3. \A t \in Services : up'[t] <= spawned'[t]
    BY <1>1, <1>2, <1>5 DEF ProcessType
  <2> QED
    BY Zenon, <1>1, <1>2, <1>4, <2>1, <2>2, <2>3 DEF ProcessType
<1>7. CallsInv'
  <2>1. \A t \in listening : spawned'[t] = spawned[t]
    BY <1>1, <1>2 DEF ProcessType
  <2> QED
    BY Zenon, <1>1, <1>3, <1>5, <2>1, CallsKept
<1> QED
  BY Zenon, <1>1, <1>6, <1>7 DEF DiscoveryInv, EntriesInv, known

(* A process that begins to listen changes nothing for the calls.          *)
LEMMA ListenStep ==
  ASSUME DiscoveryInv, NEW s \in Services, Listen(s)
  PROVE  DiscoveryInv'
<1>1. /\ s \in running /\ sock' = [sock EXCEPT ![s] = "open"]
      /\ UNCHANGED <<spawned, running, up, entries, call>>
  BY Zenon DEF Listen, processes
<1>2. ProcessType
  BY Zenon DEF DiscoveryInv
<1>3. listening' = listening \cup {s}
  BY <1>1, <1>2 DEF listening, ProcessType
<1>4. sock' \in [Services -> {"new", "open", "closed"}]
  BY <1>1, <1>2 DEF ProcessType
<1>5. ProcessType'
  BY Zenon, <1>1, <1>2, <1>3, <1>4 DEF ProcessType
<1>6. \A t \in Services : spawned'[t] \in Nat /\ spawned[t] <= spawned'[t]
  BY <1>1, <1>2 DEF ProcessType
<1>7. CallsInv'
  BY Zenon, <1>1, <1>3, <1>6, CallsKept
<1> QED
  BY Zenon, <1>1, <1>5, <1>7 DEF DiscoveryInv, EntriesInv, known

(* Clients that were under way to a service that goes know that.           *)
LEMMA LeaveOK ==
  ASSUME DiscoveryInv, NEW s \in Services, Leave(s), spawned' = spawned, up' = up,
         running' \in SUBSET Services, listening \ {s} \subseteq running'
  PROVE  ProcessType' /\ CallsInv'
<1>1. ProcessType
  BY Zenon DEF DiscoveryInv
<1>2. listening' = listening \ {s}
  BY <1>1 DEF Leave, listening, ProcessType
<1>3. ProcessType'
  <2>1. sock' \in [Services -> {"new", "open", "closed"}]
    BY <1>1 DEF Leave, ProcessType
  <2> QED
    BY Zenon, <1>1, <1>2, <2>1 DEF ProcessType
<1>4. ASSUME NEW k \in Callers PROVE CallOK(k, call[k])'
  <2>1. PICK d, c : d = call[k] /\ c = call'[k]
    BY Zenon
  <2>2. CallOK(k, d)
    BY Zenon, <2>1 DEF DiscoveryInv, CallsInv
  <2>3. CallOK(k, c)'
    <3>1. CASE k \in Clients /\ busy(k) /\ target(d.req) = s
      <4>1. c = [d EXCEPT !.gone = TRUE] /\ d \in Calls
        BY Zenon, <2>1, <2>2, <3>1 DEF Leave, CallOK
      <4>2. /\ c \in Calls /\ c.pc = d.pc /\ c.req = d.req /\ c.to = d.to /\ c.resolve = d.resolve
            /\ c.peer = d.peer /\ c.reply = d.reply /\ c.gone = TRUE
        BY Zenon, <4>1 DEF Calls
      <4>3. PeerOK(c)' /\ ReplyOK(c)'
        BY Zenon, <2>2, <4>2 DEF CallOK, PeerOK, ReplyOK, known
      <4>4. AddressOK(c)' /\ GoneOK(c)'
        BY Zenon, <2>1, <2>2, <3>1, <4>2 DEF CallOK, ClientOK, AddressOK, GoneOK, elsewhere, underWay, busy
      <4> QED
        BY Zenon, <4>2, <4>3, <4>4 DEF CallOK, ClientOK
    <3>2. CASE ~(k \in Clients /\ busy(k) /\ target(d.req) = s)
      <4>1. c = d
        BY Zenon, <2>1, <3>2 DEF Leave
      <4>2. k \in Clients /\ underWay(d) => target(d.req) # s
        BY Zenon, <2>1, <3>2 DEF busy, underWay
      <4>3. k \in Clients /\ underWay(d) => AddressOK(d)' /\ GoneOK(d)'
        BY Zenon, <1>2, <2>2, <4>2 DEF CallOK, ClientOK, AddressOK, GoneOK, elsewhere
      <4>4. PeerOK(d)' /\ ReplyOK(d)' /\ d \in Calls
        BY Zenon, <2>2 DEF CallOK, PeerOK, ReplyOK, known
      <4> QED
        BY Zenon, <4>1, <4>3, <4>4 DEF CallOK, ClientOK, underWay
    <3> QED
      BY Zenon, <3>1, <3>2
  <2> QED
    BY Zenon, <2>1, <2>3
<1>5. call' = [k \in Callers |-> call'[k]]
  BY Zenon DEF Leave
<1> QED
  BY Zenon, <1>3, <1>4, <1>5 DEF CallsInv

(* A process that stops listening is gone for the calls to its service.    *)
LEMMA StopStep ==
  ASSUME DiscoveryInv, NEW s \in Services, Stop(s)
  PROVE  DiscoveryInv'
<1>1. Leave(s) /\ UNCHANGED <<spawned, running, up, entries>>
  BY Zenon DEF Stop, processes
<1>2. running' \in SUBSET Services /\ listening \ {s} \subseteq running'
  BY Zenon, <1>1 DEF DiscoveryInv, ProcessType
<1> QED
  BY Zenon, <1>1, <1>2, LeaveOK DEF DiscoveryInv, EntriesInv, known

(* So is one that ends.                                                    *)
LEMMA EndStep ==
  ASSUME DiscoveryInv, NEW s \in Services, End(s)
  PROVE  DiscoveryInv'
<1>1. /\ Leave(s) /\ running' = running \ {s} /\ UNCHANGED <<spawned, up>>
      /\ entries' = IF s = "registry" THEN [t \in Registered |-> none] ELSE entries
  BY Zenon DEF End, Lives!End
<1>2. running' \in SUBSET Services /\ listening \ {s} \subseteq running'
  BY Zenon, <1>1 DEF DiscoveryInv, ProcessType
<1>3. ProcessType' /\ CallsInv'
  BY Zenon, <1>1, <1>2, LeaveOK
<1>4. EntriesInv'
  <2>1. CASE s = "registry"
    BY Zenon, <1>1, <2>1 DEF EntriesInv, Endpoints
  <2>2. CASE s # "registry"
    BY Zenon, <1>1, <2>2 DEF DiscoveryInv, EntriesInv, known
  <2> QED
    BY Zenon, <2>1, <2>2
<1> QED
  BY Zenon, <1>3, <1>4 DEF DiscoveryInv

(* The supervisor's registration is addressed to the registry.             *)
LEMMA OnHealthyStep ==
  ASSUME DiscoveryInv, NEW s \in Services, OnHealthy(s)
  PROVE  DiscoveryInv'
<1>1. /\ s \in listening /\ up[s] # spawned[s] /\ up' = [up EXCEPT ![s] = spawned[s]]
      /\ UNCHANGED <<spawned, running, sock, entries>>
  BY Zenon DEF OnHealthy, processes
<1>2. ProcessType
  BY Zenon DEF DiscoveryInv
<1>3. ProcessType'
  <2>1. listening' = listening
    BY Zenon, <1>1 DEF listening
  <2>2. up' \in [Services -> Nat] /\ \A t \in Services : up'[t] <= spawned[t]
    BY <1>1, <1>2 DEF ProcessType
  <2> QED
    BY Zenon, <1>1, <1>2, <2>1, <2>2 DEF ProcessType
<1>4. CASE s = "registry" /\ call' = call
  <2>1. listening \subseteq listening' /\ \A t \in listening : spawned'[t] = spawned[t]
    BY Zenon, <1>1 DEF listening
  <2>2. \A t \in Services : spawned'[t] \in Nat /\ spawned[t] <= spawned'[t]
    BY <1>1, <1>2 DEF ProcessType
  <2>3. CallsInv'
    BY Zenon, <1>4, <2>1, <2>2, CallsKept
  <2> QED
    BY Zenon, <1>1, <1>3, <2>3 DEF DiscoveryInv, EntriesInv, known
<1>5. CASE s # "registry"
  <2> DEFINE k == <<s, spawned[s]>>
             c == [NoCall EXCEPT !.pc = "dial", !.to = socket("registry"), !.req = registration(s)]
  <2>1. call' = [call EXCEPT ![k] = c]
    BY Zenon, <1>5 DEF OnHealthy
  <2>2. k \in Registrations
    <3>1. spawned[s] \in 1..MaxSpawn
      BY <1>1, <1>2, DiscoveryAssumption DEF ProcessType, DiscoveryAssumption
    <3> QED
      BY Zenon, <1>5, <3>1 DEF Registrations, Registered
  <2>3. k \notin Clients
    BY Zenon, <2>2, CallersAssumption DEF CallersAssumption
  <2>4. socket("registry") \in Addresses /\ registration(s) \in Requests
    BY Zenon, DiscoveryAssumption DEF Addresses, Requests, DiscoveryAssumption
  <2>5. c \in Calls /\ c.pc = "dial" /\ c.peer = <<"registry", 0>> /\ c.resolve = FALSE
    BY Zenon, <2>4, Idle DEF Calls
  <2> HIDE DEF c, k
  <2>6. CallOK(k, c)
    BY Zenon, <1>2, <2>3, <2>5, DialOK
  <2>7. CallsInv'
    BY Zenon, <1>1, <2>1, <2>6, OneCall DEF DiscoveryInv
  <2> QED
    BY Zenon, <1>1, <1>3, <2>7 DEF DiscoveryInv, EntriesInv, known
<1> QED
  BY Zenon, <1>4, <1>5 DEF OnHealthy

-----------------------------------------------------------------------------
(* The steps of a call change neither processes nor sockets.               *)
LEMMA ProcessKept ==
  ASSUME ProcessType, UNCHANGED <<processes, sock, up>>
  PROVE  ProcessType' /\ UNCHANGED <<spawned, sock>>
BY Zenon DEF ProcessType, processes, listening

(* A command begins with registry.resolve, or with the socket it is for.   *)
LEMMA InvokeStep ==
  ASSUME DiscoveryInv, NEW k \in Clients, NEW r \in Commands, Invoke(k, r)
  PROVE  DiscoveryInv'
<1> DEFINE t == target(r)
           a == IF direct(t) THEN socket(t) ELSE socket("registry")
           c == [NoCall EXCEPT !.pc = "dial", !.req = r, !.resolve = ~direct(t),
                               !.gone = t \notin listening, !.to = a]
<1>1. call' = [call EXCEPT ![k] = c] /\ UNCHANGED <<processes, sock, up, entries>>
  BY Zenon DEF Invoke
<1>2. t \in Services /\ "registry" \in Services
  BY Zenon, DiscoveryAssumption, CallersAssumption DEF target, DiscoveryAssumption, CallersAssumption
<1>3. r \in Requests /\ a \in Addresses
  BY Zenon, <1>2 DEF Requests, Addresses
<1>4. (~direct(t)) \in BOOLEAN /\ (t \notin listening) \in BOOLEAN
  BY Zenon DEF direct
<1>5. /\ c \in Calls /\ c.pc = "dial" /\ c.peer = <<"registry", 0>> /\ c.req = r
      /\ c.to = a /\ c.resolve = ~direct(t) /\ c.gone = (t \notin listening)
  <2> HIDE DEF a, t
  <2> QED
    BY Zenon, <1>3, <1>4, Idle DEF Calls
<1>6. ~direct(t) => r.method = "call" /\ r.service \in Registered
  BY Zenon, <1>2 DEF direct, target, Registered
<1>7. direct(t) => a = socket(t)
  BY Zenon
<1> HIDE DEF c, a
<1>8. AddressOK(c) /\ (~c.gone => target(c.req) \in listening)
  BY Zenon, <1>5, <1>7 DEF AddressOK
<1>9. ProcessType
  BY Zenon DEF DiscoveryInv
<1>10. CallOK(k, c)
  BY Zenon, <1>5, <1>6, <1>8, <1>9, DialOK
<1>11. CallsInv' /\ ProcessType'
  BY Zenon, <1>1, <1>9, <1>10, OneCall, ProcessKept DEF DiscoveryInv
<1> QED
  BY Zenon, <1>1, <1>11 DEF DiscoveryInv, EntriesInv, known

(* SendRequest reaches the process that listens, or fails.                 *)
LEMMA DialStep ==
  ASSUME DiscoveryInv, NEW k \in Callers, Dial(k)
  PROVE  DiscoveryInv'
<1>1. call[k].pc = "dial" /\ UNCHANGED <<processes, sock, up, entries>> /\ ProcessType
  BY Zenon DEF Dial, DiscoveryInv
<1>2. ProcessType' /\ UNCHANGED <<spawned, sock>>
  BY Zenon, <1>1, ProcessKept
<1>3. ASSUME NEW s \in listening, call[k].to = socket(s), WriteFrame(k, s) PROVE CallsInv'
  <2> DEFINE d == call[k]
             p == <<s, spawned[s]>>
             c == [d EXCEPT !.pc = "sent", !.peer = p]
  <2>1. CallOK(k, d) /\ d \in Calls /\ underWay(d)
    BY Zenon, <1>1 DEF DiscoveryInv, CallsInv, CallOK, underWay
  <2>2. s \in Services /\ spawned[s] \in Nat
    BY <1>1, <1>3 DEF ProcessType
  <2>3. p \in Services \X Nat /\ p[1] = s /\ p[2] = spawned[s] /\ spawned[s] <= spawned[s]
    BY <2>2
  <2>4. /\ c \in Calls /\ c.pc = "sent" /\ c.req = d.req /\ c.to = d.to /\ c.resolve = d.resolve
        /\ c.gone = d.gone /\ c.peer = p
    <3> HIDE DEF d, p
    <3> QED
      BY Zenon, <2>1, <2>3 DEF Calls
  <2>5. call' = [call EXCEPT ![k] = c]
    BY Zenon, <1>3 DEF WriteFrame
  <2> HIDE DEF c, p, d
  <2>6. PeerOK(c)
    BY Zenon, <1>3, <2>1, <2>3, <2>4 DEF CallOK, PeerOK, d
  <2>7. ReplyOK(c)
    BY <2>4 DEF ReplyOK
  <2>8. k \in Clients => ClientOK(c)
    BY Zenon, <2>1, <2>3, <2>4 DEF CallOK, ClientOK, AddressOK, GoneOK, elsewhere
  <2> QED
    BY Zenon, <1>2, <2>4, <2>5, <2>6, <2>7, <2>8, OneCall DEF DiscoveryInv, CallOK
<1>4. ASSUME Fail(k) PROVE CallsInv'
  <2>1. busy(k)
    BY Zenon, <1>1 DEF busy
  <2> QED
    BY Zenon, <1>2, <1>4, <2>1, FailOK
<1>5. CallsInv'
  BY Zenon, <1>3, <1>4 DEF Dial
<1> QED
  BY Zenon, <1>1, <1>2, <1>5 DEF DiscoveryInv, EntriesInv, known

(* A broken connection fails the call; a client falls back or gives up.    *)
LEMMA BreakStep ==
  ASSUME DiscoveryInv, NEW k \in Callers, Break(k)
  PROVE  DiscoveryInv'
<1>1. call[k].pc = "sent" /\ UNCHANGED <<processes, sock, up, entries>> /\ ProcessType /\ Fail(k)
  BY Zenon DEF Break, DiscoveryInv
<1>2. ProcessType' /\ UNCHANGED <<spawned, sock>>
  BY Zenon, <1>1, ProcessKept
<1>3. CallsInv'
  BY Zenon, <1>1, <1>2, FailOK DEF busy
<1> QED
  BY Zenon, <1>1, <1>2, <1>3 DEF DiscoveryInv, EntriesInv, known

(* The answer of a handler arrives.                                        *)
LEMMA ReplyStep ==
  ASSUME DiscoveryInv, NEW k \in Callers, NEW x \in Replies, call[k].pc = "sent",
         call' = [call EXCEPT ![k].pc = "answered", ![k].reply = x],
         UNCHANGED <<spawned, sock>>,
         call[k].resolve /\ x.ok => x.endpoint \in known(call[k].req.service)
  PROVE  CallsInv'
<1> DEFINE d == call[k]
           c == [d EXCEPT !.pc = "answered", !.reply = x]
<1>1. CallOK(k, d) /\ d \in Calls /\ underWay(d)
  BY Zenon DEF DiscoveryInv, CallsInv, CallOK, underWay
<1>2. /\ c \in Calls /\ c.pc = "answered" /\ c.req = d.req /\ c.to = d.to /\ c.resolve = d.resolve
      /\ c.gone = d.gone /\ c.peer = d.peer /\ c.reply = x
  <2> HIDE DEF d
  <2> QED
    BY Zenon, <1>1 DEF Calls
<1>3. call' = [call EXCEPT ![k] = c]
  BY Zenon
<1> HIDE DEF c
<1>4. PeerOK(c) /\ ReplyOK(c)
  BY Zenon, <1>1, <1>2 DEF CallOK, PeerOK, ReplyOK
<1>5. c.pc # "sent"
  BY <1>2
<1>6. k \in Clients => ClientOK(c)
  BY Zenon, <1>1, <1>2, <1>5 DEF CallOK, ClientOK, AddressOK, GoneOK, elsewhere
<1> QED
  BY Zenon, <1>2, <1>3, <1>4, <1>6, OneCall DEF DiscoveryInv, CallOK

(* The values of answers.                                                  *)
LEMMA AnswerType ==
  ASSUME NEW b \in BOOLEAN, NEW e \in Endpoints, NEW n \in Nat
  PROVE  /\ answer(b, e, n) \in Replies
         /\ answer(b, e, n).ok = b /\ answer(b, e, n).endpoint = e
BY DEF answer, Replies

(* The handlers: the registry answers with its entry, and takes endpoints  *)
(* only from the supervisor, for the service they belong to, or from the   *)
(* commands of clients.                                                    *)
LEMMA HandleStep ==
  ASSUME DiscoveryInv, NEW k \in Callers, call[k].pc = "sent", Handle(k), UNCHANGED <<spawned, sock>>
  PROVE  EntriesInv' /\ CallsInv'
<1> DEFINE c == call[k]
           Reply(x) == call' = [call EXCEPT ![k].pc = "answered", ![k].reply = x]
<1>1. c.req \in Requests /\ CallOK(k, c)
  BY Zenon DEF DiscoveryInv, CallsInv, CallOK, Calls
<1>2. none \in Endpoints
  BY Zenon DEF Endpoints
<1>3. CASE c.resolve /\ Reply(Resolve(c.req.service)) /\ UNCHANGED entries
  <2> DEFINE s == c.req.service
  <2>1. s \in Registered
    BY Zenon, <1>1, <1>3 DEF CallOK, PeerOK
  <2>2. entries[s] \in Endpoints /\ entries[s] \in known(s) \cup {none}
    BY Zenon, <2>1 DEF DiscoveryInv, EntriesInv
  <2>3. PICK b \in BOOLEAN : b = (entries[s] # none)
    BY Zenon
  <2>4. PICK x : x = answer(b, entries[s], 0)
    BY Zenon
  <2>5. x \in Replies /\ x.ok = b /\ x.endpoint = entries[s]
    <3>1. PICK e \in Endpoints : e = entries[s]
      BY Zenon, <2>2
    <3>2. 0 \in Nat
      OBVIOUS
    <3>3. answer(b, e, 0) \in Replies /\ answer(b, e, 0).ok = b /\ answer(b, e, 0).endpoint = e
      BY Zenon, <3>2, AnswerType
    <3> QED
      BY Zenon, <2>4, <3>1, <3>3
  <2>6. Reply(x)
    BY Zenon, <1>3, <2>3, <2>4 DEF Resolve
  <2>7. CallsInv'
    BY Zenon, <2>2, <2>3, <2>5, <2>6, ReplyStep
  <2> QED
    BY Zenon, <1>3, <2>7 DEF DiscoveryInv, EntriesInv, known
<1>4. ASSUME NEW b \in BOOLEAN, NEW n \in Nat, Reply(answer(b, none, n)), ~c.resolve
      PROVE  CallsInv'
  BY Zenon, <1>2, <1>4, AnswerType, ReplyStep
<1>5. 0 \in Nat /\ 0..maxReadSize \subseteq Nat
  OBVIOUS
<1>6. CASE /\ ~c.resolve /\ c.req.method = "registry.register" /\ c.req.endpoint # none
           /\ Register(c.req) /\ Reply(answer(TRUE, none, 0))
  <2> DEFINE s == c.req.service
             e == c.req.endpoint
  <2>1. e \in Endpoints /\ e \in known(s)
    <3>1. CASE c.req \in Commands
      BY Zenon, <1>6, <3>1 DEF Endpoints, known, registers
    <3>2. ASSUME NEW t \in Services, c.req = registration(t) PROVE e \in Endpoints /\ e \in known(s)
      <4>1. e = endpoint(t) /\ s = t
        BY <3>2 DEF registration
      <4> QED
        BY Zenon, <4>1 DEF Endpoints, known
    <3> QED
      BY Zenon, <1>1, <3>1, <3>2 DEF Requests
  <2>2. entries' = [entries EXCEPT ![s] = e]
    BY Zenon, <1>6 DEF Register
  <2>3. entries' \in [Registered -> Endpoints]
    BY Zenon, <2>1, <2>2 DEF DiscoveryInv, EntriesInv
  <2>4. ASSUME NEW t \in Registered PROVE entries'[t] \in known(t) \cup {none}
    BY Zenon, <2>1, <2>2 DEF DiscoveryInv, EntriesInv
  <2>5. EntriesInv'
    BY Zenon, <2>3, <2>4 DEF EntriesInv, known
  <2> QED
    BY Zenon, <1>4, <1>5, <1>6, <2>5
<1>7. ASSUME NEW b \in BOOLEAN, NEW n \in Nat, Reply(answer(b, none, n)), ~c.resolve, UNCHANGED entries
      PROVE  EntriesInv' /\ CallsInv'
  BY Zenon, <1>4, <1>7 DEF DiscoveryInv, EntriesInv, known
<1>8. c.req.method = "registry.list" => ~c.resolve
  BY <1>1 DEF CallOK, PeerOK
<1> QED
  BY Zenon, <1>3, <1>5, <1>6, <1>7, <1>8 DEF Handle

(* The handler's answer, and what the registry's entries become with it.   *)
LEMMA ServeStep ==
  ASSUME DiscoveryInv, NEW k \in Callers, Serve(k)
  PROVE  DiscoveryInv'
<1>1. call[k].pc = "sent" /\ UNCHANGED <<processes, sock, up>> /\ ProcessType
  BY Zenon DEF Serve, DiscoveryInv
<1>2. ProcessType' /\ UNCHANGED <<spawned, sock>>
  BY Zenon, <1>1, ProcessKept
<1>3. ASSUME Fail(k), UNCHANGED entries PROVE EntriesInv' /\ CallsInv'
  <2>1. CallsInv'
    BY Zenon, <1>1, <1>2, <1>3, FailOK DEF busy
  <2> QED
    BY Zenon, <1>3, <2>1 DEF DiscoveryInv, EntriesInv, known
<1>4. ASSUME Handle(k) PROVE EntriesInv' /\ CallsInv'
  BY Zenon, <1>1, <1>2, <1>4, HandleStep
<1> QED
  BY Zenon, <1>2, <1>3, <1>4 DEF Serve, DiscoveryInv

(* What strata-ctl takes an endpoint for: without "unix://" that of the    *)
(* supervisor is the socket of the service.                                *)
LEMMA Stripped ==
  ASSUME NEW s \in Services, NEW e \in known(s)
  PROVE  /\ e # none
         /\ \/ stripped(e) = socket(s)
            \/ \E r \in Commands : registers(r, s) /\ stripped(e) = stripped(r.endpoint)
<1>1. CASE e = endpoint(s)
  BY <1>1 DEF endpoint, stripped, socket, none
<1>2. CASE e # endpoint(s)
  BY Zenon, <1>2 DEF known, registers
<1> QED
  BY Zenon, <1>1, <1>2

(* The answer arrives: the call is over, or a command's second one begins. *)
LEMMA ReceiveStep ==
  ASSUME DiscoveryInv, NEW k \in Callers, Receive(k)
  PROVE  DiscoveryInv'
<1> DEFINE c == call[k]
<1>1. c.pc = "answered" /\ UNCHANGED <<processes, sock, up, entries>> /\ ProcessType
  BY Zenon DEF Receive, DiscoveryInv
<1>2. ProcessType' /\ UNCHANGED <<spawned, sock>>
  BY Zenon, <1>1, ProcessKept
<1>3. busy(k)
  BY Zenon, <1>1 DEF busy
<1>4. ASSUME Fail(k) PROVE CallsInv'
  BY Zenon, <1>2, <1>3, <1>4, FailOK
<1>5. ASSUME c.resolve, c.reply.ok, Connect(k, stripped(c.reply.endpoint)) PROVE CallsInv'
  <2>1. CallOK(k, c)
    BY Zenon DEF DiscoveryInv, CallsInv
  <2>2. c.req.service \in Services /\ c.reply.endpoint \in Endpoints
    BY Zenon, <1>5, <2>1 DEF CallOK, Calls, Replies, PeerOK, Registered
  <2>3. c.reply.endpoint \in known(c.req.service)
    BY Zenon, <1>1, <1>5, <2>1 DEF CallOK, ReplyOK
  <2>4. stripped(c.reply.endpoint) \in Addresses
    BY Zenon, <2>2, <2>3, Stripped DEF Addresses
  <2> QED
    BY Zenon, <1>2, <1>3, <1>5, <2>2, <2>3, <2>4, Stripped, ConnectOK
<1>6. ASSUME Return(k, IF c.reply.ok THEN "ok" ELSE "refused") PROVE CallsInv'
  <2>1. PICK result \in {"ok", "refused", "failed"} : Return(k, result)
    BY Zenon, <1>6
  <2> QED
    BY Zenon, <1>2, <2>1, ReturnOK
<1>7. CallsInv'
  BY Zenon, <1>4, <1>5, <1>6 DEF Receive
<1> QED
  BY Zenon, <1>1, <1>2, <1>7 DEF DiscoveryInv, EntriesInv, known

-----------------------------------------------------------------------------
(* Every step keeps the invariant.                                         *)
LEMMA DiscoveryStep ==
  ASSUME DiscoveryInv, [Next]_vars
  PROVE  DiscoveryInv'
<1>1. ASSUME NEW s \in Services, Spawn(s) \/ Listen(s) \/ Stop(s) \/ End(s) \/ OnHealthy(s)
      PROVE  DiscoveryInv'
  BY Zenon, <1>1, SpawnStep, ListenStep, StopStep, EndStep, OnHealthyStep
<1>2. ASSUME NEW k \in Clients, NEW r \in Commands, Invoke(k, r) PROVE DiscoveryInv'
  BY Zenon, <1>2, InvokeStep
<1>3. ASSUME NEW k \in Callers, Proceed(k) PROVE DiscoveryInv'
  BY Zenon, <1>3, DialStep, ServeStep, BreakStep, ReceiveStep DEF Proceed
<1>4. CASE UNCHANGED vars
  <2>1. UNCHANGED <<spawned, running, sock, up, entries, call>>
    BY Zenon, <1>4 DEF vars, processes
  <2>2. ProcessType' /\ EntriesInv'
    BY Zenon, <2>1 DEF DiscoveryInv, ProcessType, EntriesInv, listening, known
  <2>3. listening \subseteq listening'
    BY Zenon, <2>1 DEF listening
  <2>4. \A s \in Services : spawned'[s] \in Nat /\ spawned[s] <= spawned'[s]
    BY <2>1 DEF DiscoveryInv, ProcessType
  <2>5. CallsInv'
    BY Zenon, <2>1, <2>3, <2>4, CallsKept
  <2> QED
    BY Zenon, <2>2, <2>5 DEF DiscoveryInv
<1> QED
  BY Zenon, <1>1, <1>2, <1>3, <1>4 DEF Next

(* In every reachable state, for any services, clients and commands, calls *)
(* are to where they should be and the registry has only endpoints that    *)
(* were registered for their service.                                      *)
THEOREM DiscoveryInvariant == Spec => []DiscoveryInv
<1>1. Init => DiscoveryInv
  <2> SUFFICES ASSUME Init PROVE DiscoveryInv
    BY Zenon
  <2>1. ProcessType
    <3>1. listening = {}
      BY DEF Init, listening
    <3> QED
      BY <3>1, DiscoveryAssumption DEF Init, Lives!Init, ProcessType, DiscoveryAssumption
  <2>2. EntriesInv
    BY Zenon DEF Init, EntriesInv, Endpoints
  <2>3. ASSUME NEW k \in Callers PROVE CallOK(k, NoCall)
    <3>1. NoCall.pc = "idle"
      BY Zenon DEF NoCall
    <3>2. NoCall.pc \notin {"dial", "sent", "answered"}
      BY <3>1
    <3>3. NoCall.peer[2] <= spawned[NoCall.peer[1]]
      BY Idle, DiscoveryAssumption DEF Init, Lives!Init, DiscoveryAssumption
    <3> QED
      BY Zenon, <3>2, <3>3, Idle DEF CallOK, PeerOK, ReplyOK, ClientOK, underWay
  <2>4. CallsInv
    BY Zenon, <2>3 DEF Init, CallsInv
  <2> QED
    BY Zenon, <2>1, <2>2, <2>4 DEF DiscoveryInv
<1> QED
  BY <1>1, DiscoveryStep, PTL DEF Spec

(* The types of the discovery, for any services, clients and commands: an  *)
(* answered call has an answer of the process it was sent to.              *)
THEOREM DiscoveryTypeCorrect == Spec => []TypeOK
<1>1. DiscoveryInv => TypeOK
  <2> SUFFICES ASSUME DiscoveryInv PROVE TypeOK
    BY Zenon
  <2>1. ASSUME NEW s \in Services PROVE up[s] \in 0..spawned[s]
    <3>1. up[s] \in Nat /\ spawned[s] \in 0..MaxSpawn /\ up[s] <= spawned[s]
      BY Zenon DEF DiscoveryInv, ProcessType
    <3> QED
      BY <3>1, DiscoveryAssumption DEF DiscoveryAssumption
  <2>2. ASSUME NEW k \in Callers
        PROVE  /\ call[k].pc \in {"idle", "dial", "sent", "answered", "ok", "refused", "failed"}
               /\ call[k].req \in Commands \cup {registration(s) : s \in Services}
               /\ call[k].peer[1] \in Services /\ call[k].peer[2] \in 0..spawned[call[k].peer[1]]
               /\ call[k].pc \in {"sent", "answered"} => socket(call[k].peer[1]) = call[k].to
    <3>1. CallOK(k, call[k])
      BY Zenon DEF DiscoveryInv, CallsInv
    <3>2. call[k].peer \in Services \X Nat /\ call[k].peer[2] <= spawned[call[k].peer[1]]
      BY Zenon, <3>1 DEF CallOK, Calls, PeerOK
    <3>3. call[k].peer[1] \in Services /\ call[k].peer[2] \in 0..spawned[call[k].peer[1]]
      BY <3>2 DEF DiscoveryInv, ProcessType
    <3> QED
      BY Zenon, <3>1, <3>3 DEF CallOK, Calls, Requests, PeerOK
  <2> QED
    BY Zenon, <2>1, <2>2 DEF DiscoveryInv, ProcessType, EntriesInv, TypeOK
<1> QED
  BY <1>1, DiscoveryInvariant, PTL

-----------------------------------------------------------------------------
(* A call only fails by the step of its own caller, in SendRequest, and    *)
(* not while resolveSocket still has the convention to fall back on.       *)
LEMMA OnlyItsOwn ==
  ASSUME DiscoveryInv, [Next]_vars, NEW k \in Clients, busy(k), call'[k].pc = "failed"
  PROVE  Proceed(k)
<1>1. k \in Callers /\ call[k] \in Calls /\ call[k].pc # "failed"
  <2>1. k \in Callers
    BY Zenon DEF Callers
  <2>2. call[k].pc # "failed"
    BY DEF busy
  <2> QED
    BY Zenon, <2>1, <2>2 DEF DiscoveryInv, CallsInv, CallOK
<1>2. call'[k] # call[k]
  BY Zenon, <1>1
<1>3. ASSUME NEW s \in Services, Leave(s) PROVE FALSE
  <2>1. call'[k] = [call[k] EXCEPT !.gone = TRUE]
    BY Zenon, <1>1, <1>2, <1>3 DEF Leave
  <2>2. \A c \in Calls : [c EXCEPT !.gone = TRUE].pc = c.pc
    BY DEF Calls
  <2> QED
    BY Zenon, <1>1, <2>1, <2>2
<1>4. ASSUME NEW s \in Services, OnHealthy(s) PROVE FALSE
  <2> DEFINE c == [NoCall EXCEPT !.pc = "dial", !.to = socket("registry"), !.req = registration(s)]
  <2>1. call'[k] = c
    <3>1. call' = [call EXCEPT ![<<s, spawned[s]>>] = c]
      BY Zenon, <1>2, <1>4 DEF OnHealthy
    <3> HIDE DEF c
    <3> QED
      BY Zenon, <1>1, <1>2, <3>1 DEF DiscoveryInv, CallsInv
  <2>2. c.pc = "dial"
    BY Idle DEF Calls
  <2> HIDE DEF c
  <2> QED
    BY <2>1, <2>2
<1>5. ASSUME NEW s \in Services, Spawn(s) \/ Listen(s) \/ Stop(s) \/ End(s) \/ OnHealthy(s)
      PROVE  FALSE
  BY Zenon, <1>2, <1>3, <1>4, <1>5 DEF Spawn, Listen, Stop, End
<1>6. ASSUME NEW l, NEW x, call' = [call EXCEPT ![l] = x] PROVE l = k
  BY Zenon, <1>1, <1>2, <1>6 DEF DiscoveryInv, CallsInv
<1>7. ASSUME NEW l, NEW r, Invoke(l, r) PROVE FALSE
  <2>1. l = k
    BY Zenon, <1>6, <1>7 DEF Invoke
  <2> QED
    BY Zenon, <1>7, <2>1 DEF Invoke
<1>8. ASSUME NEW l \in Callers, Proceed(l) PROVE l = k
  <2>1. ASSUME l # k PROVE FALSE
    <3>1. ASSUME NEW f, call' = [call EXCEPT ![l] = f] PROVE FALSE
      BY Zenon, <1>6, <2>1, <3>1
    <3>2. ASSUME Fail(l) PROVE FALSE
      BY Zenon, <3>1, <3>2 DEF Fail, Connect, Return
    <3>3. ASSUME NEW s, WriteFrame(l, s) PROVE FALSE
      BY Zenon, <1>1, <1>2, <2>1, <3>3 DEF WriteFrame, DiscoveryInv, CallsInv
    <3>4. ASSUME NEW x, call' = [call EXCEPT ![l].pc = "answered", ![l].reply = x] PROVE FALSE
      BY Zenon, <1>1, <1>2, <2>1, <3>4 DEF DiscoveryInv, CallsInv
    <3>5. ~Handle(l)
      BY Zenon, <3>4 DEF Handle
    <3>6. ~Receive(l)
      BY Zenon, <3>1, <3>2 DEF Receive, Connect, Return
    <3> QED
      BY Zenon, <1>8, <3>2, <3>3, <3>5, <3>6 DEF Proceed, Dial, Serve, Break
  <2> QED
    BY Zenon, <2>1
<1>9. ~UNCHANGED vars
  BY Zenon, <1>2 DEF vars
<1> QED
  BY Zenon, <1>5, <1>7, <1>8, <1>9 DEF Next

(* What a step of a caller may make of its call.                           *)
LEMMA FailsOnlyOnce ==
  ASSUME DiscoveryInv, NEW k \in Callers, call'[k].pc = "failed"
  PROVE  /\ Fail(k) => ~call[k].resolve
         /\ \A a : ~Connect(k, a)
         /\ \A s : ~WriteFrame(k, s)
         /\ ~Handle(k)
         /\ ~Return(k, IF call[k].reply.ok THEN "ok" ELSE "refused")
<1>1. ASSUME NEW x, call' = [call EXCEPT ![k] = x] PROVE x.pc = "failed"
  BY Zenon, <1>1 DEF DiscoveryInv, CallsInv
<1>2. ASSUME NEW a, Connect(k, a) PROVE FALSE
  <2> DEFINE x == [NoCall EXCEPT !.pc = "dial", !.req = call[k].req, !.to = a, !.gone = call[k].gone]
  <2>1. x.pc = "dial"
    BY Idle DEF Calls
  <2>2. x.pc = "failed"
    <3> HIDE DEF x
    <3> QED
      BY Zenon, <1>1, <1>2 DEF Connect, x
  <2> HIDE DEF x
  <2> QED
    BY <2>1, <2>2
<1>3. call[k] \in Calls
  BY Zenon DEF DiscoveryInv, CallsInv, CallOK
<1>4. ASSUME NEW s, WriteFrame(k, s) PROVE FALSE
  <2> DEFINE x == [call[k] EXCEPT !.pc = "sent", !.peer = <<s, spawned[s]>>]
  <2>1. x.pc = "sent"
    BY <1>3 DEF Calls
  <2>2. call' = [call EXCEPT ![k] = x]
    BY Zenon, <1>4 DEF WriteFrame
  <2> HIDE DEF x
  <2>3. x.pc = "failed"
    BY Zenon, <1>1, <2>2
  <2> QED
    BY <2>1, <2>3
<1>5. ASSUME NEW y, call' = [call EXCEPT ![k].pc = "answered", ![k].reply = y] PROVE FALSE
  <2> DEFINE x == [call[k] EXCEPT !.pc = "answered", !.reply = y]
  <2>1. x.pc = "answered"
    BY <1>3 DEF Calls
  <2>2. call' = [call EXCEPT ![k] = x]
    BY Zenon, <1>5
  <2> HIDE DEF x
  <2>3. x.pc = "failed"
    BY Zenon, <1>1, <2>2
  <2> QED
    BY <2>1, <2>3
<1>6. ~Handle(k)
  BY Zenon, <1>5 DEF Handle
<1>7. ASSUME NEW result \in {"ok", "refused"}, Return(k, result) PROVE FALSE
  <2> DEFINE x == [NoCall EXCEPT !.pc = result]
  <2>1. x.pc = result
    BY Idle DEF Calls
  <2>2. call' = [call EXCEPT ![k] = x]
    BY Zenon, <1>7 DEF Return
  <2> HIDE DEF x
  <2>3. x.pc = "failed"
    BY Zenon, <1>1, <2>2
  <2> QED
    BY <2>1, <2>3
<1> QED
  BY Zenon, <1>2, <1>4, <1>6, <1>7 DEF Fail

(* For any services, clients and commands, and whatever the registry does  *)
(* in between: a command only fails when its service was not there all the *)
(* time, when some client has registered another endpoint for the service, *)
(* or when a frame is too large (resolveSocket, SendRequest).              *)
THEOREM RegistryNotNeeded == Spec => RegistryIsOptional
<1>1. ASSUME DiscoveryInv, [Next]_vars, NEW k \in Clients, busy(k), call'[k].pc = "failed"
      PROVE  LET c == call[k] IN
             \/ c.gone
             \/ /\ c.req.method = "call" /\ ~c.resolve
                /\ \E r \in Commands : registers(r, c.req.service) /\ c.to = stripped(r.endpoint)
             \/ tooLarge(c.req.size) \/ tooLarge(c.reply.data + Envelope)
  <2> DEFINE c == call[k]
  <2>1. k \in Callers /\ Proceed(k)
    BY Zenon, <1>1, OnlyItsOwn DEF Callers
  <2>2. ClientOK(c) /\ PeerOK(c) /\ underWay(c) /\ ProcessType
    BY Zenon, <1>1, <2>1 DEF DiscoveryInv, CallsInv, CallOK, underWay, busy
  <2>3. /\ Fail(k) => ~c.resolve
        /\ \A a : ~Connect(k, a)
        /\ \A s : ~WriteFrame(k, s)
        /\ ~Handle(k)
        /\ ~Return(k, IF c.reply.ok THEN "ok" ELSE "refused")
    BY Zenon, <1>1, <2>1, FailsOnlyOnce
  <2>4. CASE Dial(k)
    <3>1. ~c.resolve /\ \A s \in listening : c.to # socket(s)
      BY Zenon, <2>3, <2>4 DEF Dial
    <3> QED
      BY Zenon, <2>2, <3>1 DEF ClientOK, AddressOK, GoneOK, elsewhere
  <2>5. CASE Serve(k)
    BY Zenon, <2>3, <2>5 DEF Serve, ReadRequest
  <2>6. CASE Break(k)
    <3>1. ~c.resolve /\ c.pc = "sent" /\ (~alive(c.peer) \/ c.peer[1] \notin listening)
      BY Zenon, <2>3, <2>6 DEF Break
    <3>2. socket(c.peer[1]) = c.to
      BY Zenon, <2>2, <3>1 DEF PeerOK
    <3>3. ASSUME c.to = socket(target(c.req)), ~c.gone PROVE FALSE
      <4>1. c.peer[1] = target(c.req)
        BY <3>2, <3>3 DEF socket
      <4>2. c.peer[1] \in listening /\ c.peer[2] = spawned[c.peer[1]]
        BY Zenon, <2>2, <3>1, <3>3, <4>1 DEF ClientOK, GoneOK
      <4>3. alive(c.peer)
        BY Zenon, <2>2, <4>2 DEF alive, ProcessType
      <4> QED
        BY Zenon, <3>1, <4>2, <4>3
    <3> QED
      BY Zenon, <2>2, <3>1, <3>3 DEF ClientOK, AddressOK, elsewhere
  <2>7. CASE Receive(k)
    BY Zenon, <2>3, <2>7 DEF Receive
  <2> QED
    BY Zenon, <2>1, <2>4, <2>5, <2>6, <2>7 DEF Proceed
<1> DEFINE Optional ==
      \A k \in Clients : busy(k) /\ call'[k].pc = "failed" =>
        LET c == call[k] IN
        \/ c.gone
        \/ /\ c.req.method = "call" /\ ~c.resolve
           /\ \E r \in Commands : registers(r, c.req.service) /\ c.to = stripped(r.endpoint)
        \/ tooLarge(c.req.size) \/ tooLarge(c.reply.data + Envelope)
<1>2. DiscoveryInv /\ [Next]_vars => [Optional]_vars
  BY Zenon, <1>1
<1> QED
  BY <1>2, DiscoveryInvariant, PTL DEF Spec, RegistryIsOptional
=============================================================================
