------------------------ MODULE Capabilities_proofs ------------------------
(***************************************************************************)
(* Proofs about Capabilities, for any capabilities, claims, paths, number  *)
(* of concurrent calls and of restarts.                                    *)
(***************************************************************************)
EXTENDS Capabilities, TLAPS

up == fsPc \in {"serving", "closing"}

(* What the handlers rest on: there is one only in a file service that has *)
(* loaded a key, and its token was accepted with this key.                 *)
UpInv ==
  /\ up \/ fsPc = "loaded" => pubKey # 0
  /\ ~up => revoked = {} /\ handles = {} /\ \A k \in Calls : pc[k] = "idle"
  /\ ~up => \A c \in Caps : rev[c] \notin {"waiting", "done"} /\ acked[c] # "here"
  /\ \A k \in Calls : pc[k] # "idle" =>
       issued[req[k].capID] = pubKey /\ Authorize(req[k].capID, req[k].method, req[k].path)

(* The file service knows what has been revoked before a late request came.*)
RevokeInv ==
  /\ \A c \in Caps : rev[c] = "done" \/ acked[c] = "here" => c \in revoked
  /\ \A k \in Calls : pc[k] # "idle" /\ req[k].late = "here" => req[k].capID \in revoked
  /\ \A k \in Calls : pc[k] \in {"checked", "opened"} => req[k].late # "here"

\* The file of an entry is one its capability may open.
Granted(e) == \E p \in Paths : Authorize(e.capID, OpenMethod, p) /\ e.path = Abs(p)

(* The handle ids that were drawn are all different, and an entry that an  *)
(* fs.read has looked up stays in the table until CloseAll.                *)
HandleInv ==
  /\ \A e \in handles : e.id <= nextID /\ Granted(e)
  /\ \A k \in Calls : pc[k] = "opened" =>
       /\ newID[k] \in 1..nextID /\ req[k].method = OpenMethod
       /\ \A e \in handles : e.id # newID[k]
       /\ \A j \in Calls : pc[j] = "opened" /\ newID[j] = newID[k] => j = k
  /\ \A k \in Calls : pc[k] \in {"bound", "checked"} /\ req[k].method = ReadMethod =>
       /\ entry[k].capID = req[k].capID /\ Granted(entry[k])
       /\ fsPc = "serving" => entry[k] \in handles

\* An fs.open stores its entry under an id it has drawn.
Drawn == \A k \in Calls : pc[k] = "opened" => newID[k] \in Handles

CapInv == TypeOK /\ Drawn /\ UpInv /\ RevokeInv /\ HandleInv

-----------------------------------------------------------------------------
(* The stand-in for no request is a request.                               *)
LEMMA BlankType == blank \in Requests
<1>1. PICK c \in Caps, p \in Paths : TRUE
  BY Zenon, CapabilitiesAssumption
<1>2. [method |-> OpenMethod, capID |-> c, path |-> p, handle |-> 0, late |-> "no"] \in Requests
  BY Zenon DEF Requests, Methods, OpenMethod
<1> QED
  BY Zenon, <1>2 DEF blank

(* An answer to a request keeps the types.                                 *)
LEMMA ReplyType ==
  ASSUME TypeOK, NEW k \in Calls, Reply(k)
  PROVE  /\ pc' \in [Calls -> {"idle", "authorized", "bound", "checked", "opened"}]
         /\ req' \in [Calls -> Requests]
         /\ newID' \in [Calls -> 0..MaxHandles]
         /\ entry' \in [Calls -> Entries \cup {noEntry}]
BY BlankType, CapabilitiesAssumption DEF Reply, TypeOK

(* The types hold before either service has been started.                  *)
LEMMA CapTypeInit == Init => TypeOK
BY BlankType, CapabilitiesAssumption DEF Init, TypeOK

(* Every step of the two services keeps the types.                         *)
LEMMA CapTypeStep == TypeOK /\ Drawn /\ [Next]_vars => TypeOK' /\ Drawn'
<1> SUFFICES ASSUME TypeOK, Drawn, [Next]_vars PROVE TypeOK' /\ Drawn'
  BY Zenon
<1> USE CapabilitiesAssumption DEF identity, tokens, revoking, table, handlers, vars
<1> DEFINE T == TypeOK' /\ Drawn'
<1>1. CASE IdentityStart \/ IdentityTruncates \/ IdentityPublishes
  BY <1>1 DEF IdentityStart, IdentityTruncates, IdentityPublishes, TypeOK, Drawn
<1>2. CASE IdentityExits
  BY Zenon, <1>2 DEF IdentityExits, TypeOK, Drawn
<1>3. CASE FsStart \/ FsLoadsKey \/ FsListens \/ FsCloses
  BY <1>3 DEF FsStart, FsLoadsKey, FsListens, FsCloses, TypeOK, Drawn
<1>4. CASE FsExits
  BY <1>4, BlankType DEF FsExits, TypeOK, Drawn
<1>5. ASSUME NEW c \in Caps, Issue(c) \/ Expire(c) PROVE T
  BY Zenon, <1>5 DEF Issue, Expire, TypeOK, Drawn
<1>6. ASSUME NEW c \in Caps, Revoke(c) \/ NotifyFS(c) PROVE T
  BY Zenon, <1>6 DEF Revoke, NotifyFS, TypeOK, Drawn
<1>7. ASSUME NEW c \in Caps, FsRevoke(c) \/ FsRevokeByClient(c) PROVE T
  BY Zenon, <1>7 DEF FsRevoke, FsRevokeByClient, TypeOK, Drawn
<1>8. ASSUME NEW c \in Caps, RevokeReplies(c) PROVE T
  BY Zenon, <1>8 DEF RevokeReplies, TypeOK, Drawn
<1>9. ASSUME NEW k \in Calls, NEW r \in Requests, Receive(k, r) PROVE T
  BY Zenon, <1>9 DEF Receive, TypeOK, Drawn
<1>10. ASSUME NEW k \in Calls, Get(k) \/ CheckRevoked(k) \/ Access(k) PROVE T
  <2>1. CASE Reply(k) /\ UNCHANGED <<identity, tokens, revoking, fsPc, pubKey, table>>
    <3>1. TypeOK'
      BY Zenon, <2>1, ReplyType DEF TypeOK
    <3> QED
      BY <2>1, <3>1 DEF Reply, Drawn, TypeOK
  <2>2. CASE \E x \in {"bound", "checked"} : pc' = [pc EXCEPT ![k] = x]
    <3>1. CASE Get(k)
      BY ZenonT(30), <2>1, <2>2, <3>1 DEF Get, TypeOK, Drawn
    <3>2. CASE CheckRevoked(k)
      BY ZenonT(30), <2>1, <2>2, <3>2 DEF CheckRevoked, TypeOK, Drawn
    <3>3. CASE Access(k)
      BY Zenon, <2>1, <3>3 DEF Access
    <3> QED
      BY Zenon, <1>10, <3>1, <3>2, <3>3
  <2> QED
    BY Zenon, <1>10, <2>1, <2>2 DEF Get, CheckRevoked, Access
<1>11. ASSUME NEW k \in Calls, OpenFile(k) PROVE T
  BY <1>11 DEF OpenFile, TypeOK, Drawn, Handles
<1>12. ASSUME NEW k \in Calls, StoreHandle(k) PROVE T
  <2>1. [id |-> newID[k], capID |-> req[k].capID, path |-> Abs(req[k].path)] \in Entries
    BY Zenon, <1>12 DEF StoreHandle, TypeOK, Drawn, Entries, Requests
  <2>2. TypeOK'
    BY ZenonT(30), <1>12, <2>1, ReplyType DEF StoreHandle, TypeOK
  <2> QED
    BY <1>12, <2>2 DEF StoreHandle, Reply, TypeOK, Drawn
<1>13. CASE UNCHANGED vars
  BY Zenon, <1>13 DEF TypeOK, Drawn
<1> QED
  BY Zenon, <1>1, <1>2, <1>3, <1>4, <1>5, <1>6, <1>7, <1>8, <1>9, <1>10, <1>11, <1>12, <1>13
     DEF Next, Handler

(* Whatever is called, in whatever order, and whichever service restarts:  *)
(* the variables keep their types (Init and all handlers).                 *)
THEOREM CapTypeCorrect == Spec => []TypeOK
<1>1. Init => TypeOK /\ Drawn
  BY Zenon, CapTypeInit DEF Init, Drawn
<1> QED
  BY <1>1, CapTypeStep, PTL DEF Spec

-----------------------------------------------------------------------------
(* Every step keeps what the handlers rest on (extractClaims, Authorize).  *)
LEMMA UpStep == TypeOK /\ UpInv /\ [Next]_vars => UpInv'
<1> SUFFICES ASSUME TypeOK, UpInv, [Next]_vars PROVE UpInv'
  BY Zenon
<1> USE DEF UpInv, up, Authorize, hasRight, hasAction, identity, tokens, revoking, table,
            handlers, vars
<1>1. CASE IdentityStart \/ IdentityTruncates \/ IdentityPublishes
  BY Zenon, <1>1 DEF IdentityStart, IdentityTruncates, IdentityPublishes
<1>2. CASE IdentityExits
  BY Zenon, <1>2 DEF IdentityExits
<1>3. CASE FsStart \/ FsLoadsKey \/ FsListens \/ FsCloses
  BY <1>3 DEF FsStart, FsLoadsKey, FsListens, FsCloses
<1>4. CASE FsExits
  BY Zenon, <1>4 DEF FsExits, TypeOK
<1>5. ASSUME NEW c \in Caps, Issue(c) PROVE UpInv'
  BY <1>5 DEF Issue, TypeOK
<1>6. ASSUME NEW c \in Caps, Expire(c) \/ Revoke(c) \/ NotifyFS(c) PROVE UpInv'
  BY <1>6 DEF Expire, Revoke, NotifyFS, TypeOK
<1>7. ASSUME NEW c \in Caps, FsRevoke(c) \/ FsRevokeByClient(c) \/ RevokeReplies(c) PROVE UpInv'
  BY <1>7 DEF FsRevoke, FsRevokeByClient, RevokeReplies, TypeOK
<1>8. ASSUME NEW k \in Calls, NEW r \in Requests, Receive(k, r) PROVE UpInv'
  BY ZenonT(30), <1>8 DEF Receive, extractClaims, Verify, TypeOK
<1>9. ASSUME NEW k \in Calls, Get(k) \/ CheckRevoked(k) \/ Access(k) PROVE UpInv'
  BY <1>9 DEF Get, CheckRevoked, Access, Reply, TypeOK
<1>10. ASSUME NEW k \in Calls, OpenFile(k) \/ StoreHandle(k) PROVE UpInv'
  BY SMTT(30), <1>10 DEF OpenFile, StoreHandle, Reply, TypeOK
<1>11. CASE UNCHANGED vars
  BY Zenon, <1>11
<1> HIDE DEF UpInv
<1> QED
  BY Zenon, <1>1, <1>2, <1>3, <1>4, <1>5, <1>6, <1>7, <1>8, <1>9, <1>10, <1>11 DEF Next, Handler

(* Every step keeps what the file service knows of revocations.            *)
LEMMA RevokeStep == TypeOK /\ UpInv /\ RevokeInv /\ [Next]_vars => RevokeInv'
<1> SUFFICES ASSUME TypeOK, UpInv, RevokeInv, [Next]_vars PROVE RevokeInv'
  BY Zenon
<1> USE DEF RevokeInv, identity, tokens, revoking, table, handlers, vars
<1>1. CASE IdentityStart \/ IdentityTruncates \/ IdentityPublishes
  BY Zenon, <1>1 DEF IdentityStart, IdentityTruncates, IdentityPublishes
<1>2. CASE IdentityExits
  BY Zenon, <1>2 DEF IdentityExits
<1>3. CASE FsStart \/ FsLoadsKey \/ FsListens \/ FsCloses
  BY Zenon, <1>3 DEF FsStart, FsLoadsKey, FsListens, FsCloses
<1>4. CASE FsExits
  BY Zenon, <1>4 DEF FsExits, TypeOK
<1>5. ASSUME NEW c \in Caps, Issue(c) \/ Expire(c) PROVE RevokeInv'
  BY Zenon, <1>5 DEF Issue, Expire
<1>6. ASSUME NEW c \in Caps, Revoke(c) \/ NotifyFS(c) PROVE RevokeInv'
  BY <1>6 DEF Revoke, NotifyFS, TypeOK
<1>7. ASSUME NEW c \in Caps, FsRevoke(c) \/ FsRevokeByClient(c) \/ RevokeReplies(c) PROVE RevokeInv'
  BY <1>7 DEF FsRevoke, FsRevokeByClient, RevokeReplies, TypeOK
<1>8. ASSUME NEW k \in Calls, NEW r \in Requests, Receive(k, r) PROVE RevokeInv'
  BY <1>8 DEF Receive, TypeOK, Requests
<1>9. ASSUME NEW k \in Calls, Get(k) \/ CheckRevoked(k) \/ Access(k) PROVE RevokeInv'
  BY <1>9 DEF Get, CheckRevoked, Access, Reply, TypeOK
<1>10. ASSUME NEW k \in Calls, OpenFile(k) \/ StoreHandle(k) PROVE RevokeInv'
  BY <1>10 DEF OpenFile, StoreHandle, Reply, TypeOK
<1>11. CASE UNCHANGED vars
  BY Zenon, <1>11
<1> HIDE DEF RevokeInv
<1> QED
  BY Zenon, <1>1, <1>2, <1>3, <1>4, <1>5, <1>6, <1>7, <1>8, <1>9, <1>10, <1>11 DEF Next, Handler

(* Every step keeps the handle table in order (handleTable.Open, CloseAll).*)
LEMMA HandleStep == TypeOK /\ UpInv /\ HandleInv /\ [Next]_vars => HandleInv'
<1> SUFFICES ASSUME TypeOK, UpInv, HandleInv, [Next]_vars PROVE HandleInv'
  BY Zenon
<1> USE DEF HandleInv, identity, tokens, revoking, table, handlers, vars
<1>1. CASE IdentityStart \/ IdentityTruncates \/ IdentityPublishes
  BY <1>1 DEF IdentityStart, IdentityTruncates, IdentityPublishes
<1>2. CASE IdentityExits
  BY Zenon, <1>2 DEF IdentityExits
<1>3. CASE FsStart \/ FsLoadsKey \/ FsListens \/ FsCloses
  BY <1>3 DEF FsStart, FsLoadsKey, FsListens, FsCloses, UpInv, up
<1>4. CASE FsExits
  BY Zenon, <1>4 DEF FsExits, TypeOK
<1>5. ASSUME NEW c \in Caps, Issue(c) PROVE HandleInv'
  BY <1>5 DEF Issue, TypeOK, UpInv, up, Entries
<1>6. ASSUME NEW c \in Caps, Expire(c) \/ Revoke(c) \/ NotifyFS(c) PROVE HandleInv'
  BY <1>6 DEF Expire, Revoke, NotifyFS, TypeOK
<1>7. ASSUME NEW c \in Caps, FsRevoke(c) \/ FsRevokeByClient(c) \/ RevokeReplies(c) PROVE HandleInv'
  BY <1>7 DEF FsRevoke, FsRevokeByClient, RevokeReplies, TypeOK
<1>8. ASSUME NEW k \in Calls, NEW r \in Requests, Receive(k, r) PROVE HandleInv'
  BY <1>8 DEF Receive, TypeOK
<1>9. ASSUME NEW k \in Calls, Get(k) PROVE HandleInv'
  <2>1. UNCHANGED <<handles, nextID, fsPc>>
    BY Zenon, <1>9 DEF Get
  <2>2. CASE Reply(k)
    <3>1. /\ pc'[k] = "idle"
          /\ \A j \in Calls : j # k => /\ pc'[j] = pc[j] /\ newID'[j] = newID[j]
                                      /\ req'[j] = req[j] /\ entry'[j] = entry[j]
      BY Zenon, <2>2 DEF Reply, TypeOK
    <3> QED
      BY <2>1, <3>1
  <2>3. CASE \E e \in handles : boundTo(k, e) /\ entry' = [entry EXCEPT ![k] = e]
    <3>1. PICK e \in handles : boundTo(k, e) /\ entry' = [entry EXCEPT ![k] = e]
      BY Zenon, <2>3
    <3>2. CASE pc' = [pc EXCEPT ![k] = "bound"] /\ UNCHANGED <<req, newID>>
      <4>1. /\ pc'[k] = "bound" /\ entry'[k] = e /\ e.capID = req[k].capID
            /\ \A j \in Calls : j # k => pc'[j] = pc[j] /\ entry'[j] = entry[j]
        BY Zenon, <3>1, <3>2 DEF boundTo, TypeOK
      <4> QED
        BY <2>1, <3>2, <4>1
    <3> QED
      BY Zenon, <1>9, <2>2, <3>2 DEF Get
  <2> QED
    BY Zenon, <1>9, <2>2, <2>3 DEF Get
<1>10. ASSUME NEW k \in Calls, CheckRevoked(k) \/ Access(k) PROVE HandleInv'
  BY SMTT(30), <1>10 DEF CheckRevoked, Access, Reply, TypeOK
<1>11. ASSUME NEW k \in Calls, OpenFile(k) PROVE HandleInv'
  <2>1. nextID \in Nat /\ nextID' = nextID + 1 /\ UNCHANGED <<handles, req, entry, fsPc>>
    BY <1>11 DEF OpenFile, TypeOK
  <2>2. /\ pc'[k] = "opened" /\ newID'[k] = nextID + 1 /\ req[k].method = OpenMethod
        /\ \A j \in Calls : j # k => pc'[j] = pc[j] /\ newID'[j] = newID[j]
    BY Zenon, <1>11 DEF OpenFile, TypeOK
  <2>3. \A e \in handles : e.id \in Nat
    BY DEF TypeOK, Entries, Handles
  <2>4. \A e \in handles' : e.id <= nextID' /\ Granted(e)
    BY <2>1, <2>3
  <2>5. ASSUME NEW j \in Calls, pc'[j] = "opened"
        PROVE  /\ newID'[j] \in 1..nextID' /\ req'[j].method = OpenMethod
               /\ \A e \in handles' : e.id # newID'[j]
               /\ \A i \in Calls : pc'[i] = "opened" /\ newID'[i] = newID'[j] => i = j
    <3>1. \A i \in Calls : i # k /\ pc'[i] = "opened" => newID'[i] \in 1..nextID
      BY Zenon, <2>2
    <3>2. CASE j = k
      BY <2>1, <2>2, <2>3, <3>1, <3>2
    <3>3. CASE j # k
      BY <2>1, <2>2, <2>5, <3>1, <3>3
    <3> QED
      BY Zenon, <3>2, <3>3
  <2>6. ASSUME NEW j \in Calls, pc'[j] \in {"bound", "checked"}, req'[j].method = ReadMethod
        PROVE  /\ entry'[j].capID = req'[j].capID /\ Granted(entry'[j])
               /\ fsPc' = "serving" => entry'[j] \in handles'
    BY Zenon, <2>1, <2>2, <2>6
  <2> QED
    BY Zenon, <2>4, <2>5, <2>6
<1>12. ASSUME NEW k \in Calls, StoreHandle(k) PROVE HandleInv'
  <2> DEFINE new == [id |-> newID[k], capID |-> req[k].capID, path |-> Abs(req[k].path)]
  <2>1. pc[k] = "opened" /\ req[k].method = OpenMethod /\ newID[k] \in 1..nextID
    BY Zenon, <1>12 DEF StoreHandle
  <2>2. handles' = handles \cup {new} /\ UNCHANGED <<nextID, fsPc>>
    BY Zenon, <1>12, <2>1 DEF StoreHandle
  <2>3. Authorize(req[k].capID, OpenMethod, req[k].path) /\ req[k].path \in Paths
    <3>1. Authorize(req[k].capID, req[k].method, req[k].path)
      BY Zenon, <2>1 DEF UpInv
    <3>2. req[k].path \in Paths
      BY Zenon DEF TypeOK, Requests
    <3> QED
      BY Zenon, <2>1, <3>1, <3>2
  <2>4. Granted(new)
    BY Zenon, <2>3 DEF Granted
  <2>5. new.id = newID[k]
    OBVIOUS
  <2>6. /\ pc'[k] = "idle"
        /\ \A j \in Calls : j # k => /\ pc'[j] = pc[j] /\ newID'[j] = newID[j]
                                    /\ req'[j] = req[j] /\ entry'[j] = entry[j]
    BY Zenon, <1>12 DEF StoreHandle, Reply, TypeOK
  <2>7. nextID \in Nat
    BY DEF TypeOK
  <2> HIDE DEF new
  <2> QED
    BY <2>1, <2>2, <2>4, <2>5, <2>6, <2>7
<1>13. CASE UNCHANGED vars
  BY Zenon, <1>13
<1> HIDE DEF HandleInv
<1> QED
  BY Zenon, <1>1, <1>2, <1>3, <1>4, <1>5, <1>6, <1>7, <1>8, <1>9, <1>10, <1>11, <1>12, <1>13
     DEF Next, Handler

(* The inductive invariant of the two services.                            *)
THEOREM CapInvariant == Spec => []CapInv
<1>1. Init => CapInv
  BY Zenon, CapTypeInit DEF Init, CapInv, Drawn, UpInv, up, RevokeInv, HandleInv
<1>2. CapInv /\ [Next]_vars => CapInv'
  BY Zenon, CapTypeStep, UpStep, RevokeStep, HandleStep DEF CapInv
<1> QED
  BY <1>1, <1>2, PTL DEF Spec

(* Once identity.revoke has answered and the file service was told, no     *)
(* later request gets at a file, for any interleaving of the handlers.     *)
THEOREM RevocationHolds == Spec => []NoAccessAfterRevoke
<1>1. CapInv => NoAccessAfterRevoke
  BY Zenon DEF CapInv, RevokeInv, NoAccessAfterRevoke
<1> QED
  BY <1>1, CapInvariant, PTL

(* Every read is of the file that its own handle names, which is the one   *)
(* that some path its capability may open names from the working directory.*)
THEOREM HandlesAreBound == Spec => []ReadsAsGranted
<1>1. CapInv => ReadsAsGranted
  BY Zenon DEF CapInv, HandleInv, Granted, ReadsAsGranted
<1> QED
  BY <1>1, CapInvariant, PTL

(* An identity.revoke call waits only for a file service that runs, with   *)
(* any number of calls and restarts of either service.                     *)
THEOREM RevokersNotStranded == Spec => []RevokeNotStranded
<1>1. CapInv => RevokeNotStranded
  BY Zenon DEF CapInv, UpInv, up, RevokeNotStranded
<1> QED
  BY <1>1, CapInvariant, PTL

(* A handle names the same open file until CloseAll or the end             *)
(* of the process: no fs.open draws or overwrites the id of another.       *)
THEOREM HandlesNeverReused == Spec => HandlesFixed
<1>1. ASSUME CapInv, [Next]_vars, fsPc = "serving", fsPc' = "serving"
      PROVE  handles \subseteq handles'
  <2> USE DEF identity, tokens, revoking, table, handlers, vars
  <2>1. ASSUME NEW k \in Calls, StoreHandle(k) PROVE handles \subseteq handles'
    BY Zenon, <1>1, <2>1 DEF StoreHandle, CapInv, HandleInv
  <2>2. CASE IdentityStart \/ IdentityTruncates \/ IdentityPublishes \/ IdentityExits
    BY Zenon, <2>2 DEF IdentityStart, IdentityTruncates, IdentityPublishes, IdentityExits
  <2>3. CASE FsStart \/ FsLoadsKey \/ FsListens \/ FsCloses \/ FsExits
    BY Zenon, <1>1, <2>3 DEF FsStart, FsLoadsKey, FsListens, FsCloses, FsExits
  <2>4. ASSUME NEW c \in Caps,
               Issue(c) \/ Expire(c) \/ Revoke(c) \/ NotifyFS(c) \/ FsRevoke(c)
               \/ RevokeReplies(c) \/ FsRevokeByClient(c)
        PROVE  handles' = handles
    BY Zenon, <2>4 DEF Issue, Expire, Revoke, NotifyFS, FsRevoke, RevokeReplies,
       FsRevokeByClient
  <2>5. ASSUME NEW k \in Calls, NEW r \in Requests, Receive(k, r) PROVE handles' = handles
    BY Zenon, <2>5 DEF Receive
  <2>6. ASSUME NEW k \in Calls, Get(k) \/ CheckRevoked(k) \/ Access(k) \/ OpenFile(k)
        PROVE  handles' = handles
    BY Zenon, <2>6 DEF Get, CheckRevoked, Access, OpenFile
  <2>7. CASE UNCHANGED vars
    BY Zenon, <2>7
  <2> HIDE DEF identity, tokens, revoking, table, handlers, vars
  <2> QED
    BY Zenon, <1>1, <2>1, <2>2, <2>3, <2>4, <2>5, <2>6, <2>7 DEF Next, Handler
<1>2. ASSUME CapInv, NEW k \in Calls, pc[k] = "opened"
      PROVE  \A e \in handles : e.id # newID[k]
  BY Zenon, <1>2 DEF CapInv, HandleInv
<1>3. CapInv /\ [Next]_vars =>
        [fsPc = "serving" /\ fsPc' = "serving" =>
           /\ handles \subseteq handles'
           /\ \A k \in Calls : pc[k] = "opened" /\ pc'[k] = "idle" =>
                \A e \in handles : e.id # newID[k]]_vars
  BY Zenon, <1>1, <1>2
<1> QED
  BY <1>3, CapInvariant, PTL DEF Spec, HandlesFixed
=============================================================================
