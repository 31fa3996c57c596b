---------------------------- MODULE Capabilities ----------------------------
(***************************************************************************)
(* The identity service and the file service: key publication, tokens,     *)
(* open handles and revocation, with restarts of both services.            *)
(*                                                                         *)
(* Every start of the identity service makes a new key pair; keys are      *)
(* numbered.  A token is the key that signed it: Verify accepts it exactly *)
(* when that is the key the file service has loaded.  What a capability    *)
(* allows is fixed by claims, and whether the rate limit lets a request    *)
(* pass (module RateLimit) is left open: a refused request changes nothing *)
(* here and is not a step.  A file is named by its absolute path.          *)
(* Handlers run concurrently; each lock is one step.                       *)
(***************************************************************************)
EXTENDS PathPolicy, FiniteSets

CONSTANTS
  Caps,       \* capability ids, 16 random bytes each and so never issued twice
  claims,     \* the Service, Rights, Actions and PathPrefix asked for each of them
  Paths,      \* paths clients ask for
  Revocable,  \* bound: capabilities that are revoked, or expire
  Calls,      \* bound: connections to the file service with a request in progress
  MaxKeys,    \* bound: starts of the identity service
  MaxHandles  \* bound: handles opened in one life of the file service

\* Methods are <<service, action>>.
OpenMethod == <<"fs", "open">>
ReadMethod == <<"fs", "read">>
ListMethod == <<"fs", "list">>
Methods == {OpenMethod, ReadMethod, ListMethod}

ASSUME CapabilitiesAssumption ==
  /\ \A c \in Caps : claims[c].Service \in {"fs", "identity", "registry"}
  /\ \A c \in Caps : claims[c].PathPrefix \in Seq(STRING)
  /\ Paths \subseteq Seq(STRING)
  /\ Revocable \subseteq Caps
  /\ Caps # {} /\ Paths # {}
  /\ MaxKeys \in Nat /\ MaxHandles \in Nat

Keys == 1..MaxKeys
Handles == 1..MaxHandles

VARIABLES
  idPc,      \* the identity process
  idKey,     \* number of its key pair
  pubFile,   \* the key in identity.pub, 0 = no file, or an incomplete one
  issued,    \* the key that signed the token of a capability, 0 = not issued
  expired,   \* capabilities whose ExpiresAt has passed
  rev,       \* identity.revoke calls
  orphan,    \* fs.revoke requests whose sender has gone
  acked,     \* history: answers of identity.revoke, by what became of fs.revoke
  fsPc,      \* the file service process
  pubKey,    \* the key it has loaded
  revoked,   \* handleTable.revoked
  handles,   \* handleTable.handles
  nextID,    \* handleTable.nextID
  pc,        \* handlers of fs.open, fs.read and fs.list
  req,       \* the request a handler works on
  newID,     \* the handle id an fs.open has drawn
  entry      \* the handleEntry an fs.read has looked up

identity == <<idPc, idKey, pubFile>>
tokens   == <<issued, expired>>
revoking == <<rev, orphan, acked>>
table    == <<revoked, handles, nextID>>
handlers == <<pc, req, newID, entry>>
vars == <<identity, tokens, revoking, fsPc, pubKey, table, handlers>>

\* late: identity.revoke had answered before the request came, and by then the
\* file service had handled its fs.revoke ("here") or was never told ("lost").
Requests ==
  [method : Methods, capID : Caps, path : Paths, handle : Handles \cup {0},
   late : {"no", "here", "lost"}]

\* Stands for no request.
blank == CHOOSE r \in Requests : TRUE

Entries == [id : Handles, capID : Caps, path : {Abs(p) : p \in Paths}]

noEntry == [id |-> 0]

(* The values the variables take.                                          *)
TypeOK ==
  /\ idPc \in {"down", "starting", "publishing", "serving"}
  /\ idKey \in 0..MaxKeys /\ pubFile \in 0..MaxKeys
  /\ issued \in [Caps -> 0..MaxKeys] /\ expired \in SUBSET Caps
  /\ rev \in [Caps -> {"none", "sending", "waiting", "done", "failed"}]
  /\ orphan \in SUBSET Caps
  /\ acked \in [Caps -> {"no", "here", "lost"}]
  /\ fsPc \in {"down", "loading", "loaded", "serving", "closing"}
  /\ pubKey \in 0..MaxKeys
  /\ revoked \in SUBSET Caps /\ handles \in SUBSET Entries /\ nextID \in 0..MaxHandles
  /\ pc \in [Calls -> {"idle", "authorized", "bound", "checked", "opened"}]
  /\ req \in [Calls -> Requests]
  /\ newID \in [Calls -> 0..MaxHandles]
  /\ entry \in [Calls -> Entries \cup {noEntry}]

Init ==
  /\ idPc = "down" /\ idKey = 0 /\ pubFile = 0
  /\ issued = [c \in Caps |-> 0] /\ expired = {}
  /\ rev = [c \in Caps |-> "none"] /\ orphan = {}
  /\ acked = [c \in Caps |-> "no"]
  /\ fsPc = "down" /\ pubKey = 0
  /\ revoked = {} /\ handles = {} /\ nextID = 0
  /\ pc = [k \in Calls |-> "idle"] /\ req = [k \in Calls |-> blank]
  /\ newID = [k \in Calls |-> 0] /\ entry = [k \in Calls |-> noEntry]

-----------------------------------------------------------------------------
(* The identity service.                                                   *)

IdentityStart ==
  /\ idPc = "down" /\ idKey < MaxKeys
  /\ idPc' = "starting" /\ idKey' = idKey + 1
  /\ UNCHANGED <<pubFile, tokens, revoking, fsPc, pubKey, table, handlers>>

\* os.WriteFile first empties the file ...
IdentityTruncates ==
  /\ idPc = "starting"
  /\ idPc' = "publishing" /\ pubFile' = 0
  /\ UNCHANGED <<idKey, tokens, revoking, fsPc, pubKey, table, handlers>>

\* ... then writes it; the socket is opened after that.
IdentityPublishes ==
  /\ idPc = "publishing"
  /\ idPc' = "serving" /\ pubFile' = idKey
  /\ UNCHANGED <<idKey, tokens, revoking, fsPc, pubKey, table, handlers>>

\* A crash or a signal.  Requests it has sent to the file service are still
\* read there.
IdentityExits ==
  /\ idPc # "down"
  /\ idPc' = "down"
  /\ orphan' = orphan \cup {c \in Caps : rev[c] = "waiting"}
  /\ rev' = [c \in Caps |-> "none"]
  /\ UNCHANGED <<idKey, pubFile, tokens, acked, fsPc, pubKey, table, handlers>>

Issue(c) ==
  /\ idPc = "serving" /\ issued[c] = 0
  /\ claims[c].Actions # {} \/ claims[c].Rights # {}
  /\ issued' = [issued EXCEPT ![c] = idKey]
  /\ UNCHANGED <<identity, expired, revoking, fsPc, pubKey, table, handlers>>

Expire(c) ==
  /\ c \in Revocable /\ issued[c] # 0 /\ c \notin expired
  /\ expired' = expired \cup {c}
  /\ UNCHANGED <<identity, issued, revoking, fsPc, pubKey, table, handlers>>

\* identity.revoke.  Its own list of revocations is never read.
Revoke(c) ==
  /\ c \in Revocable /\ idPc = "serving" /\ issued[c] # 0 /\ rev[c] = "none"
  /\ rev' = [rev EXCEPT ![c] = "sending"]
  /\ UNCHANGED <<identity, tokens, orphan, acked, fsPc, pubKey, table, handlers>>

\* The file service's socket is open from srv.Start until srv.Stop.
NotifyFS(c) ==
  /\ rev[c] = "sending"
  /\ \/ fsPc \in {"serving", "closing"} /\ rev' = [rev EXCEPT ![c] = "waiting"]
     \/ fsPc # "serving" /\ rev' = [rev EXCEPT ![c] = "failed"]
  /\ UNCHANGED <<identity, tokens, orphan, acked, fsPc, pubKey, table, handlers>>

\* "revoked" is answered, whether the file service was told or not.
RevokeReplies(c) ==
  /\ rev[c] \in {"done", "failed"}
  /\ rev' = [rev EXCEPT ![c] = "none"]
  /\ acked' = [acked EXCEPT ![c] = IF rev[c] = "done" \/ @ = "here" THEN "here" ELSE "lost"]
  /\ UNCHANGED <<identity, tokens, orphan, fsPc, pubKey, table, handlers>>

-----------------------------------------------------------------------------
(* The file service.                                                       *)

FsStart ==
  /\ fsPc = "down"
  /\ fsPc' = "loading"
  /\ UNCHANGED <<identity, tokens, revoking, pubKey, table, handlers>>

FsLoadsKey ==
  /\ fsPc = "loading" /\ pubFile # 0
  /\ fsPc' = "loaded" /\ pubKey' = pubFile
  /\ UNCHANGED <<identity, tokens, revoking, table, handlers>>

\* srv.Start.
FsListens ==
  /\ fsPc = "loaded"
  /\ fsPc' = "serving"
  /\ UNCHANGED <<identity, tokens, revoking, pubKey, table, handlers>>

\* A signal: CloseAll.  The handlers go on until the process ends.
FsCloses ==
  /\ fsPc = "serving"
  /\ fsPc' = "closing" /\ handles' = {}
  /\ UNCHANGED <<identity, tokens, revoking, pubKey, revoked, nextID, handlers>>

Mut_FsExits ==
  /\ fsPc # "down"
  /\ fsPc' = "down" /\ pubKey' = 0
  /\ revoked' = {} /\ handles' = {} /\ nextID' = 0
  /\ pc' = [k \in Calls |-> "idle"] /\ req' = [k \in Calls |-> blank]
  /\ newID' = [k \in Calls |-> 0] /\ entry' = [k \in Calls |-> noEntry]
  /\ orphan' = {}
  /\ acked' = [c \in Caps |-> IF acked[c] = "here" THEN "lost" ELSE acked[c]]
  /\ UNCHANGED <<identity, tokens, rev>>

\* The end of the process: a crash, fifty failed attempts to load the key, or
\* the end of the shutdown.  All its state and all connections are lost.
FsExits ==
  /\ fsPc # "down"
  /\ fsPc' = "down" /\ pubKey' = 0
  /\ revoked' = {} /\ handles' = {} /\ nextID' = 0
  /\ pc' = [k \in Calls |-> "idle"] /\ req' = [k \in Calls |-> blank]
  /\ newID' = [k \in Calls |-> 0] /\ entry' = [k \in Calls |-> noEntry]
  /\ orphan' = {}
  /\ rev' = [c \in Caps |-> IF rev[c] \in {"waiting", "done"} THEN "failed" ELSE rev[c]]
  /\ acked' = [c \in Caps |-> IF acked[c] = "here" THEN "lost" ELSE acked[c]]
  /\ UNCHANGED <<identity, tokens>>

\* The handler of fs.revoke, for a request of the identity service ...
FsRevoke(c) ==
  /\ fsPc \in {"serving", "closing"}
  /\ \/ rev[c] = "waiting" /\ rev' = [rev EXCEPT ![c] = "done"] /\ UNCHANGED orphan
     \/ c \in orphan /\ orphan' = orphan \ {c} /\ UNCHANGED rev
  /\ revoked' = revoked \cup {c}
  /\ UNCHANGED <<identity, tokens, acked, fsPc, pubKey, handles, nextID, handlers>>

\* ... or of any other client: it asks for no token.
FsRevokeByClient(c) ==
  /\ c \in Revocable /\ fsPc \in {"serving", "closing"}
  /\ revoked' = revoked \cup {c}
  /\ UNCHANGED <<identity, tokens, revoking, fsPc, pubKey, handles, nextID, handlers>>

\* policy.Authorize, with the path where the method has one.
hasRight(c, m) == m \in claims[c].Rights
hasAction(c, m) == m[2] \in claims[c].Actions

Authorize(c, m, p) ==
  /\ claims[c].Service = m[1]
  /\ hasRight(c, m) \/ hasAction(c, m)
  /\ m # ReadMethod => enforcePathPrefix(claims[c].PathPrefix, p)

\* auth.Verify accepts what Sign made with the private half of the key loaded.
Verify(c) == issued[c] = pubKey
IsExpired(c) == c \in expired

\* extractClaims returns claims, and no error.
extractClaims(c) == Verify(c) /\ ~IsExpired(c)

\* A request whose token passes extractClaims and Authorize.  A read names a
\* handle and no path, the others a path and no handle.
Receive(k, r) ==
  /\ fsPc \in {"serving", "closing"} /\ pc[k] = "idle"
  /\ r.late = acked[r.capID]
  /\ r.method = ReadMethod <=> r.handle # 0
  /\ IF r.method = ReadMethod THEN r.path = blank.path ELSE r.path # <<>>
  /\ extractClaims(r.capID)
  /\ Authorize(r.capID, r.method, r.path)
  /\ pc' = [pc EXCEPT ![k] = "authorized"]
  /\ req' = [req EXCEPT ![k] = r]
  /\ UNCHANGED <<identity, tokens, revoking, fsPc, pubKey, table, newID, entry>>

\* The handler of call k answers.
Reply(k) ==
  /\ pc' = [pc EXCEPT ![k] = "idle"]
  /\ req' = [req EXCEPT ![k] = blank]
  /\ newID' = [newID EXCEPT ![k] = 0]
  /\ entry' = [entry EXCEPT ![k] = noEntry]

Mut_boundTo(k, e) == e.id = req[k].handle

\* The entry of the handle, opened with the same capability.
boundTo(k, e) == e.id = req[k].handle /\ e.capID = req[k].capID

\* fs.read looks its handle up, and checks who opened it.
Get(k) ==
  /\ pc[k] = "authorized" /\ req[k].method = ReadMethod
  /\ \/ /\ \E e \in handles : boundTo(k, e) /\ entry' = [entry EXCEPT ![k] = e]
        /\ pc' = [pc EXCEPT ![k] = "bound"]
        /\ UNCHANGED <<req, newID>>
     \/ (\A e \in handles : ~boundTo(k, e)) /\ Reply(k)
  /\ UNCHANGED <<identity, tokens, revoking, fsPc, pubKey, table>>

Mut_CheckRevoked(k) ==
  /\ pc[k] = IF req[k].method = ReadMethod THEN "bound" ELSE "authorized"
  /\ \/ /\ req[k].capID \notin revoked \/ req[k].method = ReadMethod
        /\ pc' = [pc EXCEPT ![k] = "checked"]
        /\ UNCHANGED <<req, newID, entry>>
     \/ req[k].capID \in revoked /\ Reply(k)
  /\ UNCHANGED <<identity, tokens, revoking, fsPc, pubKey, table>>

\* IsRevoked, before any use of a path or a handle.
CheckRevoked(k) ==
  /\ pc[k] = IF req[k].method = ReadMethod THEN "bound" ELSE "authorized"
  /\ \/ req[k].capID \notin revoked /\ pc' = [pc EXCEPT ![k] = "checked"]
        /\ UNCHANGED <<req, newID, entry>>
     \/ req[k].capID \in revoked /\ Reply(k)
  /\ UNCHANGED <<identity, tokens, revoking, fsPc, pubKey, table>>

\* ReadAt (of a file CloseAll may have closed), ReadDir, or a failing os.Open.
Access(k) ==
  /\ pc[k] = "checked"
  /\ Reply(k)
  /\ UNCHANGED <<identity, tokens, revoking, fsPc, pubKey, table>>

Mut_OpenFileOldID(k) ==
  /\ pc[k] = "checked" /\ req[k].method = OpenMethod
  /\ nextID < MaxHandles
  /\ nextID' = nextID + 1
  /\ newID' = [newID EXCEPT ![k] = nextID]
  /\ pc' = [pc EXCEPT ![k] = "opened"]
  /\ UNCHANGED <<identity, tokens, revoking, fsPc, pubKey, revoked, handles, req, entry>>

Mut_OpenFileLenID(k) ==
  /\ pc[k] = "checked" /\ req[k].method = OpenMethod
  /\ nextID < MaxHandles
  /\ nextID' = nextID + 1
  /\ newID' = [newID EXCEPT ![k] = Cardinality(handles) + 1]
  /\ pc' = [pc EXCEPT ![k] = "opened"]
  /\ UNCHANGED <<identity, tokens, revoking, fsPc, pubKey, revoked, handles, req, entry>>

\* handleTable.Open: the file the path names from the working directory is open,
\* the id drawn, ...
OpenFile(k) ==
  /\ pc[k] = "checked" /\ req[k].method = OpenMethod
  /\ nextID < MaxHandles
  /\ nextID' = nextID + 1
  /\ newID' = [newID EXCEPT ![k] = nextID + 1]
  /\ pc' = [pc EXCEPT ![k] = "opened"]
  /\ UNCHANGED <<identity, tokens, revoking, fsPc, pubKey, revoked, handles, req, entry>>

\* ... and the entry stored under the id, with that file's absolute path.
StoreHandle(k) ==
  /\ pc[k] = "opened"
  /\ handles' = {e \in handles : e.id # newID[k]}
                  \cup {[id |-> newID[k], capID |-> req[k].capID, path |-> Abs(req[k].path)]}
  /\ Reply(k)
  /\ UNCHANGED <<identity, tokens, revoking, fsPc, pubKey, revoked, nextID>>

-----------------------------------------------------------------------------
Handler(k) == Get(k) \/ CheckRevoked(k) \/ Access(k) \/ OpenFile(k) \/ StoreHandle(k)

Next ==
  \/ IdentityStart \/ IdentityTruncates \/ IdentityPublishes \/ IdentityExits
  \/ FsStart \/ FsLoadsKey \/ FsListens \/ FsCloses \/ FsExits
  \/ \E c \in Caps : Issue(c) \/ Expire(c) \/ Revoke(c) \/ NotifyFS(c) \/ FsRevoke(c)
                      \/ RevokeReplies(c) \/ FsRevokeByClient(c)
  \/ \E k \in Calls : Handler(k) \/ \E r \in Requests : Receive(k, r)

Spec == Init /\ [][Next]_vars

-----------------------------------------------------------------------------
(* Once identity.revoke has answered and its fs.revoke was handled, no     *)
(* request that comes later gets at a file or a directory, whatever        *)
(* handles the capability has opened or is about to open (identity.revoke, *)
(* fs.revoke, IsRevoked in every handler).                                 *)
NoAccessAfterRevoke ==
  \A k \in Calls : pc[k] \in {"checked", "opened"} => req[k].late # "here"

(* A read that goes through is of a file that the very capability of the   *)
(* request opened, by a path it may open, and that its handle still names, *)
(* whatever other opens and reads are under way.  The file is the one the  *)
(* path names from the working directory of the file service (handleTable, *)
(* Authorize).                                                             *)
ReadsAsGranted ==
  \A k \in Calls : pc[k] = "checked" /\ req[k].method = ReadMethod =>
    /\ entry[k].capID = req[k].capID
    /\ \E p \in Paths : Authorize(entry[k].capID, OpenMethod, p) /\ entry[k].path = Abs(p)
    /\ fsPc = "serving" => entry[k] \in handles

(* A handle names the same open file for as long as the file service       *)
(* serves: no entry goes, and an fs.open never stores its own under the id *)
(* of another, also of one that opened the same path with the same         *)
(* capability (handleTable.Open, nextID).                                  *)
HandlesFixed ==
  [][fsPc = "serving" /\ fsPc' = "serving" =>
       /\ handles \subseteq handles'
       /\ \A k \in Calls : pc[k] = "opened" /\ pc'[k] = "idle" =>
            \A e \in handles : e.id # newID[k]]_vars

(* An identity.revoke call never waits for an answer that cannot come.  It *)
(* waits without a timeout, so the file service that has its request must  *)
(* still run: a crash, or a shutdown that has closed the socket with the   *)
(* request unanswered, ends the wait with an error (SendRequest, FsExits). *)
RevokeNotStranded ==
  \A c \in Caps : rev[c] = "waiting" => fsPc \in {"serving", "closing"}

-----------------------------------------------------------------------------
(* What the documents say and the code does not do.                        *)

(* "Token must be valid, not expired, not revoked": no request that comes  *)
(* after the answer of identity.revoke gets at a file or a directory.      *)
RevokeIsEffective ==
  \A k \in Calls : pc[k] \in {"checked", "opened"} => req[k].late = "no"

(* "Final resolved path must remain under path_prefix": an open file lies  *)
(* in the directory of the prefix of the capability it was opened with.    *)
OpensUnderPrefix ==
  \A e \in handles : LET prefix == claims[e.capID].PathPrefix IN
    prefix # <<>> => Under(e.path, Abs(prefix))
=============================================================================
