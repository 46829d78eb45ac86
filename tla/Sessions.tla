------------------------------- MODULE Sessions -------------------------------
(* The requests of one browser through SessionMiddleware (or DBSessionMiddleware),   *)
(* CSRF, RequireAuth or Guest, a handler, and the middleware's save, over the memory, *)
(* database or Redis store.  The memory store hands every request of an ID the same   *)
(* object; the others build one for each request from the row and write it back       *)
(* whole, as JSON: a number comes back as a float64, and data that JSON refuses are not *)
(* saved.  Each access to a session object is one step under its lock.  Fresh IDs and *)
(* tokens are named after the request that generates them.                            *)
EXTENDS Naturals, Sequences, FiniteSets

CONSTANTS SRequests,  \* 1 .. n, in the order they are sent
          SConfigs,   \* [store, middleware, signed, ids, provider]: how the application is put
                      \* together; provider tells whether RetrieveByID takes an ID of any number type
          SOps,       \* SOps[r]: what the handler of request r may do
          SInFlight,  \* bound: requests under way at once
          SLapses,    \* bound: sessions whose time to live passes
          SFaults     \* bound: calls of a database or of Redis that fail
ASSUME SessionsAssumption ==
  /\ SRequests \subseteq Nat \ {0} /\ SLapses \in Nat /\ SFaults \in Nat
  /\ SConfigs \subseteq [store : {"memory", "redis", "db"}, signed : BOOLEAN,
                        middleware : {"SessionMiddleware", "DBSessionMiddleware"},
                        ids : {"int", "string"}, provider : {"strict", "lenient"}]

VARIABLES sConf,
          sHeap,   \* the session objects: ID and data
          sTable,  \* the store: an object (memory) or a row with its data
          sReq,    \* each request
          sJar,    \* the browser's session and XSRF-TOKEN cookies
          sSeen    \* history: lapses and faults; whether requests overlapped, regenerated an
                   \* ID or lost what they should have saved; the data of the last Save done

svars == <<sConf, sHeap, sTable, sReq, sJar, sSeen>>

None == 0
SIds == SRequests \X {"new", "reissued", "regenerated"}
NoId == <<None, "none">>
Objects == SRequests \X {"load", "regen"}
Empty == [user |-> "nobody", token |-> None, flash |-> "none"]
NoRow == [live |-> FALSE, object |-> NoId, data |-> Empty]
NewRequest == [pc |-> "new", op |-> "none", cookie |-> NoId, sent |-> None, id |-> NoId,
               sess |-> NoId, token |-> None, auth |-> FALSE, status |-> 200, loaded |-> Empty]

SInit == /\ sConf \in SConfigs
         /\ sHeap = [o \in Objects |-> [id |-> NoId, data |-> Empty]]
         /\ sTable = [i \in SIds |-> NoRow]
         /\ sReq = [r \in SRequests |-> NewRequest]
         /\ sJar = [session |-> NoId, token |-> None]
         /\ sSeen = [lapses |-> 0, faults |-> 0, overlapped |-> FALSE, regenerated |-> FALSE,
                     lost |-> FALSE, last |-> Empty]

InMemory == sConf.store = "memory"
Under(r) == sReq[r].pc \notin {"new", "answered", "done", "refused"}
Goto(r, pc) == sReq' = [sReq EXCEPT ![r].pc = pc]
Data(r) == sHeap[sReq[r].sess].data
SetData(r, data) == sHeap' = [sHeap EXCEPT ![sReq[r].sess].data = data]
MayFail == ~InMemory /\ sSeen.faults < SFaults

(* What serialise makes of the data of a row and Load reads back: the payload does not   *)
(* keep the type of a number.  A function in the data is not encodable.                   *)
Encodable(data) == data.flash # "func"
Decoded(data) == [data EXCEPT !.user = IF @ = "int" THEN "float64" ELSE @]
ReadBack(data) == IF InMemory THEN data ELSE Decoded(data)

(* The browser sends a request with the cookies it has.                                *)
Send(r, op) ==
  /\ sReq[r].pc = "new" /\ \A q \in SRequests : q < r => sReq[q].pc # "new"
  /\ Cardinality({q \in SRequests : Under(q)}) < SInFlight
  /\ sReq' = [sReq EXCEPT ![r] = [NewRequest EXCEPT !.pc = "load", !.op = op,
                                    !.cookie = sJar.session, !.sent = sJar.token]]
  /\ sSeen' = [sSeen EXCEPT !.overlapped =
                 @ \/ \E q \in SRequests : sReq[q].pc \notin {"new", "done", "refused"}]
  /\ UNCHANGED <<sConf, sHeap, sTable, sJar>>

(* verifyID: with a signing key, an ID without a signature of ours is not accepted.     *)
(* Only DBSessionMiddleware signs the IDs it generates.                                 *)
verifyID(id) == ~sConf.signed \/ (sConf.middleware = "DBSessionMiddleware" /\ id[2] = "new")

(* The store's Load: the object or the live row of the ID, or an empty session.  The    *)
(* cookie of the response holds the ID that was asked for.  If the row cannot be read     *)
(* the middleware returns the error, and sets no cookie.                                  *)
\* Mutant of Load: the memory store builds an object for every request.
LoadFresh(r) ==
  LET id == IF sReq[r].cookie # NoId THEN sReq[r].cookie ELSE <<r, "new">>
      row == sTable[id]
      data == IF ~row.live THEN Empty ELSE IF InMemory THEN sHeap[row.object].data ELSE Decoded(row.data)
  IN /\ sReq[r].pc = "load"
     /\ sHeap' = [sHeap EXCEPT ![<<r, "load">>] = [id |-> id, data |-> data]]
     /\ sTable' = IF InMemory THEN [sTable EXCEPT ![id] = [NoRow EXCEPT !.live = TRUE, !.object = <<r, "load">>]]
                  ELSE sTable
     /\ sReq' = [sReq EXCEPT ![r].pc = "csrf", ![r].id = id, ![r].sess = <<r, "load">>, ![r].loaded = data]
     /\ UNCHANGED <<sConf, sJar, sSeen>>
Load(r) ==
  LET asked == IF sReq[r].cookie # NoId THEN sReq[r].cookie ELSE <<r, "new">>
      id == IF verifyID(asked) THEN asked ELSE <<r, "reissued">>
      row == sTable[id]
      o == IF InMemory /\ row.live THEN row.object ELSE <<r, "load">>
      data == IF ~row.live THEN Empty ELSE IF InMemory THEN sHeap[o].data ELSE Decoded(row.data)
  IN /\ sReq[r].pc = "load"
     /\ sHeap' = [sHeap EXCEPT ![o] = [id |-> id, data |-> data]]
     /\ sTable' = IF InMemory THEN [sTable EXCEPT ![id] = [NoRow EXCEPT !.live = TRUE, !.object = o]]
                  ELSE sTable
     /\ sReq' = [sReq EXCEPT ![r].pc = "csrf", ![r].id = asked, ![r].sess = o, ![r].loaded = data]
     /\ UNCHANGED <<sConf, sJar, sSeen>>

LoadFails(r) == /\ sReq[r].pc = "load" /\ MayFail /\ Goto(r, "refused")
                /\ sSeen' = [sSeen EXCEPT !.faults = @ + 1]
                /\ UNCHANGED <<sConf, sHeap, sTable, sJar>>

(* CSRF: read the session's token; with none, seed one in a second access.  A request   *)
(* that changes something must carry the token.                                         *)
CsrfGet(r) == /\ sReq[r].pc = "csrf"
              /\ sReq' = [sReq EXCEPT ![r].token = IF Data(r).token = None THEN r ELSE Data(r).token,
                                      ![r].pc = IF Data(r).token = None THEN "seed" ELSE "check"]
              /\ UNCHANGED <<sConf, sHeap, sTable, sJar, sSeen>>
CsrfSeed(r) == /\ sReq[r].pc = "seed"
               /\ SetData(r, [Data(r) EXCEPT !.token = r]) /\ Goto(r, "check")
               /\ UNCHANGED <<sConf, sTable, sJar, sSeen>>
Safe(op) == op \in {"user", "getflash"}
CsrfCheck(r) ==
  /\ sReq[r].pc = "check"
  /\ sReq' = IF Safe(sReq[r].op) \/ sReq[r].sent = sReq[r].token
             THEN [sReq EXCEPT ![r].pc = "gate"]
             ELSE [sReq EXCEPT ![r].pc = "save", ![r].status = 403]
  /\ UNCHANGED <<sConf, sHeap, sTable, sJar, sSeen>>

(* SessionGuard finds the session in the request's own context, where only              *)
(* SessionMiddleware puts it, asks the provider for the user of the ID in it, and keeps   *)
(* what it found for the rest of the request.                                              *)
HasSession == sConf.middleware = "SessionMiddleware"
RetrieveByID(id) == id = sConf.ids \/ (id # "nobody" /\ sConf.provider = "lenient")
User(r) == HasSession /\ RetrieveByID(Data(r).user)
(* RequireAuth in front of logout, Guest in front of login.                              *)
Gate(r) ==
  /\ sReq[r].pc = "gate"
  /\ LET op == sReq[r].op
         status == IF op = "logout" /\ ~User(r) THEN 401
                   ELSE IF op = "login" /\ User(r) THEN 302 ELSE 200
     IN sReq' = [sReq EXCEPT ![r].auth = User(r), ![r].status = status,
                             ![r].pc = IF status = 200 THEN "handle" ELSE "save"]
  /\ UNCHANGED <<sConf, sHeap, sTable, sJar, sSeen>>

(* The handler makes one call: Attempt and Login, Logout, Flash, GetFlash, or a look at   *)
(* the user.  Without a session Login and Logout return ErrSessionUninitialized.           *)
Handle(r) ==
  /\ sReq[r].pc = "handle" /\ sReq[r].op # "regenerate"
  /\ LET op == sReq[r].op
         data == Data(r)
     IN /\ SetData(r, CASE op = "login" /\ HasSession -> [data EXCEPT !.user = sConf.ids]
                        [] op = "logout" /\ HasSession -> [data EXCEPT !.user = "nobody"]
                        [] op = "flash" -> [data EXCEPT !.flash = "text"]
                        [] op = "flashfunc" -> [data EXCEPT !.flash = "func"]
                        [] op = "getflash" -> [data EXCEPT !.flash = "none"]
                        [] OTHER -> data)
        /\ sReq' = [sReq EXCEPT ![r].pc = "save",
                      ![r].auth = HasSession /\ (op = "login" \/ (op # "logout" /\ @))]
  /\ UNCHANGED <<sConf, sTable, sJar, sSeen>>

(* RegenerateSessionID: copy the data of a memory session, destroy the old ID, save the   *)
(* new session.  The error of Destroy is ignored; the other stores' Save refuses an object  *)
(* that is not theirs, and its error is returned.                                          *)
RegenerateCopy(r) ==
  /\ sReq[r].pc = "handle" /\ sReq[r].op = "regenerate" /\ Goto(r, "destroy")
  /\ sHeap' = [sHeap EXCEPT ![<<r, "regen">>] =
                 [id |-> <<r, "regenerated">>, data |-> IF InMemory THEN Data(r) ELSE Empty]]
  /\ sSeen' = [sSeen EXCEPT !.regenerated = TRUE]
  /\ UNCHANGED <<sConf, sTable, sJar>>
Destroy(r) ==
  /\ sReq[r].pc = "destroy" /\ Goto(r, "regen")
  /\ \/ sTable' = [sTable EXCEPT ![sHeap[sReq[r].sess].id] = NoRow] /\ sSeen' = sSeen
     \/ MayFail /\ sTable' = sTable /\ sSeen' = [sSeen EXCEPT !.faults = @ + 1]
  /\ UNCHANGED <<sConf, sHeap, sJar>>
RegenerateSave(r) ==
  /\ sReq[r].pc = "regen"
  /\ LET new == <<r, "regenerated">> IN
     IF InMemory
     THEN /\ sTable' = [sTable EXCEPT ![new] = [NoRow EXCEPT !.live = TRUE, !.object = <<r, "regen">>]]
          /\ sReq' = [sReq EXCEPT ![r].id = new, ![r].pc = "save"]
     ELSE sTable' = sTable /\ Goto(r, "save")
  /\ UNCHANGED <<sConf, sHeap, sJar, sSeen>>

(* The middleware saves the session it loaded, whatever became of it, and returns the    *)
(* error of a Save that fails; the handler has answered by then.  After a statement and    *)
(* its fallback have failed the row may be written or not.                                 *)
SaveEnds(r, written, faults) ==
  LET o == sReq[r].sess
      row == IF InMemory THEN [NoRow EXCEPT !.live = TRUE, !.object = o]
             ELSE [NoRow EXCEPT !.live = TRUE, !.data = sHeap[o].data]
  IN /\ Goto(r, "answered")
     /\ sTable' = IF written THEN [sTable EXCEPT ![sHeap[o].id] = row] ELSE sTable
     /\ sSeen' = [sSeen EXCEPT !.faults = faults, !.lost = @ \/ ~written,
                               !.last = IF written THEN Data(r) ELSE @]
     /\ UNCHANGED <<sConf, sHeap, sJar>>
\* Mutant of Save: the middleware does not save.
SaveForgotten(r) == /\ sReq[r].pc = "save" /\ Goto(r, "answered")
                    /\ sSeen' = [sSeen EXCEPT !.last = Data(r)]
                    /\ UNCHANGED <<sConf, sHeap, sTable, sJar>>
Save(r) ==
  /\ sReq[r].pc = "save"
  /\ \/ (InMemory \/ Encodable(Data(r))) /\ SaveEnds(r, TRUE, sSeen.faults)
     \/ ~InMemory /\ ~Encodable(Data(r)) /\ SaveEnds(r, FALSE, sSeen.faults)
     \/ /\ MayFail /\ Encodable(Data(r))
        /\ \E written \in BOOLEAN : SaveEnds(r, written, sSeen.faults + 1)

(* The response reaches the browser, in any order.                                        *)
Answer(r) == /\ sReq[r].pc = "answered" /\ Goto(r, "done")
             /\ sJar' = [session |-> sReq[r].id, token |-> sReq[r].token]
             /\ UNCHANGED <<sConf, sHeap, sTable, sSeen>>

(* The time to live of a row passes: Redis drops it, Load no longer finds it and runGC     *)
(* deletes it.  A row whose payload was spoiled loads as an empty session too.              *)
Lapse(i) == /\ ~InMemory /\ sTable[i].live /\ sSeen.lapses < SLapses
            /\ sTable' = [sTable EXCEPT ![i] = NoRow]
            /\ sSeen' = [sSeen EXCEPT !.lapses = @ + 1]
            /\ UNCHANGED <<sConf, sHeap, sReq, sJar>>

SNext == \/ \E r \in SRequests :
              \/ \E op \in SOps[r] : Send(r, op)
              \/ Load(r) \/ LoadFails(r) \/ CsrfGet(r) \/ CsrfSeed(r) \/ CsrfCheck(r) \/ Gate(r)
              \/ Handle(r) \/ RegenerateCopy(r) \/ Destroy(r) \/ RegenerateSave(r) \/ Save(r) \/ Answer(r)
         \/ \E i \in SIds : Lapse(i)

SSpec == SInit /\ [][SNext]_svars

-----------------------------------------------------------------------------
SomeId == SIds \cup {NoId}
SomeObject == Objects \cup {NoId}
SomeToken == SRequests \cup {None}
Users == {"nobody", "int", "float64", "string"}
Datas == [user : Users, token : SomeToken, flash : {"none", "text", "func"}]
Rows == [live : BOOLEAN, object : SomeObject, data : Datas]
Stages == {"new", "load", "csrf", "seed", "check", "gate", "handle", "destroy", "regen", "save",
           "answered", "done", "refused"}
Statuses == {200, 302, 401, 403}
Visits == [pc : Stages, op : {"none"} \cup UNION {SOps[r] : r \in SRequests},
           cookie : SomeId, sent : SomeToken, id : SomeId, sess : SomeObject, token : SomeToken,
           auth : BOOLEAN, status : Statuses, loaded : Datas]
STypeOK == /\ sConf \in SConfigs
           /\ sHeap \in [Objects -> [id : SomeId, data : Datas]]
           /\ sTable \in [SIds -> Rows]
           /\ sReq \in [SRequests -> Visits]
           /\ sJar \in [session : SomeId, token : SomeToken]
           /\ sSeen \in [lapses : 0 .. SLapses, faults : 0 .. SFaults, overlapped : BOOLEAN,
                        regenerated : BOOLEAN, lost : BOOLEAN, last : Datas]

(* A browser that sends one request at a time finds in each the session that its last     *)
(* Save left, as far as the store keeps it; its POST is refused only before it has a token, *)
(* or after a Save was lost; and the guard knows the user that the last Save left logged in, *)
(* and no other, while user IDs survive the store.  So it is while no session lapses and no *)
(* ID is regenerated, except for IDs by SessionMiddleware that a signing store refuses.      *)
Calm == /\ sSeen.lapses = 0 /\ ~sSeen.overlapped /\ ~sSeen.regenerated
        /\ sConf.signed => sConf.middleware = "DBSessionMiddleware"
IdsSurvive == HasSession /\ (InMemory \/ sConf.ids = "string" \/ sConf.provider = "lenient")
BrowserKeepsItsSession ==
  Calm => \A r \in SRequests :
       /\ sReq[r].pc = "csrf" => sReq[r].loaded = ReadBack(sSeen.last)
       /\ sReq[r].status = 403 /\ ~sSeen.lost => sReq[r].sent = None
       /\ sReq[r].pc = "handle" /\ IdsSurvive => sReq[r].auth = (sSeen.last.user # "nobody")

(* What session_store_db.go says of its store ("a zero-change drop-in replacement") and its *)
(* middleware ("a drop-in for SessionMiddleware"), which is not so: whoever logs in is        *)
(* logged in, and the next request knows it.                                                   *)
LoginsLast ==
  Calm => \A r \in SRequests :
       /\ sReq[r].pc = "save" /\ sReq[r].op = "login" /\ sReq[r].status = 200 => sReq[r].auth
       /\ sReq[r].pc = "handle" => sReq[r].auth = (sSeen.last.user # "nobody")

(* Over the memory store the requests of one ID work on one object, and it is the one      *)
(* the store holds, so that no write of theirs is lost; RegenerateSessionID ends that,       *)
(* because it removes the old entry under the requests that have it and the middleware       *)
(* puts theirs back.                                                                        *)
OneObjectPerId ==
  InMemory /\ ~sSeen.regenerated
  => \A r \in SRequests : sReq[r].sess # NoId => sTable[sHeap[sReq[r].sess].id].object = sReq[r].sess

(* What both rest on.  A request that has begun works on an object that has an ID, and the   *)
(* IDs and objects in use are named after requests that have begun, so that a fresh one has   *)
(* no row.                                                                                     *)
Begun(r) == sReq[r].pc \notin {"new", "load", "refused"}
Issued(i) == i = NoId \/ Begun(i[1])
WorksOnAnObject(r) ==
  /\ IF Begun(r) THEN sReq[r].sess \in Objects /\ sHeap[sReq[r].sess].id \in SIds
     ELSE sReq[r].sess = NoId
  /\ sReq[r].pc \in {"destroy", "regen"} => sSeen.regenerated
NamesIssued ==
  /\ Issued(sJar.session)
  /\ \A r \in SRequests : Issued(sReq[r].cookie) /\ Issued(sReq[r].id) /\ Issued(sReq[r].sess)
  /\ \A o \in Objects : Issued(sHeap[o].id)
  /\ \A i \in SIds : (sTable[i].live => Issued(i)) /\ Issued(sTable[i].object)

(* The memory store's rows and objects name each other.                                      *)
RowsHold ==
  InMemory =>
    /\ \A i \in SIds : sTable[i].live => sTable[i].object \in Objects
    /\ ~sSeen.regenerated =>
         /\ \A i \in SIds : sTable[i].live => sHeap[sTable[i].object].id = i
         /\ \A r \in SRequests : Begun(r) =>
              LET row == sTable[sHeap[sReq[r].sess].id] IN row.live /\ row.object = sReq[r].sess

(* The users in the data are of the type of the application's IDs, or what JSON made of it.  *)
KnownUser(data) == \/ data.user \in {"nobody", sConf.ids}
                   \/ data.user = "float64" /\ sConf.ids = "int" /\ ~InMemory
UsersKnown == /\ KnownUser(sSeen.last)
              /\ \A o \in Objects : KnownUser(sHeap[o].data)
              /\ \A i \in SIds : KnownUser(sTable[i].data)

(* Of a browser that sends one request at a time: between requests its cookies name the row   *)
(* with the data of the last Save, or none if there was none, and a request takes them along.   *)
Saved(i) == IF ~sTable[i].live THEN Empty
            ELSE IF InMemory THEN sHeap[sTable[i].object].data ELSE sTable[i].data
Remembers(i, token) ==
  /\ i \in SIds /\ verifyID(i) /\ Saved(i) = sSeen.last
  /\ ~sSeen.lost => token = sSeen.last.token /\ token # None
JarRemembers == IF sJar.session = NoId THEN sSeen.last = Empty /\ sJar.token = None
                ELSE Remembers(sJar.session, sJar.token)
InHand(r) ==
  LET q == sReq[r] IN
  /\ q.status = 403 /\ ~sSeen.lost => q.sent = None
  /\ q.pc = "load" => q.cookie = sJar.session /\ q.sent = sJar.token
  /\ Begun(r) /\ q.pc \notin {"answered", "done"} =>
       /\ q.id \in SIds /\ verifyID(q.id) /\ sHeap[q.sess].id = q.id
       /\ q.pc = "csrf" => /\ q.loaded = ReadBack(sSeen.last) /\ Data(r) = ReadBack(sSeen.last)
                           /\ ~sSeen.lost => q.sent = Data(r).token
       /\ q.pc = "seed" => Data(r).token = None /\ q.token = r /\ (~sSeen.lost => q.sent = None)
       /\ q.pc \notin {"csrf", "seed"} => Data(r).token = q.token /\ q.token # None
       /\ q.pc = "check" /\ ~sSeen.lost => q.sent \in {None, q.token}
       /\ q.pc \in {"seed", "check", "gate", "handle"} => Data(r).user = ReadBack(sSeen.last).user
       /\ q.pc = "handle" => q.auth = User(r)
       /\ ~InMemory => Saved(q.id) = sSeen.last
  /\ q.pc = "answered" => Remembers(q.id, q.token)
OneAtATime ==
  Calm =>
    /\ \A r, q \in SRequests : {sReq[r].pc, sReq[q].pc} \cap {"new", "done", "refused"} = {} => r = q
    /\ \A r \in SRequests : InHand(r)
    /\ (\A r \in SRequests : sReq[r].pc \in {"new", "load", "done", "refused"}) => JarRemembers
SIndInv == /\ STypeOK /\ NamesIssued /\ RowsHold /\ UsersKnown /\ OneAtATime
           /\ \A r \in SRequests : WorksOnAnObject(r)
=============================================================================
