---------------------------- MODULE RemoteProtocol ----------------------------
(***************************************************************************)
(* The remoting protocol of ASE (asermt_protocol.cpp): one connection      *)
(* between a client process and a server process, each running one thread  *)
(* on it.  Each side keeps a remote_handle.  Objects that live on one side *)
(* are exported to the other by reference (localobjmap) and represented    *)
(* there by reference-counted proxies (remoteobjmap, remote_object).  A    *)
(* call on a proxy writes a request and then serves the requests of the    *)
(* other side until the reply arrives, so calls nest in both directions.   *)
(*                                                                         *)
(* The payload of a packet is abstracted to the set of objects it refers   *)
(* to: an object of the sender arrives as a proxy, an object of the        *)
(* receiver arrives as itself.                                             *)
(***************************************************************************)
EXTENDS Integers, Sequences, FiniteSets

CONSTANTS
    ClientObjs,     \* objects living in the client process
    ServerObjs,     \* objects living in the server process
    TopObj,         \* the server object handed to the client on connection
    MaxRefs,        \* bound: references the application keeps to one proxy
    MaxDepth,       \* bound: activations nested on one side
    MaxArgs         \* bound: objects passed with a call or an answer

ASSUME ObjectsAssumption ==
    /\ ClientObjs \cap ServerObjs = {}
    /\ TopObj \in ServerObjs

ASSUME BoundsAssumption ==
    /\ MaxRefs \in Nat
    /\ MaxDepth \in Nat
    /\ MaxArgs \in Nat

Client == "client"
Server == "server"
Peer == {Client, Server}
Other(p) == IF p = Client THEN Server ELSE Client

Objects == ClientObjs \cup ServerObjs
Local(p) == IF p = Client THEN ClientObjs ELSE ServerObjs
Remote(p) == Local(Other(p))

VARIABLES
    handle,     \* handle[p]: the remote_handle of side p
    stack,      \* stack[p]: the thread of p, one activation per executing
                \* request; the first one is the program (client) or the
                \* serving loop (server)
    chan,       \* chan[p]: packets written by the other side, not yet read
    app,        \* app[p][o]: references to the proxy of o kept by the
                \* application of p, outside the packets of the stack
    aborted     \* aborted[p]: abort() was called by the last_op checks

vars == <<handle, stack, chan, app, aborted>>

Packet == [op : {"request", "destroy", "return", "throw"},
           refs : SUBSET Objects]

(***************************************************************************)
(* An activation is application code together with the stub it is in:      *)
(*   user   the application code of the request runs;                      *)
(*   write  in packet_write, running garbage_collect or about to write;    *)
(*   gc     in garbage_collect, waiting for the answer to op_destroy;      *)
(*   wait   in remote_event_loop, waiting for the reply to its own call.   *)
(* op says what it writes: "call" a request, "return" and "throw" the      *)
(* reply to its request, "ack" the reply to op_destroy, "hello" the first  *)
(* packet of the server.  wres and rpkt are the objects referred to by the *)
(* packet under construction and by the request, whose variants hold a     *)
(* reference to each proxy among them.                                     *)
(***************************************************************************)
Activation ==
    [at : {"user", "write", "gc", "wait"},
     op : {"none", "call", "return", "throw", "ack", "hello"},
     wres : SUBSET Objects,
     rpkt : SUBSET Objects,
     victim : SUBSET Objects]

Handle ==
    [stream : BOOLEAN,                  \* the connection is open
     remoteobjmap : SUBSET Objects,     \* objects this side has a proxy of
     refcount : [Objects -> Int],       \* remote_object::refcount
     owner : SUBSET Objects,            \* proxies with is_handle_owner set
     destr_cand : SUBSET Objects,       \* remoteobj_destr_cand
     localobjmap : SUBSET Objects,      \* own objects exported
     last_op : {0, 1, 2}]               \* 1: read, 2: write

TypeOK ==
    /\ handle \in [Peer -> Handle]
    /\ stack \in [Peer -> Seq(Activation)]
    /\ chan \in [Peer -> Seq(Packet)]
    /\ app \in [Peer -> [Objects -> Int]]
    /\ aborted \in [Peer -> BOOLEAN]

NewHandle ==
    [stream |-> TRUE, remoteobjmap |-> {}, refcount |-> [o \in Objects |-> 0],
     owner |-> {}, destr_cand |-> {}, localobjmap |-> {}, last_op |-> 0]

-----------------------------------------------------------------------------
(* The member functions of remote_handle and remote_object, as operators    *)
(* from a handle to the handle they leave behind.                           *)

Plus(f, S) == [o \in Objects |-> f[o] + (IF o \in S THEN 1 ELSE 0)]
Minus(f, S) == [o \in Objects |-> f[o] - (IF o \in S THEN 1 ELSE 0)]

(* remote_object::add_ref, for one variant of each proxy in S.              *)
AddRef(h, S) == [h EXCEPT !.refcount = Plus(@, S)]

(* delete robj, for each proxy in S: the destructor erases its map entry.   *)
Delete(h, S) ==
    [h EXCEPT !.remoteobjmap = @ \ S, !.owner = @ \ S]

(* close_connection: without a stream garbage_collect sends nothing,        *)
(* deletes every unreferenced candidate and drops the exported objects.     *)
CloseConnection(h) ==
    [Delete(h, {o \in h.destr_cand : h.refcount[o] = 0})
       EXCEPT !.stream = FALSE, !.destr_cand = {}, !.localobjmap = {}]

(* Mutant of Release: the owner of the connection is left to the collector. *)
ReleaseMarksOwner(h, S) ==
    LET g == [h EXCEPT !.refcount = Minus(@, S)]
        dead == {o \in S : g.refcount[o] = 0}
    IN  IF h.stream THEN [g EXCEPT !.destr_cand = @ \cup dead] ELSE Delete(g, dead)

(* remote_object::release, for one variant of each proxy in S.              *)
Release(h, S) ==
    LET g == [h EXCEPT !.refcount = Minus(@, S)]
        dead == {o \in S : g.refcount[o] = 0}
        marked == [g EXCEPT !.destr_cand = @ \cup (dead \ h.owner)]
    IN  IF ~h.stream THEN Delete(g, dead)
        ELSE IF dead \cap h.owner = {} THEN marked
        ELSE Delete(CloseConnection(marked), dead)

(* serialize_object, for the objects of a packet: an object of this side is *)
(* registered in localobjmap, a proxy is sent by its id.                    *)
Serialize(p, h, refs) ==
    [h EXCEPT !.localobjmap = @ \cup (refs \cap Local(p))]

(* Mutant of Deserialize: no add_ref for a proxy that exists already.       *)
DeserializeNoAddRef(p, h, refs) ==
    LET proxies == refs \cap Remote(p)
        first == IF p = Client /\ h.remoteobjmap = {} /\ proxies # {}
                 THEN {CHOOSE o \in proxies : TRUE} ELSE {}
    IN  [AddRef(h, proxies \ h.remoteobjmap)
           EXCEPT !.remoteobjmap = @ \cup proxies, !.owner = @ \cup first]

(* deserialize_object, for the objects of a packet: an object of the sender *)
(* becomes a new reference to its proxy.  The first proxy of a client       *)
(* without proxies owns the connection.                                     *)
Deserialize(p, h, refs) ==
    LET proxies == refs \cap Remote(p)
        first == IF p = Client /\ h.remoteobjmap = {} /\ proxies # {}
                 THEN {CHOOSE o \in proxies : TRUE} ELSE {}
    IN  [AddRef(h, proxies) EXCEPT !.remoteobjmap = @ \cup proxies,
                                   !.owner = @ \cup first]

(* The objects of the receiver in a packet must be registered there, or     *)
(* deserialize_object throws ASERemoteUnknownLocalObject.                   *)
Known(p, h, refs) == refs \cap Local(p) \subseteq h.localobjmap

-----------------------------------------------------------------------------
Cur(p) == stack[p][Len(stack[p])]
Rest(p) == SubSeq(stack[p], 1, Len(stack[p]) - 1)

(* The thread of p is at one of these places; abort() ends its process.     *)
At(p, where) == ~aborted[p] /\ stack[p] # << >> /\ Cur(p).at \in where

Idle == [at |-> "user", op |-> "none", wres |-> {}, rpkt |-> {}, victim |-> {}]

(* The current activation is back in application code, its packet dropped.  *)
Resumed(p) == [Cur(p) EXCEPT !.at = "user", !.op = "none", !.wres = {}]

(* The objects the application code of p can use or pass on.                *)
Accessible(p) == {o \in Remote(p) : app[p][o] > 0} \cup (Cur(p).rpkt \cap Remote(p))

(* Mutant of AfterFailure: the serving loop reads again after an exception. *)
AfterFailureServesOn(s) ==
    [s EXCEPT ![Len(s)] =
        IF @.op = "hello" THEN @
        ELSE [@ EXCEPT !.at = "user", !.op = "none", !.wres = {}]]

(* An exception leaves the innermost remote_event_loop of the activations   *)
(* in s, or packet_write below it: the last of s is in its own call, which  *)
(* drops its packet and returns to application code with the exception; the *)
(* serving loop of the server ends.                                         *)
AfterFailure(s) ==
    LET n == Len(s)
    IN  IF s[n].op = "hello" THEN SubSeq(s, 1, n - 1)
        ELSE [s EXCEPT ![n] = [@ EXCEPT !.at = "user", !.op = "none",
                                        !.wres = {}]]

Init ==
    /\ handle = [p \in Peer |-> NewHandle]
    /\ stack = [p \in Peer |->
         IF p = Client
         THEN <<[Idle EXCEPT !.at = "wait", !.op = "call"]>>
         ELSE <<[Idle EXCEPT !.at = "write", !.op = "hello", !.wres = {TopObj}]>>]
    /\ chan = [p \in Peer |-> << >>]
    /\ app = [p \in Peer |-> [o \in Objects |-> 0]]
    /\ aborted = [p \in Peer |-> FALSE]

SetHandle(p, h) == handle' = [handle EXCEPT ![p] = h]
SetStack(p, s) == stack' = [stack EXCEPT ![p] = s]
SetCur(p, a) == stack' = [stack EXCEPT ![p] = [@ EXCEPT ![Len(@)] = a]]
Send(p, op, refs) ==
    chan' = [chan EXCEPT ![Other(p)] = Append(@, [op |-> op, refs |-> refs])]

-----------------------------------------------------------------------------
(* Application code.                                                        *)

(* A stub of remote_object is called: create_pkt copies the proxy and the   *)
(* arguments into wres, then call_remote enters packet_write.               *)
Invoke(p) ==
    /\ At(p, {"user"})
    /\ Len(stack[Other(p)]) < MaxDepth
    /\ \E target \in Accessible(p), args \in SUBSET (Accessible(p) \cup Local(p)) :
         /\ Cardinality(args) <= MaxArgs
         /\ LET wres == {target} \cup args
            IN  /\ SetHandle(p, AddRef(handle[p], wres \cap Remote(p)))
                /\ SetCur(p, [Cur(p) EXCEPT !.at = "write", !.op = "call",
                                            !.wres = wres])
    /\ UNCHANGED <<chan, app, aborted>>

(* The code executing a request returns, or throws an exception whose value *)
(* may refer to objects: execute_request builds the reply.                  *)
Answer(p) ==
    /\ At(p, {"user"})
    /\ Len(stack[p]) > 1
    /\ \E op \in {"return", "throw"},
          refs \in SUBSET (Accessible(p) \cup Local(p)) :
         /\ Cardinality(refs) <= MaxArgs
         /\ SetHandle(p, AddRef(handle[p], refs \cap Remote(p)))
         /\ SetCur(p, [Cur(p) EXCEPT !.at = "write", !.op = op, !.wres = refs])
    /\ UNCHANGED <<chan, app, aborted>>

(* The application copies a variant holding a proxy: add_ref.               *)
Keep(p) ==
    /\ At(p, {"user"})
    /\ \E o \in Accessible(p) :
         /\ app[p][o] < MaxRefs
         /\ app' = [app EXCEPT ![p] = Plus(@, {o})]
         /\ SetHandle(p, AddRef(handle[p], {o}))
    /\ UNCHANGED <<stack, chan, aborted>>

(* The application drops a variant holding a proxy: release.  It may do so  *)
(* after the serving loop has ended.                                        *)
Drop(p) ==
    /\ stack[p] # << >> => At(p, {"user"})
    /\ \E o \in Remote(p) :
         /\ app[p][o] > 0
         /\ app' = [app EXCEPT ![p] = Minus(@, {o})]
         /\ SetHandle(p, Release(handle[p], {o}))
    /\ UNCHANGED <<stack, chan, aborted>>

-----------------------------------------------------------------------------
(* packet_write and garbage_collect.                                        *)

(* garbage_collect pops a candidate that was referenced again meanwhile.    *)
GcSkip(p) ==
    /\ At(p, {"write"}) /\ Cur(p).op # "ack"
    /\ \E o \in handle[p].destr_cand :
         /\ handle[p].refcount[o] # 0
         /\ SetHandle(p, [handle[p] EXCEPT !.destr_cand = @ \ {o}])
    /\ UNCHANGED <<stack, chan, app, aborted>>

(* Mutant of GcDestroy: the reference count is not looked at again.         *)
GcDestroyUnchecked(p) ==
    /\ At(p, {"write"}) /\ Cur(p).op # "ack"
    /\ handle[p].stream
    /\ \E o \in handle[p].destr_cand :
         /\ SetHandle(p, [handle[p] EXCEPT !.destr_cand = @ \ {o}, !.last_op = 2])
         /\ Send(p, "destroy", {o})
         /\ SetCur(p, [Cur(p) EXCEPT !.at = "gc", !.victim = {o}])
    /\ UNCHANGED <<app, aborted>>

(* Mutant of GcDestroy: the answer to op_destroy collects as well.          *)
GcDestroyInAck(p) ==
    /\ At(p, {"write"})
    /\ handle[p].stream
    /\ aborted' = [aborted EXCEPT ![p] = handle[p].last_op = 2]
    /\ \E o \in handle[p].destr_cand :
         /\ handle[p].refcount[o] = 0
         /\ SetHandle(p, [handle[p] EXCEPT !.destr_cand = @ \ {o}, !.last_op = 2])
         /\ Send(p, "destroy", {o})
         /\ SetCur(p, [Cur(p) EXCEPT !.at = "gc", !.victim = {o}])
    /\ UNCHANGED app

(* Mutant of GcDestroy: the answer to op_destroy is not waited for.         *)
GcDestroyNoWait(p) ==
    /\ At(p, {"write"}) /\ Cur(p).op # "ack"
    /\ handle[p].stream
    /\ \E o \in handle[p].destr_cand :
         /\ handle[p].refcount[o] = 0
         /\ SetHandle(p, Delete([handle[p] EXCEPT !.destr_cand = @ \ {o}], {o}))
         /\ Send(p, "destroy", {o})
    /\ UNCHANGED <<stack, app, aborted>>

(* garbage_collect pops an unreferenced candidate, writes op_destroy and    *)
(* waits for the answer in remote_event_loop.                               *)
GcDestroy(p) ==
    /\ At(p, {"write"}) /\ Cur(p).op # "ack"
    /\ handle[p].stream
    /\ aborted' = [aborted EXCEPT ![p] = handle[p].last_op = 2]
    /\ \E o \in handle[p].destr_cand :
         /\ handle[p].refcount[o] = 0
         /\ SetHandle(p, [handle[p] EXCEPT !.destr_cand = @ \ {o}, !.last_op = 2])
         /\ Send(p, "destroy", {o})
         /\ SetCur(p, [Cur(p) EXCEPT !.at = "gc", !.victim = {o}])
    /\ UNCHANGED app

(* The end of garbage_collect; op_destroy is answered without collecting.   *)
Collected(p) == Cur(p).op = "ack" \/ handle[p].destr_cand = {}

(* packet_write of a request, or of the first packet of the server: the     *)
(* activation then waits in remote_event_loop, still holding wres.          *)
WriteCall(p) ==
    /\ At(p, {"write"}) /\ Cur(p).op \in {"call", "hello"}
    /\ Collected(p)
    /\ handle[p].stream
    /\ aborted' = [aborted EXCEPT ![p] = handle[p].last_op = 2]
    /\ SetHandle(p, [Serialize(p, handle[p], Cur(p).wres) EXCEPT !.last_op = 2])
    /\ Send(p, IF Cur(p).op = "hello" THEN "return" ELSE "request", Cur(p).wres)
    /\ SetCur(p, [Cur(p) EXCEPT !.at = "wait"])
    /\ UNCHANGED app

(* packet_write of a reply; the iteration of remote_event_loop then ends    *)
(* and releases wres and rpkt.                                              *)
WriteReply(p) ==
    /\ At(p, {"write"}) /\ Cur(p).op \in {"return", "throw", "ack"}
    /\ Collected(p)
    /\ handle[p].stream
    /\ aborted' = [aborted EXCEPT ![p] = handle[p].last_op = 2]
    /\ LET a == Cur(p)
           h == [Serialize(p, handle[p], a.wres) EXCEPT !.last_op = 2]
       IN  /\ SetHandle(p, Release(Release(h, a.wres \cap Remote(p)),
                                   a.rpkt \cap Remote(p)))
           /\ Send(p, IF a.op = "throw" THEN "throw" ELSE "return", a.wres)
    /\ SetStack(p, Rest(p))
    /\ UNCHANGED app

(* packet_write throws, in garbage_collect, check_connection, serialize or  *)
(* stream->write: the connection is closed.  A call gets the exception; the *)
(* failure of a reply ends the call it was executed under as well.          *)
WriteFails(p) ==
    /\ At(p, {"write"})
    /\ LET a == Cur(p)
           h == Release(CloseConnection(handle[p]), a.wres \cap Remote(p))
       IN  IF a.op \in {"call", "hello"}
           THEN /\ SetHandle(p, h)
                /\ SetStack(p, AfterFailure(stack[p]))
           ELSE LET below == Rest(p)[Len(Rest(p))]
                IN  /\ SetHandle(p, Release(Release(h, a.rpkt \cap Remote(p)),
                                            below.wres \cap Remote(p)))
                    /\ SetStack(p, AfterFailure(Rest(p)))
    /\ UNCHANGED <<chan, app, aborted>>

-----------------------------------------------------------------------------
(* remote_event_loop and packet_read.                                       *)

Incoming(p) == Head(chan[p])
Arrived(p, ops) == chan[p] # << >> /\ Incoming(p).op \in ops

(* remote_event_loop of p throws from handle h: it closes the connection,   *)
(* and the waiting call fails, or garbage_collect deletes its victim and    *)
(* goes on without a connection.                                            *)
LoopThrows(p, h) ==
    LET a == Cur(p)
        closed == CloseConnection([h EXCEPT !.last_op = 1])
    IN  IF a.at = "gc"
        THEN /\ SetHandle(p, Delete(closed, a.victim))
             /\ SetCur(p, [a EXCEPT !.at = "write", !.victim = {}])
        ELSE /\ SetHandle(p, Release(closed, a.wres \cap Remote(p)))
             /\ SetStack(p, AfterFailure(stack[p]))

(* packet_read takes the packet at the head of the channel.                 *)
Read(p, ops) ==
    /\ At(p, {"wait", "gc"})
    /\ handle[p].stream
    /\ Arrived(p, ops)
    /\ chan' = [chan EXCEPT ![p] = Tail(@)]
    /\ aborted' = [aborted EXCEPT ![p] = handle[p].last_op = 1]

(* A request is read and execute_request enters application code.           *)
ReadRequest(p) ==
    /\ Read(p, {"request"})
    /\ LET refs == Incoming(p).refs
           h == Deserialize(p, [handle[p] EXCEPT !.last_op = 1], refs)
       IN  IF Known(p, handle[p], refs)
           THEN /\ SetHandle(p, h)
                /\ SetStack(p, Append(stack[p], [Idle EXCEPT !.rpkt = refs]))
           ELSE LoopThrows(p, handle[p])
    /\ UNCHANGED app

(* Mutant of ReadDestroy: the object is not erased from localobjmap.        *)
ReadDestroyNoErase(p) ==
    /\ Read(p, {"destroy"})
    /\ SetHandle(p, [handle[p] EXCEPT !.last_op = 1])
    /\ SetStack(p, Append(stack[p], [Idle EXCEPT !.at = "write", !.op = "ack",
                                                 !.rpkt = Incoming(p).refs]))
    /\ UNCHANGED app

(* Mutant of ReadDestroy: op_destroy is a notification without an answer.   *)
ReadDestroySilently(p) ==
    /\ Read(p, {"destroy"})
    /\ SetHandle(p, [handle[p] EXCEPT !.localobjmap = @ \ Incoming(p).refs])
    /\ UNCHANGED <<stack, app>>

(* op_destroy is read: local_object_erase, and an empty answer.             *)
ReadDestroy(p) ==
    /\ Read(p, {"destroy"})
    /\ LET refs == Incoming(p).refs
           h == [handle[p] EXCEPT !.last_op = 1, !.localobjmap = @ \ refs]
       IN  IF Known(p, handle[p], refs)
           THEN /\ SetHandle(p, h)
                /\ SetStack(p, Append(stack[p], [Idle EXCEPT !.at = "write",
                                                  !.op = "ack", !.rpkt = refs]))
           ELSE LoopThrows(p, handle[p])
    /\ UNCHANGED app

(* The reply to the call of p is read.  The application keeps some of the   *)
(* proxies of the result or of the exception and drops the others; then the *)
(* stub drops wres.  The serving loop of the server would end.              *)
ReadReply(p) ==
    /\ Read(p, {"return", "throw"})
    /\ Cur(p).at = "wait"
    /\ LET refs == Incoming(p).refs
           a == Cur(p)
           h == Deserialize(p, [handle[p] EXCEPT !.last_op = 1], refs)
           proxies == refs \cap Remote(p)
       IN  IF Known(p, handle[p], refs) /\ a.op = "call"
           THEN \E kept \in SUBSET {o \in proxies : app[p][o] < MaxRefs} :
                  /\ app' = [app EXCEPT ![p] = Plus(@, kept)]
                  /\ SetHandle(p, Release(Release(h, proxies \ kept),
                                          a.wres \cap Remote(p)))
                  /\ SetCur(p, Resumed(p))
           ELSE LoopThrows(p, handle[p]) /\ UNCHANGED app

(* The answer to op_destroy is read: the proxy is deleted and               *)
(* garbage_collect goes on; an exception closes the connection first.       *)
ReadAck(p) ==
    /\ Read(p, {"return", "throw"})
    /\ Cur(p).at = "gc"
    /\ LET a == Cur(p)
           h == [handle[p] EXCEPT !.last_op = 1]
       IN  IF Incoming(p).op = "return"
           THEN /\ SetHandle(p, Delete(h, a.victim))
                /\ SetCur(p, [a EXCEPT !.at = "write", !.victim = {}])
           ELSE LoopThrows(p, handle[p])
    /\ UNCHANGED app

(* packet_read throws: the stream is closed on this side, the other side    *)
(* closed it after its last packet, the receive timeout expires, or the     *)
(* connection breaks.                                                       *)
ReadFails(p) ==
    /\ At(p, {"wait", "gc"})
    /\ aborted' = [aborted EXCEPT ![p] = handle[p].last_op = 1]
    /\ LoopThrows(p, handle[p])
    /\ UNCHANGED <<chan, app>>

(* Mutant of ReadEof: an empty read is taken for "no data yet".             *)
ReadEofIgnored(p) == ~handle[p].stream /\ ReadFails(p)

(* The failing reads that are bound to happen.                              *)
ReadEof(p) ==
    /\ ~handle[p].stream \/ (chan[p] = << >> /\ ~handle[Other(p)].stream)
    /\ ReadFails(p)

-----------------------------------------------------------------------------
Next ==
    \E p \in Peer :
        \/ Invoke(p) \/ Answer(p) \/ Keep(p) \/ Drop(p)
        \/ GcSkip(p) \/ GcDestroy(p) \/ WriteCall(p) \/ WriteReply(p) \/ WriteFails(p)
        \/ ReadRequest(p) \/ ReadDestroy(p) \/ ReadReply(p) \/ ReadAck(p) \/ ReadFails(p)

Spec == Init /\ [][Next]_vars

(***************************************************************************)
(* Fairness: the library code between two waits terminates, and a read     *)
(* ends when a packet or the end of the stream is there.  Timeouts and     *)
(* broken connections may happen, and never have to.  Code executing a     *)
(* request of the other side ends, however many calls it makes itself.     *)
(***************************************************************************)
Progress(p) ==
    \/ GcSkip(p) \/ GcDestroy(p) \/ WriteCall(p) \/ WriteReply(p)
    \/ ReadRequest(p) \/ ReadDestroy(p) \/ ReadReply(p) \/ ReadAck(p) \/ ReadEof(p)
    \/ (~handle[p].stream /\ WriteFails(p))

-----------------------------------------------------------------------------
(* Properties.                                                              *)

Open == \A p \in Peer : handle[p].stream
Controls(p) == At(p, {"user", "write"})
InFlight(p) == UNION {chan[p][i].refs : i \in DOMAIN chan[p]}
Victims(p) == UNION {stack[p][i].victim : i \in DOMAIN stack[p]}

(* The assertions of packet_write, packet_read and garbage_collect hold:    *)
(* no side writes twice or reads twice in a row.                            *)
NoAbort == \A p \in Peer : ~aborted[p]

Token(p) == (IF Controls(p) THEN 1 ELSE 0) + Len(chan[p])

(* "Flip-flop protocol": while both ends are open there is exactly one      *)
(* token, held by the side that runs or by the only packet in flight.       *)
FlipFlop ==
    Open => Token(Client) + Token(Server) = 1

(* A reply arrives only at the call or op_destroy it answers, and the       *)
(* answer to op_destroy comes at once: no request is served inside          *)
(* garbage_collect.                                                         *)
RepliesMatch ==
    Open => \A p \in Peer : chan[p] # << >> =>
              LET op == Head(chan[p]).op
              IN  \/ op \in {"request", "destroy"} /\ At(p, {"wait"})
                  \/ op \in {"return", "throw"} /\ At(p, {"wait"}) /\ Cur(p).op = "call"
                  \/ op = "return" /\ At(p, {"gc"})

(* Whatever one side can name, the other side still has: an object with a   *)
(* proxy that is not being destroyed, or referred to by a packet on its way *)
(* home, is registered in localobjmap.  Hence no ASERemoteUnknownLocalObject. *)
ExportedWhileReferenced ==
    Open => \A p \in Peer :
              /\ handle[p].remoteobjmap \ Victims(p) \subseteq handle[Other(p)].localobjmap
              /\ InFlight(p) \cap Local(p) \subseteq handle[p].localobjmap

(* Nothing stays exported that the other side cannot name: every registered *)
(* object has a proxy there, or is on its way there.                        *)
NoLeakedExport ==
    Open => \A p \in Peer :
              handle[p].localobjmap \subseteq
                handle[Other(p)].remoteobjmap \cup InFlight(Other(p))

(* The counter of a proxy counts exactly the variants that hold it: those   *)
(* of the application and those of the packets on the stack.                *)
RefcountExact ==
    \A p \in Peer : \A o \in Remote(p) :
        handle[p].refcount[o] = app[p][o]
            + Cardinality({i \in DOMAIN stack[p] : o \in stack[p][i].wres})
            + Cardinality({i \in DOMAIN stack[p] : o \in stack[p][i].rpkt})

(* A proxy exists as long as something refers to it, waits as a candidate,  *)
(* or is being destroyed, and no longer: no candidate dangles and no        *)
(* unreferenced proxy is forgotten.                                         *)
ProxyLifetime ==
    \A p \in Peer :
        handle[p].remoteobjmap =
            {o \in Remote(p) : handle[p].refcount[o] > 0}
              \cup handle[p].destr_cand \cup Victims(p)

(* close_connection leaves nothing behind: no candidate and no exported     *)
(* object keeps memory of this side alive once its stream is gone.          *)
ClosedIsClean ==
    \A p \in Peer : ~handle[p].stream =>
        handle[p].destr_cand = {} /\ handle[p].localobjmap = {} /\ Victims(p) = {}

(* The client's end is open exactly as long as its owner, the proxy of the  *)
(* server's first object, is referenced: an open connection always has      *)
(* somebody to close it, and the owner is never left to the collector.      *)
OwnerKeepsOpen ==
    /\ handle[Client].stream /\ Controls(Client) =>
         handle[Client].owner = {TopObj} /\ handle[Client].refcount[TopObj] > 0
    /\ handle[Client].owner \subseteq {TopObj} \ handle[Client].destr_cand
    /\ handle[Server].owner = {}

(* Once op_destroy is written for an object, nothing brings its proxy back  *)
(* before it is deleted.                                                    *)
DestroyIsFinal ==
    [][\A p \in Peer : \A o \in Victims(p) :
          handle'[p].refcount[o] = 0 /\ o \notin handle'[p].destr_cand]_vars

(* A collection in progress ends: op_destroy is answered or the connection  *)
(* is given up.                                                             *)
CollectionEnds ==
    \A p \in Peer : At(p, {"gc"}) ~> ~At(p, {"gc"})

(* When the client closes, the server does not serve the connection for     *)
(* ever; a client notices that the server closed when it waits for it.      *)
CloseReachesPeer ==
    /\ ~handle[Client].stream ~> ~handle[Server].stream
    /\ ~handle[Server].stream ~> (~handle[Client].stream \/ Controls(Client))

(* Every call of the client's program comes back to it, with a result or an *)
(* exception.                                                               *)
CallsReturn ==
    Len(stack[Client]) = 1 /\ At(Client, {"write", "wait", "gc"})
        ~> Len(stack[Client]) = 1 /\ At(Client, {"user"})

-----------------------------------------------------------------------------
(* The protocol implements RemoteCall: a call of the code or of             *)
(* garbage_collect is outstanding while its activation waits; the token is  *)
(* where the code runs, or where the packet in flight goes.                 *)
Outstanding(p) ==
    Cardinality({i \in DOMAIN stack[p] :
        stack[p][i].at \in {"wait", "gc"} /\ ~(stack[p][i].at = "wait" /\ stack[p][i].op = "hello")})
Goal == IF chan[Client] # << >> \/ (chan[Server] = << >> /\ Controls(Client))
        THEN Client ELSE Server
Travelling ==
    IF chan[Goal] = << >> THEN "none"
    ELSE IF Head(chan[Goal]).op \in {"request", "destroy"} THEN "request" ELSE "reply"

Call == INSTANCE RemoteCall WITH
    connected <- Open,
    side <- IF Open THEN Goal ELSE Server,
    msg <- IF Open THEN Travelling ELSE "none",
    out <- [p \in Peer |-> IF Open THEN Outstanding(p) ELSE 0]

(* Calls nest and return as RemoteCall says, until the connection is lost.  *)
ImplementsCall == Call!Spec

(* While the connection is open, the client has one call more outstanding   *)
(* than the server exactly while its answer is due.                         *)
CallsAlternate == Call!Alternation
=============================================================================
