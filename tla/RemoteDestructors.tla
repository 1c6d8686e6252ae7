-------------------------- MODULE RemoteDestructors --------------------------
(***************************************************************************)
(* RemoteProtocol with exported objects that have a destructor.  The       *)
(* request op_destroy drops the reference of localobjmap; the last one is  *)
(* in rpkt, the packet itself, which remote_event_loop drops after it has  *)
(* written the answer.  If nothing else refers to the object, its          *)
(* destructor runs there: it may drop the proxies that were its members    *)
(* and, where DestructorsCall says so, call the other side.                *)
(*                                                                         *)
(* Destructors that run because localobjmap is cleared are part of         *)
(* RemoteProtocol as long as they drop proxies only: the application may   *)
(* drop them when the connection is closed.                                *)
(***************************************************************************)
EXTENDS RemoteProtocol

CONSTANT DestructorsCall    \* destructors call the other side

VARIABLE destructors        \* destructors[p]: which activations of p run one

dvars == <<vars, destructors>>

DestructorsInit == Init /\ destructors = [p \in Peer |-> {}]

InDestructor(p) == stack[p] # << >> /\ Len(stack[p]) \in destructors[p]

(* Mutant of RunDestructor: the object dies before its op_destroy is        *)
(* answered, and the answer is forgotten.                                   *)
RunDestructorUnanswered(p) ==
    /\ At(p, {"write"}) /\ Cur(p).op = "ack"
    /\ handle[p].stream
    /\ SetCur(p, Idle)
    /\ destructors' = [destructors EXCEPT ![p] = @ \cup {Len(stack[p])}]
    /\ UNCHANGED <<handle, chan, app, aborted>>

(* The answer to op_destroy is written, the variable rpkt ends and with it  *)
(* the object.                                                              *)
RunDestructor(p) ==
    /\ At(p, {"write"}) /\ Cur(p).op = "ack"
    /\ handle[p].stream
    /\ aborted' = [aborted EXCEPT ![p] = handle[p].last_op = 2]
    /\ SetHandle(p, [handle[p] EXCEPT !.last_op = 2])
    /\ Send(p, "return", {})
    /\ SetCur(p, Idle)
    /\ destructors' = [destructors EXCEPT ![p] = @ \cup {Len(stack[p])}]
    /\ UNCHANGED app

(* The destructor ends and remote_event_loop reads the next packet.         *)
DestructorEnds(p) ==
    /\ At(p, {"user"}) /\ InDestructor(p)
    /\ SetStack(p, Rest(p))
    /\ destructors' = [destructors EXCEPT ![p] = @ \ {Len(stack[p])}]
    /\ UNCHANGED <<handle, chan, app, aborted>>

(* A step of RemoteProtocol: only the code of a request answers it.         *)
ProtocolStep(p) ==
    /\ \/ (InDestructor(p) => DestructorsCall) /\ Invoke(p)
       \/ ~InDestructor(p) /\ Answer(p)
       \/ Keep(p) \/ Drop(p)
       \/ GcSkip(p) \/ GcDestroy(p) \/ WriteCall(p) \/ WriteReply(p) \/ WriteFails(p)
       \/ ReadRequest(p) \/ ReadDestroy(p) \/ ReadReply(p) \/ ReadAck(p) \/ ReadFails(p)
    /\ UNCHANGED destructors

DestructorsNext ==
    \E p \in Peer : ProtocolStep(p) \/ RunDestructor(p) \/ DestructorEnds(p)

DestructorsSpec == DestructorsInit /\ [][DestructorsNext]_dvars

(* A destructor ends as other application code does.                        *)
DestructorsFairSpec ==
    /\ DestructorsSpec
    /\ \A p \in Peer :
          /\ WF_dvars(Progress(p) /\ UNCHANGED destructors)
          /\ SF_dvars(~InDestructor(p) /\ Answer(p) /\ UNCHANGED destructors)
          /\ SF_dvars(DestructorEnds(p))
=============================================================================
