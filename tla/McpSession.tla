------------------------------ MODULE McpSession ------------------------------
(* The JSON-RPC session of mcp/session.go: the table of pending replies, the   *)
(* message pump, the asynchronous dispatch of inbound notifications and        *)
(* requests, and the ways a session ends (Close, or the end of the transport). *)
(*                                                                             *)
(* Every call is one execution of Session.SendRequest by a goroutine of its    *)
(* own, and its four atomic steps are actions: take an id, store the reply     *)
(* channel, send, and then select on reply, context and session end.  The pump *)
(* is one goroutine; the goroutines that execute Session.Close share one       *)
(* sync.Once with it.                                                          *)
(*                                                                             *)
(* External, and modelled from how session.go uses them: the Transport         *)
(* interface (Send either hands the frame to the peer or fails, Receive is a   *)
(* channel that ends when the peer ends) and the peer.  The peer answers only  *)
(* requests that it has received, but it may do so late, out of order, several *)
(* times or never, and its frames may lack an id.                              *)
EXTENDS Naturals, Sequences

CONSTANTS
    AppCalls,      \* SendRequest executions started by the application
    HandlerCalls,  \* SendRequest executions started by a notification handler
    NoCall,        \* no call: an empty entry of the pending table
    Closers,       \* executions of Session.Close
    Inbound,       \* requests of the peer (ping, roots/list, sampling ...)
    MaxFrames      \* bound: the number of frames the peer sends

Calls == AppCalls \cup HandlerCalls

ASSUME CallsAssumption ==
    /\ AppCalls \cap HandlerCalls = {}
    /\ NoCall \notin Calls
    /\ MaxFrames \in Nat

(* The frames the pump receives: a response to the request that call sent with *)
(* that id, a response without an id, a notification whose handler performs a  *)
(* call on this session (the list_changed handlers of client.go), a request.   *)
Response(i, c) == [kind |-> "response", id |-> i, call |-> c]
Responses     == [kind : {"response"}, id : Nat, call : Calls]
Notifications == [kind : {"notification"}, call : HandlerCalls]
Requests      == [kind : {"request"}, req : Inbound]
NoIdResponse  == [kind |-> "noid"]
Frames        == Responses \cup Notifications \cup Requests \cup {NoIdResponse}

VARIABLES
    pc,        \* pc[c]: where call c is in SendRequest
    nextID,    \* s.nextID
    callID,    \* callID[c]: the id that call c took, 0 before it has one
    pending,   \* s.pending: entries, each an id and the call whose channel it stores
    chan,      \* chan[c]: the buffer (capacity 1) of the reply channel of c
    outcome,   \* outcome[c]: how SendRequest returned
    answer,    \* answer[c]: the call that the reply returned by c was meant for
    seen,      \* requests the peer has received
    recv,      \* frames in transit in the channel of Transport.Receive
    sent,      \* how many frames the peer has sent
    eof,       \* the channel of Transport.Receive is closed
    pump,      \* where the pump is
    held,      \* the reply the pump took an entry of the table for
    closed,    \* s.closed is closed
    once,      \* s.closeOnce
    closer,    \* closer[k]: where the execution k of Close is
    doomed,    \* ids that the Range of dismissPending has still to visit
    transport, \* "open", or "closed" by Transport.Close
    serving    \* serving[r]: the inbound request r

callVars  == <<pc, nextID, callID, outcome, answer>>
tableVars == <<pending, chan>>
peerVars  == <<seen, recv, sent, eof>>
pumpVars  == <<pump, held>>
closeVars == <<closed, once, closer, doomed, transport>>
vars == <<callVars, tableVars, peerVars, pumpVars, closeVars, serving>>

Nobody == [id |-> 0, call |-> NoCall, owner |-> NoCall]

Init ==
    /\ pc = [c \in Calls |-> IF c \in AppCalls THEN "begin" ELSE "idle"]
    /\ nextID = 0
    /\ callID = [c \in Calls |-> 0]
    /\ pending = {}
    /\ chan = [c \in Calls |-> <<>>]
    /\ outcome = [c \in Calls |-> "none"]
    /\ answer = [c \in Calls |-> NoCall]
    /\ seen = {}
    /\ recv = <<>>
    /\ sent = 0
    /\ eof = FALSE
    /\ pump = "receive"
    /\ held = Nobody
    /\ closed = FALSE
    /\ once = "fresh"
    /\ closer = [k \in Closers |-> "begin"]
    /\ doomed = {}
    /\ transport = "open"
    /\ serving = [r \in Inbound |-> "none"]

-------------------------------------------------------------------------------
(* The table *)

Entry(i, c) == [id |-> i, call |-> c]
Without(i)  == {e \in pending : e.id # i}
Keys        == {e.id : e \in pending}

-------------------------------------------------------------------------------
(* SendRequest *)

(* Mutant: the id is read and not advanced in one atomic step, so two calls    *)
(* can take the same one.                                                      *)
TakeIDNotAtomic(c) ==
    /\ pc[c] = "begin"
    /\ callID' = [callID EXCEPT ![c] = nextID + 1]
    /\ pc' = [pc EXCEPT ![c] = "store"]
    /\ UNCHANGED <<nextID, outcome, answer, tableVars, peerVars, pumpVars, closeVars, serving>>

(* id := s.nextID.Add(1) *)
TakeID(c) ==
    /\ pc[c] = "begin"
    /\ nextID' = nextID + 1
    /\ callID' = [callID EXCEPT ![c] = nextID']
    /\ pc' = [pc EXCEPT ![c] = "store"]
    /\ UNCHANGED <<outcome, answer, tableVars, peerVars, pumpVars, closeVars, serving>>

(* s.pending.Store(id, ch) *)
StorePending(c) ==
    /\ pc[c] = "store"
    /\ pending' = Without(callID[c]) \cup {Entry(callID[c], c)}
    /\ pc' = [pc EXCEPT ![c] = "send"]
    /\ UNCHANGED <<nextID, callID, outcome, answer, chan, peerVars, pumpVars, closeVars, serving>>

(* s.transport.Send: the peer gets the request, or the transport fails, as it  *)
(* does once it is closed.  It may still take a message when Receive has ended *)
(* already.                                                                    *)
Send(c) ==
    /\ pc[c] = "send"
    /\ \/ /\ transport = "open"
          /\ seen' = seen \cup {c}
          /\ pc' = [pc EXCEPT ![c] = "select"]
          /\ UNCHANGED outcome
       \/ /\ outcome' = [outcome EXCEPT ![c] = "transport"]
          /\ pc' = [pc EXCEPT ![c] = "return"]
          /\ UNCHANGED seen
    /\ UNCHANGED <<nextID, callID, answer, tableVars, recv, sent, eof, pumpVars, closeVars, serving>>

(* The select statement takes any of its cases that is ready. *)
SelectReply(c) ==
    /\ pc[c] = "select"
    /\ chan[c] # <<>>
    /\ answer' = [answer EXCEPT ![c] = Head(chan[c])]
    /\ chan' = [chan EXCEPT ![c] = Tail(@)]
    /\ outcome' = [outcome EXCEPT ![c] = "reply"]
    /\ pc' = [pc EXCEPT ![c] = "return"]
    /\ UNCHANGED <<nextID, callID, pending, peerVars, pumpVars, closeVars, serving>>

(* The context of a call may expire or be cancelled at any moment, or never. *)
SelectCtx(c) ==
    /\ pc[c] = "select"
    /\ outcome' = [outcome EXCEPT ![c] = "timeout"]
    /\ pc' = [pc EXCEPT ![c] = "return"]
    /\ UNCHANGED <<nextID, callID, answer, tableVars, peerVars, pumpVars, closeVars, serving>>

(* Mutant: the end of the session wakes only the calls that are in the table. *)
SelectClosedInTable(c) ==
    /\ pc[c] = "select"
    /\ closed /\ callID[c] \in Keys
    /\ outcome' = [outcome EXCEPT ![c] = "closed"]
    /\ pc' = [pc EXCEPT ![c] = "return"]
    /\ UNCHANGED <<nextID, callID, answer, tableVars, peerVars, pumpVars, closeVars, serving>>

SelectClosed(c) ==
    /\ pc[c] = "select"
    /\ closed
    /\ outcome' = [outcome EXCEPT ![c] = "closed"]
    /\ pc' = [pc EXCEPT ![c] = "return"]
    /\ UNCHANGED <<nextID, callID, answer, tableVars, peerVars, pumpVars, closeVars, serving>>

(* Mutant: the entry is removed only by the response. *)
ReturnWithoutDelete(c) ==
    /\ pc[c] = "return"
    /\ pc' = [pc EXCEPT ![c] = "done"]
    /\ UNCHANGED <<nextID, callID, outcome, answer, tableVars, peerVars, pumpVars, closeVars, serving>>

(* The deferred s.pending.Delete(id), whatever the outcome. *)
Return(c) ==
    /\ pc[c] = "return"
    /\ pending' = Without(callID[c])
    /\ pc' = [pc EXCEPT ![c] = "done"]
    /\ UNCHANGED <<nextID, callID, outcome, answer, chan, peerVars, pumpVars, closeVars, serving>>

-------------------------------------------------------------------------------
(* The peer and the transport (external) *)

PeerSends(f) ==
    /\ ~eof
    /\ sent < MaxFrames
    /\ sent' = sent + 1
    /\ recv' = Append(recv, f)

PeerResponds(c) ==
    /\ c \in seen
    /\ PeerSends(Response(callID[c], c))
    /\ UNCHANGED <<callVars, tableVars, seen, eof, pumpVars, closeVars, serving>>

PeerRespondsWithoutID ==
    /\ PeerSends(NoIdResponse)
    /\ UNCHANGED <<callVars, tableVars, seen, eof, pumpVars, closeVars, serving>>

PeerNotifies(h) ==
    /\ pc[h] = "idle"
    /\ \A n \in 1..Len(recv) : recv[n] # [kind |-> "notification", call |-> h]
    /\ PeerSends([kind |-> "notification", call |-> h])
    /\ UNCHANGED <<callVars, tableVars, seen, eof, pumpVars, closeVars, serving>>

PeerRequests(r) ==
    /\ serving[r] = "none"
    /\ PeerSends([kind |-> "request", req |-> r])
    /\ serving' = [serving EXCEPT ![r] = "transit"]
    /\ UNCHANGED <<callVars, tableVars, seen, eof, pumpVars, closeVars>>

(* The peer dies, or ends because Transport.Close closed its input. *)
TransportEnds ==
    /\ ~eof
    /\ eof' = TRUE
    /\ UNCHANGED <<callVars, tableVars, seen, recv, sent, pumpVars, closeVars, serving>>

-------------------------------------------------------------------------------
(* The pump *)

Received == pump = "receive" /\ recv # <<>>

(* Mutant: the entry is loaded and left in the table. *)
PumpResponseKeepsEntry ==
    /\ Received
    /\ Head(recv).kind = "response"
    /\ \/ /\ Head(recv).id \notin Keys
          /\ UNCHANGED pumpVars
       \/ \E e \in pending :
          /\ e.id = Head(recv).id
          /\ held' = [id |-> e.id, call |-> Head(recv).call, owner |-> e.call]
          /\ pump' = "deliver"
    /\ recv' = Tail(recv)
    /\ UNCHANGED <<callVars, tableVars, seen, sent, eof, closeVars, serving>>

(* dispatchResponse takes the entry out of the table before it delivers. *)
PumpResponse ==
    /\ Received
    /\ Head(recv).kind = "response"
    /\ \/ /\ Head(recv).id \notin Keys
          /\ UNCHANGED <<pumpVars, pending>>
       \/ \E e \in pending :
          /\ e.id = Head(recv).id
          /\ pending' = Without(e.id)
          /\ held' = [id |-> e.id, call |-> Head(recv).call, owner |-> e.call]
          /\ pump' = "deliver"
    /\ recv' = Tail(recv)
    /\ UNCHANGED <<callVars, chan, seen, sent, eof, closeVars, serving>>

(* v.(chan *JSONRPCResponse) <- resp blocks while the buffer is full. *)
PumpDeliver ==
    /\ pump = "deliver"
    /\ Len(chan[held.owner]) < 1
    /\ chan' = [chan EXCEPT ![held.owner] = Append(@, held.call)]
    /\ held' = Nobody
    /\ pump' = "receive"
    /\ UNCHANGED <<callVars, pending, peerVars, closeVars, serving>>

(* A response without an id is logged and dropped. *)
PumpNoID ==
    /\ Received
    /\ Head(recv).kind = "noid"
    /\ recv' = Tail(recv)
    /\ UNCHANGED <<callVars, tableVars, seen, sent, eof, pumpVars, closeVars, serving>>

(* Mutant: the pump runs the handler of a notification itself. *)
PumpNotificationInline ==
    /\ Received
    /\ Head(recv).kind = "notification"
    /\ \/ /\ pc[Head(recv).call] = "idle"
          /\ pc' = [pc EXCEPT ![Head(recv).call] = "begin"]
          /\ UNCHANGED recv
       \/ /\ pc[Head(recv).call] = "done"
          /\ recv' = Tail(recv)
          /\ UNCHANGED pc
    /\ UNCHANGED <<nextID, callID, outcome, answer, tableVars, seen, sent, eof, pumpVars, closeVars, serving>>

(* go s.dispatchNotification(m): the handler runs in a goroutine of its own,   *)
(* and here begins a call on this session.                                     *)
PumpNotification ==
    /\ Received
    /\ Head(recv).kind = "notification"
    /\ pc' = [pc EXCEPT ![Head(recv).call] = "begin"]
    /\ recv' = Tail(recv)
    /\ UNCHANGED <<nextID, callID, outcome, answer, tableVars, seen, sent, eof, pumpVars, closeVars, serving>>

(* go s.dispatchRequest(m) *)
PumpRequest ==
    /\ Received
    /\ Head(recv).kind = "request"
    /\ serving' = [serving EXCEPT ![Head(recv).req] = "serving"]
    /\ recv' = Tail(recv)
    /\ UNCHANGED <<callVars, tableVars, seen, sent, eof, pumpVars, closeVars>>

(* dispatchRequest answers with a result or an error (an unknown method, an    *)
(* error or a panic of the handler, a result that cannot be encoded); when the *)
(* transport fails the answer is lost and only logged.                         *)
ServeRequest(r) ==
    /\ serving[r] = "serving"
    /\ \/ /\ transport = "open"
          /\ serving' = [serving EXCEPT ![r] = "answered"]
       \/ serving' = [serving EXCEPT ![r] = "lost"]
    /\ UNCHANGED <<callVars, tableVars, peerVars, pumpVars, closeVars>>

(* Mutant: the pump ends without ending the session. *)
PumpEndsSilently ==
    /\ pump = "receive"
    /\ recv = <<>>
    /\ eof
    /\ pump' = "ended"
    /\ UNCHANGED <<callVars, tableVars, peerVars, held, closeVars, serving>>

(* The range loop ends when the channel is closed and drained; the pump then   *)
(* closes s.closed unless Close has, and waits for a Close that is under way.  *)
PumpEnds ==
    /\ pump = "receive"
    /\ recv = <<>>
    /\ eof
    /\ once # "running"
    /\ closed' = TRUE
    /\ once' = "done"
    /\ pump' = "ended"
    /\ UNCHANGED <<callVars, tableVars, peerVars, held, closer, doomed, transport, serving>>

-------------------------------------------------------------------------------
(* Close: the body of closeOnce.Do is three steps, and other callers wait. *)

CloseBegins(k) ==
    /\ closer[k] = "begin"
    /\ once = "fresh"
    /\ once' = "running"
    /\ closed' = TRUE
    /\ doomed' = Keys
    /\ closer' = [closer EXCEPT ![k] = "dismiss"]
    /\ UNCHANGED <<callVars, tableVars, peerVars, pumpVars, transport, serving>>

(* One step of the Range of dismissPending; it visits every entry that was     *)
(* there when it began, and may visit one that was stored since.               *)
DismissEntry(k, i) ==
    /\ closer[k] = "dismiss"
    /\ pending' = Without(i)
    /\ doomed' = doomed \ {i}
    /\ UNCHANGED <<callVars, chan, peerVars, pumpVars, closed, once, closer, transport, serving>>

CloseTransport(k) ==
    /\ closer[k] = "dismiss"
    /\ doomed = {}
    /\ transport' = "closed"
    /\ once' = "done"
    /\ closer' = [closer EXCEPT ![k] = "done"]
    /\ UNCHANGED <<callVars, tableVars, peerVars, pumpVars, closed, doomed, serving>>

(* closeOnce has been used: Close returns without effect. *)
CloseAgain(k) ==
    /\ closer[k] = "begin"
    /\ once = "done"
    /\ closer' = [closer EXCEPT ![k] = "done"]
    /\ UNCHANGED <<callVars, tableVars, peerVars, pumpVars, closed, once, doomed, transport, serving>>

-------------------------------------------------------------------------------
SendRequest(c) ==
    \/ TakeID(c) \/ StorePending(c) \/ Send(c)
    \/ SelectReply(c) \/ SelectClosed(c) \/ Return(c)

Pump == 
    \/ PumpResponse \/ PumpDeliver \/ PumpNoID
    \/ PumpNotification \/ PumpRequest \/ PumpEnds

Close(k) ==
    \/ CloseBegins(k) \/ CloseTransport(k) \/ CloseAgain(k)
    \/ \E i \in doomed \cup Keys : DismissEntry(k, i)

Peer ==
    \/ \E c \in Calls : PeerResponds(c)
    \/ PeerRespondsWithoutID
    \/ \E h \in HandlerCalls : PeerNotifies(h)
    \/ \E r \in Inbound : PeerRequests(r)
    \/ TransportEnds

Next ==
    \/ \E c \in Calls : SendRequest(c) \/ SelectCtx(c)
    \/ Pump
    \/ \E r \in Inbound : ServeRequest(r)
    \/ \E k \in Closers : Close(k)
    \/ Peer

Spec == Init /\ [][Next]_vars

(* Goroutines run; nothing is assumed of the peer, of the contexts, of whether *)
(* Close is ever called, nor of which ready case a select prefers.             *)
Fairness ==
    /\ \A c \in Calls : WF_vars(SendRequest(c))
    /\ WF_vars(Pump)
    /\ \A r \in Inbound : WF_vars(ServeRequest(r))
    /\ \A k \in Closers : WF_vars(Close(k) /\ closer[k] # "begin")

FairSpec == Spec /\ Fairness

-------------------------------------------------------------------------------
CallsTypeOK ==
    /\ pc \in [Calls -> {"idle", "begin", "store", "send", "select", "return", "done"}]
    /\ nextID \in Nat
    /\ callID \in [Calls -> Nat]
    /\ outcome \in [Calls -> {"none", "reply", "timeout", "closed", "transport"}]
    /\ answer \in [Calls -> Calls \cup {NoCall}]

TableTypeOK ==
    /\ pending \in SUBSET [id : Nat, call : Calls]
    /\ chan \in [Calls -> Seq(Calls)]

PeerTypeOK ==
    /\ seen \in SUBSET Calls
    /\ recv \in Seq(Frames)
    /\ sent \in 0..MaxFrames
    /\ eof \in BOOLEAN

PumpTypeOK ==
    /\ pump \in {"receive", "deliver", "ended"}
    /\ held \in [id : Nat, call : Calls \cup {NoCall}, owner : Calls \cup {NoCall}]
    /\ pump = "deliver" => held.call \in Calls /\ held.owner \in Calls

CloseTypeOK ==
    /\ closed \in BOOLEAN
    /\ once \in {"fresh", "running", "done"}
    /\ closer \in [Closers -> {"begin", "dismiss", "done"}]
    /\ doomed \in SUBSET Nat
    /\ transport \in {"open", "closed"}

TypeOK ==
    /\ CallsTypeOK /\ TableTypeOK /\ PeerTypeOK /\ PumpTypeOK /\ CloseTypeOK
    /\ serving \in [Inbound -> {"none", "transit", "serving", "answered", "lost"}]

(* Ids are never shared, and only a call that has begun has one. *)
IdsAreOwn ==
    /\ \A c \in Calls : pc[c] \in {"idle", "begin"} <=> callID[c] = 0
    /\ \A c \in Calls : callID[c] <= nextID
    /\ \A c, d \in Calls : callID[c] = callID[d] /\ callID[c] # 0 => c = d

(* An entry belongs to a call that is still in SendRequest, and its channel is *)
(* empty: whoever fills a channel has taken the entry first.                   *)
EntriesAreOpen ==
    \A e \in pending :
        /\ e.id = callID[e.call]
        /\ pc[e.call] \in {"send", "select", "return"}
        /\ chan[e.call] = <<>>
        /\ pump = "deliver" => held.owner # e.call

(* A response carries the id that its request went out with. *)
ResponsesAreTrue ==
    /\ \A c \in seen : callID[c] # 0
    /\ \A n \in 1..Len(recv) :
          recv[n].kind = "response" =>
              callID[recv[n].call] = recv[n].id /\ recv[n].id # 0

(* The call of a handler has not begun while its notification is in transit.   *)
HandlersWait ==
    /\ \A n \in 1..Len(recv) :
          recv[n].kind = "notification" => pc[recv[n].call] = "idle"
    /\ \A m, n \in 1..Len(recv) :
          recv[m] = recv[n] /\ recv[n].kind = "notification" => m = n

(* What is in, or on its way into, the channel of a call is meant for it. *)
ChannelsAreOwn ==
    /\ \A c \in Calls : chan[c] = <<>> \/ chan[c] = <<c>>
    /\ pump = "deliver" => held.owner = held.call /\ chan[held.owner] = <<>>
    /\ \A c \in Calls : 
          pc[c] \in {"idle", "begin", "store"} =>
              chan[c] = <<>> /\ (pump = "deliver" => held.owner # c)

(* A call has an outcome once it has left the select, and no false one. *)
OutcomesAreTrue ==
    \A c \in Calls :
        /\ outcome[c] # "none" <=> pc[c] \in {"return", "done"}
        /\ outcome[c] = "reply" => answer[c] = c
        /\ outcome[c] = "closed" => closed

(* The inductive invariant that ReplyIsMine, PumpNeverBlocks, NoPendingLeak    *)
(* and the refinement rest on: a channel and an entry never exist for the same *)
(* reply twice.                                                                *)
Inv ==
    /\ TypeOK
    /\ IdsAreOwn
    /\ EntriesAreOpen
    /\ ResponsesAreTrue
    /\ HandlersWait
    /\ ChannelsAreOwn
    /\ OutcomesAreTrue

(* A call never returns the reply to another call: with ids of their own and   *)
(* one channel per entry, late, duplicate and reordered responses reach only   *)
(* the call whose request they answer.                                         *)
ReplyIsMine == \A c \in Calls : outcome[c] = "reply" => answer[c] = c

(* The pump never blocks on a reply channel, so one slow or vanished caller    *)
(* cannot stop the frames of the others ("capacity 1, deleted before it is     *)
(* delivered"): the peer may repeat a response as often as it likes.           *)
PumpNeverBlocks == pump = "deliver" => chan[held.owner] = <<>>

(* Once SendRequest has returned, however it returned, its id is out of the    *)
(* table and stays out: timeouts and failures leave nothing behind.            *)
NoPendingLeak == \A c \in Calls : pc[c] = "done" => callID[c] \notin Keys

(* Once the session has ended, by Close or because the transport ended, every  *)
(* call returns, also one that began afterwards or whose context has no end.   *)
EndReleasesCalls ==
    \A c \in Calls : ((closed \/ eof) /\ pc[c] \notin {"idle", "done"}) ~> (pc[c] = "done")

(* A response in transit releases the call that waits for it, even when        *)
(* handlers of notifications wait for replies on the same session.             *)
ResponseReleasesCall ==
    \A c \in Calls :
        (pc[c] = "select" /\ \E n \in 1..Len(recv) : recv[n] = Response(callID[c], c))
            ~> (pc[c] = "done")

-------------------------------------------------------------------------------
(* The promise of SendRequest that this session keeps: McpCalls.tla.           *)

CallStatus == [c \in Calls |->
    IF pc[c] = "idle" THEN "idle"
    ELSE IF outcome[c] = "none" THEN "open"
    ELSE IF outcome[c] = "reply" /\ answer[c] # c THEN "foreign"
    ELSE outcome[c]]

AnswerUnderWay(c) ==
    \/ \E n \in 1..Len(recv) : recv[n].kind = "response" /\ recv[n].call = c
    \/ pump = "deliver" /\ held.call = c
    \/ \E d \in Calls : chan[d] = <<c>>
    \/ outcome[c] = "reply"

Answered == {c \in Calls : AnswerUnderWay(c)}

Promise == INSTANCE McpCalls
    WITH call    <- CallStatus,
         answers <- Answered,
         ended   <- closed

(* The session implements McpCalls: the safety part, and with the fairness of  *)
(* the goroutines also that no call stays open once the session has ended.     *)
KeepsPromise     == Promise!Spec
KeepsFairPromise == Promise!FairSpec

(* Close closes the transport, as its comment says (session.go:135).           *)
CloseClosesTransport == \A k \in Closers : closer[k] = "done" => transport = "closed"
===============================================================================
