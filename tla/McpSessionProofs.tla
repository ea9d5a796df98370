--------------------------- MODULE McpSessionProofs ---------------------------
(* Proofs about McpSession: the inductive invariant Inv for any numbers of     *)
(* calls, closers, requests and frames, the safety properties that follow from *)
(* it, and that the session implements McpCalls.                               *)
EXTENDS McpSession, TLAPS

-------------------------------------------------------------------------------
(* Frames in transit *)

(* Append keeps the elements of a sequence, at their places, and adds one. *)
LEMMA AppendElements ==
    ASSUME NEW S, NEW s \in Seq(S), NEW e \in S
    PROVE  /\ Append(s, e) \in Seq(S)
           /\ \A n \in 1..Len(Append(s, e)) :
                 \/ n \in 1..Len(s) /\ Append(s, e)[n] = s[n]
                 \/ n = Len(s) + 1 /\ Append(s, e)[n] = e
  OBVIOUS

(* Tail moves every element but the first one place down. *)
LEMMA TailElements ==
    ASSUME NEW S, NEW s \in Seq(S), s # <<>>
    PROVE  /\ Tail(s) \in Seq(S) /\ Len(Tail(s)) = Len(s) - 1
           /\ 1 \in 1..Len(s) /\ Head(s) = s[1] /\ Head(s) \in S
           /\ \A n \in 1..Len(Tail(s)) : n + 1 \in 1..Len(s) /\ Tail(s)[n] = s[n + 1]
  OBVIOUS

(* The kind of a frame tells which fields it has. *)
LEMMA FrameKinds ==
    ASSUME NEW f \in Frames
    PROVE  /\ f.kind = "response" => f.id \in Nat /\ f.call \in Calls
           /\ f.kind = "notification" =>
                 f.call \in Calls /\ f = [kind |-> "notification", call |-> f.call]
           /\ f.kind = "request" => f.req \in Inbound
  BY DEF Frames, Responses, Notifications, Requests, NoIdResponse, Calls

(* Frames in transit are frames. *)
LEMMA FramesInTransit ==
    ASSUME TypeOK
    PROVE  recv \in Seq(Frames) /\ \A n \in 1..Len(recv) : recv[n] \in Frames
  BY DEF TypeOK, PeerTypeOK

(* Whatever takes a frame out of the channel leaves the rest as true as before. *)
LEMMA FramesShrink ==
    ASSUME TypeOK, ResponsesAreTrue, HandlersWait,
           recv # <<>>, recv' = Tail(recv), UNCHANGED <<callID, pc, seen>>
    PROVE  ResponsesAreTrue' /\ HandlersWait'
<1>1. \A n \in 1..Len(recv') : n + 1 \in 1..Len(recv) /\ recv'[n] = recv[n + 1]
  BY FramesInTransit, TailElements
<1>2. ResponsesAreTrue'
  BY <1>1 DEF ResponsesAreTrue
<1>3. ASSUME NEW m \in 1..Len(recv'), NEW n \in 1..Len(recv'),
             recv'[m] = recv'[n], recv'[n].kind = "notification"
      PROVE  m = n
  <2>1. m + 1 \in 1..Len(recv) /\ n + 1 \in 1..Len(recv)
    BY <1>1
  <2>2. recv[m + 1] = recv[n + 1] /\ recv[n + 1].kind = "notification"
    BY <1>1, <1>3
  <2>3. m + 1 = n + 1
    BY <2>1, <2>2 DEF HandlersWait
  <2> QED
    BY <2>3
<1>4. \A n \in 1..Len(recv') : recv'[n].kind = "notification" => pc'[recv'[n].call] = "idle"
  BY <1>1 DEF HandlersWait
<1>5. HandlersWait'
  BY <1>3, <1>4 DEF HandlersWait
<1> QED
  BY <1>2, <1>5

(* A frame may enter the channel if it is true itself. *)
LEMMA FramesGrow ==
    ASSUME TypeOK, ResponsesAreTrue, HandlersWait,
           NEW f \in Frames, recv' = Append(recv, f), UNCHANGED <<callID, pc, seen>>,
           f.kind = "response" => callID[f.call] = f.id /\ f.id # 0,
           f.kind = "notification" =>
               pc[f.call] = "idle" /\ \A n \in 1..Len(recv) : recv[n] # f
    PROVE  ResponsesAreTrue' /\ HandlersWait'
<1>1. \A n \in 1..Len(recv') :
          \/ n \in 1..Len(recv) /\ recv'[n] = recv[n]
          \/ n = Len(recv) + 1 /\ recv'[n] = f
  BY FramesInTransit, AppendElements
<1>2. ResponsesAreTrue'
  BY <1>1 DEF ResponsesAreTrue
<1>3. HandlersWait'
  BY <1>1 DEF HandlersWait
<1> QED
  BY <1>2, <1>3

(* A call that has begun may go on: it is none that waits for its notification. *)
LEMMA HandlersStillWait ==
    ASSUME TypeOK, HandlersWait, UNCHANGED recv,
           NEW c \in Calls, pc[c] # "idle", NEW v, pc' = [pc EXCEPT ![c] = v]
    PROVE  HandlersWait'
<1>1. \A n \in 1..Len(recv) : recv[n].kind = "notification" =>
          recv[n].call \in Calls /\ recv[n].call # c
  BY FramesInTransit, FrameKinds DEF HandlersWait
<1> QED
  BY <1>1 DEF HandlersWait, TypeOK, CallsTypeOK

-------------------------------------------------------------------------------
(* The initial states *)

(* The invariant holds initially. *)
LEMMA InitInv == Init => Inv
<1> SUFFICES ASSUME Init PROVE Inv
  OBVIOUS
<1>1. CallsTypeOK
  BY CallsAssumption DEF Init, CallsTypeOK
<1>2. TableTypeOK
  BY DEF Init, TableTypeOK
<1>0. PeerTypeOK
  <2>1. 0 \in 0..MaxFrames
    BY CallsAssumption
  <2>2. <<>> \in Seq(Frames)
    OBVIOUS
  <2> QED
    BY <2>1, <2>2 DEF Init, PeerTypeOK
<1>3. PumpTypeOK /\ CloseTypeOK
  BY DEF Init, PumpTypeOK, CloseTypeOK, Nobody
<1>4. serving \in [Inbound -> {"none", "transit", "serving", "answered", "lost"}]
  BY DEF Init
<1>5. IdsAreOwn /\ EntriesAreOpen
  BY DEF Init, IdsAreOwn, EntriesAreOpen
<1>6. ResponsesAreTrue /\ HandlersWait
  BY DEF Init, ResponsesAreTrue, HandlersWait
<1>7. ChannelsAreOwn /\ OutcomesAreTrue
  BY DEF Init, ChannelsAreOwn, OutcomesAreTrue
<1> QED
  BY <1>0, <1>1, <1>2, <1>3, <1>4, <1>5, <1>6, <1>7 DEF Inv, TypeOK

-------------------------------------------------------------------------------
(* Every action preserves Inv. In each proof TypeOK' comes first, and the last *)
(* step takes up the parts that mention no variable the action changes.        *)

LEMMA TakeIDKeepsInv ==
    ASSUME Inv, NEW c \in Calls, TakeID(c)
    PROVE  Inv'
<1> USE DEF Inv, TypeOK, CallsTypeOK, TakeID
<1>1. TypeOK'
  BY DEF TableTypeOK, PeerTypeOK, PumpTypeOK, CloseTypeOK, tableVars, peerVars, pumpVars, closeVars
<1>2. IdsAreOwn'
  BY DEF IdsAreOwn
<1>3. EntriesAreOpen'
  BY DEF EntriesAreOpen, TableTypeOK, tableVars, pumpVars
<1>4. ResponsesAreTrue'
  BY FramesInTransit, FrameKinds DEF ResponsesAreTrue, IdsAreOwn, PeerTypeOK, peerVars
<1>5. HandlersWait'
  BY HandlersStillWait DEF peerVars
<1>6. ChannelsAreOwn'
  BY DEF ChannelsAreOwn, tableVars, pumpVars
<1>7. OutcomesAreTrue'
  BY DEF OutcomesAreTrue, closeVars
<1> QED
  BY <1>1, <1>2, <1>3, <1>4, <1>5, <1>6, <1>7

LEMMA StorePendingKeepsInv ==
    ASSUME Inv, NEW c \in Calls, StorePending(c)
    PROVE  Inv'
<1> USE DEF Inv, TypeOK, CallsTypeOK, StorePending
<1>1. TypeOK'
  BY DEF TableTypeOK, PeerTypeOK, PumpTypeOK, CloseTypeOK, Without, Entry, peerVars, pumpVars, closeVars
<1>2. IdsAreOwn'
  BY DEF IdsAreOwn
<1>3. EntriesAreOpen'
  BY DEF EntriesAreOpen, ChannelsAreOwn, TableTypeOK, Without, Entry, pumpVars
<1>4. HandlersWait'
  BY HandlersStillWait DEF peerVars
<1>5. ChannelsAreOwn'
  BY DEF ChannelsAreOwn, pumpVars
<1>6. OutcomesAreTrue'
  BY DEF OutcomesAreTrue, closeVars
<1> QED
  BY <1>1, <1>2, <1>3, <1>4, <1>5, <1>6 DEF ResponsesAreTrue, peerVars

(* What Send and the three cases of the select have in common: a call goes on, *)
(* to a later place in SendRequest, and keeps its id.                          *)
LEMMA CallGoesOn ==
    ASSUME Inv, NEW c \in Calls, pc[c] \in {"send", "select"},
           NEW v \in {"select", "return"}, pc' = [pc EXCEPT ![c] = v],
           UNCHANGED <<nextID, callID, pending, pumpVars, recv>>
    PROVE  /\ IdsAreOwn' /\ HandlersWait'
           /\ chan' = chan => EntriesAreOpen' /\ ChannelsAreOwn'
           /\ seen' \in {seen, seen \cup {c}} => ResponsesAreTrue'
<1> USE DEF Inv, TypeOK, CallsTypeOK
<1>1. IdsAreOwn'
  BY DEF IdsAreOwn
<1>2. HandlersWait'
  BY HandlersStillWait
<1>3. chan' = chan => EntriesAreOpen'
  BY DEF EntriesAreOpen, TableTypeOK, pumpVars
<1>4. chan' = chan => ChannelsAreOwn'
  BY DEF ChannelsAreOwn, pumpVars
<1>5. seen' \in {seen, seen \cup {c}} => ResponsesAreTrue'
  BY DEF ResponsesAreTrue, IdsAreOwn
<1> QED
  BY <1>1, <1>2, <1>3, <1>4, <1>5

LEMMA SendKeepsInv ==
    ASSUME Inv, NEW c \in Calls, Send(c)
    PROVE  Inv'
<1> USE DEF Inv, TypeOK, CallsTypeOK
<1>1. CASE seen' = seen \cup {c} /\ pc' = [pc EXCEPT ![c] = "select"] /\ UNCHANGED outcome
  <2>1. TypeOK'
    BY <1>1 DEF Send, TableTypeOK, PeerTypeOK, PumpTypeOK, CloseTypeOK, tableVars, pumpVars, closeVars
  <2>2. IdsAreOwn' /\ HandlersWait' /\ EntriesAreOpen' /\ ChannelsAreOwn' /\ ResponsesAreTrue'
    BY <1>1, CallGoesOn DEF Send, tableVars
  <2>3. OutcomesAreTrue'
    BY <1>1 DEF Send, OutcomesAreTrue, closeVars
  <2> QED
    BY <2>1, <2>2, <2>3
<1>2. CASE /\ outcome' = [outcome EXCEPT ![c] = "transport"]
           /\ pc' = [pc EXCEPT ![c] = "return"]
           /\ UNCHANGED seen
  <2>1. TypeOK'
    BY <1>2 DEF Send, TableTypeOK, PeerTypeOK, PumpTypeOK, CloseTypeOK, tableVars, pumpVars, closeVars
  <2>2. IdsAreOwn' /\ HandlersWait' /\ EntriesAreOpen' /\ ChannelsAreOwn' /\ ResponsesAreTrue'
    BY <1>2, CallGoesOn DEF Send, tableVars
  <2>3. OutcomesAreTrue'
    BY <1>2 DEF Send, OutcomesAreTrue, closeVars
  <2> QED
    BY <2>1, <2>2, <2>3
<1> QED
  BY <1>1, <1>2 DEF Send

LEMMA SelectReplyKeepsInv ==
    ASSUME Inv, NEW c \in Calls, SelectReply(c)
    PROVE  Inv'
<1> USE DEF Inv, TypeOK, CallsTypeOK, SelectReply
<1>1. chan[c] = <<c>> /\ Head(chan[c]) = c /\ Tail(chan[c]) = <<>>
  <2>1. chan[c] = <<c>>
    BY DEF ChannelsAreOwn
  <2>2. Head(<<c>>) = c /\ Tail(<<c>>) = <<>>
    OBVIOUS
  <2> QED
    BY <2>1, <2>2
<1>2. TypeOK'
  BY <1>1 DEF TableTypeOK, PeerTypeOK, PumpTypeOK, CloseTypeOK, peerVars, pumpVars, closeVars
<1>3. IdsAreOwn' /\ HandlersWait' /\ ResponsesAreTrue'
  BY CallGoesOn DEF peerVars
<1>4. EntriesAreOpen'
  BY <1>1 DEF EntriesAreOpen, TableTypeOK, pumpVars
<1>5. chan' = [chan EXCEPT ![c] = <<>>]
  BY <1>1
<1>6. ChannelsAreOwn'
  <2>1. \A d \in Calls : chan'[d] = <<>> \/ chan'[d] = <<d>>
    BY <1>5 DEF ChannelsAreOwn, TableTypeOK
  <2>2. pump' = "deliver" => held'.owner = held'.call /\ chan'[held'.owner] = <<>>
    BY <1>5 DEF ChannelsAreOwn, TableTypeOK, PumpTypeOK, pumpVars
  <2>3. \A d \in Calls : pc'[d] \in {"idle", "begin", "store"} =>
            chan'[d] = <<>> /\ (pump' = "deliver" => held'.owner # d)
    BY <1>5 DEF ChannelsAreOwn, TableTypeOK, pumpVars
  <2> QED
    BY <2>1, <2>2, <2>3 DEF ChannelsAreOwn
<1>7. OutcomesAreTrue'
  BY <1>1 DEF OutcomesAreTrue, closeVars
<1> QED
  BY <1>2, <1>3, <1>4, <1>6, <1>7

LEMMA SelectCtxKeepsInv ==
    ASSUME Inv, NEW c \in Calls, SelectCtx(c)
    PROVE  Inv'
<1> USE DEF Inv, TypeOK, CallsTypeOK, SelectCtx
<1>1. TypeOK'
  BY DEF TableTypeOK, PeerTypeOK, PumpTypeOK, CloseTypeOK, tableVars, peerVars, pumpVars, closeVars
<1>2. IdsAreOwn' /\ HandlersWait' /\ EntriesAreOpen' /\ ChannelsAreOwn' /\ ResponsesAreTrue'
  BY CallGoesOn DEF tableVars, peerVars
<1>3. OutcomesAreTrue'
  BY DEF OutcomesAreTrue, closeVars
<1> QED
  BY <1>1, <1>2, <1>3

LEMMA SelectClosedKeepsInv ==
    ASSUME Inv, NEW c \in Calls, SelectClosed(c)
    PROVE  Inv'
<1> USE DEF Inv, TypeOK, CallsTypeOK, SelectClosed
<1>1. TypeOK'
  BY DEF TableTypeOK, PeerTypeOK, PumpTypeOK, CloseTypeOK, tableVars, peerVars, pumpVars, closeVars
<1>2. IdsAreOwn' /\ HandlersWait' /\ EntriesAreOpen' /\ ChannelsAreOwn' /\ ResponsesAreTrue'
  BY CallGoesOn DEF tableVars, peerVars
<1>3. OutcomesAreTrue'
  BY DEF OutcomesAreTrue, closeVars
<1> QED
  BY <1>1, <1>2, <1>3

LEMMA ReturnKeepsInv ==
    ASSUME Inv, NEW c \in Calls, Return(c)
    PROVE  Inv'
<1> USE DEF Inv, TypeOK, CallsTypeOK, Return
<1>1. TypeOK'
  BY DEF TableTypeOK, PeerTypeOK, PumpTypeOK, CloseTypeOK, Without, peerVars, pumpVars, closeVars
<1>2. IdsAreOwn'
  BY DEF IdsAreOwn
<1>3. EntriesAreOpen'
  BY DEF EntriesAreOpen, TableTypeOK, Without, pumpVars
<1>4. HandlersWait'
  BY HandlersStillWait DEF peerVars
<1>5. ChannelsAreOwn'
  BY DEF ChannelsAreOwn, pumpVars
<1>6. OutcomesAreTrue'
  BY DEF OutcomesAreTrue, closeVars
<1> QED
  BY <1>1, <1>2, <1>3, <1>4, <1>5, <1>6 DEF ResponsesAreTrue, peerVars

-------------------------------------------------------------------------------
(* The peer *)

LEMMA PeerRespondsKeepsInv ==
    ASSUME Inv, NEW c \in Calls, PeerResponds(c)
    PROVE  Inv'
<1> USE DEF Inv, PeerResponds, PeerSends
<1>1. Response(callID[c], c) \in Frames
  BY DEF Response, Frames, Responses, TypeOK, CallsTypeOK
<1>2. TypeOK'
  BY <1>1, CallsAssumption, AppendElements
     DEF TypeOK, CallsTypeOK, TableTypeOK, PeerTypeOK, PumpTypeOK, CloseTypeOK,
         callVars, tableVars, pumpVars, closeVars
<1>3. ResponsesAreTrue' /\ HandlersWait'
  <2> DEFINE f == Response(callID[c], c)
  <2>1. f.kind = "response" /\ callID[f.call] = f.id /\ f.id # 0
    BY DEF Response, ResponsesAreTrue
  <2> QED
    BY <1>1, <2>1, FramesGrow DEF callVars
<1> QED
  BY <1>2, <1>3 DEF IdsAreOwn, EntriesAreOpen, ChannelsAreOwn, OutcomesAreTrue,
     callVars, tableVars, pumpVars, closeVars

LEMMA PeerRespondsWithoutIDKeepsInv ==
    ASSUME Inv, PeerRespondsWithoutID
    PROVE  Inv'
<1> USE DEF Inv, PeerRespondsWithoutID, PeerSends
<1>1. NoIdResponse \in Frames /\ NoIdResponse.kind = "noid"
  BY DEF Frames, NoIdResponse
<1>2. TypeOK'
  BY <1>1, CallsAssumption, AppendElements
     DEF TypeOK, CallsTypeOK, TableTypeOK, PeerTypeOK, PumpTypeOK, CloseTypeOK,
         callVars, tableVars, pumpVars, closeVars
<1>3. ResponsesAreTrue' /\ HandlersWait'
  BY <1>1, FramesGrow DEF callVars
<1> QED
  BY <1>2, <1>3 DEF IdsAreOwn, EntriesAreOpen, ChannelsAreOwn, OutcomesAreTrue,
     callVars, tableVars, pumpVars, closeVars

LEMMA PeerNotifiesKeepsInv ==
    ASSUME Inv, NEW h \in HandlerCalls, PeerNotifies(h)
    PROVE  Inv'
<1> DEFINE f == [kind |-> "notification", call |-> h]
<1> USE DEF Inv, PeerNotifies, PeerSends
<1>1. f \in Frames /\ f.kind = "notification" /\ f.call = h
  BY DEF Frames, Notifications
<1>2. TypeOK'
  BY <1>1, CallsAssumption, AppendElements
     DEF TypeOK, CallsTypeOK, TableTypeOK, PeerTypeOK, PumpTypeOK, CloseTypeOK,
         callVars, tableVars, pumpVars, closeVars
<1>3. ResponsesAreTrue' /\ HandlersWait'
  BY <1>1, FramesGrow DEF callVars
<1> QED
  BY <1>2, <1>3 DEF IdsAreOwn, EntriesAreOpen, ChannelsAreOwn, OutcomesAreTrue,
     callVars, tableVars, pumpVars, closeVars

LEMMA PeerRequestsKeepsInv ==
    ASSUME Inv, NEW r \in Inbound, PeerRequests(r)
    PROVE  Inv'
<1> DEFINE f == [kind |-> "request", req |-> r]
<1> USE DEF Inv, PeerRequests, PeerSends
<1>1. f \in Frames /\ f.kind = "request"
  BY DEF Frames, Requests
<1>2. TypeOK'
  BY <1>1, CallsAssumption, AppendElements
     DEF TypeOK, CallsTypeOK, TableTypeOK, PeerTypeOK, PumpTypeOK, CloseTypeOK,
         callVars, tableVars, pumpVars, closeVars
<1>3. ResponsesAreTrue' /\ HandlersWait'
  BY <1>1, FramesGrow DEF callVars
<1> QED
  BY <1>2, <1>3 DEF IdsAreOwn, EntriesAreOpen, ChannelsAreOwn, OutcomesAreTrue,
     callVars, tableVars, pumpVars, closeVars

LEMMA TransportEndsKeepsInv ==
    ASSUME Inv, TransportEnds
    PROVE  Inv'
  BY DEF Inv, TransportEnds, TypeOK, CallsTypeOK, TableTypeOK, PeerTypeOK, PumpTypeOK,
     CloseTypeOK, IdsAreOwn, EntriesAreOpen, ResponsesAreTrue, HandlersWait,
     ChannelsAreOwn, OutcomesAreTrue, callVars, tableVars, pumpVars, closeVars

-------------------------------------------------------------------------------
(* The pump *)

LEMMA PumpResponseKeepsInv ==
    ASSUME Inv, PumpResponse
    PROVE  Inv'
<1> USE DEF Inv, PumpResponse, Received
<1>1. /\ recv' \in Seq(Frames) /\ Head(recv) \in Frames
      /\ Head(recv).id \in Nat /\ Head(recv).call \in Calls
      /\ callID[Head(recv).call] = Head(recv).id /\ Head(recv).id # 0
  BY FramesInTransit, TailElements, FrameKinds DEF ResponsesAreTrue
<1>2. ResponsesAreTrue' /\ HandlersWait'
  BY FramesShrink DEF callVars
<1>3. CASE UNCHANGED <<pumpVars, pending>>
  <2>1. TypeOK'
    BY <1>1, <1>3 DEF TypeOK, CallsTypeOK, TableTypeOK, PeerTypeOK, PumpTypeOK,
       CloseTypeOK, callVars, pumpVars, closeVars
  <2> QED
    BY <1>2, <1>3, <2>1 DEF IdsAreOwn, EntriesAreOpen, ChannelsAreOwn, OutcomesAreTrue,
       callVars, pumpVars, closeVars
<1>4. ASSUME NEW e \in pending, e.id = Head(recv).id, pending' = Without(e.id),
             held' = [id |-> e.id, call |-> Head(recv).call, owner |-> e.call],
             pump' = "deliver"
      PROVE  Inv'
  <2>1. e.id \in Nat /\ e.call \in Calls /\ callID[e.call] = e.id
    BY DEF EntriesAreOpen, TypeOK, TableTypeOK
  <2>2. e.call = Head(recv).call
    BY <1>1, <1>4, <2>1 DEF IdsAreOwn
  <2>3. TypeOK'
    BY <1>1, <1>4, <2>1 DEF TypeOK, CallsTypeOK, TableTypeOK, PeerTypeOK, PumpTypeOK,
       CloseTypeOK, Without, callVars, closeVars
  <2>4. EntriesAreOpen'
    BY <1>4, <2>1 DEF EntriesAreOpen, Without, callVars
  <2>5. held'.owner = e.call /\ held'.call = e.call
    BY <1>4, <2>2
  <2>6. ChannelsAreOwn'
    BY <1>4, <2>1, <2>5 DEF ChannelsAreOwn, EntriesAreOpen, callVars
  <2> QED
    BY <1>2, <2>3, <2>4, <2>6 DEF IdsAreOwn, OutcomesAreTrue, callVars, closeVars
<1> QED
  BY <1>3, <1>4

LEMMA PumpDeliverKeepsInv ==
    ASSUME Inv, PumpDeliver
    PROVE  Inv'
<1> DEFINE c == held.owner
<1> USE DEF Inv, PumpDeliver
<1>1. c \in Calls /\ held.call = c /\ chan[c] = <<>>
  BY DEF ChannelsAreOwn, TypeOK, PumpTypeOK
<1>2. chan' = [chan EXCEPT ![c] = <<c>>]
  BY <1>1
<1>3. TypeOK'
  BY <1>1, <1>2 DEF TypeOK, CallsTypeOK, TableTypeOK, PeerTypeOK, PumpTypeOK, CloseTypeOK,
     Nobody, callVars, peerVars, closeVars
<1>4. EntriesAreOpen'
  BY <1>1, <1>2 DEF EntriesAreOpen, TypeOK, TableTypeOK, callVars
<1>5. ChannelsAreOwn'
  BY <1>1, <1>2 DEF ChannelsAreOwn, TypeOK, TableTypeOK, callVars
<1> QED
  BY <1>3, <1>4, <1>5 DEF IdsAreOwn, ResponsesAreTrue, HandlersWait, OutcomesAreTrue,
     callVars, peerVars, closeVars

LEMMA PumpNoIDKeepsInv ==
    ASSUME Inv, PumpNoID
    PROVE  Inv'
<1> USE DEF Inv, PumpNoID, Received
<1>1. TypeOK'
  BY FramesInTransit, TailElements
     DEF TypeOK, CallsTypeOK, TableTypeOK, PeerTypeOK, PumpTypeOK, CloseTypeOK,
         callVars, tableVars, pumpVars, closeVars
<1>2. ResponsesAreTrue' /\ HandlersWait'
  BY FramesShrink DEF callVars
<1> QED
  BY <1>1, <1>2 DEF IdsAreOwn, EntriesAreOpen, ChannelsAreOwn, OutcomesAreTrue,
     callVars, tableVars, pumpVars, closeVars

LEMMA PumpNotificationKeepsInv ==
    ASSUME Inv, PumpNotification
    PROVE  Inv'
<1> DEFINE h == Head(recv).call
<1> USE DEF Inv, PumpNotification, Received
<1>1. recv' \in Seq(Frames) /\ h \in Calls /\ pc[h] = "idle"
  BY FramesInTransit, TailElements, FrameKinds DEF HandlersWait
<1>2. pc' = [pc EXCEPT ![h] = "begin"]
  OBVIOUS
<1>3. TypeOK'
  BY <1>1, <1>2
     DEF TypeOK, CallsTypeOK, TableTypeOK, PeerTypeOK, PumpTypeOK, CloseTypeOK,
         tableVars, pumpVars, closeVars
<1>4. IdsAreOwn'
  BY <1>1, <1>2 DEF IdsAreOwn, TypeOK, CallsTypeOK
<1>5. EntriesAreOpen'
  BY <1>1, <1>2 DEF EntriesAreOpen, TypeOK, CallsTypeOK, TableTypeOK, tableVars, pumpVars
<1>6. \A n \in 1..Len(recv') : n + 1 \in 1..Len(recv) /\ recv'[n] = recv[n + 1]
  BY FramesInTransit, TailElements
<1>7. ResponsesAreTrue'
  BY <1>6 DEF ResponsesAreTrue
<1>8. HandlersWait'
  <2>1. recv[1].kind = "notification" /\ h = recv[1].call /\ 1 \in 1..Len(recv)
    BY FramesInTransit, TailElements
  <2>2. ASSUME NEW n \in 1..Len(recv'), recv'[n].kind = "notification"
        PROVE  pc'[recv'[n].call] = "idle"
    <3>1. recv[n + 1] \in Frames /\ recv[1] \in Frames /\ recv'[n] = recv[n + 1]
      BY <1>6, <2>1, FramesInTransit
    <3>2. recv[n + 1].call \in Calls /\ pc[recv[n + 1].call] = "idle"
      BY <1>6, <2>2, <3>1, FrameKinds DEF HandlersWait
    <3>3. recv[n + 1].call # h
      <4>1. SUFFICES ASSUME recv[n + 1].call = h PROVE FALSE
        OBVIOUS
      <4>2. recv[n + 1] = recv[1]
        BY <2>1, <2>2, <3>1, <4>1, FrameKinds
      <4>3. n + 1 = 1
        BY <1>6, <2>1, <4>2 DEF HandlersWait
      <4> QED
        BY <4>3
    <3> QED
      BY <1>2, <3>1, <3>2, <3>3 DEF TypeOK, CallsTypeOK
  <2>3. ASSUME NEW m \in 1..Len(recv'), NEW n \in 1..Len(recv'),
               recv'[m] = recv'[n], recv'[n].kind = "notification"
        PROVE  m = n
    <3>1. m + 1 \in 1..Len(recv) /\ n + 1 \in 1..Len(recv)
      BY <1>6
    <3>2. recv[m + 1] = recv[n + 1] /\ recv[n + 1].kind = "notification"
      BY <1>6, <2>3
    <3>3. m + 1 = n + 1
      BY <3>1, <3>2 DEF HandlersWait
    <3> QED
      BY <3>3
  <2> QED
    BY <2>2, <2>3 DEF HandlersWait
<1>9. ChannelsAreOwn'
  BY <1>1, <1>2 DEF ChannelsAreOwn, TypeOK, CallsTypeOK, tableVars, pumpVars
<1>10. OutcomesAreTrue'
  BY <1>1, <1>2 DEF OutcomesAreTrue, TypeOK, CallsTypeOK, closeVars
<1> QED
  BY <1>3, <1>4, <1>5, <1>7, <1>8, <1>9, <1>10

LEMMA PumpRequestKeepsInv ==
    ASSUME Inv, PumpRequest
    PROVE  Inv'
<1> USE DEF Inv, PumpRequest, Received
<1>1. recv' \in Seq(Frames)
  BY FramesInTransit, TailElements
<1>2. TypeOK'
  BY <1>1 DEF TypeOK, CallsTypeOK, TableTypeOK, PeerTypeOK, PumpTypeOK, CloseTypeOK,
     callVars, tableVars, pumpVars, closeVars
<1>3. ResponsesAreTrue' /\ HandlersWait'
  BY FramesShrink DEF callVars
<1> QED
  BY <1>2, <1>3 DEF IdsAreOwn, EntriesAreOpen, ChannelsAreOwn, OutcomesAreTrue,
     callVars, tableVars, pumpVars, closeVars

LEMMA PumpEndsKeepsInv ==
    ASSUME Inv, PumpEnds
    PROVE  Inv'
  BY DEF Inv, PumpEnds, TypeOK, CallsTypeOK, TableTypeOK, PeerTypeOK, PumpTypeOK,
     CloseTypeOK, IdsAreOwn, EntriesAreOpen, ResponsesAreTrue, HandlersWait,
     ChannelsAreOwn, OutcomesAreTrue, callVars, tableVars, peerVars

LEMMA ServeRequestKeepsInv ==
    ASSUME Inv, NEW r \in Inbound, ServeRequest(r)
    PROVE  Inv'
<1>1. \E v \in {"answered", "lost"} : serving' = [serving EXCEPT ![r] = v]
  BY DEF ServeRequest
<1> QED
  BY <1>1 DEF Inv, ServeRequest, TypeOK, CallsTypeOK, TableTypeOK, PeerTypeOK, PumpTypeOK,
     CloseTypeOK, IdsAreOwn, EntriesAreOpen, ResponsesAreTrue, HandlersWait,
     ChannelsAreOwn, OutcomesAreTrue, callVars, tableVars, peerVars, pumpVars, closeVars

-------------------------------------------------------------------------------
(* Close *)

LEMMA CloseKeepsInv ==
    ASSUME Inv, NEW k \in Closers, Close(k)
    PROVE  Inv'
<1> USE DEF Inv
<1>1. CASE CloseBegins(k)
  <2>1. TypeOK'
    BY <1>1 DEF CloseBegins, Keys, TypeOK, CallsTypeOK, TableTypeOK, PeerTypeOK, PumpTypeOK,
       CloseTypeOK, callVars, tableVars, peerVars, pumpVars
  <2> QED
    BY <1>1, <2>1 DEF CloseBegins, IdsAreOwn, EntriesAreOpen, ResponsesAreTrue, HandlersWait,
       ChannelsAreOwn, OutcomesAreTrue, callVars, tableVars, peerVars, pumpVars
<1>2. CASE CloseTransport(k)
  <2>1. TypeOK'
    BY <1>2 DEF CloseTransport, TypeOK, CallsTypeOK, TableTypeOK, PeerTypeOK, PumpTypeOK,
       CloseTypeOK, callVars, tableVars, peerVars, pumpVars
  <2> QED
    BY <1>2, <2>1 DEF CloseTransport, IdsAreOwn, EntriesAreOpen, ResponsesAreTrue,
       HandlersWait, ChannelsAreOwn, OutcomesAreTrue, callVars, tableVars, peerVars, pumpVars
<1>3. CASE CloseAgain(k)
  <2>1. TypeOK'
    BY <1>3 DEF CloseAgain, TypeOK, CallsTypeOK, TableTypeOK, PeerTypeOK, PumpTypeOK,
       CloseTypeOK, callVars, tableVars, peerVars, pumpVars
  <2> QED
    BY <1>3, <2>1 DEF CloseAgain, IdsAreOwn, EntriesAreOpen, ResponsesAreTrue, HandlersWait,
       ChannelsAreOwn, OutcomesAreTrue, callVars, tableVars, peerVars, pumpVars
<1>4. ASSUME NEW i \in doomed \cup Keys, DismissEntry(k, i)
      PROVE  Inv'
  <2>1. TypeOK'
    BY <1>4 DEF DismissEntry, Without, TypeOK, CallsTypeOK, TableTypeOK, PeerTypeOK,
       PumpTypeOK, CloseTypeOK, callVars, peerVars, pumpVars
  <2>2. EntriesAreOpen'
    BY <1>4 DEF DismissEntry, Without, EntriesAreOpen, callVars, pumpVars
  <2> QED
    BY <1>4, <2>1, <2>2 DEF DismissEntry, IdsAreOwn, ResponsesAreTrue, HandlersWait,
       ChannelsAreOwn, OutcomesAreTrue, callVars, peerVars, pumpVars
<1> QED
  BY <1>1, <1>2, <1>3, <1>4 DEF Close

-------------------------------------------------------------------------------
(* The invariant *)

(* No step of any goroutine or of the peer breaks the invariant. *)
LEMMA NextInv == Inv /\ [Next]_vars => Inv'
<1> SUFFICES ASSUME Inv, [Next]_vars PROVE Inv'
  OBVIOUS
<1>1. ASSUME NEW c \in Calls, SendRequest(c) \/ SelectCtx(c) PROVE Inv'
  BY <1>1, TakeIDKeepsInv, StorePendingKeepsInv, SendKeepsInv, SelectReplyKeepsInv,
     SelectCtxKeepsInv, SelectClosedKeepsInv, ReturnKeepsInv DEF SendRequest
<1>2. CASE Pump
  BY <1>2, PumpResponseKeepsInv, PumpDeliverKeepsInv, PumpNoIDKeepsInv,
     PumpNotificationKeepsInv, PumpRequestKeepsInv, PumpEndsKeepsInv DEF Pump
<1>3. ASSUME NEW r \in Inbound, ServeRequest(r) PROVE Inv'
  BY <1>3, ServeRequestKeepsInv
<1>4. ASSUME NEW k \in Closers, Close(k) PROVE Inv'
  BY <1>4, CloseKeepsInv
<1>5. CASE Peer
  BY <1>5, PeerRespondsKeepsInv, PeerRespondsWithoutIDKeepsInv, PeerNotifiesKeepsInv,
     PeerRequestsKeepsInv, TransportEndsKeepsInv DEF Peer
<1>6. CASE UNCHANGED vars
  BY <1>6 DEF Inv, TypeOK, CallsTypeOK, TableTypeOK, PeerTypeOK, PumpTypeOK, CloseTypeOK,
     IdsAreOwn, EntriesAreOpen, ResponsesAreTrue, HandlersWait, ChannelsAreOwn,
     OutcomesAreTrue, vars, callVars, tableVars, peerVars, pumpVars, closeVars
<1> QED
  BY <1>1, <1>2, <1>3, <1>4, <1>5, <1>6 DEF Next

(* Inv holds in every reachable state, whatever the numbers of calls, closers, *)
(* inbound requests and frames.                                                *)
THEOREM Invariance == Spec => []Inv
  BY InitInv, NextInv, PTL DEF Spec

(* Type correctness of the session. *)
THEOREM TypeCorrect == Spec => []TypeOK
<1>1. Inv => TypeOK
  BY DEF Inv
<1> QED
  BY <1>1, Invariance, PTL

(* No call ever returns the reply to another call. *)
THEOREM RepliesAreMatched == Spec => []ReplyIsMine
<1>1. Inv => ReplyIsMine
  BY DEF Inv, OutcomesAreTrue, ReplyIsMine
<1> QED
  BY <1>1, Invariance, PTL

(* The pump never finds a reply channel full, so it never waits for a caller. *)
THEOREM PumpIsNeverBlocked == Spec => []PumpNeverBlocks
<1>1. Inv => PumpNeverBlocks
  BY DEF Inv, ChannelsAreOwn, PumpNeverBlocks
<1> QED
  BY <1>1, Invariance, PTL

(* No call that has returned has an entry in the table of pending replies. *)
THEOREM TableIsClean == Spec => []NoPendingLeak
<1>1. Inv => NoPendingLeak
  <2> SUFFICES ASSUME Inv, NEW c \in Calls, pc[c] = "done", NEW e \in pending, e.id = callID[c]
               PROVE  FALSE
    BY DEF NoPendingLeak, Keys
  <2>1. e.call \in Calls /\ callID[e.call] = callID[c] /\ callID[c] # 0
    BY DEF Inv, EntriesAreOpen, IdsAreOwn, TypeOK, TableTypeOK
  <2>2. e.call = c
    BY <2>1 DEF Inv, IdsAreOwn
  <2> QED
    BY <2>2 DEF Inv, EntriesAreOpen
<1> QED
  BY <1>1, Invariance, PTL

-------------------------------------------------------------------------------
(* The session implements McpCalls *)

(* A step that changes neither outcomes nor answers under way nor the end of   *)
(* the session is a stuttering step of McpCalls.                               *)
LEMMA Stutters ==
    ASSUME UNCHANGED <<CallStatus, Answered, closed>>
    PROVE  [Promise!Next]_(Promise!vars)
  BY DEF Promise!vars

(* The answers under way depend on four variables only. *)
LEMMA AnswersUnchanged ==
    ASSUME UNCHANGED <<recv, pumpVars, chan, outcome>>
    PROVE  Answered' = Answered
  BY DEF Answered, AnswerUnderWay, pumpVars

(* A frame that is no response changes no answer. *)
LEMMA AnswersKeptByGrowth ==
    ASSUME TypeOK, NEW f \in Frames, f.kind # "response", recv' = Append(recv, f),
           UNCHANGED <<pumpVars, chan, outcome>>
    PROVE  Answered' = Answered
<1>1. \A n \in 1..Len(recv') :
          \/ n \in 1..Len(recv) /\ recv'[n] = recv[n]
          \/ n = Len(recv) + 1 /\ recv'[n] = f
  BY FramesInTransit, AppendElements
<1>2. \A n \in 1..Len(recv) : n \in 1..Len(recv') /\ recv'[n] = recv[n]
  BY FramesInTransit
<1>3. \A c \in Calls : AnswerUnderWay(c)' <=> AnswerUnderWay(c)
  BY <1>1, <1>2 DEF AnswerUnderWay, pumpVars
<1> QED
  BY <1>3 DEF Answered

LEMMA AnswersKeptByTail ==
    ASSUME TypeOK, recv # <<>>, Head(recv).kind # "response", recv' = Tail(recv),
           UNCHANGED <<pumpVars, chan, outcome>>
    PROVE  Answered' = Answered
<1>1. \A n \in 1..Len(recv') : n + 1 \in 1..Len(recv) /\ recv'[n] = recv[n + 1]
  BY FramesInTransit, TailElements
<1>2. recv[1].kind # "response" /\ Len(recv) \in Nat /\ Len(recv') = Len(recv) - 1
  BY FramesInTransit, TailElements
<1>3. ASSUME NEW c \in Calls
      PROVE  (\E n \in 1..Len(recv') : recv'[n].kind = "response" /\ recv'[n].call = c)
             <=> (\E n \in 1..Len(recv) : recv[n].kind = "response" /\ recv[n].call = c)
  <2>1. ASSUME NEW n \in 1..Len(recv'), recv'[n].kind = "response" /\ recv'[n].call = c
        PROVE  \E m \in 1..Len(recv) : recv[m].kind = "response" /\ recv[m].call = c
    BY <1>1, <2>1
  <2>2. ASSUME NEW n \in 1..Len(recv), recv[n].kind = "response" /\ recv[n].call = c
        PROVE  \E m \in 1..Len(recv') : recv'[m].kind = "response" /\ recv'[m].call = c
    <3>1. n - 1 \in 1..Len(recv')
      BY <1>2, <2>2
    <3>2. recv'[n - 1] = recv[(n - 1) + 1] /\ (n - 1) + 1 = n
      BY <1>1, <3>1
    <3> QED
      BY <2>2, <3>1, <3>2
  <2> QED
    BY <2>1, <2>2
<1>4. \A c \in Calls : AnswerUnderWay(c)' <=> AnswerUnderWay(c)
  BY <1>3 DEF AnswerUnderWay, pumpVars
<1> QED
  BY <1>4 DEF Answered

LEMMA SendRequestRefines ==
    ASSUME Inv, Inv', NEW c \in Calls, SendRequest(c) \/ SelectCtx(c)
    PROVE  [Promise!Next]_(Promise!vars)
<1> USE DEF Inv, TypeOK, CallsTypeOK, OutcomesAreTrue
<1>1. CASE TakeID(c) \/ StorePending(c) \/ Return(c)
  <2>1. CallStatus' = CallStatus
    BY <1>1 DEF CallStatus, TakeID, StorePending, Return
  <2>2. UNCHANGED <<recv, pumpVars, chan, outcome, closed>>
    BY <1>1 DEF TakeID, StorePending, Return, tableVars, peerVars, closeVars
  <2> QED
    BY <2>1, <2>2, AnswersUnchanged, Stutters
<1>2. ASSUME NEW how \in {"transport", "timeout", "closed"}, pc[c] \in {"send", "select"},
             pc' = [pc EXCEPT ![c] = "return"], outcome' = [outcome EXCEPT ![c] = how],
             how = "closed" => closed,
             UNCHANGED <<recv, pumpVars, chan, answer, closed>>
      PROVE  [Promise!Next]_(Promise!vars)
  <2>1. CallStatus[c] = "open"
    BY <1>2 DEF CallStatus
  <2>2. CallStatus' = [CallStatus EXCEPT ![c] = how]
    BY <1>2 DEF CallStatus
  <2>3. Answered' = Answered
    <3>1. \A d \in Calls : outcome'[d] = "reply" <=> outcome[d] = "reply"
      BY <1>2
    <3>2. \A d \in Calls : AnswerUnderWay(d)' <=> AnswerUnderWay(d)
      BY <1>2, <3>1 DEF AnswerUnderWay, pumpVars
    <3> QED
      BY <3>2 DEF Answered
  <2>4. Promise!Return(c)
    BY <1>2, <2>1, <2>2, <2>3 DEF Promise!Return, Promise!Outcomes
  <2> QED
    BY <2>4 DEF Promise!Next
<1>3. CASE Send(c)
  <2>1. CASE outcome' = [outcome EXCEPT ![c] = "transport"] /\ pc' = [pc EXCEPT ![c] = "return"]
    BY <1>2, <1>3, <2>1 DEF Send, tableVars, closeVars
  <2>2. CASE pc' = [pc EXCEPT ![c] = "select"] /\ UNCHANGED outcome
    <3>1. CallStatus' = CallStatus
      BY <1>3, <2>2 DEF CallStatus, Send
    <3>2. UNCHANGED <<recv, pumpVars, chan, outcome, closed>>
      BY <1>3, <2>2 DEF Send, tableVars, closeVars
    <3> QED
      BY <3>1, <3>2, AnswersUnchanged, Stutters
  <2> QED
    BY <1>3, <2>1, <2>2 DEF Send
<1>4. CASE SelectCtx(c)
  BY <1>2, <1>4 DEF SelectCtx, tableVars, peerVars, closeVars
<1>5. CASE SelectClosed(c)
  BY <1>2, <1>5 DEF SelectClosed, tableVars, peerVars, closeVars
<1>6. CASE SelectReply(c)
  <2>1. chan[c] = <<c>>
    BY <1>6 DEF SelectReply, ChannelsAreOwn
  <2>2. Head(<<c>>) = c /\ Tail(<<c>>) = <<>>
    OBVIOUS
  <2>3. answer' = [answer EXCEPT ![c] = c] /\ chan' = [chan EXCEPT ![c] = <<>>]
    BY <1>6, <2>1, <2>2 DEF SelectReply
  <2>4. CallStatus[c] = "open" /\ CallStatus' = [CallStatus EXCEPT ![c] = "reply"]
    <3>1. CallStatus[c] = "open"
      BY <1>6 DEF SelectReply, CallStatus
    <3>2. pc'[c] = "return" /\ outcome'[c] = "reply" /\ answer'[c] = c
      BY <1>6, <2>3 DEF SelectReply
    <3>3. \A d \in Calls : d # c =>
              pc'[d] = pc[d] /\ outcome'[d] = outcome[d] /\ answer'[d] = answer[d]
      BY <1>6, <2>3 DEF SelectReply
    <3>4. \A d \in Calls : CallStatus'[d] = IF d = c THEN "reply" ELSE CallStatus[d]
      BY <3>2, <3>3 DEF CallStatus
    <3>5. /\ CallStatus = [d \in Calls |-> CallStatus[d]]
          /\ CallStatus' = [d \in Calls |-> CallStatus'[d]]
      BY DEF CallStatus
    <3> QED
      BY <3>1, <3>4, <3>5
  <2>5. c \in Answered
    BY <2>1 DEF Answered, AnswerUnderWay
  <2>6. Answered' = Answered
    <3>1. AnswerUnderWay(c)' /\ AnswerUnderWay(c)
      BY <1>6, <2>1 DEF AnswerUnderWay, SelectReply
    <3>2. ASSUME NEW d \in Calls, d # c PROVE AnswerUnderWay(d)' <=> AnswerUnderWay(d)
      <4>1. \A x \in Calls : chan'[x] = <<d>> <=> chan[x] = <<d>>
        <5>1. <<c>> # <<d>> /\ <<>> # <<d>>
          BY <3>2
        <5> QED
          BY <2>1, <2>3, <5>1 DEF TableTypeOK
      <4> QED
        BY <1>6, <3>2, <4>1 DEF AnswerUnderWay, SelectReply, peerVars, pumpVars
    <3> QED
      BY <3>1, <3>2 DEF Answered
  <2>7. Promise!Return(c)
    BY <1>6, <2>4, <2>5, <2>6 DEF SelectReply, closeVars, Promise!Return, Promise!Outcomes
  <2> QED
    BY <2>7 DEF Promise!Next
<1> QED
  BY <1>1, <1>3, <1>4, <1>5, <1>6 DEF SendRequest

LEMMA PeerRefines ==
    ASSUME Inv, Peer
    PROVE  [Promise!Next]_(Promise!vars)
<1> USE DEF Inv
<1>1. ASSUME NEW c \in Calls, PeerResponds(c) PROVE [Promise!Next]_(Promise!vars)
  <2> DEFINE f == Response(callID[c], c)
  <2>1. f \in Frames /\ f.kind = "response" /\ f.call = c
    BY DEF Response, Frames, Responses, TypeOK, CallsTypeOK
  <2>2. recv' = Append(recv, f) /\ UNCHANGED <<callVars, chan, pumpVars, closed>>
    BY <1>1 DEF PeerResponds, PeerSends, tableVars, closeVars
  <2>3. \A n \in 1..Len(recv') :
            \/ n \in 1..Len(recv) /\ recv'[n] = recv[n]
            \/ n = Len(recv) + 1 /\ recv'[n] = f
    BY <2>1, <2>2, FramesInTransit, AppendElements
  <2>4. /\ Len(recv) + 1 \in 1..Len(recv') /\ recv'[Len(recv) + 1] = f
        /\ \A n \in 1..Len(recv) : n \in 1..Len(recv') /\ recv'[n] = recv[n]
    BY <2>1, <2>2, FramesInTransit
  <2>5. ASSUME NEW d \in Calls
        PROVE  AnswerUnderWay(d)' <=> AnswerUnderWay(d) \/ d = c
    <3>1. CASE d = c
      BY <2>1, <2>4, <3>1 DEF AnswerUnderWay
    <3>2. CASE d # c
      BY <2>1, <2>2, <2>3, <2>4, <3>2 DEF AnswerUnderWay, callVars, pumpVars
    <3> QED
      BY <3>1, <3>2
  <2>6. Answered' = Answered \cup {c}
    BY <2>5 DEF Answered
  <2>7. pc[c] # "idle"
    BY <1>1 DEF PeerResponds, ResponsesAreTrue, IdsAreOwn
  <2>8. CallStatus' = CallStatus /\ CallStatus[c] # "idle"
    BY <2>2, <2>7 DEF CallStatus, callVars, OutcomesAreTrue, TypeOK, CallsTypeOK
  <2>9. Promise!Answer(c)
    BY <2>2, <2>6, <2>8 DEF Promise!Answer
  <2> QED
    BY <2>9 DEF Promise!Next
<1>2. ASSUME NEW f \in Frames, f.kind # "response", PeerSends(f),
             UNCHANGED <<callVars, chan, pumpVars, closed>>
      PROVE  [Promise!Next]_(Promise!vars)
  <2>1. Answered' = Answered
    BY <1>2, AnswersKeptByGrowth DEF PeerSends, callVars
  <2>2. CallStatus' = CallStatus
    BY <1>2 DEF CallStatus, callVars
  <2> QED
    BY <1>2, <2>1, <2>2, Stutters
<1>3. CASE PeerRespondsWithoutID
  <2>1. NoIdResponse \in Frames /\ NoIdResponse.kind # "response"
    BY DEF Frames, NoIdResponse
  <2> QED
    BY <1>2, <1>3, <2>1 DEF PeerRespondsWithoutID, tableVars, closeVars
<1>4. ASSUME NEW h \in HandlerCalls, PeerNotifies(h) PROVE [Promise!Next]_(Promise!vars)
  <2> DEFINE f == [kind |-> "notification", call |-> h]
  <2>1. f \in Frames /\ f.kind # "response"
    BY DEF Frames, Notifications
  <2> QED
    BY <1>2, <1>4, <2>1 DEF PeerNotifies, tableVars, closeVars
<1>5. ASSUME NEW r \in Inbound, PeerRequests(r) PROVE [Promise!Next]_(Promise!vars)
  <2> DEFINE f == [kind |-> "request", req |-> r]
  <2>1. f \in Frames /\ f.kind # "response"
    BY DEF Frames, Requests
  <2> QED
    BY <1>2, <1>5, <2>1 DEF PeerRequests, tableVars, closeVars
<1>6. CASE TransportEnds
  <2>1. UNCHANGED <<CallStatus, closed, recv, pumpVars, chan, outcome>>
    BY <1>6 DEF TransportEnds, CallStatus, callVars, tableVars, closeVars
  <2> QED
    BY <2>1, AnswersUnchanged, Stutters
<1> QED
  BY <1>1, <1>3, <1>4, <1>5, <1>6 DEF Peer

LEMMA PumpRefines ==
    ASSUME Inv, Pump
    PROVE  [Promise!Next]_(Promise!vars)
<1> USE DEF Inv
<1>1. CASE PumpResponse
  <2>0. PICK c \in Calls : c = Head(recv).call
    BY <1>1, FramesInTransit, TailElements, FrameKinds DEF PumpResponse, Received
  <2>1. /\ recv # <<>> /\ recv' = Tail(recv) /\ pump = "receive"
        /\ UNCHANGED <<callVars, chan, closed>>
    BY <1>1 DEF PumpResponse, Received, closeVars
  <2>2. CallStatus' = CallStatus
    BY <2>1 DEF CallStatus, callVars
  <2>3. \A n \in 1..Len(recv') : n + 1 \in 1..Len(recv) /\ recv'[n] = recv[n + 1]
    BY <2>1, FramesInTransit, TailElements
  <2>4. \A n \in 1..Len(recv) : n # 1 =>
            n - 1 \in 1..Len(recv') /\ recv'[n - 1] = recv[n]
    <3>1. Len(recv) \in Nat /\ Len(recv') = Len(recv) - 1
      BY <2>1, FramesInTransit, TailElements
    <3>2. ASSUME NEW n \in 1..Len(recv), n # 1
          PROVE  n - 1 \in 1..Len(recv') /\ recv'[n - 1] = recv[n]
      <4>1. n - 1 \in 1..Len(recv') /\ (n - 1) + 1 = n
        BY <3>1, <3>2
      <4> QED
        BY <2>3, <4>1
    <3> QED
      BY <3>2
  <2>5. recv[1].call = c
    BY <2>0, <2>1, FramesInTransit, TailElements
  <2>6. ASSUME NEW d \in Calls, d # c
        PROVE  (\E n \in 1..Len(recv') : recv'[n].kind = "response" /\ recv'[n].call = d)
               <=> (\E n \in 1..Len(recv) : recv[n].kind = "response" /\ recv[n].call = d)
    BY <2>3, <2>4, <2>5, <2>6
  <2>7. pump' = "deliver" => held'.call = c
    BY <1>1, <2>0, <2>1 DEF PumpResponse, pumpVars
  <2>8. ASSUME NEW d \in Calls, d # c PROVE AnswerUnderWay(d)' <=> AnswerUnderWay(d)
    BY <2>1, <2>6, <2>7, <2>8 DEF AnswerUnderWay, callVars
  <2>9. c \in Answered
    <3>1. 1 \in 1..Len(recv) /\ recv[1].kind = "response"
      BY <1>1, <2>1, FramesInTransit, TailElements DEF PumpResponse
    <3> QED
      BY <2>1, <2>5, <3>1 DEF Answered, AnswerUnderWay
  <2>10. CASE AnswerUnderWay(c)'
    <3>1. Answered' = Answered
      BY <2>8, <2>9, <2>10 DEF Answered
    <3> QED
      BY <2>1, <2>2, <3>1, Stutters
  <2>11. CASE ~AnswerUnderWay(c)'
    <3>1. Answered' = Answered \ {c}
      BY <2>8, <2>9, <2>11 DEF Answered
    <3>2. outcome'[c] # "reply" /\ outcome' = outcome
      BY <2>1, <2>11 DEF AnswerUnderWay, callVars
    <3>3. CallStatus[c] # "reply"
      BY <2>1, <3>2 DEF CallStatus
    <3>4. Promise!Drop(c)
      BY <2>1, <2>2, <3>1, <3>3 DEF Promise!Drop
    <3> QED
      BY <2>1, <3>4 DEF Promise!Next
  <2> QED
    BY <2>10, <2>11
<1>2. CASE PumpDeliver
  <2> DEFINE c == held.owner
  <2>1. c \in Calls /\ held.call = c /\ chan[c] = <<>> /\ pump = "deliver" /\ pump' = "receive"
    BY <1>2 DEF PumpDeliver, ChannelsAreOwn, TypeOK, PumpTypeOK
  <2>2. chan' = [chan EXCEPT ![c] = <<c>>] /\ UNCHANGED <<callVars, recv, closed>>
    BY <1>2, <2>1 DEF PumpDeliver, peerVars, closeVars
  <2>3. ASSUME NEW d \in Calls PROVE AnswerUnderWay(d)' <=> AnswerUnderWay(d)
    <3>1. (\E x \in Calls : chan'[x] = <<d>>) <=> d = c \/ \E x \in Calls : chan[x] = <<d>>
      <4>1. chan'[c] = <<c>> /\ \A x \in Calls : x # c => chan'[x] = chan[x]
        BY <2>1, <2>2 DEF TypeOK, TableTypeOK
      <4>2. chan[c] # <<d>>
        BY <2>1
      <4>3. <<c>> = <<d>> <=> c = d
        OBVIOUS
      <4> QED
        BY <2>1, <4>1, <4>2, <4>3
    <3> QED
      BY <2>1, <2>2, <3>1 DEF AnswerUnderWay, callVars
  <2>4. Answered' = Answered
    BY <2>3 DEF Answered
  <2>5. CallStatus' = CallStatus
    BY <2>2 DEF CallStatus, callVars
  <2> QED
    BY <2>2, <2>4, <2>5, Stutters
<1>3. CASE PumpNoID \/ PumpRequest
  <2>1. /\ recv # <<>> /\ Head(recv).kind # "response" /\ recv' = Tail(recv)
        /\ UNCHANGED <<callVars, chan, pumpVars, closed>>
    BY <1>3 DEF PumpNoID, PumpRequest, Received, tableVars, closeVars
  <2>2. Answered' = Answered
    BY <2>1, AnswersKeptByTail DEF callVars
  <2>3. CallStatus' = CallStatus
    BY <2>1 DEF CallStatus, callVars
  <2> QED
    BY <2>1, <2>2, <2>3, Stutters
<1>4. CASE PumpNotification
  <2> DEFINE h == Head(recv).call
  <2>1. /\ recv # <<>> /\ Head(recv).kind = "notification" /\ recv' = Tail(recv)
        /\ pc' = [pc EXCEPT ![h] = "begin"]
        /\ UNCHANGED <<outcome, answer, chan, pumpVars, closed>>
    BY <1>4 DEF PumpNotification, Received, tableVars, closeVars
  <2>2. h \in Calls /\ pc[h] = "idle"
    BY <2>1, FramesInTransit, TailElements, FrameKinds DEF HandlersWait
  <2>3. Answered' = Answered
    BY <2>1, AnswersKeptByTail
  <2>4. outcome[h] = "none"
    BY <2>2 DEF OutcomesAreTrue
  <2>5. CallStatus[h] = "idle" /\ CallStatus' = [CallStatus EXCEPT ![h] = "open"]
    BY <2>1, <2>2, <2>4 DEF CallStatus, TypeOK, CallsTypeOK
  <2>6. Promise!Begin(h)
    BY <2>1, <2>3, <2>5 DEF Promise!Begin
  <2> QED
    BY <2>2, <2>6 DEF Promise!Next
<1>5. CASE PumpEnds
  <2>1. /\ closed' = TRUE /\ pump # "deliver" /\ pump' # "deliver"
        /\ UNCHANGED <<callVars, recv, chan, held>>
    BY <1>5 DEF PumpEnds, tableVars, peerVars
  <2>2. Answered' = Answered
    BY <2>1 DEF Answered, AnswerUnderWay, callVars
  <2>3. CallStatus' = CallStatus
    BY <2>1 DEF CallStatus, callVars
  <2>4. Promise!End
    BY <2>1, <2>2, <2>3 DEF Promise!End
  <2> QED
    BY <2>4 DEF Promise!Next
<1> QED
  BY <1>1, <1>2, <1>3, <1>4, <1>5 DEF Pump

LEMMA CloseRefines ==
    ASSUME Inv, NEW k \in Closers, Close(k)
    PROVE  [Promise!Next]_(Promise!vars)
<1>1. UNCHANGED <<callVars, recv, pumpVars, chan, outcome>>
  BY DEF Close, CloseBegins, CloseTransport, CloseAgain, DismissEntry,
     callVars, tableVars, peerVars
<1>2. CallStatus' = CallStatus /\ Answered' = Answered
  BY <1>1, AnswersUnchanged DEF CallStatus, callVars
<1>3. CASE closed' = closed
  BY <1>2, <1>3, Stutters
<1>4. CASE closed' = TRUE
  BY <1>2, <1>4 DEF Promise!End, Promise!Next
<1> QED
  BY <1>3, <1>4 DEF Close, CloseBegins, CloseTransport, CloseAgain, DismissEntry

(* The session implements McpCalls: whatever the ids, the table, the channels  *)
(* and the pump do, the callers see nothing that McpCalls does not allow.      *)
THEOREM Refinement == Spec => KeepsPromise
<1>1. Init => Promise!Init
  <2> SUFFICES ASSUME Init PROVE Promise!Init
    OBVIOUS
  <2>1. CallStatus \in [Calls -> {"idle", "open"}]
    BY DEF Init, CallStatus
  <2>2. Answered = {}
    BY DEF Init, Answered, AnswerUnderWay
  <2> QED
    BY <2>1, <2>2 DEF Init, Promise!Init
<1>2. Inv /\ Inv' /\ [Next]_vars => [Promise!Next]_(Promise!vars)
  <2> SUFFICES ASSUME Inv, Inv', [Next]_vars PROVE [Promise!Next]_(Promise!vars)
    OBVIOUS
  <2>1. ASSUME NEW r \in Inbound, ServeRequest(r) PROVE [Promise!Next]_(Promise!vars)
    <3>1. UNCHANGED <<CallStatus, closed, recv, pumpVars, chan, outcome>>
      BY <2>1 DEF ServeRequest, CallStatus, callVars, tableVars, peerVars, closeVars
    <3> QED
      BY <3>1, AnswersUnchanged, Stutters
  <2>2. CASE UNCHANGED vars
    <3>1. UNCHANGED <<CallStatus, closed, recv, pumpVars, chan, outcome>>
      BY <2>2 DEF vars, CallStatus, callVars, tableVars, peerVars, closeVars
    <3> QED
      BY <3>1, AnswersUnchanged, Stutters
  <2> QED
    BY <2>1, <2>2, SendRequestRefines, PumpRefines, CloseRefines, PeerRefines DEF Next
<1> QED
  BY <1>1, <1>2, Invariance, PTL DEF Spec, KeepsPromise, Promise!Spec

===============================================================================
