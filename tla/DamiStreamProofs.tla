--------------------------- MODULE DamiStreamProofs ---------------------------
(* Proofs about DamiStream: for any number of listeners, whichever of them push  *)
(* from goroutines of their own, and any capacity, nothing is lost before the    *)
(* stream is ended, behind an error comes at most what a concurrent listener had *)
(* in flight, and who panics is one that begins a push on the closed channel.    *)
EXTENDS DamiStream, SequenceTheorems, TLAPS

-------------------------------------------------------------------------------
(* The control of a stream: who is where, and who closes it.                     *)

ControlTypes ==
    /\ caller \in {"dispatching", "reading", "ended", "left"}
    /\ turn \in 1..(Listeners + 1)
    /\ pc \in [Procs -> {"idle", "running", "blocked", "failing", "finishing", "closing",
                         "waiting", "returned", "panicked"}]
    /\ chClosed \in BOOLEAN /\ done \in BOOLEAN /\ ctxDone \in BOOLEAN
    /\ once \in {"unused", "executing", "used"}

(* The dispatch runs the listeners in order, and waits for those that are not    *)
(* asynchronous.                                                                 *)
Dispatched ==
    \A h \in Handlers :
        IF h \in Async
        THEN pc[h] = "idle" <=> h >= turn
        ELSE /\ h < turn => pc[h] = "returned"
             /\ h = turn => pc[h] # "returned"
             /\ h > turn => pc[h] = "idle"

(* The canceller starts with the end of the dispatch.                            *)
CancellerWaits ==
    /\ pc[Canceller] \in {"idle", "running", "finishing", "closing", "waiting", "returned"}
    /\ pc[Canceller] = "idle" <=> caller = "dispatching"
    /\ caller # "dispatching" => turn = Listeners + 1

(* s.once: one goroutine at a time is in its Do, only the first closes, and the  *)
(* two channels are closed one after the other.                                  *)
Closing(p) == pc[p] \in {"failing", "finishing", "closing"}

OnceHolds ==
    /\ \A p, q \in Procs : Closing(p) /\ Closing(q) => p = q
    /\ once = "executing" <=> \E p \in Procs : Closing(p)
    /\ once = "used" <=> chClosed
    /\ done => once # "unused"
    /\ chClosed => done
    /\ \A p \in Procs : /\ pc[p] \in {"failing", "finishing"} => ~done
                        /\ pc[p] = "closing" => done
                        /\ pc[p] = "panicked" => chClosed

ControlInv == ControlTypes /\ Dispatched /\ CancellerWaits /\ OnceHolds

LEMMA ProcsAreNumbers == /\ Handlers \subseteq Nat \ {0}
                         /\ Canceller \notin Handlers
                         /\ \A p \in Procs : p \in Handlers \/ p = Canceller
                         /\ Handlers \subseteq Procs /\ Canceller \in Procs
    BY StreamAssumption DEF Handlers, Canceller, Procs

LEMMA InitControl == Init => ControlInv
<1> SUFFICES ASSUME Init PROVE ControlInv
    OBVIOUS
<1> USE StreamAssumption, ProcsAreNumbers DEF Init
<1>1. ControlTypes
  <2>1. chClosed \in BOOLEAN /\ done \in BOOLEAN /\ ctxDone \in BOOLEAN
      BY Zenon
  <2> QED
      BY <2>1 DEF ControlTypes
<1>2. Dispatched
    BY DEF Dispatched, Handlers
<1>3. CancellerWaits /\ OnceHolds
    BY DEF CancellerWaits, OnceHolds, Closing
<1> QED
    BY <1>1, <1>2, <1>3 DEF ControlInv

(* The steps of the dispatch.                                                    *)
LEMMA DispatchKeeps ==
    ASSUME ControlInv, StartHandler \/ DispatchEnds \/ \E h \in Handlers : HandlerReturns(h)
    PROVE  ControlInv'
<1> USE StreamAssumption, ProcsAreNumbers DEF ControlInv, ControlTypes, Goto, channel
<1>1. CASE StartHandler
  <2>1. turn \in Handlers /\ pc[turn] = "idle" /\ pc' = [pc EXCEPT ![turn] = "running"]
      BY <1>1 DEF StartHandler
  <2>2. turn' \in 1..(Listeners + 1)
      BY <1>1 DEF StartHandler, Handlers
  <2>3. ControlTypes'
      BY <1>1, <2>1, <2>2 DEF StartHandler
  <2>4. Dispatched'
      BY <1>1, <2>1 DEF StartHandler, Dispatched
  <2>5. CancellerWaits'
      BY <1>1, <2>1 DEF StartHandler, CancellerWaits
  <2>6. OnceHolds'
      BY <1>1, <2>1 DEF StartHandler, OnceHolds, Closing
  <2> QED
      BY <2>3, <2>4, <2>5, <2>6
<1>2. CASE DispatchEnds
  <2>1. turn = Listeners + 1 /\ pc[Canceller] = "idle"
      BY <1>2 DEF DispatchEnds, CancellerWaits
  <2>2. ControlTypes'
      BY <1>2 DEF DispatchEnds
  <2>3. Dispatched'
      BY <1>2 DEF DispatchEnds, Dispatched
  <2>4. CancellerWaits'
      BY <1>2, <2>1 DEF DispatchEnds, CancellerWaits
  <2>5. OnceHolds'
      BY <1>2, <2>1 DEF DispatchEnds, OnceHolds, Closing
  <2> QED
      BY <2>2, <2>3, <2>4, <2>5
<1>3. ASSUME NEW h \in Handlers, HandlerReturns(h) PROVE ControlInv'
  <2>1. /\ pc[h] = "running" /\ pc' = [pc EXCEPT ![h] = "returned"]
        /\ h \in 1..Listeners
      BY <1>3 DEF HandlerReturns, Handlers
  <2>2. h \notin Async => h = turn
      BY <2>1 DEF Dispatched
  <2>3. turn' \in 1..(Listeners + 1)
      BY <1>3, <2>1, <2>2 DEF HandlerReturns
  <2>4. ControlTypes'
      BY <1>3, <2>3 DEF HandlerReturns
  <2>5. Dispatched'
    <3> SUFFICES ASSUME NEW g \in Handlers
                 PROVE  IF g \in Async
                        THEN pc'[g] = "idle" <=> g >= turn'
                        ELSE /\ g < turn' => pc'[g] = "returned"
                             /\ g = turn' => pc'[g] # "returned"
                             /\ g > turn' => pc'[g] = "idle"
        BY DEF Dispatched
    <3>1. CASE h \in Async
        BY <1>3, <2>1, <3>1 DEF HandlerReturns, Dispatched
    <3>2. CASE h \notin Async
        BY <1>3, <2>1, <2>2, <3>2 DEF HandlerReturns, Dispatched
    <3> QED
        BY <3>1, <3>2
  <2>6. CancellerWaits'
    <3>1. h \notin Async => turn # Listeners + 1
        BY <2>1, <2>2
    <3> QED
        BY <1>3, <2>1, <3>1 DEF HandlerReturns, CancellerWaits
  <2>7. OnceHolds'
      BY <1>3, <2>1 DEF HandlerReturns, OnceHolds, Closing
  <2> QED
      BY <2>4, <2>5, <2>6, <2>7
<1> QED
    BY <1>1, <1>2, <1>3

(* A handler that pushes stays on this side of s.once.                           *)
LEMMA PushKeepsControl ==
    ASSUME ControlInv, NEW h \in Handlers, Push(h) \/ Unblock(h)
    PROVE  ControlInv'
<1> USE StreamAssumption, ProcsAreNumbers DEF ControlInv, ControlTypes
<1>1. /\ pc[h] \in {"running", "blocked"}
      /\ UNCHANGED <<chClosed, done, once, ctxDone, reader>>
      /\ \E l \in {"running", "blocked", "panicked"} :
            pc' = [pc EXCEPT ![h] = l] /\ (l = "panicked" => chClosed)
  <2>1. CASE Push(h) /\ UNCHANGED pc
    <3>1. pc' = [pc EXCEPT ![h] = "running"]
        BY <2>1 DEF Push
    <3> QED
        BY <2>1, <3>1 DEF Push
  <2>2. CASE Push(h) /\ ~UNCHANGED pc
      BY <2>2 DEF Push, Goto
  <2>3. CASE Unblock(h)
      BY <2>3 DEF Unblock, Goto
  <2> QED
      BY <2>1, <2>2, <2>3
<1>2. PICK l \in {"running", "blocked", "panicked"} :
            pc' = [pc EXCEPT ![h] = l] /\ (l = "panicked" => chClosed)
    BY <1>1
<1>3. UNCHANGED <<caller, turn>>
    BY <1>1 DEF reader
<1>4. ControlTypes'
    BY <1>1, <1>2, <1>3
<1>5. Dispatched'
    BY <1>1, <1>2, <1>3 DEF Dispatched
<1>6. CancellerWaits'
    BY <1>1, <1>2, <1>3 DEF CancellerWaits
<1>7. OnceHolds'
    BY <1>1, <1>2 DEF OnceHolds, Closing
<1> QED
    BY <1>4, <1>5, <1>6, <1>7

(* Who finds s.once unused executes its Do; everybody else waits for its end.    *)
LEMMA EnterKeepsControl ==
    ASSUME ControlInv,
           Cancel \/ \E h \in Handlers : Complete(h, TRUE) \/ Complete(h, FALSE)
    PROVE  ControlInv'
<1> USE StreamAssumption, ProcsAreNumbers DEF ControlInv, ControlTypes, Goto
<1>1. PICK p \in Procs :
        /\ pc[p] = "running"
        /\ UNCHANGED <<chClosed, done, ctxDone, caller, turn>>
        /\ \/ once = "unused" /\ once' = "executing" /\ pc' = [pc EXCEPT ![p] = "finishing"]
           \/ /\ once = "unused" /\ once' = "executing" /\ pc' = [pc EXCEPT ![p] = "failing"]
              /\ p \in Handlers
           \/ once # "unused" /\ once' = once /\ pc' = [pc EXCEPT ![p] = "waiting"]
    BY DEF Cancel, Complete, reader
<1>2. ControlTypes'
    BY <1>1
<1>3. Dispatched'
    BY <1>1 DEF Dispatched
<1>4. CancellerWaits'
    BY <1>1 DEF CancellerWaits
<1>5. OnceHolds'
  <2>1. CASE once = "unused"
    <3>1. \A q \in Procs : ~Closing(q)
        BY <2>1 DEF OnceHolds
    <3>2. Closing(p)' /\ \A q \in Procs : Closing(q)' => q = p
        BY <1>1, <2>1, <3>1 DEF Closing
    <3>3. ~done /\ ~chClosed
        BY <2>1 DEF OnceHolds
    <3> QED
        BY <1>1, <2>1, <3>1, <3>2, <3>3 DEF OnceHolds
  <2>2. CASE once # "unused"
      BY <1>1, <2>2 DEF OnceHolds, Closing
  <2> QED
      BY <2>1, <2>2
<1> QED
    BY <1>2, <1>3, <1>4, <1>5

(* When s.ch is closed, s.done has woken whoever waited in push.                 *)
LEMMA NobodyStranded ==
    ASSUME ControlInv, NEW p \in Procs, CloseChannel(p)
    PROVE  pc' = [pc EXCEPT ![p] = After(p)]
    BY DEF ControlInv, ControlTypes, OnceHolds, CloseChannel, Stranded, Ended

(* The Do itself: the error item, the two channels, and its end.                 *)
LEMMA CloseKeepsControl ==
    ASSUME ControlInv,
           \/ \E h \in Handlers : SendError(h)
           \/ \E p \in Procs : Finish(p)
    PROVE  ControlInv'
<1> USE StreamAssumption, ProcsAreNumbers DEF ControlInv, ControlTypes, Goto, reader, channel
<1>1. ASSUME NEW h \in Handlers, SendError(h) PROVE ControlInv'
  <2>1. ControlTypes'
      BY <1>1 DEF SendError
  <2>2. Dispatched'
      BY <1>1 DEF SendError, Dispatched
  <2>3. CancellerWaits'
      BY <1>1 DEF SendError, CancellerWaits
  <2>4. OnceHolds'
      BY <1>1 DEF SendError, OnceHolds, Closing
  <2> QED
      BY <2>1, <2>2, <2>3, <2>4
<1>2. ASSUME NEW p \in Procs, CloseDone(p) PROVE ControlInv'
  <2>1. ~done /\ Closing(p) /\ once = "executing" /\ pc' = [pc EXCEPT ![p] = "closing"]
      BY <1>2 DEF CloseDone, OnceHolds, Closing
  <2>2. ControlTypes'
      BY <1>2, <2>1 DEF CloseDone
  <2>3. Dispatched'
      BY <1>2, <2>1 DEF CloseDone, Dispatched
  <2>4. CancellerWaits'
      BY <1>2, <2>1 DEF CloseDone, CancellerWaits
  <2>5. OnceHolds'
      BY <1>2, <2>1 DEF CloseDone, OnceHolds, Closing
  <2> QED
      BY <2>2, <2>3, <2>4, <2>5
<1>3. ASSUME NEW p \in Procs, CloseChannel(p) PROVE ControlInv'
  <2>0. pc' = [pc EXCEPT ![p] = After(p)]
      BY <1>3, NobodyStranded
  <2>1. /\ Closing(p) /\ once = "executing" /\ done
        /\ \A q \in Procs : Closing(q) => q = p
        /\ pc' = [pc EXCEPT ![p] = After(p)]
        /\ After(p) \in {"returned", "running"}
        /\ p = Canceller => After(p) = "returned"
        /\ p # Canceller => After(p) = "running"
      BY <1>3, <2>0 DEF CloseChannel, OnceHolds, Closing, After
  <2> HIDE DEF After
  <2>2. ControlTypes'
      BY <1>3, <2>1 DEF CloseChannel
  <2>3. Dispatched'
      BY <1>3, <2>1 DEF CloseChannel, Dispatched
  <2>4. CancellerWaits'
      BY <1>3, <2>1 DEF CloseChannel, CancellerWaits
  <2>5. OnceHolds'
      BY <1>3, <2>1 DEF CloseChannel, OnceHolds, Closing
  <2> QED
      BY <2>2, <2>3, <2>4, <2>5
<1>4. ASSUME NEW p \in Procs, OnceOver(p) PROVE ControlInv'
  <2>1. /\ pc[p] = "waiting" /\ once = "used"
        /\ pc' = [pc EXCEPT ![p] = After(p)]
        /\ After(p) \in {"returned", "running"}
        /\ p = Canceller => After(p) = "returned"
        /\ p # Canceller => After(p) = "running"
      BY <1>4 DEF OnceOver, After
  <2> HIDE DEF After
  <2>2. ControlTypes'
      BY <1>4, <2>1 DEF OnceOver
  <2>3. Dispatched'
      BY <1>4, <2>1 DEF OnceOver, Dispatched
  <2>4. CancellerWaits'
      BY <1>4, <2>1 DEF OnceOver, CancellerWaits
  <2>5. OnceHolds'
      BY <1>4, <2>1 DEF OnceOver, OnceHolds, Closing
  <2> QED
      BY <2>2, <2>3, <2>4, <2>5
<1> QED
    BY <1>1, <1>2, <1>3, <1>4 DEF Finish

LEMMA ControlKeeps == ControlInv /\ [Next]_vars => ControlInv'
<1> SUFFICES ASSUME ControlInv, [Next]_vars PROVE ControlInv'
    OBVIOUS
<1>1. CASE Receive \/ ReceiveEnd \/ Leave
  <2>1. /\ UNCHANGED <<turn, pc, chClosed, done, once, ctxDone>>
        /\ caller = "reading" /\ caller' \in {"reading", "ended", "left"}
      BY <1>1 DEF Receive, ReceiveEnd, Leave, channel
  <2> QED
      BY <2>1 DEF ControlInv, ControlTypes, Dispatched, CancellerWaits, OnceHolds, Closing
<1>2. CASE ContextEnds \/ UNCHANGED vars
  <2>1. /\ UNCHANGED <<caller, turn, pc, chClosed, done, once>>
        /\ ctxDone' = TRUE \/ ctxDone' = ctxDone
      BY <1>2 DEF ContextEnds, vars, channel, reader
  <2> QED
      BY <2>1 DEF ControlInv, ControlTypes, Dispatched, CancellerWaits, OnceHolds, Closing
<1> QED
    BY <1>1, <1>2, DispatchKeeps, PushKeepsControl, EnterKeepsControl, CloseKeepsControl
    DEF Next, Handler

-------------------------------------------------------------------------------
(* The items.                                                                    *)

DataTypes ==
    /\ pushed \in [Handlers -> 0..MaxItems] /\ accepted \in [Handlers -> 0..MaxItems]
    /\ ch \in Seq(Items) /\ Len(ch) <= Capacity
    /\ received \in Seq(Items)

(* Who waits for room has an item left.                                          *)
BlockedHasItem == \A h \in Handlers : pc[h] = "blocked" => pushed[h] < MaxItems

(* The positions of a handler's items in what has been delivered; that these    *)
(* items are among the first m, in order; and that they are all of them.         *)
ItemsIn(D, h) == {i \in 1..Len(D) : D[i].by = h /\ D[i].item # Error}

InOrder(D, h, m) ==
    /\ \A i \in ItemsIn(D, h) : D[i].item \in 1..m
    /\ \A i, j \in ItemsIn(D, h) : i < j => D[i].item < D[j].item

AllOf(D, h, m) == \A k \in 1..m : \E i \in ItemsIn(D, h) : D[i].item = k

DataInv ==
    /\ DataTypes
    /\ BlockedHasItem
    /\ \A h \in Handlers :
        /\ InOrder(Delivered, h, pushed[h])
        /\ AllOf(Delivered, h, accepted[h])
        /\ ~Ended => accepted[h] = pushed[h]

(* The consumer's loop ends at the end of the channel.                           *)
ReadToTheEnd == caller = "ended" => chClosed /\ ch = <<>>

(* A send puts its item behind all that has been delivered.                      *)
LEMMA SendAppends ==
    ASSUME DataTypes, NEW x \in Items, ch' = Append(ch, x), received' = received
    PROVE  /\ Delivered' \in Seq(Items)
           /\ Len(Delivered') = Len(Delivered) + 1
           /\ \A i \in 1..Len(Delivered) : Delivered'[i] = Delivered[i]
           /\ Delivered'[Len(Delivered) + 1] = x
<1> USE DEF DataTypes, Delivered
<1>1. ch' \in Seq(Items) /\ Len(ch') = Len(ch) + 1
    OBVIOUS
<1>2. /\ \A i \in 1..Len(ch) : ch'[i] = ch[i]
      /\ ch'[Len(ch) + 1] = x
    OBVIOUS
<1>3. /\ Len(received \o ch) = Len(received) + Len(ch)
      /\ \A i \in 1..(Len(received) + Len(ch)) :
            (received \o ch)[i] = IF i <= Len(received) THEN received[i] ELSE ch[i - Len(received)]
    BY ConcatProperties
<1>4. /\ received \o ch' \in Seq(Items)
      /\ Len(received \o ch') = Len(received) + Len(ch')
      /\ \A i \in 1..(Len(received) + Len(ch')) :
            (received \o ch')[i] = IF i <= Len(received) THEN received[i] ELSE ch'[i - Len(received)]
    BY <1>1, ConcatProperties
<1> QED
    BY <1>1, <1>2, <1>3, <1>4

(* Reading moves an item from the channel to what has been read.                 *)
LEMMA ReceiveMoves ==
    ASSUME DataTypes, Receive
    PROVE  DataTypes' /\ Delivered' = Delivered
<1> USE DEF DataTypes, Delivered, Receive, items
<1>1. Head(ch) \in Items /\ Tail(ch) \in Seq(Items) /\ Len(Tail(ch)) = Len(ch) - 1
    BY HeadTailProperties
<1>2. ch = <<Head(ch)>> \o Tail(ch)
    BY <1>1
<1>3. Append(received, Head(ch)) = received \o <<Head(ch)>>
    BY <1>1, AppendIsConcat
<1>4. received' \in Seq(Items)
    BY <1>1
<1>5. (received \o <<Head(ch)>>) \o Tail(ch) = received \o (<<Head(ch)>> \o Tail(ch))
    BY <1>1, ConcatAssociative
<1>6. Len(ch') <= Capacity
    BY <1>1, StreamAssumption
<1> QED
    BY <1>1, <1>2, <1>3, <1>4, <1>5, <1>6

LEMMA DeliveredItems ==
    ASSUME DataTypes
    PROVE  \A i \in 1..Len(Delivered) : Delivered[i].by \in Handlers
<1>1. Delivered \in Seq(Items)
    BY DEF DataTypes, Delivered
<1>2. \A x \in Items : x.by \in Handlers
    BY DEF Items
<1> QED
    BY <1>1, <1>2

LEMMA InitData == Init => DataInv
<1> SUFFICES ASSUME Init PROVE DataInv
    OBVIOUS
<1> USE StreamAssumption DEF Init
<1>1. DataTypes
    BY DEF DataTypes
<1>2. Delivered = <<>> /\ Len(Delivered) = 0
    BY DEF Delivered
<1>3. BlockedHasItem
    BY ProcsAreNumbers DEF BlockedHasItem
<1>4. \A h \in Handlers : /\ InOrder(Delivered, h, pushed[h]) /\ AllOf(Delivered, h, accepted[h])
                         /\ accepted[h] = pushed[h]
    BY <1>2 DEF InOrder, AllOf, ItemsIn
<1> QED
    BY <1>1, <1>3, <1>4 DEF DataInv

(* The invariant gives the property.                                             *)
LEMMA InvLosesNothing == DataInv /\ ReadToTheEnd => NothingIsLost
<1> SUFFICES ASSUME DataInv, ReadToTheEnd, NEW h \in Handlers
             PROVE  /\ \A k \in 1..accepted[h] : \E i \in Positions(h) :
                          Delivered[i].item = k /\ (caller = "ended" => i \in 1..Len(received))
                    /\ \A i, j \in Positions(h) :
                          i < j => Delivered[i].item < Delivered[j].item
    BY DEF NothingIsLost
<1>1. Positions(h) = ItemsIn(Delivered, h)
    BY DEF Positions, ItemsIn
<1>2. InOrder(Delivered, h, pushed[h]) /\ AllOf(Delivered, h, accepted[h])
    BY DEF DataInv
<1>3. caller = "ended" => \A i \in Positions(h) : i \in 1..Len(received)
  <2>1. caller = "ended" => Delivered = received
      BY DEF ReadToTheEnd, DataInv, DataTypes, Delivered
  <2> QED
      BY <2>1 DEF Positions
<1> QED
    BY <1>1, <1>2, <1>3 DEF InOrder, AllOf

(* What has been delivered stays delivered.                                      *)
LEMMA AppendKeepsAll ==
    ASSUME NEW D \in Seq(Items), NEW E \in Seq(Items), Len(E) = Len(D) + 1,
           \A i \in 1..Len(D) : E[i] = D[i],
           NEW h, NEW m, AllOf(D, h, m)
    PROVE  AllOf(E, h, m)
<1>1. \A i \in ItemsIn(D, h) : i \in ItemsIn(E, h) /\ E[i] = D[i]
    BY DEF ItemsIn
<1> QED
    BY <1>1 DEF AllOf

(* The next item of a handler, or an item of somebody else, behind a sequence.   *)
LEMMA OwnItem ==
    ASSUME NEW D \in Seq(Items), NEW E \in Seq(Items), Len(E) = Len(D) + 1,
           \A i \in 1..Len(D) : E[i] = D[i],
           NEW h \in Handlers, NEW m \in Nat,
           E[Len(D) + 1].by = h, E[Len(D) + 1].item = m + 1
    PROVE  /\ InOrder(D, h, m) => InOrder(E, h, m + 1)
           /\ AllOf(D, h, m) => AllOf(E, h, m + 1)
<1> DEFINE n == Len(D)
<1>1. n \in Nat /\ n + 1 \in 1..Len(E)
    OBVIOUS
<1>2. \A i \in ItemsIn(E, h) : i \in ItemsIn(D, h) \/ i = n + 1
    BY DEF ItemsIn
<1>3. \A i \in ItemsIn(D, h) : /\ i \in ItemsIn(E, h) /\ E[i] = D[i]
                               /\ i \in Nat /\ i < n + 1
    BY DEF ItemsIn
<1>4. n + 1 \in ItemsIn(E, h)
    BY <1>1 DEF ItemsIn, Error
<1>5. E[n + 1].item = m + 1
    OBVIOUS
<1> HIDE DEF n
<1>6. ASSUME InOrder(D, h, m) PROVE InOrder(E, h, m + 1)
  <2>1. \A i \in ItemsIn(D, h) : D[i].item \in 1..m
      BY <1>6 DEF InOrder
  <2>2. \A i \in ItemsIn(E, h) : E[i].item \in 1..(m + 1)
      BY <1>2, <1>3, <1>5, <2>1
  <2>3. ASSUME NEW i \in ItemsIn(E, h), NEW j \in ItemsIn(E, h), i < j
        PROVE  E[i].item < E[j].item
    <3>1. i \in ItemsIn(D, h)
        BY <1>1, <1>2, <1>3, <2>3
    <3>2. CASE j \in ItemsIn(D, h)
        BY <1>3, <1>6, <2>3, <3>1, <3>2 DEF InOrder
    <3>3. CASE j = n + 1
      <4>1. E[i] = D[i] /\ D[i].item \in 1..m
          BY <1>3, <2>1, <3>1
      <4>2. E[i].item \in 1..m
          BY <4>1
      <4>3. E[j].item = m + 1
          BY <1>5, <3>3
      <4> QED
          BY <4>2, <4>3
    <3> QED
        BY <1>2, <3>2, <3>3
  <2> QED
      BY <2>2, <2>3 DEF InOrder
<1>7. ASSUME AllOf(D, h, m) PROVE AllOf(E, h, m + 1)
  <2> SUFFICES ASSUME NEW k \in 1..(m + 1)
               PROVE  \E i \in ItemsIn(E, h) : E[i].item = k
      BY DEF AllOf
  <2>1. CASE k = m + 1
      BY <1>4, <1>5, <2>1
  <2>2. CASE k \in 1..m
    <3>1. PICK i \in ItemsIn(D, h) : D[i].item = k
        BY <1>7, <2>2 DEF AllOf
    <3> QED
        BY <1>3, <3>1
  <2> QED
      BY <2>1, <2>2
<1> QED
    BY <1>6, <1>7

LEMMA OthersItem ==
    ASSUME NEW D \in Seq(Items), NEW E \in Seq(Items), Len(E) = Len(D) + 1,
           \A i \in 1..Len(D) : E[i] = D[i],
           NEW h \in Handlers, NEW m \in Nat,
           E[Len(D) + 1].by # h \/ E[Len(D) + 1].item = Error
    PROVE  InOrder(D, h, m) => InOrder(E, h, m)
<1>1. /\ ItemsIn(E, h) = ItemsIn(D, h)
      /\ \A i \in ItemsIn(D, h) : E[i] = D[i]
    BY DEF ItemsIn
<1> QED
    BY <1>1 DEF InOrder

(* A handler whose item is not sent goes on as if it had been.                   *)
LEMMA SkippedItem ==
    ASSUME NEW D, NEW h, NEW m \in Nat, InOrder(D, h, m)
    PROVE  InOrder(D, h, m + 1)
    BY DEF InOrder

-------------------------------------------------------------------------------
(* The steps on the items.                                                       *)

(* An item that is sent is its handler's next.                                   *)
LEMMA SendKeepsData ==
    ASSUME DataInv, BlockedHasItem', NEW h \in Handlers, pushed[h] < MaxItems,
           Send(h), UNCHANGED <<received, done, ctxDone>>
    PROVE  DataInv'
<1> DEFINE x == [by |-> h, item |-> pushed[h] + 1]
<1> USE StreamAssumption DEF DataInv, DataTypes
<1>1. x \in Items /\ x.by = h /\ x.item = pushed[h] + 1 /\ x.item # Error
    BY DEF Items, Error
<1>2. ch' = Append(ch, x)
    BY DEF Send
<1> HIDE DEF x
<1>3. DataTypes'
  <2>1. ch' \in Seq(Items) /\ Len(ch') = Len(ch) + 1
      BY <1>1, <1>2
  <2> QED
      BY <2>1 DEF Send, Room
<1>4. /\ Delivered' \in Seq(Items) /\ Delivered \in Seq(Items)
      /\ Len(Delivered') = Len(Delivered) + 1
      /\ \A i \in 1..Len(Delivered) : Delivered'[i] = Delivered[i]
      /\ Delivered'[Len(Delivered) + 1] = x
    BY <1>1, <1>2, SendAppends DEF Delivered
<1>5. /\ pushed[h] \in Nat /\ pushed'[h] = pushed[h] + 1
      /\ \A g \in Handlers \ {h} : pushed'[g] = pushed[g] /\ pushed[g] \in Nat
    BY DEF Send
<1>6. /\ accepted'[h] = IF Ended THEN accepted[h] ELSE pushed[h] + 1
      /\ \A g \in Handlers \ {h} : accepted'[g] = accepted[g]
    BY DEF Send
<1>7. Ended' = Ended
    BY DEF Ended
<1>8. ASSUME NEW g \in Handlers
      PROVE  /\ InOrder(Delivered', g, pushed'[g])
             /\ AllOf(Delivered', g, accepted'[g])
             /\ ~Ended' => accepted'[g] = pushed'[g]
  <2>1. /\ InOrder(Delivered, g, pushed[g]) /\ AllOf(Delivered, g, accepted[g])
        /\ ~Ended => accepted[g] = pushed[g]
      OBVIOUS
  <2> HIDE DEF DataInv, DataTypes
  <2>2. CASE g = h
    <3>1. /\ Delivered'[Len(Delivered) + 1].by = h
          /\ Delivered'[Len(Delivered) + 1].item = pushed[h] + 1
        BY <1>1, <1>4
    <3>2. /\ InOrder(Delivered, h, pushed[h]) => InOrder(Delivered', h, pushed[h] + 1)
          /\ AllOf(Delivered, h, pushed[h]) => AllOf(Delivered', h, pushed[h] + 1)
        BY <1>4, <1>5, <3>1, OwnItem
    <3>3. AllOf(Delivered', h, accepted[h])
        BY <1>4, <2>1, <2>2, AppendKeepsAll
    <3> QED
        BY <1>5, <1>6, <1>7, <2>1, <2>2, <3>2, <3>3
  <2>3. CASE g # h
    <3>1. Delivered'[Len(Delivered) + 1].by # g
        BY <1>1, <1>4, <2>3
    <3>2. pushed'[g] = pushed[g] /\ pushed[g] \in Nat /\ accepted'[g] = accepted[g]
        BY <1>5, <1>6, <2>3
    <3>3. InOrder(Delivered, g, pushed[g]) => InOrder(Delivered', g, pushed[g])
        BY <1>4, <3>1, <3>2, OthersItem
    <3>4. AllOf(Delivered', g, accepted[g])
        BY <1>4, <2>1, AppendKeepsAll
    <3> QED
        BY <1>7, <2>1, <3>2, <3>3, <3>4
  <2> QED
      BY <2>2, <2>3
<1> QED
    BY <1>3, <1>8

(* An item that done or the context turns away.                                  *)
LEMMA SkipKeepsData ==
    ASSUME DataInv, BlockedHasItem', NEW h \in Handlers, pushed[h] < MaxItems,
           TurnAway(h), UNCHANGED <<received, done, ctxDone>>
    PROVE  DataInv'
<1> USE StreamAssumption DEF DataInv, TurnAway
<1>1. DataTypes'
    BY DEF DataTypes
<1>2. Delivered' = Delivered /\ Ended'
    BY DEF Delivered, Ended
<1>3. ASSUME NEW g \in Handlers
      PROVE  InOrder(Delivered', g, pushed'[g]) /\ AllOf(Delivered', g, accepted'[g])
  <2>1. pushed[g] \in Nat /\ pushed'[g] = IF g = h THEN pushed[g] + 1 ELSE pushed[g]
      BY DEF DataTypes
  <2>2. InOrder(Delivered, g, pushed[g]) /\ AllOf(Delivered, g, accepted[g])
      OBVIOUS
  <2> QED
      BY <1>2, <2>1, <2>2, SkippedItem
<1> QED
    BY <1>1, <1>2, <1>3

(* The error item is nobody's.                                                   *)
LEMMA ErrorKeepsData ==
    ASSUME DataInv, BlockedHasItem', NEW h \in Handlers, Room,
           ch' = Append(ch, [by |-> h, item |-> Error]),
           UNCHANGED <<received, pushed, accepted, done, ctxDone>>
    PROVE  DataInv'
<1> DEFINE x == [by |-> h, item |-> Error]
<1> USE StreamAssumption DEF DataInv, DataTypes
<1>1. x \in Items /\ x.item = Error /\ ch' = Append(ch, x)
    BY DEF Items
<1> HIDE DEF x
<1>2. DataTypes'
  <2>1. ch' \in Seq(Items) /\ Len(ch') = Len(ch) + 1
      BY <1>1
  <2> QED
      BY <2>1 DEF Room
<1>3. /\ Delivered' \in Seq(Items) /\ Delivered \in Seq(Items)
      /\ Len(Delivered') = Len(Delivered) + 1
      /\ \A i \in 1..Len(Delivered) : Delivered'[i] = Delivered[i]
      /\ Delivered'[Len(Delivered) + 1] = x
    BY <1>1, SendAppends DEF Delivered
<1>4. Ended' = Ended
    BY DEF Ended
<1>5. ASSUME NEW g \in Handlers
      PROVE  InOrder(Delivered', g, pushed[g]) /\ AllOf(Delivered', g, accepted[g])
  <2>1. InOrder(Delivered, g, pushed[g]) /\ AllOf(Delivered, g, accepted[g]) /\ pushed[g] \in Nat
      OBVIOUS
  <2>2. Delivered'[Len(Delivered) + 1].item = Error
      BY <1>1, <1>3
  <2> HIDE DEF DataInv, DataTypes
  <2>3. InOrder(Delivered, g, pushed[g]) => InOrder(Delivered', g, pushed[g])
      BY <1>3, <2>1, <2>2, OthersItem
  <2>4. AllOf(Delivered', g, accepted[g])
      BY <1>3, <2>1, AppendKeepsAll
  <2> QED
      BY <2>1, <2>3, <2>4
<1> QED
    BY <1>2, <1>4, <1>5

(* A step that pushes nothing.                                                   *)
LEMMA SameItemsKeep ==
    ASSUME DataInv, DataTypes', BlockedHasItem',
           Delivered' = Delivered, UNCHANGED items, ~Ended' => ~Ended
    PROVE  DataInv'
    BY DEF DataInv, items

LEMMA DataKeeps == ControlInv /\ DataInv /\ [Next]_vars => DataInv'
<1> SUFFICES ASSUME ControlInv, DataInv, [Next]_vars PROVE DataInv'
    OBVIOUS
<1> USE ProcsAreNumbers
<1>1. ControlInv'
    BY ControlKeeps
<1>2. CASE \E h \in Handlers : Push(h) \/ Unblock(h)
  <2> SUFFICES ASSUME NEW h \in Handlers, Push(h) \/ Unblock(h) PROVE DataInv'
      BY <1>2
  <2>1. /\ UNCHANGED <<received, done, ctxDone>>
        /\ pushed[h] < MaxItems
      BY DEF Push, Unblock, reader, DataInv, BlockedHasItem
  <2>2. /\ \/ Send(h) /\ pc'[h] # "blocked"
           \/ TurnAway(h) /\ pc'[h] # "blocked"
           \/ UNCHANGED <<ch, items>>
        /\ \A g \in Handlers : g # h => pc'[g] = pc[g]
      BY DEF Push, Unblock, Goto, ControlInv, ControlTypes
  <2>3. BlockedHasItem'
    <3> SUFFICES ASSUME NEW g \in Handlers, pc'[g] = "blocked" PROVE pushed'[g] < MaxItems
        BY DEF BlockedHasItem
    <3>1. CASE g = h
        BY <2>1, <2>2, <3>1 DEF items
    <3>2. CASE g # h
        BY <2>2, <3>2 DEF Send, TurnAway, items, DataInv, DataTypes, BlockedHasItem
    <3> QED
        BY <3>1, <3>2
  <2>4. CASE Send(h)
      BY <2>1, <2>3, <2>4, SendKeepsData
  <2>5. CASE TurnAway(h)
      BY <2>1, <2>3, <2>5, SkipKeepsData
  <2>6. CASE UNCHANGED <<ch, items>>
    <3>1. DataTypes' /\ Delivered' = Delivered /\ Ended' = Ended
        BY <2>1, <2>6 DEF DataInv, DataTypes, Delivered, Ended, items
    <3> QED
        BY <2>3, <2>6, <3>1, SameItemsKeep
  <2> QED
      BY <2>2, <2>4, <2>5, <2>6
<1>3. CASE \E h \in Handlers : SendError(h)
  <2> SUFFICES ASSUME NEW h \in Handlers, SendError(h) PROVE DataInv'
      BY <1>3
  <2>1. UNCHANGED <<received, items, done, ctxDone>> /\ Goto(h, "finishing")
      BY DEF SendError, reader
  <2>2. BlockedHasItem'
      BY <2>1 DEF Goto, items, ControlInv, ControlTypes, DataInv, BlockedHasItem
  <2>3. CASE Room /\ ch' = Append(ch, [by |-> h, item |-> Error])
      BY <2>1, <2>2, <2>3, ErrorKeepsData DEF items
  <2>4. CASE UNCHANGED ch
    <3>1. DataTypes' /\ Delivered' = Delivered /\ Ended' = Ended
        BY <2>1, <2>4 DEF DataInv, DataTypes, Delivered, Ended, items
    <3> QED
        BY <2>1, <2>2, <3>1, SameItemsKeep
  <2> QED
      BY <2>3, <2>4 DEF SendError
<1>4. CASE Receive
  <2>1. DataTypes' /\ Delivered' = Delivered
      BY <1>4, ReceiveMoves DEF DataInv
  <2>2. BlockedHasItem' /\ UNCHANGED items /\ Ended' = Ended
      BY <1>4 DEF Receive, items, Ended, DataInv, BlockedHasItem
  <2> QED
      BY <2>1, <2>2, SameItemsKeep
<1>5. CASE \/ StartHandler \/ DispatchEnds \/ Cancel
           \/ \E h \in Handlers : HandlerReturns(h) \/ Complete(h, TRUE) \/ Complete(h, FALSE)
           \/ \E p \in Procs : Finish(p)
  <2>1. /\ UNCHANGED <<ch, received, items, ctxDone>>
        /\ done => done'
        /\ \E p \in Procs, l \in {"running", "returned", "finishing", "failing", "waiting",
                                  "closing", "panicked"} :
              pc' = [pc EXCEPT ![p] = l]
    <3>1. CASE StartHandler \/ DispatchEnds \/ \E h \in Handlers : HandlerReturns(h)
      <4>1. CASE StartHandler
          BY <4>1 DEF StartHandler, Goto, channel, reader
      <4>2. CASE DispatchEnds
          BY <4>2 DEF DispatchEnds, Goto, channel, reader
      <4>3. ASSUME NEW h \in Handlers, HandlerReturns(h)
            PROVE  /\ UNCHANGED <<ch, received, items, ctxDone, done>>
                   /\ h \in Procs /\ pc' = [pc EXCEPT ![h] = "returned"]
          BY <4>3 DEF HandlerReturns, Goto, channel
      <4> QED
          BY <3>1, <4>1, <4>2, <4>3
    <3>2. CASE Cancel \/ \E h \in Handlers : Complete(h, TRUE) \/ Complete(h, FALSE)
        BY <3>2 DEF Cancel, Complete, Goto, reader
    <3>3. ASSUME NEW p \in Procs, CloseDone(p) \/ OnceOver(p)
          PROVE  /\ UNCHANGED <<ch, received, items, ctxDone>> /\ (done => done')
                 /\ \E l \in {"closing", "panicked", "returned", "running"} :
                       pc' = [pc EXCEPT ![p] = l]
        BY <3>3 DEF CloseDone, OnceOver, After, Goto, reader, channel
    <3>4. ASSUME NEW p \in Procs, CloseChannel(p)
          PROVE  /\ UNCHANGED <<ch, received, items, ctxDone, done>>
                 /\ \E l \in {"returned", "running"} : pc' = [pc EXCEPT ![p] = l]
        BY <3>4, NobodyStranded DEF CloseChannel, After, reader
    <3> QED
        BY <1>5, <3>1, <3>2, <3>3, <3>4 DEF Finish
  <2>2. BlockedHasItem'
      BY <2>1 DEF items, ControlInv, ControlTypes, DataInv, BlockedHasItem
  <2>3. DataTypes' /\ Delivered' = Delivered
      BY <2>1 DEF items, DataInv, DataTypes, Delivered
  <2>4. ~Ended' => ~Ended
      BY <1>1, <2>1 DEF ControlInv, ControlTypes, Ended
  <2> QED
      BY <2>1, <2>2, <2>3, <2>4, SameItemsKeep
<1>6. CASE ReceiveEnd \/ Leave \/ ContextEnds \/ UNCHANGED vars
  <2>1. /\ UNCHANGED <<ch, received, items, pc, done>>
        /\ ~ctxDone' => ~ctxDone
      BY <1>6 DEF ReceiveEnd, Leave, ContextEnds, vars, items, channel, reader
  <2>2. BlockedHasItem' /\ DataTypes' /\ Delivered' = Delivered /\ (~Ended' => ~Ended)
      BY <2>1 DEF items, DataInv, DataTypes, BlockedHasItem, Delivered, Ended
  <2> QED
      BY <2>1, <2>2, SameItemsKeep
<1> QED
    BY <1>2, <1>3, <1>4, <1>5, <1>6 DEF Next, Handler

(* What is closed stays closed, and nothing is sent on it.                       *)
LEMMA EndKeeps == ControlInv /\ ReadToTheEnd /\ [Next]_vars => ReadToTheEnd'
<1> SUFFICES ASSUME ControlInv, ReadToTheEnd, [Next]_vars, caller' = "ended"
             PROVE  chClosed' /\ ch' = <<>>
    BY DEF ReadToTheEnd
<1>1. CASE \E h \in Handlers : Push(h) \/ Unblock(h) \/ SendError(h)
    BY <1>1 DEF Push, Unblock, SendError, Send, TurnAway, Room, reader, ReadToTheEnd
<1>2. CASE \/ StartHandler \/ DispatchEnds \/ Cancel
           \/ \E h \in Handlers : HandlerReturns(h) \/ Complete(h, TRUE) \/ Complete(h, FALSE)
    BY <1>2 DEF StartHandler, DispatchEnds, Cancel, HandlerReturns, Complete, channel, reader,
                ReadToTheEnd
<1>3. CASE \E p \in Procs : Finish(p)
    BY <1>3 DEF Finish, CloseDone, CloseChannel, OnceOver, channel, reader, ReadToTheEnd
<1>4. CASE Receive \/ ReceiveEnd \/ Leave \/ ContextEnds \/ UNCHANGED vars
    BY <1>4 DEF Receive, ReceiveEnd, Leave, ContextEnds, vars, channel, reader, ReadToTheEnd
<1> QED
    BY <1>1, <1>2, <1>3, <1>4 DEF Next, Handler

(* Every variable has its type in every reachable state.                         *)
THEOREM TypeCorrect == Spec => []TypeOK
<1>1. ControlInv /\ DataInv => TypeOK
    BY DEF ControlInv, ControlTypes, DataInv, DataTypes, TypeOK
<1> QED
    BY <1>1, InitControl, InitData, ControlKeeps, DataKeeps, PTL DEF Spec

(* Backpressure loses nothing, whatever the number of listeners and the room of  *)
(* the channel: every item pushed before the stream was ended is in the channel  *)
(* or has been read, and has been read when the consumer's loop is over; and a   *)
(* handler's items arrive in its order.                                          *)
THEOREM NothingLost == Spec => []NothingIsLost
<1>1. Init => ReadToTheEnd
    BY DEF Init, ReadToTheEnd
<1> QED
    BY <1>1, InvLosesNothing, InitControl, InitData, ControlKeeps, DataKeeps, EndKeeps, PTL DEF Spec

-------------------------------------------------------------------------------
(* Who panics.                                                                   *)

LEMMA OnlyLatePush ==
    ASSUME ControlInv, [Next]_vars, NEW p \in Procs, pc'[p] = "panicked", pc[p] # "panicked"
    PROVE  pc[p] = "running" /\ chClosed
<1> USE ProcsAreNumbers DEF ControlInv, ControlTypes, Goto
<1>1. CASE \E h \in Handlers : Push(h)
    BY <1>1 DEF Push
<1>2. CASE \E h \in Handlers : Unblock(h) \/ SendError(h) \/ HandlerReturns(h)
    BY <1>2 DEF Unblock, SendError, HandlerReturns
<1>3. CASE Cancel \/ \E h \in Handlers : Complete(h, TRUE) \/ Complete(h, FALSE)
    BY <1>3 DEF Cancel, Complete
<1>4. CASE \E q \in Procs : CloseDone(q)
    BY <1>4 DEF CloseDone, OnceHolds
<1>5. CASE \E q \in Procs : CloseChannel(q)
    BY <1>5, NobodyStranded DEF After
<1>6. CASE \E q \in Procs : OnceOver(q)
    BY <1>6 DEF OnceOver, After
<1>7. CASE StartHandler \/ DispatchEnds
    BY <1>7 DEF StartHandler, DispatchEnds
<1>8. CASE Receive \/ ReceiveEnd \/ Leave \/ ContextEnds \/ UNCHANGED vars
    BY <1>8 DEF Receive, ReceiveEnd, Leave, ContextEnds, vars
<1> QED
    BY <1>1, <1>2, <1>3, <1>4, <1>5, <1>6, <1>7, <1>8 DEF Next, Handler, Finish

(* However many goroutines push, complete and cancel: no channel is closed       *)
(* twice, and the close of s.ch catches nobody that waits in push.               *)
THEOREM OnlyLatePushesPanic == Spec => OnlyLatePushPanics
<1>1. ControlInv /\ [Next]_vars =>
        [\A p \in Procs :
            pc'[p] = "panicked" => pc[p] = "panicked" \/ (pc[p] = "running" /\ chClosed)]_vars
    BY OnlyLatePush
<1> QED
    BY <1>1, InitControl, ControlKeeps, PTL DEF Spec, OnlyLatePushPanics

-------------------------------------------------------------------------------
(* The error item.                                                               *)

(* Who has sent an error closes s.ch next.                                       *)
ErrorEnds ==
    \A i \in 1..Len(Delivered) :
        Delivered[i].item = Error =>
            chClosed \/ pc[Delivered[i].by] \in {"finishing", "closing"}

ErrorInv == ErrorIsLast /\ ErrorEnds

(* Behind an error, and before the close, only another listener pushes, and one  *)
(* of the two from a goroutine of its own: the dispatch waits for the others.    *)
LEMMA WhoSendsBehind ==
    ASSUME ControlInv, DataTypes, ErrorEnds, Room, NEW i \in 1..Len(Delivered), Delivered[i].item = Error,
           NEW h \in Handlers, pc[h] \in {"running", "blocked", "failing"}
    PROVE  /\ pc[h] # "failing" /\ h # Delivered[i].by
           /\ Delivered[i].by \in Async \/ h \in Async
<1> DEFINE e == Delivered[i].by
<1>1. e \in Handlers /\ pc[e] \in {"finishing", "closing"}
    BY DeliveredItems DEF ErrorEnds, Room
<1> HIDE DEF e
<1>2. pc[h] # "failing" /\ h # e
    BY <1>1, ProcsAreNumbers DEF ControlInv, OnceHolds, Closing
<1>3. \A g \in Handlers : g \notin Async /\ pc[g] \notin {"idle", "returned"} => g = turn
    BY StreamAssumption DEF ControlInv, ControlTypes, Dispatched, Handlers
<1> QED
    BY <1>1, <1>2, <1>3 DEF e

LEMMA SendBehindError ==
    ASSUME DataTypes, ErrorIsLast, NEW x \in Items, ch' = Append(ch, x), UNCHANGED received,
           \A i \in 1..Len(Delivered) : Delivered[i].item = Error =>
                /\ x.item # Error /\ x.by # Delivered[i].by
                /\ Delivered[i].by \in Async \/ x.by \in Async
    PROVE  /\ ErrorIsLast'
           /\ \A i \in 1..Len(Delivered') :
                \/ i \in 1..Len(Delivered) /\ Delivered'[i] = Delivered[i]
                \/ Delivered'[i] = x
<1>1. /\ Delivered' \in Seq(Items) /\ Delivered \in Seq(Items)
      /\ Len(Delivered') = Len(Delivered) + 1
      /\ \A i \in 1..Len(Delivered) : Delivered'[i] = Delivered[i]
      /\ Delivered'[Len(Delivered) + 1] = x
    BY SendAppends DEF Delivered, DataTypes
<1>2. \A i \in 1..Len(Delivered') : i \in 1..Len(Delivered) \/ i = Len(Delivered) + 1
    BY <1>1
<1>3. ASSUME NEW i \in 1..Len(Delivered'), NEW j \in 1..Len(Delivered'), i < j,
             Delivered'[i].item = Error
      PROVE  /\ Delivered'[j].item # Error /\ Delivered'[j].by # Delivered'[i].by
             /\ Delivered'[i].by \in Async \/ Delivered'[j].by \in Async
  <2>1. i \in 1..Len(Delivered) /\ Delivered'[i] = Delivered[i]
      BY <1>1, <1>3
  <2>2. CASE j \in 1..Len(Delivered)
      BY <1>1, <1>3, <2>1, <2>2 DEF ErrorIsLast
  <2>3. CASE j = Len(Delivered) + 1
      BY <1>1, <1>3, <2>1, <2>3
  <2> QED
      BY <1>2, <2>2, <2>3
<1>4. ErrorIsLast'
    BY <1>3 DEF ErrorIsLast
<1> QED
    BY <1>1, <1>2, <1>4

LEMMA ErrorKeeps == ControlInv /\ DataInv /\ ErrorInv /\ [Next]_vars => ErrorInv'
<1> SUFFICES ASSUME ControlInv, DataInv, ErrorInv, [Next]_vars PROVE ErrorInv'
    OBVIOUS
<1> USE ProcsAreNumbers
<1>1. CASE \E h \in Handlers : Push(h) \/ Unblock(h)
  <2> SUFFICES ASSUME NEW h \in Handlers, Push(h) \/ Unblock(h) PROVE ErrorInv'
      BY <1>1
  <2>1. /\ UNCHANGED <<received, chClosed>>
        /\ pc[h] \in {"running", "blocked"} /\ pushed[h] < MaxItems
        /\ \A g \in Handlers : pc[g] \in {"finishing", "closing"} => pc'[g] = pc[g]
      BY DEF Push, Unblock, Goto, reader, ControlInv, ControlTypes, DataInv, BlockedHasItem
  <2>2. CASE Send(h)
    <3> DEFINE x == [by |-> h, item |-> pushed[h] + 1]
    <3>1. x \in Items /\ x.item # Error /\ x.by = h /\ ch' = Append(ch, x)
        BY <2>1, <2>2, StreamAssumption DEF Send, Items, Error, DataInv, DataTypes
    <3> HIDE DEF x
    <3>2. \A i \in 1..Len(Delivered) : Delivered[i].item = Error =>
                /\ x.item # Error /\ x.by # Delivered[i].by
                /\ Delivered[i].by \in Async \/ x.by \in Async
        BY <2>1, <2>2, <3>1, WhoSendsBehind DEF Send, DataInv, ErrorInv
    <3>3. /\ ErrorIsLast'
          /\ \A i \in 1..Len(Delivered') :
                \/ i \in 1..Len(Delivered) /\ Delivered'[i] = Delivered[i]
                \/ Delivered'[i] = x
        BY <2>1, <3>1, <3>2, SendBehindError DEF DataInv, ErrorInv
    <3>4. \A i \in 1..Len(Delivered) : Delivered[i].by \in Handlers
        BY DeliveredItems DEF DataInv
    <3> QED
        BY <2>1, <3>1, <3>3, <3>4 DEF ErrorInv, ErrorEnds
  <2>3. CASE UNCHANGED ch
    <3>1. \A i \in 1..Len(Delivered) : Delivered[i].by \in Handlers
        BY DeliveredItems DEF DataInv
    <3>2. Delivered' = Delivered
        BY <2>1, <2>3 DEF Delivered
    <3> QED
        BY <2>1, <3>1, <3>2 DEF ErrorInv, ErrorEnds, ErrorIsLast
  <2> QED
      BY <2>2, <2>3 DEF Push, Unblock, TurnAway
<1>2. CASE \E h \in Handlers : SendError(h)
  <2> SUFFICES ASSUME NEW h \in Handlers, SendError(h) PROVE ErrorInv'
      BY <1>2
  <2>1. /\ UNCHANGED <<received, chClosed>> /\ pc[h] = "failing" /\ pc'[h] = "finishing"
        /\ \A g \in Handlers : pc[g] \in {"finishing", "closing"} => pc'[g] = pc[g]
      BY DEF SendError, Goto, reader, ControlInv, ControlTypes
  <2>2. \A i \in 1..Len(Delivered) : Delivered[i].by \in Handlers
      BY DeliveredItems DEF DataInv
  <2>3. CASE Room /\ ch' = Append(ch, [by |-> h, item |-> Error])
    <3> DEFINE x == [by |-> h, item |-> Error]
    <3>1. x \in Items /\ x.by = h /\ ch' = Append(ch, x)
        BY <2>3 DEF Items
    <3> HIDE DEF x
    <3>2. \A i \in 1..Len(Delivered) : Delivered[i].item # Error
        BY <2>1, <2>3, WhoSendsBehind DEF DataInv, ErrorInv
    <3>3. /\ ErrorIsLast'
          /\ \A i \in 1..Len(Delivered') :
                \/ i \in 1..Len(Delivered) /\ Delivered'[i] = Delivered[i]
                \/ Delivered'[i] = x
        BY <2>1, <3>1, <3>2, SendBehindError DEF DataInv, ErrorInv
    <3> QED
        BY <2>1, <3>1, <3>2, <3>3 DEF ErrorInv, ErrorEnds
  <2>4. CASE UNCHANGED ch
    <3>1. Delivered' = Delivered
        BY <2>1, <2>4 DEF Delivered
    <3> QED
        BY <2>1, <2>2, <3>1 DEF ErrorInv, ErrorEnds, ErrorIsLast
  <2> QED
      BY <2>3, <2>4 DEF SendError
<1>3. CASE Receive
  <2>1. Delivered' = Delivered
      BY <1>3, ReceiveMoves DEF DataInv
  <2> QED
      BY <1>3, <2>1 DEF Receive, ErrorInv, ErrorEnds, ErrorIsLast
<1>4. CASE \/ StartHandler \/ DispatchEnds \/ Cancel
           \/ \E h \in Handlers : HandlerReturns(h) \/ Complete(h, TRUE) \/ Complete(h, FALSE)
           \/ \E p \in Procs : CloseDone(p) \/ CloseChannel(p) \/ OnceOver(p)
  <2>1. UNCHANGED <<ch, received>> /\ (chClosed => chClosed')
      BY <1>4 DEF StartHandler, DispatchEnds, Cancel, HandlerReturns, Complete, CloseDone, CloseChannel,
                  OnceOver, channel, reader
  <2>2. \A g \in Handlers : pc[g] \in {"finishing", "closing"} =>
                            chClosed' \/ pc'[g] \in {"finishing", "closing"}
    <3>1. CASE StartHandler \/ DispatchEnds \/ Cancel
        BY <3>1 DEF StartHandler, DispatchEnds, Cancel, Goto, ControlInv, ControlTypes
    <3>2. CASE \E h \in Handlers : HandlerReturns(h) \/ Complete(h, TRUE) \/ Complete(h, FALSE)
        BY <3>2 DEF HandlerReturns, Complete, Goto, ControlInv, ControlTypes
    <3>3. CASE \E p \in Procs : CloseDone(p) \/ OnceOver(p)
        BY <3>3 DEF CloseDone, OnceOver, Goto, ControlInv, ControlTypes, OnceHolds
    <3>4. CASE \E p \in Procs : CloseChannel(p)
        BY <3>4 DEF CloseChannel
    <3> QED
        BY <1>4, <3>1, <3>2, <3>3, <3>4
  <2>3. \A i \in 1..Len(Delivered) : Delivered[i].by \in Handlers
      BY DeliveredItems DEF DataInv
  <2>4. Delivered' = Delivered
      BY <2>1 DEF Delivered
  <2> QED
      BY <2>1, <2>2, <2>3, <2>4 DEF ErrorInv, ErrorEnds, ErrorIsLast
<1>5. CASE ReceiveEnd \/ Leave \/ ContextEnds \/ UNCHANGED vars
  <2>1. UNCHANGED <<ch, received, pc, chClosed>>
      BY <1>5 DEF ReceiveEnd, Leave, ContextEnds, vars, channel, reader
  <2> QED
      BY <2>1 DEF ErrorInv, ErrorEnds, ErrorIsLast, Delivered
<1> QED
    BY <1>1, <1>2, <1>3, <1>4, <1>5 DEF Next, Handler, Finish

(* Whichever listeners push from goroutines of their own: an error comes once,   *)
(* behind it nothing of its listener, and nothing at all where neither of two    *)
(* listeners is such a one.                                                      *)
THEOREM ErrorsAreLast == Spec => []ErrorIsLast
<1>1. Init => ErrorInv
    BY DEF Init, ErrorInv, ErrorIsLast, ErrorEnds, Delivered
<1>2. ErrorInv => ErrorIsLast
    BY DEF ErrorInv
<1> QED
    BY <1>1, <1>2, InitControl, InitData, ControlKeeps, DataKeeps, ErrorKeeps, PTL DEF Spec
===============================================================================
